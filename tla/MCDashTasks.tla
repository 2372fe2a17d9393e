----------------------------- MODULE MCDashTasks -----------------------------
(* Two profiles and two cars, one of them without a profile of its own.    *)
EXTENDS DashTasks

CONSTANTS gm, jeep, sierra, ford

MCTarget == [c \in Car |-> IF c = sierra THEN gm ELSE None]
Stored(key, auto) == [vehkey |-> key, vehauto |-> auto]
MCFlashInit == {Stored(None, TRUE), Stored(Dead, TRUE)}
=============================================================================
