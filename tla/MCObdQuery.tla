----------------------------- MODULE MCObdQuery -----------------------------
(* Two rows asked under two addresses, one of which takes two setup        *)
(* commands (as the Jeep profile) and one a single AT SH (as GM).          *)
EXTENDS ObdQuery

CONSTANTS rpm, gear, engineEcu, gearboxEcu, broadcast

MCRow == {rpm, gear}
MCHdr == {engineEcu, gearboxEcu}
MCHeader == [r \in MCRow |-> IF r = rpm THEN engineEcu ELSE gearboxEcu]
MCCmd == [r \in MCRow |-> r]
MCSetupLen == [h \in MCHdr |-> IF h = engineEcu THEN 1 ELSE 2]
=============================================================================
