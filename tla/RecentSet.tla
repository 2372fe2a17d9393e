----------------------------- MODULE RecentSet -----------------------------
(***************************************************************************)
(* What the session reject list of ble_rank.h promises, without its ring:  *)
(* the last Cap different devices that were recorded, newest first.        *)
(* Recording a device that is already remembered changes nothing, and      *)
(* forgetting empties the memory.                                          *)
(***************************************************************************)
EXTENDS Naturals, Sequences

CONSTANTS Device,   \* the physical peers
          Cap       \* how many of them are remembered

VARIABLE recent     \* the remembered devices, newest first

Remembers(d) == \E i \in 1 .. Len(recent) : recent[i] = d

(* The newest devices that still fit once d is put in front. *)
Pushed(d) ==
  LET n == IF Len(recent) < Cap THEN Len(recent) + 1 ELSE Cap
  IN  [i \in 1 .. n |-> IF i = 1 THEN d ELSE recent[i - 1]]

Init == recent = << >>

Remember(d) == /\ ~ Remembers(d)
               /\ recent' = Pushed(d)

Forget == recent' = << >>

Next == Forget \/ \E d \in Device : Remember(d)

Spec == Init /\ [][Next]_recent
=============================================================================
