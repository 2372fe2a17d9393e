--------------------------- MODULE StackConstants ---------------------------
(***************************************************************************)
(* The parameters of StackRecord and what is assumed of them.              *)
(***************************************************************************)
EXTENDS Integers

CONSTANTS Task,      \* the keys' indices: loop, obd, input
          Most,      \* the free stack of a task that has not run
          Drop,      \* WRITE_DROP_BYTES
          Lockout,   \* WRITE_MIN_INTERVAL_MS, in sampling periods
          Build      \* the firmware images that may run; "none" is no build

ASSUME StackAssumption ==
  /\ Most \in Nat \ {0}
  /\ Lockout \in Nat \ {0}
  /\ Build # {} /\ "none" \notin Build
=============================================================================
