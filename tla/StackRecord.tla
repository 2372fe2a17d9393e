---------------------------- MODULE StackRecord -----------------------------
(***************************************************************************)
(* The record of how close each task came to the end of its stack:         *)
(* StackWatch (src/src/stack_watch.cpp) and its copy in flash, written one *)
(* key at a time (src/src/main.cpp).  A value is the free bytes, in units  *)
(* of half the drop that earns a write.                                    *)
(***************************************************************************)
EXTENDS StackConstants

Unset == Most + 1

VARIABLES build,     \* FW_GIT of the running image
          free,      \* the high-water marks the RTOS reports
          mins, persisted,          \* StackWatch
          everWrote, lockoutArmed, lastWrite,
          flash,     \* swloop, swobd, swinput and swgit; each value with the
                     \* build that measured it
          marks,      \* the tasks whose key saveStackMins() has yet to write
          writing,   \* a save is in progress
          late,      \* history: samples since a drop worth a write showed
          torn       \* history: a cut fell into a save

vars == <<build, free, mins, persisted, everWrote, lockoutArmed, lastWrite,
          flash, marks, writing, late, torn>>

minOf(a, b) == IF a < b THEN a ELSE b

dropped(now, was) ==
  /\ now # Unset
  /\ was = Unset \/ was - now >= Drop

Worth(m, p) == \E t \in Task : dropped(m[t], p[t])

(* loadStackMins() and seed(): the marks of another build do not count.    *)
Loaded(b) ==
  [t \in Task |-> IF flash.git = b /\ flash.val[t].free # 0 THEN flash.val[t].free
                  ELSE Unset]

Start(b) ==
  /\ build' = b
  /\ free' = [t \in Task |-> Most]
  /\ mins' = Loaded(b) /\ persisted' = Loaded(b)
  /\ everWrote' = FALSE /\ lockoutArmed' = FALSE /\ lastWrite' = 0
  /\ marks' = {} /\ writing' = FALSE
  /\ late' = 0

Init ==
  /\ build = CHOOSE b \in Build : TRUE
  /\ free = [t \in Task |-> Most]
  /\ mins = [t \in Task |-> Unset] /\ persisted = mins
  /\ everWrote = FALSE /\ lockoutArmed = FALSE /\ lastWrite = 0
  /\ flash = [git |-> "none", val |-> [t \in Task |-> [free |-> 0, by |-> "none"]]]
  /\ marks = {} /\ writing = FALSE
  /\ late = 0
  /\ torn = FALSE

(* A task reaches deeper into its stack than before.                       *)
Deepen(t) ==
  /\ free[t] > 1
  /\ free' = [free EXCEPT ![t] = @ - 1]
  /\ UNCHANGED <<build, mins, persisted, everWrote, lockoutArmed, lastWrite,
                 flash, marks, writing, late, torn>>

LoweredNow == free
Lowered == [t \in Task |-> minOf(mins[t], free[t])]

LockedOutFromBoot(age) == age < Lockout
LockedOut(age) == lockoutArmed /\ age < Lockout

Capped(n) == IF n < Lockout THEN n ELSE Lockout

(* persistStackMins(), every five seconds: update(), and a save if the low *)
(* is worth one and the lockout is over.                                   *)
Sample ==
  LET age == Capped(lastWrite + 1) IN
  /\ ~writing
  /\ mins' = Lowered
  /\ writing' = (Worth(Lowered, persisted) /\ ~LockedOut(age))
  /\ marks' = IF writing' THEN Task ELSE {}
  /\ lastWrite' = age
  /\ late' = IF Worth(Lowered, persisted) THEN late + 1 ELSE 0
  /\ UNCHANGED <<build, free, persisted, everWrote, lockoutArmed, flash, torn>>

(* otaPersistStackMins(), before a restart: whatever the lockout.          *)
ForceSave ==
  /\ ~writing
  /\ mins' = Lowered
  /\ writing' = TRUE /\ marks' = Task
  /\ UNCHANGED <<build, free, persisted, everWrote, lockoutArmed, lastWrite,
                 flash, late, torn>>

(* saveStackMins(): the marks in the order of their keys, the build last.  *)
WriteMark ==
  /\ marks # {}
  /\ \E t \in marks :
       /\ \A u \in marks : t <= u
       /\ marks' = marks \ {t}
       /\ flash' = IF mins[t] = Unset THEN flash
                   ELSE [flash EXCEPT !.val[t] = [free |-> mins[t], by |-> build]]
  /\ UNCHANGED <<build, free, mins, persisted, everWrote, lockoutArmed,
                 lastWrite, writing, late, torn>>

(* The build, then markPersisted(): the first write does not arm the       *)
(* lockout.                                                                *)
WriteBuild ==
  /\ writing /\ marks = {}
  /\ flash' = [flash EXCEPT !.git = build]
  /\ persisted' = mins
  /\ lockoutArmed' = everWrote
  /\ everWrote' = TRUE
  /\ lastWrite' = 0
  /\ writing' = FALSE
  /\ late' = 0
  /\ UNCHANGED <<build, free, mins, marks, torn>>

(* A restart, a power cut, an update to or a roll-back from another build. *)
Restart(b) ==
  /\ torn' = (torn \/ writing)
  /\ Start(b)
  /\ UNCHANGED flash

Next ==
  \/ \E t \in Task : Deepen(t)
  \/ Sample \/ ForceSave
  \/ WriteMark \/ WriteBuild
  \/ \E b \in Build : Restart(b)

Spec == Init /\ [][Next]_vars

-----------------------------------------------------------------------------
(* Properties *)

(* A new low reaches flash: one that is worth a write waits no more than   *)
(* the samples of one lockout, and the first one after a start not at all  *)
(* (stack_watch.cpp:23).                                                   *)
LowReachesFlash ==
  /\ late <= Lockout
  /\ ~everWrote /\ late > 0 => writing

(* The record never forgets: as long as the same build has been writing,   *)
(* a mark in flash only falls, over restarts and power cuts too.           *)
LowNeverRises ==
  [][\A t \in Task : LET was == flash.val[t]  now == flash'.val[t] IN
       (was.by = now.by /\ flash.git = now.by) => now.free <= was.free]_vars

(* The marks a build starts from are its own: those of an image that ran   *)
(* before it do not count, unless the power was cut in the middle of a     *)
(* save (main.cpp:156).                                                    *)
OwnMarks ==
  ~torn => \A t \in Task : Loaded(build)[t] # Unset => flash.val[t].by = build \/ writing
=============================================================================
