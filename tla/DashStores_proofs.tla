------------------------- MODULE DashStores_proofs --------------------------
(***************************************************************************)
(* Proofs about what the dash keeps: for any set of tasks and of firmware  *)
(* images, a mark in flash only falls while one image writes it, and a low *)
(* that is worth a write waits for no more than one lockout; and whatever  *)
(* the card, the power and the clock do, a log only grows, under one       *)
(* header; and for any list of any length, a load of the credentials finds *)
(* what was last saved or a part of it.                                    *)
(***************************************************************************)
EXTENDS DashStores, TLAPS, WellFoundedInduction, SequenceTheorems

NoBuild == Build \cup {"none"}

(* The marks in memory, those still to be written, and those in flash.     *)
TypeOK ==
  /\ build \in Build
  /\ free \in [Task -> 1..Most]
  /\ mins \in [Task -> 1..Unset]
  /\ flash \in [git : NoBuild, val : [Task -> [free : 0..Most, by : NoBuild]]]
  /\ marks \in SUBSET Task
  /\ writing \in BOOLEAN

(* A key that was never written is no build's.                             *)
Written == \A t \in Task : flash.val[t].by # "none" => flash.val[t].free # 0

(* The image that runs knows of nothing higher than what it has in flash.  *)
Known == \A t \in Task :
  (flash.git = build /\ flash.val[t].by = build) => mins[t] <= flash.val[t].free

(* A save in progress has every mark to write, and has written those it is *)
(* past.                                                                   *)
Saved ==
  /\ writing => \A t \in Task : mins[t] <= Most
  /\ writing => \A t \in Task \ marks :
                  flash.val[t] = [free |-> mins[t], by |-> build]
  /\ ~writing => marks = {}

IInv == TypeOK /\ Written /\ Known /\ Saved

-----------------------------------------------------------------------------
(* What update() does to the marks: each is a free stack, none rises.      *)
LEMMA LoweredType ==
  ASSUME TypeOK
  PROVE  /\ Lowered \in [Task -> 1..Unset]
         /\ \A t \in Task : Lowered[t] <= Most /\ Lowered[t] <= mins[t]
<1>1. ASSUME NEW t \in Task
      PROVE  minOf(mins[t], free[t]) \in 1..Most /\ minOf(mins[t], free[t]) <= mins[t]
  <2>1. mins[t] \in 1..Unset /\ free[t] \in 1..Most
    BY DEF TypeOK
  <2> QED
    BY <2>1, StackAssumption DEF minOf, Unset
<1> QED
  BY <1>1, StackAssumption DEF Lowered, Unset

(* What seed() takes from flash.                                           *)
LEMMA LoadedType ==
  ASSUME TypeOK, NEW b \in Build
  PROVE  Loaded(b) \in [Task -> 1..Unset]
<1>1. ASSUME NEW t \in Task
      PROVE  (IF flash.git = b /\ flash.val[t].free # 0 THEN flash.val[t].free
              ELSE Unset) \in 1..Unset
  <2>1. flash.val[t].free \in 0..Most
    BY DEF TypeOK
  <2> QED
    BY <2>1, StackAssumption DEF Unset
<1> QED
  BY <1>1 DEF Loaded

(* An empty flash holds no mark.                                           *)
LEMMA InitIInv == Init => IInv
<1> SUFFICES ASSUME Init PROVE IInv
  OBVIOUS
<1>1. build \in Build
  BY StackAssumption DEF Init
<1>2. flash \in [git : NoBuild, val : [Task -> [free : 0..Most, by : NoBuild]]]
  <2>1. [free |-> 0, by |-> "none"] \in [free : 0..Most, by : NoBuild]
    BY StackAssumption DEF NoBuild
  <2>2. [t \in Task |-> [free |-> 0, by |-> "none"]] \in [Task -> [free : 0..Most, by : NoBuild]]
    BY <2>1
  <2> QED
    BY <2>2 DEF Init, NoBuild
<1>3. free \in [Task -> 1..Most] /\ mins \in [Task -> 1..Unset]
  BY StackAssumption DEF Init, Unset
<1>4. TypeOK
  BY <1>1, <1>2, <1>3 DEF Init, TypeOK
<1>5. Written /\ Saved
  BY DEF Init, Written, Saved
<1>6. Known
  BY <1>1, StackAssumption DEF Init, Known
<1> QED
  BY <1>4, <1>5, <1>6 DEF IInv

-----------------------------------------------------------------------------
(* One lemma per kind of step *)

(* A task goes deeper.                                                     *)
LEMMA DeepenKeeps ==
  ASSUME IInv, NEW t \in Task, Deepen(t)
  PROVE  IInv'
<1>1. free' \in [Task -> 1..Most]
  <2>1. free[t] \in 1..Most
    BY DEF IInv, TypeOK
  <2>2. free[t] - 1 \in 1..Most
    BY <2>1, StackAssumption DEF Deepen
  <2> QED
    BY <2>2 DEF Deepen, IInv, TypeOK
<1> QED
  BY <1>1 DEF Deepen, IInv, TypeOK, Written, Known, Saved

(* The step that samples the stacks, and may begin to save.                *)
LEMMA SampleKeeps ==
  ASSUME IInv, ~writing, mins' = Lowered, writing' \in BOOLEAN,
         marks' = IF writing' THEN Task ELSE {},
         UNCHANGED <<build, free, flash>>
  PROVE  IInv'
<1>1. /\ Lowered \in [Task -> 1..Unset]
      /\ \A t \in Task : Lowered[t] <= Most /\ Lowered[t] <= mins[t]
  BY LoweredType DEF IInv
<1>2. TypeOK'
  BY <1>1 DEF IInv, TypeOK
<1>3. Written'
  BY DEF IInv, Written
<1>4. Known'
  <2> SUFFICES ASSUME NEW t \in Task, flash.git = build, flash.val[t].by = build
               PROVE  Lowered[t] <= flash.val[t].free
    BY DEF Known
  <2>1. mins[t] <= flash.val[t].free
    BY DEF IInv, Known
  <2>2. mins[t] \in Int /\ Lowered[t] \in Int /\ flash.val[t].free \in Int
    BY <1>1, StackAssumption DEF IInv, TypeOK, Unset
  <2> QED
    BY <1>1, <2>1, <2>2
<1>5. Saved'
  BY <1>1 DEF Saved
<1> QED
  BY <1>2, <1>3, <1>4, <1>5 DEF IInv

(* A mark is written.                                                      *)
LEMMA WriteMarkKeeps ==
  ASSUME IInv, WriteMark
  PROVE  IInv'
<1>1. writing
  BY DEF WriteMark, IInv, Saved
<1>2. PICK t \in marks :
        /\ marks' = marks \ {t}
        /\ flash' = IF mins[t] = Unset THEN flash
                    ELSE [flash EXCEPT !.val[t] = [free |-> mins[t], by |-> build]]
  BY DEF WriteMark
<1>3. t \in Task /\ mins[t] \in 1..Most
  BY <1>1, <1>2, StackAssumption DEF IInv, TypeOK, Saved, Unset
<1>4. flash' = [flash EXCEPT !.val[t] = [free |-> mins[t], by |-> build]]
  BY <1>2, <1>3, StackAssumption DEF Unset
<1>5. UNCHANGED <<build, free, mins, writing>>
  BY DEF WriteMark
<1>6. [free |-> mins[t], by |-> build] \in [free : 0..Most, by : NoBuild]
  BY <1>3 DEF IInv, TypeOK, NoBuild
<1>7. /\ flash'.git = flash.git
      /\ flash'.val = [flash.val EXCEPT ![t] = [free |-> mins[t], by |-> build]]
  BY <1>4 DEF IInv, TypeOK
<1>8. flash' \in [git : NoBuild, val : [Task -> [free : 0..Most, by : NoBuild]]]
  <2>1. [flash.val EXCEPT ![t] = [free |-> mins[t], by |-> build]]
          \in [Task -> [free : 0..Most, by : NoBuild]]
    BY <1>6 DEF IInv, TypeOK
  <2> QED
    BY <1>4, <2>1 DEF IInv, TypeOK
<1>9. ASSUME NEW u \in Task
      PROVE  flash'.val[u] = IF u = t THEN [free |-> mins[t], by |-> build]
                             ELSE flash.val[u]
  BY <1>7 DEF IInv, TypeOK
<1>10. TypeOK'
  BY <1>2, <1>5, <1>8 DEF IInv, TypeOK
<1>11. Written'
  BY <1>3, <1>9 DEF IInv, Written
<1>12. Known'
  <2> SUFFICES ASSUME NEW u \in Task, flash.git = build, flash'.val[u].by = build
               PROVE  mins[u] <= flash'.val[u].free
    BY <1>5, <1>7 DEF Known
  <2>1. CASE u = t
    BY <1>3, <1>9, <2>1
  <2>2. CASE u # t
    BY <1>9, <2>2 DEF IInv, Known
  <2> QED
    BY <2>1, <2>2
<1>13. Saved'
  BY <1>1, <1>2, <1>5, <1>9 DEF IInv, Saved
<1> QED
  BY <1>10, <1>11, <1>12, <1>13 DEF IInv

(* The build is written, and the save is over.                             *)
LEMMA WriteBuildKeeps ==
  ASSUME IInv, WriteBuild
  PROVE  IInv'
<1>1. /\ flash' = [flash EXCEPT !.git = build]
      /\ writing /\ marks = {} /\ ~writing'
      /\ UNCHANGED <<build, free, mins, marks>>
  BY DEF WriteBuild
<1>2. flash'.val = flash.val
  BY <1>1 DEF IInv, TypeOK
<1>3. flash' \in [git : NoBuild, val : [Task -> [free : 0..Most, by : NoBuild]]]
  BY <1>1 DEF IInv, TypeOK, NoBuild
<1>4. TypeOK'
  BY <1>1, <1>3 DEF IInv, TypeOK, WriteBuild
<1>5. Written' /\ Saved'
  BY <1>1, <1>2 DEF IInv, Written, Saved
<1>6. Known'
  <2> SUFFICES ASSUME NEW t \in Task PROVE mins[t] <= flash.val[t].free
    BY <1>1, <1>2 DEF Known
  <2>1. flash.val[t] = [free |-> mins[t], by |-> build]
    BY <1>1 DEF IInv, Saved
  <2>2. mins[t] \in Int
    BY StackAssumption DEF IInv, TypeOK, Unset
  <2> QED
    BY <2>1, <2>2
<1> QED
  BY <1>4, <1>5, <1>6 DEF IInv

(* Where the record is built: what a start takes for its lows is what is   *)
(* in flash, or nothing.                                                   *)
LEMMA RestartKeeps ==
  ASSUME IInv, NEW b \in Build, Restart(b)
  PROVE  IInv'
<1>1. /\ build' = b /\ mins' = Loaded(b) /\ flash' = flash
      /\ free' = [t \in Task |-> Most] /\ marks' = {} /\ writing' = FALSE
  BY DEF Restart, Start
<1>2. Loaded(b) \in [Task -> 1..Unset]
  BY LoadedType DEF IInv
<1>3. free' \in [Task -> 1..Most]
  BY <1>1, StackAssumption
<1>4. TypeOK'
  BY <1>1, <1>2, <1>3 DEF IInv, TypeOK
<1>5. Written' /\ Saved'
  BY <1>1 DEF IInv, Written, Saved
<1>6. Known'
  <2> SUFFICES ASSUME NEW t \in Task, flash.git = b, flash.val[t].by = b
               PROVE  Loaded(b)[t] <= flash.val[t].free
    BY <1>1 DEF Known
  <2>1. flash.val[t].free # 0
    BY StackAssumption DEF IInv, Written
  <2>2. Loaded(b)[t] = flash.val[t].free
    BY <2>1 DEF Loaded
  <2>3. flash.val[t].free \in Int
    BY DEF IInv, TypeOK
  <2> QED
    BY <2>2, <2>3
<1> QED
  BY <1>4, <1>5, <1>6 DEF IInv

(* Every step keeps the marks and flash together.                          *)
LEMMA NextIInv == IInv /\ [Next]_vars => IInv'
<1> SUFFICES ASSUME IInv, [Next]_vars PROVE IInv'
  OBVIOUS
<1>1. ASSUME NEW t \in Task, Deepen(t) PROVE IInv'
  BY <1>1, DeepenKeeps
<1>2. CASE Sample
  <2>1. ~writing /\ mins' = Lowered /\ UNCHANGED <<build, free, flash>>
    BY <1>2 DEF Sample
  <2>2. writing' \in BOOLEAN /\ marks' = IF writing' THEN Task ELSE {}
    BY <1>2, Zenon DEF Sample
  <2> QED
    BY <2>1, <2>2, SampleKeeps
<1>3. CASE ForceSave
  BY <1>3, SampleKeeps DEF ForceSave
<1>4. CASE WriteMark
  BY <1>4, WriteMarkKeeps
<1>5. CASE WriteBuild
  BY <1>5, WriteBuildKeeps
<1>6. ASSUME NEW b \in Build, Restart(b) PROVE IInv'
  BY <1>6, RestartKeeps
<1>7. CASE UNCHANGED vars
  BY <1>7 DEF vars, IInv, TypeOK, Written, Known, Saved
<1> QED
  BY <1>1, <1>2, <1>3, <1>4, <1>5, <1>6, <1>7 DEF Next

(* The marks in memory and in flash keep together, for ever.               *)
THEOREM InvariantHolds == Spec => []IInv
  BY InitIInv, NextIInv, PTL DEF Spec

-----------------------------------------------------------------------------
(* A mark in flash only falls as long as the same image has been writing   *)
(* it, through restarts, power cuts in the middle of a save, updates and   *)
(* roll-backs (saveStackMins(), loadStackMins(), stack_watch.cpp:23).      *)
LEMMA StepLowers ==
  ASSUME IInv, [Next]_vars,
         NEW t \in Task, flash.val[t].by = flash'.val[t].by, flash.git = flash'.val[t].by
  PROVE  flash'.val[t].free <= flash.val[t].free
<1>0. flash.val[t].free \in Int
  BY DEF IInv, TypeOK
<1>1. CASE flash'.val = flash.val
  BY <1>0, <1>1
<1>2. CASE WriteMark
  <2>1. PICK u \in marks :
          flash' = IF mins[u] = Unset THEN flash
                   ELSE [flash EXCEPT !.val[u] = [free |-> mins[u], by |-> build]]
    BY <1>2 DEF WriteMark
  <2>2. CASE flash' = flash
    BY <1>1, <2>2
  <2>3. CASE flash' = [flash EXCEPT !.val[u] = [free |-> mins[u], by |-> build]]
    <3>1. flash'.val = [flash.val EXCEPT ![u] = [free |-> mins[u], by |-> build]]
      BY <2>3 DEF IInv, TypeOK
    <3>2. CASE t = u
      <4>1. flash'.val[t] = [free |-> mins[t], by |-> build]
        BY <3>1, <3>2 DEF IInv, TypeOK
      <4> QED
        BY <4>1 DEF IInv, Known
    <3>3. CASE t # u
      <4>1. flash'.val[t] = flash.val[t]
        BY <3>1, <3>3 DEF IInv, TypeOK
      <4> QED
        BY <1>0, <4>1
    <3> QED
      BY <3>2, <3>3
  <2> QED
    BY <2>1, <2>2, <2>3
<1>3. CASE WriteBuild
  <2>1. flash'.val = flash.val
    BY <1>3 DEF WriteBuild, IInv, TypeOK
  <2> QED
    BY <1>1, <2>1
<1>4. CASE flash' = flash
  BY <1>1, <1>4
<1>5. \/ WriteMark \/ WriteBuild \/ flash' = flash
  BY DEF Next, Deepen, Sample, ForceSave, Restart, vars
<1> QED
  BY <1>2, <1>3, <1>4, <1>5

(* A mark in flash only falls while one image writes it.                   *)
THEOREM LowsOnlyFall == Spec => LowNeverRises
<1>1. IInv /\ [Next]_vars =>
        [\A t \in Task : LET was == flash.val[t]  now == flash'.val[t] IN
          (was.by = now.by /\ flash.git = now.by) => now.free <= was.free]_vars
  BY StepLowers
<1> QED
  BY <1>1, InvariantHolds, PTL DEF Spec, LowNeverRises

-----------------------------------------------------------------------------
(* How long a low waits: samples of a lockout, counted with its age.       *)
Booleans ==
  /\ writing \in BOOLEAN /\ everWrote \in BOOLEAN /\ lockoutArmed \in BOOLEAN
  /\ lockoutArmed => everWrote

Waits ==
  /\ Booleans
  /\ late \in Nat /\ lastWrite \in 0..Lockout
  /\ late <= Lockout
  /\ ~writing /\ late > 0 => late <= lastWrite /\ lastWrite < Lockout /\ lockoutArmed

(* A sample counts a wait only within a lockout.                           *)
LEMMA SampleWaits ==
  ASSUME Waits, Sample
  PROVE  Waits'
<1> DEFINE age == Capped(lastWrite + 1)
<1>1. age \in 0..Lockout /\ (lastWrite < Lockout => age = lastWrite + 1)
  BY StackAssumption DEF Waits, Capped
<1>2. ~writing /\ lastWrite' = age
  BY DEF Sample
<1>3. Booleans'
  BY Zenon DEF Sample, Waits, Booleans
<1>4. CASE Worth(Lowered, persisted)
  <2>1. late' = late + 1
    BY <1>4 DEF Sample
  <2>2. ~writing' => lockoutArmed' /\ age < Lockout
    BY <1>4 DEF Sample, LockedOut
  <2>3. late' \in Nat /\ late' <= Lockout
    BY <1>2, <2>1, StackAssumption DEF Waits
  <2>4. ASSUME ~writing' PROVE late' <= age
    <3>1. lastWrite < Lockout => age = lastWrite + 1
      BY <1>1
    <3>2. late \in Nat /\ lastWrite \in Nat
      BY StackAssumption DEF Waits
    <3>3. CASE late = 0
      <4>1. age # 0
        BY StackAssumption, <3>2 DEF Capped
      <4> QED
        BY <1>1, <2>1, <3>3, <4>1
    <3>4. CASE late > 0
      <4>1. late <= lastWrite /\ lastWrite < Lockout
        BY <1>2, <3>4 DEF Waits
      <4> HIDE DEF age
      <4> QED
        BY <2>1, <3>1, <3>2, <4>1
    <3> QED
      BY <3>2, <3>3, <3>4
  <2> HIDE DEF age
  <2> QED
    BY <1>1, <1>2, <1>3, <2>2, <2>3, <2>4 DEF Waits
<1>5. CASE ~Worth(Lowered, persisted)
  <2>1. late' = 0
    BY <1>5 DEF Sample
  <2> QED
    BY <1>1, <1>2, <1>3, <2>1, StackAssumption DEF Waits
<1> QED
  BY <1>4, <1>5

(* Every step keeps the count of the wait.                                 *)
LEMMA NextWaits == Waits /\ [Next]_vars => Waits'
<1> SUFFICES ASSUME Waits, [Next]_vars PROVE Waits'
  OBVIOUS
<1>1. ASSUME NEW t \in Task, Deepen(t) PROVE Waits'
  BY <1>1 DEF Deepen, Waits, Booleans
<1>2. CASE Sample
  BY <1>2, SampleWaits
<1>3. CASE ForceSave
  BY <1>3 DEF ForceSave, Waits, Booleans
<1>4. CASE WriteMark
  BY <1>4 DEF WriteMark, Waits, Booleans
<1>5. CASE WriteBuild
  <2>1. Booleans'
    BY <1>5, Zenon DEF WriteBuild, Waits, Booleans
  <2>2. lastWrite' = 0 /\ late' = 0 /\ writing' = FALSE
    BY <1>5 DEF WriteBuild
  <2>3. 0 \in 0..Lockout
    BY StackAssumption
  <2> QED
    BY <2>1, <2>2, <2>3 DEF Waits
<1>6. ASSUME NEW b \in Build, Restart(b) PROVE Waits'
  <2>1. Booleans'
    BY <1>6, Zenon DEF Restart, Start, Booleans
  <2>2. lastWrite' = 0 /\ late' = 0
    BY <1>6 DEF Restart, Start
  <2> QED
    BY <2>1, <2>2, StackAssumption DEF Waits
<1>7. CASE UNCHANGED vars
  BY <1>7 DEF vars, Waits, Booleans
<1> QED
  BY <1>1, <1>2, <1>3, <1>4, <1>5, <1>6, <1>7 DEF Next

(* A low worth a write is saved within one lockout, and the first one of a *)
(* start at once (StackWatch::update(), stack_watch.cpp:23).               *)
THEOREM LowsReachFlash == Spec => []LowReachesFlash
<1>1. ASSUME Init PROVE Waits
  <2>1. Booleans
    BY <1>1, Zenon DEF Init, Booleans
  <2>2. lastWrite = 0 /\ late = 0
    BY <1>1 DEF Init
  <2> QED
    BY <2>1, <2>2, StackAssumption DEF Waits
<1>2. Waits => LowReachesFlash
  BY DEF Waits, Booleans, LowReachesFlash
<1> QED
  BY <1>1, <1>2, NextWaits, PTL DEF Spec

-----------------------------------------------------------------------------
(* Between two saves every mark in flash was measured by the build whose   *)
(* name is there, unless the power was cut in the middle of one.           *)
OneBuild == ~torn /\ ~writing =>
  \A t \in Task : flash.val[t].free # 0 => flash.val[t].by = flash.git

(* Every step keeps the marks one build's, but a cut.                      *)
LEMMA NextOneBuild == IInv /\ OneBuild /\ [Next]_vars => OneBuild'
<1> SUFFICES ASSUME IInv, OneBuild, [Next]_vars PROVE OneBuild'
  OBVIOUS
<1>1. ASSUME NEW t \in Task, Deepen(t) PROVE OneBuild'
  BY <1>1 DEF Deepen, OneBuild
<1>2. CASE Sample
  BY <1>2 DEF Sample, OneBuild
<1>3. CASE ForceSave
  BY <1>3 DEF ForceSave, OneBuild
<1>4. CASE WriteMark
  BY <1>4 DEF WriteMark, OneBuild, IInv, Saved
<1>5. CASE WriteBuild
  <2>1. /\ flash'.git = build /\ flash'.val = flash.val
        /\ writing /\ marks = {}
    BY <1>5 DEF WriteBuild, IInv, TypeOK
  <2>2. ASSUME NEW t \in Task PROVE flash.val[t].by = build
    <3>1. flash.val[t] = [free |-> mins[t], by |-> build]
      BY <2>1 DEF IInv, Saved
    <3> QED
      BY <3>1
  <2> QED
    BY <2>1, <2>2 DEF OneBuild
<1>6. ASSUME NEW b \in Build, Restart(b) PROVE OneBuild'
  <2>1. flash' = flash /\ (torn' <=> torn \/ writing)
    BY <1>6, Zenon DEF Restart
  <2> QED
    BY <2>1 DEF OneBuild
<1>7. CASE UNCHANGED vars
  BY <1>7 DEF vars, OneBuild
<1> QED
  BY <1>1, <1>2, <1>3, <1>4, <1>5, <1>6, <1>7 DEF Next

(* The marks a build starts from are its own, those of an image that ran   *)
(* before it do not count (loadStackMins(), main.cpp:156), as long as no   *)
(* power cut fell into a save.                                             *)
THEOREM MarksAreOwn == Spec => []OwnMarks
<1>1. Init => OneBuild
  BY DEF Init, OneBuild
<1>2. OneBuild => OwnMarks
  <2> SUFFICES ASSUME OneBuild, ~torn, ~writing,
                      NEW t \in Task, Loaded(build)[t] # Unset
               PROVE  flash.val[t].by = build
    BY DEF OwnMarks
  <2>1. flash.git = build /\ flash.val[t].free # 0
    BY DEF Loaded
  <2> QED
    BY <2>1 DEF OneBuild
<1> QED
  BY <1>1, <1>2, InvariantHolds, NextOneBuild, PTL DEF Spec
-----------------------------------------------------------------------------
(* The four stores share nothing: a step of one is a step or a stutter of  *)
(* each, so that what is proved of one holds beside the others.            *)
LEMMA OneStoreSteps ==
  ASSUME [StoresNext]_<<store, wifi, vars, csv, ringVars>>
  PROVE  /\ [Wifi!Next]_(Wifi!vars)
         /\ [Next]_vars
         /\ [Csv!Next]_(Csv!vars)
         /\ [RingNext]_ringVars
<1>1. CASE UNCHANGED <<store, wifi, vars, csv, ringVars>>
  BY <1>1 DEF wifi, csv, Wifi!vars, Csv!vars
<1>2. CASE StoresNext
  <2>1. CASE Wifi!Next /\ UNCHANGED <<vars, csv, ringVars>>
    BY <2>1 DEF csv, Csv!vars
  <2>2. CASE Next /\ UNCHANGED <<wifi, csv, ringVars>>
    BY <2>2 DEF wifi, csv, Wifi!vars, Csv!vars
  <2>3. CASE Csv!Next /\ UNCHANGED <<wifi, vars, ringVars>>
    BY <2>3 DEF wifi, Wifi!vars
  <2>4. CASE RingNext /\ UNCHANGED <<wifi, vars, csv>>
    BY <2>4 DEF wifi, csv, Wifi!vars, Csv!vars
  <2> QED
    BY <1>2, <2>1, <2>2, <2>3, <2>4 DEF StoresNext
<1> QED
  BY <1>1, <1>2

(* The stores side by side do what each of them does alone.                *)
THEOREM StoresAreTheirParts ==
  StoresSpec => /\ Wifi!Init /\ [][Wifi!Next]_(Wifi!vars)
                /\ Spec
                /\ Csv!Init /\ [][Csv!Next]_(Csv!vars)
                /\ RingSpec
<1>1. StoresInit => Wifi!Init /\ Init /\ Csv!Init /\ RingInit
  BY DEF StoresInit
<1> QED
  BY <1>1, OneStoreSteps, PTL DEF StoresSpec, Spec, RingSpec

-----------------------------------------------------------------------------
(* The log.  While no header stands in the file none has been written to   *)
(* it whole, and no row; and a file that is open has its header.           *)
LogInv ==
  /\ file = [header |-> file.header, rows |-> file.rows]
  /\ log = [status |-> log.status, open |-> log.open, lastRow |-> log.lastRow]
  /\ file.rows \in 0 .. MaxRows
  /\ heads \in {0, 1}
  /\ file.header = "none" => heads = 0 /\ file.rows = 0
  /\ log.open => file.header # "none"
(* What logTick() knows of the file once it has opened it, or tried to: a  *)
(* header that is in it stays, and none is taken for one that is not.      *)
LEMMA Opened ==
  ASSUME LogInv, NEW o \in Csv!openFile
  PROVE  /\ o = [log |-> o.log, file |-> o.file]
         /\ o.log = [status |-> o.log.status, open |-> o.log.open, lastRow |-> o.log.lastRow]
         /\ o.file = [header |-> o.file.header, rows |-> file.rows]
         /\ o.file.header # file.header => file.header = "none"
         /\ o.log.open => o.file.header # "none"
<1>1. CASE o = [log |-> log, file |-> file]
  BY <1>1 DEF LogInv
<1>2. CASE o = Csv!Err(file)
  BY <1>2 DEF Csv!Err, LogInv
<1>3. CASE o = Csv!On(file) /\ file.header # "none"
  BY <1>3 DEF Csv!On, LogInv
<1>4. CASE file.header = "none" /\ o = Csv!On([file EXCEPT !.header = "whole"])
  BY <1>4 DEF Csv!On, LogInv
<1>5. CASE file.header = "none" /\ \E h : o = Csv!Err([file EXCEPT !.header = h])
  BY <1>5 DEF Csv!Err, LogInv
<1> QED
  BY <1>1, <1>2, <1>3, <1>4, <1>5 DEF Csv!openFile

(* A row, if one is due: in the file if the card takes it, at the most.    *)
LEMMA RowWritten ==
  ASSUME LogInv, NEW o \in Csv!openFile
  PROVE  LET w == Csv!writeRow(o) IN
         /\ w.log = [status |-> w.log.status, open |-> w.log.open, lastRow |-> w.log.lastRow]
         /\ w.file = [header |-> o.file.header, rows |-> w.file.rows]
         /\ w.file.rows \in 0 .. MaxRows /\ w.file.rows >= file.rows
         /\ w.file.rows # file.rows => o.log.open
         /\ w.log.open => o.log.open
<1>1. /\ o = [log |-> o.log, file |-> o.file]
      /\ o.log = [status |-> o.log.status, open |-> o.log.open, lastRow |-> o.log.lastRow]
      /\ o.file = [header |-> o.file.header, rows |-> file.rows]
      /\ file.rows \in 0 .. MaxRows /\ MaxRows \in Nat
  BY Opened, StoresAssumption DEF LogInv
<1>2. CASE Csv!writeRow(o) = o
  BY <1>1, <1>2
<1>3. CASE o.log.open /\ Csv!writeRow(o) =
             [log  |-> [o.log EXCEPT !.lastRow = 0],
              file |-> [o.file EXCEPT !.rows = IF @ < MaxRows THEN @ + 1 ELSE @]]
  <2> DEFINE n == IF file.rows < MaxRows THEN file.rows + 1 ELSE file.rows
  <2>1. n \in 0 .. MaxRows /\ n >= file.rows
    BY <1>1
  <2>2. [o.file EXCEPT !.rows = IF @ < MaxRows THEN @ + 1 ELSE @]
          = [header |-> o.file.header, rows |-> n]
    BY <1>1
  <2>3. [o.log EXCEPT !.lastRow = 0]
          = [status |-> o.log.status, open |-> o.log.open, lastRow |-> 0]
    BY <1>1
  <2> HIDE DEF n
  <2> QED
    BY <1>3, <2>1, <2>2, <2>3
<1>4. CASE Csv!writeRow(o) =
             [o EXCEPT !.log = [status |-> "Err", open |-> FALSE, lastRow |-> 0]]
  <2>1. Csv!writeRow(o) =
          [log |-> [status |-> "Err", open |-> FALSE, lastRow |-> 0], file |-> o.file]
    BY <1>1, <1>4
  <2> QED
    BY <1>1, <2>1
<1> QED
  BY <1>2, <1>3, <1>4 DEF Csv!writeRow

(* The fields of the log's record set anew.                                *)
LogIs(st, op, lr) == [status |-> st, open |-> op, lastRow |-> lr]
RowAt(r, lr)   == [r EXCEPT !.lastRow = lr]
ShutAs(r, op, st) == [r EXCEPT !.open = op, !.status = st]

(* They are what the record built with those fields is.                   *)
LEMMA FieldsSet ==
  ASSUME NEW st, NEW op, NEW lr, NEW x, NEW y
  PROVE  /\ RowAt(LogIs(st, op, lr), x) = LogIs(st, op, x)
         /\ ShutAs(LogIs(st, op, lr), x, y) = LogIs(y, x, lr)
<1> DEFINE opened == [LogIs(st, op, lr) EXCEPT !.open = x]
<1>1. [LogIs(st, op, lr) EXCEPT !.lastRow = x] = LogIs(st, op, x)
  BY DEF LogIs
<1>2. opened = LogIs(st, x, lr)
  BY DEF LogIs
<1>3. [opened EXCEPT !.status = y] = [LogIs(st, op, lr) EXCEPT !.open = x, !.status = y]
  BY DEF LogIs
<1>4. [LogIs(st, x, lr) EXCEPT !.status = y] = LogIs(y, x, lr)
  BY DEF LogIs
<1> HIDE DEF opened
<1>5. ShutAs(LogIs(st, op, lr), x, y) = [LogIs(st, op, lr) EXCEPT !.open = x, !.status = y]
  BY DEF ShutAs
<1>6. RowAt(LogIs(st, op, lr), x) = [LogIs(st, op, lr) EXCEPT !.lastRow = x]
  BY DEF RowAt
<1> QED
  BY <1>1, <1>2, <1>3, <1>4, <1>5, <1>6

(* Every step of the log, the card, the menu and the power keeps what is   *)
(* in the file.                                                            *)
LEMMA LogStep ==
  ASSUME LogInv, [Csv!Next]_(Csv!vars)
  PROVE  LogInv' /\ file'.rows >= file.rows
<1>0. file.rows \in Nat /\ file.rows >= file.rows
  BY StoresAssumption DEF LogInv
<1>1. ASSUME NEW c
      PROVE  \E st : /\ Csv!Mounted(c) = LogIs(st, FALSE, 1)
                    /\ [Csv!Mounted(c) EXCEPT !.lastRow = log.lastRow]
                         = LogIs(st, FALSE, log.lastRow)
  <2> DEFINE no == FALSE
  <2>1. PICK st : Csv!Mounted(c) = LogIs(st, no, 1)
    BY DEF Csv!Mounted, LogIs
  <2> HIDE DEF no
  <2>2. RowAt(LogIs(st, no, 1), log.lastRow) = LogIs(st, no, log.lastRow)
    BY FieldsSet
  <2>3. RowAt(Csv!Mounted(c), log.lastRow) = LogIs(st, no, log.lastRow)
    BY <2>1, <2>2
  <2> QED
    BY <2>1, <2>3 DEF RowAt, no
<1>2. CASE /\ UNCHANGED <<file, heads>>
           /\ \E st, lr : log' \in {LogIs(st, FALSE, lr), LogIs(st, log.open, lr)}
  BY <1>0, <1>2 DEF LogInv, LogIs
<1>3. CASE Csv!Log
  <2>1. PICK o \in Csv!openFile :
          /\ log' = Csv!writeRow(o).log
          /\ file' = Csv!writeRow(o).file
          /\ heads' = IF file.header = "none" /\ o.file.header = "whole"
                      THEN heads + 1 ELSE heads
    BY <1>3 DEF Csv!Log
  <2>2. /\ log' = [status |-> log'.status, open |-> log'.open, lastRow |-> log'.lastRow]
        /\ file' = [header |-> o.file.header, rows |-> file'.rows]
        /\ file'.rows \in 0 .. MaxRows /\ file'.rows >= file.rows
        /\ file'.rows # file.rows => o.log.open
        /\ log'.open => o.log.open
    BY <2>1, RowWritten
  <2>3. /\ file'.header = o.file.header
        /\ o.file.header # file.header => file.header = "none"
        /\ o.log.open => o.file.header # "none"
    <3>1. file'.header = o.file.header
      BY <2>2
    <3> QED
      BY <3>1, Opened
  <2>4. heads' \in {0, 1} /\ (file'.header = "none" => heads' = 0)
    BY <2>1, <2>3 DEF LogInv
  <2>5. file'.header = "none" => file'.rows = 0
    BY <2>2, <2>3 DEF LogInv
  <2> QED
    BY <2>2, <2>3, <2>4, <2>5 DEF LogInv
<1>4. CASE Csv!Remount
  BY <1>1, <1>2, <1>4 DEF Csv!Remount, Csv!Mount
<1>5. CASE Csv!StayOff
  <2>1. PICK st, op, lr : log = LogIs(st, op, lr)
    BY DEF LogInv, LogIs
  <2> DEFINE no == FALSE
  <2> HIDE DEF no
  <2>2. ShutAs(LogIs(st, op, lr), no, "Off") = LogIs("Off", no, lr)
    BY FieldsSet
  <2>3. log' = LogIs("Off", FALSE, lr) /\ UNCHANGED <<file, heads>>
    BY <1>5, <2>1, <2>2 DEF Csv!StayOff, ShutAs, no
  <2> QED
    BY <1>2, <2>3
<1>6. CASE Csv!Tick
  <2>1. PICK st, op, lr : log = LogIs(st, op, lr)
    BY DEF LogInv, LogIs
  <2>2. RowAt(LogIs(st, op, lr), 1) = LogIs(st, op, 1)
    BY FieldsSet
  <2>3. log.open = op /\ log' = LogIs(st, op, 1) /\ UNCHANGED <<file, heads>>
    <3>1. LogIs(st, op, lr).open = op
      BY DEF LogIs
    <3> QED
      BY <1>6, <2>1, <2>2, <3>1 DEF Csv!Tick, RowAt
  <2> QED
    BY <1>2, <2>3
<1>7. CASE Csv!PowerCut
  BY <1>1, <1>2, <1>7 DEF Csv!PowerCut
<1>8. CASE UNCHANGED <<log, file, heads>>
  BY <1>0, <1>8 DEF LogInv
<1> QED
  BY <1>3, <1>4, <1>5, <1>6, <1>7, <1>8
     DEF Csv!Next, Csv!LogTick, Csv!Card, Csv!LinkChange, Csv!ToggleLogging, Csv!ClockRead, Csv!vars

(* Nothing that reached the card is lost to a later opening: the rows of a *)
(* file only grow, over remounts, restarts and a name used again, and its  *)
(* header stands once, before every row (sd_log.cpp:84).                   *)
THEOREM LogKeptHolds == StoresSpec => LogKept
<1>1. Csv!Init => LogInv
  <2> SUFFICES ASSUME Csv!Init PROVE LogInv
    OBVIOUS
  <2>1. /\ file = [header |-> "none", rows |-> 0] /\ heads = 0
        /\ \E status : log = [status |-> status, open |-> FALSE, lastRow |-> 1]
    BY DEF Csv!Init, Csv!Mounted
  <2> QED
    BY <2>1, StoresAssumption DEF LogInv
<1>2. LogInv => heads <= 1 /\ (file.rows > 0 => file.header # "none")
  BY DEF LogInv
<1>3. LogInv /\ [Csv!Next]_(Csv!vars) => [file'.rows >= file.rows]_(Csv!vars)
  BY LogStep
<1>4. LogInv /\ [Csv!Next]_(Csv!vars) => LogInv'
  BY LogStep
<1> QED
  BY <1>1, <1>2, <1>3, <1>4, StoresAreTheirParts, PTL DEF LogKept, Csv!LogKept

-----------------------------------------------------------------------------
(* A set that holds zero and, with a number, the next one holds every      *)
(* number: each number that is missing has a smaller one that is missing.  *)
LEMMA Counting ==
  ASSUME NEW S, 0 \in S, \A n \in Nat : n \in S => n + 1 \in S
  PROVE  Nat \subseteq S
<1> DEFINE T == Nat \ S
           Less == {xy \in Nat \X Nat : xy[1] < xy[2]}
<1>1. SUFFICES ASSUME T # {} PROVE FALSE
  OBVIOUS
<1>2. IsWellFoundedOn(Less, Nat)
  BY NatLessThanWellFounded DEF OpToRel
<1>3. PICK x \in T : \A y \in T : ~(<<y, x>> \in Less)
  <2> HIDE DEF Less
  <2> QED
    BY <1>1, <1>2, WFMin
<1>4. x \in Nat /\ x # 0 /\ x - 1 \in Nat
  OBVIOUS
<1>5. <<x - 1, x>> \in Less
  BY <1>4
<1>6. x - 1 \in S
  BY <1>3, <1>4, <1>5
<1> QED
  BY <1>4, <1>6

(* One step of credLoad()'s loop, over the lists g of the steps before it. *)
LoadStep(k, g, i) ==
  IF i = 0 THEN << >>
  ELSE IF i > k.n THEN g[i - 1]
  ELSE Wifi!credAdd(g[i - 1], k.s[i], k.p[i])

(* credLoad()'s loop does what its steps say: for every count there is a   *)
(* function that unfolds into them.                                        *)
LEMMA LoadRecurs ==
  ASSUME NEW k, Max \in Nat
  PROVE  \E g : Wifi!credLoad(k) = g[Max] /\ g = [i \in 0 .. Max |-> LoadStep(k, g, i)]
<1> DEFINE Ok(n) == \E g : g = [i \in 0 .. n |-> LoadStep(k, g, i)]
           S == {n \in Nat : Ok(n)}
<1>1. 0 \in S
  <2> DEFINE g == [i \in 0 .. 0 |-> << >>]
  <2>1. g = [i \in 0 .. 0 |-> LoadStep(k, g, i)]
    BY DEF LoadStep
  <2> HIDE DEF g
  <2> QED
    BY <2>1
<1>2. ASSUME NEW n \in Nat, n \in S PROVE n + 1 \in S
  <2>1. PICK g : g = [i \in 0 .. n |-> LoadStep(k, g, i)]
    BY <1>2
  <2> DEFINE h == [i \in 0 .. n + 1 |-> IF i <= n THEN g[i] ELSE LoadStep(k, g, i)]
  <2>2. \A i \in 0 .. n + 1 : LoadStep(k, h, i) = LoadStep(k, g, i)
    <3> TAKE i \in 0 .. n + 1
    <3>1. i # 0 => h[i - 1] = g[i - 1]
      OBVIOUS
    <3> QED
      BY <3>1 DEF LoadStep
  <2>3. \A i \in 0 .. n + 1 : h[i] = LoadStep(k, g, i)
    <3> TAKE i \in 0 .. n + 1
    <3>1. i <= n => g[i] = LoadStep(k, g, i)
      BY <2>1
    <3> QED
      BY <3>1
  <2>4. DOMAIN h = 0 .. n + 1 /\ h = [i \in 0 .. n + 1 |-> h[i]]
    OBVIOUS
  <2> HIDE DEF h
  <2>5. h = [i \in 0 .. n + 1 |-> LoadStep(k, h, i)]
    BY <2>2, <2>3, <2>4
  <2> QED
    BY <2>5
<1>3. Max \in S
  BY <1>1, <1>2, Counting
<1>4. \E g : g = [i \in 0 .. Max |-> LoadStep(k, g, i)]
  BY <1>3
<1> QED
  BY <1>4 DEF Wifi!credLoad, LoadStep

(* A network that can be on the list: it has an SSID, and its password can *)
(* be lost.                                                                *)
Network == [ssid : Ssid \ {Blank}, pass : Pass \cup {Blank}]

(* What the list always is: no longer than WIFI_CRED_MAX, with no SSID     *)
(* twice.                                                                  *)
Clean(l) ==
  /\ l \in Seq(Network) /\ Len(l) <= Max
  /\ \A i, j \in 1 .. Len(l) : l[i].ssid = l[j].ssid => i = j

(* The keys of a save of l that has come as far as the SSID of network a   *)
(* and the password of network b.                                          *)
Names(l, a)  == [i \in 1 .. Max |-> IF i <= a THEN l[i].ssid ELSE Blank]
Passes(l, b) == [i \in 1 .. Max |-> IF i <= b THEN l[i].pass ELSE Blank]

KeysOf(l, n, a, b) == [n |-> n, s |-> Names(l, a), p |-> Passes(l, b)]

(* What a load finds then.                                                 *)
Found(l, a, b) ==
  [i \in 1 .. a |-> Wifi!Entry(l[i].ssid, IF i <= b THEN l[i].pass ELSE Blank)]

(* It is a list like any other, with the SSIDs of l.                       *)
LEMMA FoundIsClean ==
  ASSUME NEW l, Clean(l), NEW a \in 0 .. Len(l), NEW b
  PROVE  /\ Clean(Found(l, a, b)) /\ Len(Found(l, a, b)) = a
         /\ \A i \in 1 .. a : /\ Found(l, a, b)[i].ssid = l[i].ssid
                              /\ l[i].ssid \in Ssid \ {Blank}
<1>1. l \in [1 .. Len(l) -> Network] /\ Len(l) \in Nat /\ 1 .. a \subseteq 1 .. Len(l)
  BY DEF Clean
<1> DEFINE f == Found(l, a, b)
<1>2. ASSUME NEW i \in 1 .. a
      PROVE  /\ f[i] = [ssid |-> l[i].ssid, pass |-> IF i <= b THEN l[i].pass ELSE Blank]
             /\ l[i] \in Network
  BY <1>1 DEF Found, Wifi!Entry
<1>3. DOMAIN f = 1 .. a /\ f = [i \in 1 .. a |-> f[i]]
  BY DEF Found
<1> HIDE DEF f
<1>4. \A i \in 1 .. a : f[i] \in Network /\ f[i].ssid = l[i].ssid /\ l[i].ssid \in Ssid \ {Blank}
  <2> TAKE i \in 1 .. a
  <2> DEFINE pass == IF i <= b THEN l[i].pass ELSE Blank
  <2>1. f[i] = [ssid |-> l[i].ssid, pass |-> pass]
    BY <1>2
  <2>2. l[i].ssid \in Ssid \ {Blank} /\ l[i].pass \in Pass \cup {Blank}
    BY <1>2 DEF Network
  <2>3. pass \in Pass \cup {Blank}
    BY <2>2
  <2> HIDE DEF pass
  <2> QED
    BY <2>1, <2>2, <2>3 DEF Network
<1>5. f \in Seq(Network) /\ Len(f) = a
  BY <1>3, <1>4
<1>6. \A i, j \in 1 .. a : f[i].ssid = f[j].ssid => i = j
  BY <1>1, <1>4 DEF Clean
<1>7. a <= Max
  BY <1>1, StoresAssumption DEF Clean
<1>8. Clean(f)
  BY <1>5, <1>6, <1>7 DEF Clean
<1> QED
  BY <1>4, <1>5, <1>8 DEF f

(* credLoad() finds exactly that: no SSID is there twice, so credAdd()     *)
(* appends each, and passes over the indexes without one.                  *)
LEMMA LoadsFound ==
  ASSUME Max \in Nat, NEW l, Clean(l), NEW n \in Nat, NEW a \in 0 .. Len(l), NEW b \in Int,
         n = Len(l) \/ a = 0
  PROVE  Wifi!credLoad(KeysOf(l, n, a, b)) = Found(l, a, b)
<1> DEFINE k == KeysOf(l, n, a, b)
           Upto(i) == IF i <= a THEN i ELSE a
<1>1. /\ k.n = n
      /\ \A i \in 1 .. Max : /\ k.s[i] = IF i <= a THEN l[i].ssid ELSE Blank
                             /\ k.p[i] = IF i <= b THEN l[i].pass ELSE Blank
  BY DEF KeysOf, Names, Passes
<1> HIDE DEF k
<1>2. PICK g : Wifi!credLoad(k) = g[Max] /\ g = [i \in 0 .. Max |-> LoadStep(k, g, i)]
  BY LoadRecurs
<1>3. \A i \in 0 .. Max : g[i] = LoadStep(k, g, i)
  BY <1>2
<1>4. Len(l) \in Nat /\ Len(l) <= Max /\ a \in Nat /\ a <= Len(l)
  BY DEF Clean
<1> DEFINE S == {i \in Nat : i <= Max => g[i] = Found(l, Upto(i), b)}
<1>5. 0 \in S
  <2>1. g[0] = << >>
    BY <1>3 DEF LoadStep
  <2>2. Found(l, 0, b) = << >>
    BY DEF Found
  <2> QED
    BY <1>4, <2>1, <2>2
<1>6. ASSUME NEW i \in Nat, i \in S, i + 1 <= Max PROVE g[i + 1] = Found(l, Upto(i + 1), b)
  <2>1. g[i] = Found(l, Upto(i), b)
    BY <1>6
  <2>2. g[i + 1] = LoadStep(k, g, i + 1) /\ (i + 1) - 1 = i /\ i + 1 # 0
    BY <1>3, <1>6
  <2>3. CASE i + 1 > n
    <3>1. g[i + 1] = g[i]
      BY <1>1, <2>2, <2>3 DEF LoadStep
    <3>2. Upto(i + 1) = Upto(i)
      BY <1>4, <2>3
    <3> QED
      BY <2>1, <3>1, <3>2
  <2>4. CASE ~(i + 1 > n) /\ i + 1 > a
    <3>1. g[i + 1] = Wifi!credAdd(g[i], k.s[i + 1], k.p[i + 1])
      BY <1>1, <2>2, <2>4 DEF LoadStep
    <3>2. k.s[i + 1] = Blank
      BY <1>1, <1>4, <1>6, <2>4
    <3>3. Upto(i + 1) = Upto(i)
      BY <1>4, <2>4
    <3> QED
      BY <2>1, <3>1, <3>2, <3>3 DEF Wifi!credAdd
  <2>5. CASE ~(i + 1 > n) /\ i + 1 <= a
    <3> DEFINE ssid == l[i + 1].ssid
               pass == IF i + 1 <= b THEN l[i + 1].pass ELSE Blank
               f == Found(l, i, b)
    <3>1. g[i + 1] = Wifi!credAdd(f, ssid, pass)
      <4>1. g[i + 1] = Wifi!credAdd(g[i], k.s[i + 1], k.p[i + 1])
        BY <1>1, <2>2, <2>5 DEF LoadStep
      <4>2. k.s[i + 1] = ssid /\ k.p[i + 1] = pass
        BY <1>1, <1>6, <2>5
      <4>3. Upto(i) = i
        BY <1>4, <2>5
      <4> QED
        BY <2>1, <4>1, <4>2, <4>3
    <3>2. /\ i \in 0 .. Len(l) /\ i + 1 \in 1 .. Len(l) /\ i < Max
      BY <1>4, <1>6, <2>5
    <3>3. /\ f \in Seq(Network) /\ Len(f) = i
          /\ \A j \in 1 .. i : f[j].ssid = l[j].ssid
          /\ ssid # Blank
      <4>1. l[i + 1] \in Network
        BY <3>2 DEF Clean
      <4>2. ssid # Blank
        BY <4>1 DEF Network
      <4>3. Clean(f) /\ Len(f) = i /\ \A j \in 1 .. i : f[j].ssid = l[j].ssid
        BY <3>2, FoundIsClean
      <4> QED
        BY <4>2, <4>3 DEF Clean
    <3> HIDE DEF f
    <3>4. Wifi!credFind(f, ssid) = {}
      BY <3>2, <3>3 DEF Wifi!credFind, Clean
    <3> HIDE DEF ssid, pass
    <3>5. Wifi!credAdd(f, ssid, pass) = Append(f, Wifi!Entry(ssid, pass))
      BY <1>4, <3>2, <3>3, <3>4 DEF Wifi!credAdd
    <3>6. Append(f, Wifi!Entry(ssid, pass)) = Found(l, i + 1, b)
      <4> DEFINE e == Wifi!Entry(ssid, pass)
                 T == Network \cup {e}
      <4>1. f \in Seq(T) /\ e \in T
        BY <3>3
      <4> HIDE DEF e, T
      <4>2. /\ Append(f, e) \in Seq(T) /\ Len(Append(f, e)) = i + 1
            /\ \A j \in 1 .. i : Append(f, e)[j] = f[j]
            /\ Append(f, e)[i + 1] = e
        BY <3>3, <4>1, AppendProperties
      <4>3. Append(f, e) = [j \in 1 .. i + 1 |-> IF j <= i THEN f[j] ELSE e]
        <5> DEFINE h == Append(f, e)
        <5>1. h \in Seq(T) /\ Len(h) = i + 1
          BY <4>2
        <5>2. \A j \in 1 .. i + 1 : h[j] = IF j <= i THEN f[j] ELSE e
          BY <4>2, <3>2
        <5> HIDE DEF h
        <5>3. h = [j \in 1 .. i + 1 |-> h[j]]
          BY <5>1
        <5> QED
          BY <5>2, <5>3 DEF h
      <4> QED
        BY <4>3 DEF Found, f, ssid, pass, e
    <3>7. Upto(i + 1) = i + 1
      BY <2>5
    <3> QED
      BY <3>1, <3>5, <3>6, <3>7
  <2> QED
    BY <1>4, <2>3, <2>4, <2>5
<1>7. \A i \in Nat : i \in S => i + 1 \in S
  BY <1>6
<1>8. Max \in S
  <2> HIDE DEF S
  <2> QED
    BY <1>5, <1>7, Counting
<1>9. Upto(Max) = a
  BY <1>4
<1>10. g[Max] = Found(l, a, b)
  <2>1. g[Max] = Found(l, Upto(Max), b)
    BY <1>8
  <2> QED
    BY <1>9, <2>1
<1> QED
  BY <1>2, <1>10 DEF k

(* Adding keeps the SSIDs apart and the list within its bound.             *)
LEMMA AddKeepsClean ==
  ASSUME NEW l, Clean(l), NEW ssid \in Ssid, NEW pass \in Pass \cup {Blank}
  PROVE  Clean(Wifi!credAdd(l, ssid, pass))
<1> DEFINE e == Wifi!Entry(ssid, pass)
<1>1. CASE ssid = Blank
  BY <1>1 DEF Wifi!credAdd
<1>2. CASE ssid # Blank
  <2>1. e \in Network /\ e.ssid = ssid
    BY <1>2 DEF Wifi!Entry, Network
  <2>2. l \in Seq(Network) /\ Len(l) \in Nat
    BY DEF Clean
  <2> HIDE DEF e
  <2>3. CASE Wifi!credFind(l, ssid) # {}
    <3> DEFINE r == [i \in 1 .. Len(l) |-> IF i \in Wifi!credFind(l, ssid) THEN e ELSE l[i]]
    <3>1. Wifi!credAdd(l, ssid, pass) = r
      BY <1>2, <2>3 DEF Wifi!credAdd, e
    <3>2. \A i \in 1 .. Len(l) : r[i] \in Network /\ r[i].ssid = l[i].ssid
      BY <2>1, <2>2 DEF Wifi!credFind
    <3>3. r \in Seq(Network) /\ Len(r) = Len(l)
      <4>1. r \in [1 .. Len(l) -> Network]
        BY <3>2
      <4> HIDE DEF r
      <4> QED
        BY <2>2, <4>1
    <3> HIDE DEF r
    <3> QED
      BY <3>1, <3>2, <3>3 DEF Clean
  <2>4. CASE Wifi!credFind(l, ssid) = {} /\ Len(l) >= Max
    BY <1>2, <2>4 DEF Wifi!credAdd
  <2>5. CASE Wifi!credFind(l, ssid) = {} /\ ~(Len(l) >= Max)
    <3> DEFINE r == Append(l, e)
    <3>1. Wifi!credAdd(l, ssid, pass) = r
      BY <1>2, <2>5 DEF Wifi!credAdd, e
    <3>2. /\ r \in Seq(Network) /\ Len(r) = Len(l) + 1
          /\ \A i \in 1 .. Len(l) : r[i] = l[i]
          /\ r[Len(l) + 1] = e
      BY <2>1, <2>2, AppendProperties
    <3> HIDE DEF r
    <3>3. \A i \in 1 .. Len(l) : l[i].ssid # ssid
      BY <2>5 DEF Wifi!credFind
    <3>4. Len(r) <= Max
      BY <2>2, <2>5, <3>2, StoresAssumption
    <3>5. ASSUME NEW i \in 1 .. Len(r), NEW j \in 1 .. Len(r), r[i].ssid = r[j].ssid PROVE i = j
      <4>1. i \in 1 .. Len(l) \/ i = Len(l) + 1
        BY <2>2, <3>2
      <4>2. j \in 1 .. Len(l) \/ j = Len(l) + 1
        BY <2>2, <3>2
      <4>3. i \in 1 .. Len(l) /\ j \in 1 .. Len(l) => i = j
        BY <3>2, <3>5 DEF Clean
      <4>4. i \in 1 .. Len(l) => r[i].ssid # ssid
        BY <3>2, <3>3
      <4>5. j \in 1 .. Len(l) => r[j].ssid # ssid
        BY <3>2, <3>3
      <4>6. r[Len(l) + 1].ssid = ssid
        BY <2>1, <3>2
      <4> QED
        BY <3>5, <4>1, <4>2, <4>3, <4>4, <4>5, <4>6
    <3> QED
      BY <3>1, <3>2, <3>4, <3>5 DEF Clean
  <2> QED
    BY <2>3, <2>4, <2>5
<1> QED
  BY <1>1, <1>2

(* A network of the list, with its password or without.                    *)
LeftOf(l, e) == \E j \in 1 .. Len(l) : e = l[j] \/ e = Wifi!Entry(l[j].ssid, Blank)

(* Adding one to a list of such networks gives a list of such networks.    *)
LEMMA AddKeepsLeft ==
  ASSUME NEW l, NEW f, Clean(f), \A i \in 1 .. Len(f) : LeftOf(l, f[i]),
         NEW ssid, NEW pass, LeftOf(l, Wifi!Entry(ssid, pass))
  PROVE  LET r == Wifi!credAdd(f, ssid, pass) IN \A i \in 1 .. Len(r) : LeftOf(l, r[i])
<1> DEFINE e == Wifi!Entry(ssid, pass)
           r == Wifi!credAdd(f, ssid, pass)
<1>1. f \in Seq(Network) /\ Len(f) \in Nat /\ LeftOf(l, e)
  BY DEF Clean
<1>2. \/ r = f
      \/ r = [i \in 1 .. Len(f) |-> IF i \in Wifi!credFind(f, ssid) THEN e ELSE f[i]]
      \/ r = Append(f, e)
  BY DEF Wifi!credAdd
<1> HIDE DEF e, r
<1>3. CASE r = f
  BY <1>3 DEF r
<1>4. CASE r = [i \in 1 .. Len(f) |-> IF i \in Wifi!credFind(f, ssid) THEN e ELSE f[i]]
  <2>1. \A i \in 1 .. Len(f) : r[i] = e \/ r[i] = f[i]
    BY <1>4
  <2>2. Len(r) = Len(f)
    BY <1>1, <1>4
  <2>3. \A i \in 1 .. Len(r) : LeftOf(l, r[i])
    BY <1>1, <2>1, <2>2
  <2> QED
    BY <2>3 DEF r
<1>5. CASE r = Append(f, e)
  <2> DEFINE T == Network \cup {e}
  <2>1. f \in Seq(T) /\ e \in T
    BY <1>1
  <2> HIDE DEF T
  <2>2. /\ Len(r) = Len(f) + 1 /\ r[Len(f) + 1] = e
        /\ \A i \in 1 .. Len(f) : r[i] = f[i]
    BY <1>5, <2>1, AppendProperties
  <2>3. \A i \in 1 .. Len(r) : i \in 1 .. Len(f) \/ i = Len(f) + 1
    BY <1>1, <2>2
  <2>4. \A i \in 1 .. Len(r) : LeftOf(l, r[i])
    BY <1>1, <2>2, <2>3
  <2> QED
    BY <2>4 DEF r
<1> QED
  BY <1>2, <1>3, <1>4, <1>5

(* What a cut in the clear leaves of the keys of a list.                   *)
Remains(k, l) ==
  /\ k = [n |-> k.n, s |-> k.s, p |-> k.p]
  /\ k.s = [i \in 1 .. Max |-> k.s[i]] /\ k.p = [i \in 1 .. Max |-> k.p[i]]
  /\ \A i \in 1 .. Max : /\ k.s[i] = Blank \/ (i \in 1 .. Len(l) /\ k.s[i] = l[i].ssid)
                         /\ k.p[i] = Blank \/ (i \in 1 .. Len(l) /\ k.p[i] = l[i].pass)

(* A load of them finds networks of that list.                             *)
LEMMA LoadsLeft ==
  ASSUME NEW l, Clean(l), NEW k, Remains(k, l)
  PROVE  LET f == Wifi!credLoad(k) IN Clean(f) /\ \A i \in 1 .. Len(f) : LeftOf(l, f[i])
<1> DEFINE Good(f) == Clean(f) /\ \A i \in 1 .. Len(f) : LeftOf(l, f[i])
<1>1. PICK g : Wifi!credLoad(k) = g[Max] /\ g = [i \in 0 .. Max |-> LoadStep(k, g, i)]
  BY LoadRecurs, StoresAssumption
<1>2. \A i \in 0 .. Max : g[i] = LoadStep(k, g, i)
  BY <1>1
<1> DEFINE S == {i \in Nat : i <= Max => Good(g[i])}
<1>3. 0 \in S
  <2>1. << >> \in Seq(Network) /\ Len(<< >>) = 0
    OBVIOUS
  <2>2. Good(<< >>)
    BY <2>1, StoresAssumption DEF Clean
  <2>3. 0 \in 0 .. Max
    BY StoresAssumption
  <2>4. g[0] = << >>
    BY <1>2, <2>3 DEF LoadStep
  <2> HIDE DEF Good
  <2> QED
    BY <2>2, <2>4
<1>4. ASSUME NEW i \in Nat, i \in S, i + 1 <= Max PROVE Good(g[i + 1])
  <2> DEFINE f == g[i]
             ssid == k.s[i + 1]
             pass == k.p[i + 1]
  <2>1. Good(f)
    <3> HIDE DEF Good
    <3> QED
      BY <1>4, StoresAssumption
  <2>2. i + 1 \in 0 .. Max /\ i + 1 \in 1 .. Max /\ (i + 1) - 1 = i /\ i + 1 # 0
    BY <1>4, StoresAssumption
  <2>3. g[i + 1] = f \/ g[i + 1] = Wifi!credAdd(f, ssid, pass)
    <3>1. g[i + 1] = LoadStep(k, g, i + 1)
      BY <1>2, <2>2
    <3> QED
      BY <2>2, <3>1 DEF LoadStep
  <2>4. /\ ssid = Blank \/ (i + 1 \in 1 .. Len(l) /\ ssid = l[i + 1].ssid)
        /\ pass = Blank \/ (i + 1 \in 1 .. Len(l) /\ pass = l[i + 1].pass)
    BY <2>2 DEF Remains
  <2> HIDE DEF f, ssid, pass
  <2>5. CASE ssid = Blank
    BY <2>1, <2>3, <2>5 DEF Wifi!credAdd
  <2>6. CASE ssid # Blank
    <3> DEFINE old == l[i + 1]
    <3>1. i + 1 \in 1 .. Len(l) /\ ssid = old.ssid /\ (pass = Blank \/ pass = old.pass)
      BY <2>4, <2>6
    <3>2. old \in Network
      BY <3>1 DEF Clean
    <3> HIDE DEF old
    <3>3. /\ old.ssid \in Ssid /\ old.pass \in Pass \cup {Blank}
          /\ old = [ssid |-> old.ssid, pass |-> old.pass]
      BY <3>2 DEF Network
    <3>4. Wifi!Entry(ssid, pass) = old \/ Wifi!Entry(ssid, pass) = Wifi!Entry(old.ssid, Blank)
      BY <3>1, <3>3 DEF Wifi!Entry
    <3>5. LeftOf(l, Wifi!Entry(ssid, pass))
      BY <3>1, <3>4 DEF LeftOf, old
    <3>6. ssid \in Ssid /\ pass \in Pass \cup {Blank}
      BY <3>1, <3>3
    <3>7. Good(Wifi!credAdd(f, ssid, pass))
      BY <2>1, <3>5, <3>6, AddKeepsClean, AddKeepsLeft
    <3> HIDE DEF Good
    <3> QED
      BY <2>1, <2>3, <3>7
  <2> QED
    BY <2>5, <2>6
<1> HIDE DEF Good
<1>5. \A i \in Nat : i \in S => i + 1 \in S
  BY <1>4
<1>6. Max \in S
  <2> HIDE DEF S
  <2> QED
    BY <1>3, <1>5, Counting, StoresAssumption
<1>7. Good(g[Max])
  BY <1>6, StoresAssumption
<1>8. Good(Wifi!credLoad(k))
  BY <1>1, <1>7
<1> QED
  BY <1>8 DEF Good

(* Removing keeps the SSIDs of the others apart.                           *)
LEMMA RemoveKeepsClean ==
  ASSUME NEW l, Clean(l), NEW i \in Int
  PROVE  Clean(Wifi!credRemove(l, i))
<1>1. l \in Seq(Network) /\ Len(l) \in Nat /\ DOMAIN l = 1 .. Len(l)
  BY DEF Clean
<1>2. CASE i \notin 1 .. Len(l)
  BY <1>2 DEF Wifi!credRemove
<1>3. CASE i \in 1 .. Len(l)
  <2> DEFINE a == SubSeq(l, 1, i - 1)
             b == SubSeq(l, i + 1, Len(l))
             Old(j) == IF j < i THEN j ELSE j + 1
  <2>1. /\ a \in Seq(Network) /\ Len(a) = i - 1
        /\ \A j \in 1 .. i - 1 : a[j] = l[j]
    <3>1. \A j \in 1 .. i - 1 : l[j] \in Network
      BY <1>1, <1>3
    <3>2. 1 \in Int /\ i - 1 \in Int
      BY <1>3
    <3>3. /\ a \in Seq(Network) /\ Len(a) = IF 1 <= i - 1 THEN (i - 1) - 1 + 1 ELSE 0
          /\ \A j \in 1 .. (i - 1) - 1 + 1 : a[j] = l[1 + j - 1]
      BY <3>1, <3>2, SubSeqProperties
    <3> HIDE DEF a
    <3> QED
      BY <1>3, <3>3
  <2>2. /\ b \in Seq(Network) /\ Len(b) = Len(l) - i
        /\ \A j \in 1 .. Len(l) - i : b[j] = l[i + j]
    <3>1. \A j \in i + 1 .. Len(l) : l[j] \in Network
      BY <1>1, <1>3
    <3>2. i + 1 \in Int /\ Len(l) \in Int
      BY <1>1, <1>3
    <3>3. /\ b \in Seq(Network) /\ Len(b) = IF i + 1 <= Len(l) THEN Len(l) - (i + 1) + 1 ELSE 0
          /\ \A j \in 1 .. Len(l) - (i + 1) + 1 : b[j] = l[(i + 1) + j - 1]
      BY <3>1, <3>2, SubSeqProperties
    <3> HIDE DEF b
    <3>4. Len(b) = Len(l) - i
      <4>1. Len(b) = IF i + 1 <= Len(l) THEN Len(l) - (i + 1) + 1 ELSE 0
        BY <3>3
      <4>2. \A m \in Nat : \A j \in 1 .. m :
              m - j = IF j + 1 <= m THEN m - (j + 1) + 1 ELSE 0
        OBVIOUS
      <4> QED
        BY <1>1, <1>3, <4>1, <4>2
    <3>5. ASSUME NEW j \in 1 .. Len(l) - i PROVE b[j] = l[i + j]
      <4>1. j \in 1 .. Len(l) - (i + 1) + 1 /\ (i + 1) + j - 1 = i + j
        BY <1>1, <1>3
      <4>2. b[j] = l[(i + 1) + j - 1]
        BY <3>3, <4>1
      <4> QED
        BY <4>1, <4>2
    <3> QED
      BY <3>3, <3>4, <3>5
  <2>3. Wifi!credRemove(l, i) = a \o b
    BY <1>3 DEF Wifi!credRemove
  <2> HIDE DEF a, b
  <2>4. /\ a \o b \in Seq(Network) /\ Len(a \o b) = Len(l) - 1
        /\ \A j \in 1 .. Len(l) - 1 : (a \o b)[j] = l[Old(j)]
    <3>1. /\ a \o b \in Seq(Network) /\ Len(a \o b) = Len(a) + Len(b)
          /\ \A j \in 1 .. Len(a) + Len(b) :
               (a \o b)[j] = IF j <= Len(a) THEN a[j] ELSE b[j - Len(a)]
      BY <2>1, <2>2, ConcatProperties
    <3>2. Len(a) + Len(b) = Len(l) - 1
      BY <1>1, <1>3, <2>1, <2>2
    <3>3. ASSUME NEW j \in 1 .. Len(l) - 1 PROVE (a \o b)[j] = l[Old(j)]
      <4>1. (a \o b)[j] = IF j <= i - 1 THEN a[j] ELSE b[j - (i - 1)]
        BY <2>1, <3>1, <3>2
      <4>2. CASE j < i
        <5>1. j \in 1 .. i - 1 /\ j <= i - 1
          BY <1>3, <4>2
        <5> QED
          BY <2>1, <4>1, <4>2, <5>1
      <4>3. CASE ~(j < i)
        <5>1. j - (i - 1) \in 1 .. Len(l) - i /\ ~(j <= i - 1) /\ i + (j - (i - 1)) = j + 1
          BY <1>1, <1>3, <4>3
        <5>2. b[j - (i - 1)] = l[i + (j - (i - 1))]
          BY <2>2, <5>1
        <5> QED
          BY <4>1, <4>3, <5>1, <5>2
      <4> QED
        BY <4>2, <4>3
    <3> QED
      BY <3>1, <3>2, <3>3
  <2>5. \A j \in 1 .. Len(l) - 1 : Old(j) \in 1 .. Len(l)
    BY <1>1, <1>3
  <2>6. \A j, k \in 1 .. Len(l) - 1 : Old(j) = Old(k) => j = k
    BY <1>1, <1>3
  <2> HIDE DEF Old
  <2>7. \A j, k \in 1 .. Len(l) - 1 : (a \o b)[j].ssid = (a \o b)[k].ssid => j = k
    <3> SUFFICES ASSUME NEW j \in 1 .. Len(l) - 1, NEW k \in 1 .. Len(l) - 1,
                        (a \o b)[j].ssid = (a \o b)[k].ssid
                 PROVE  j = k
      OBVIOUS
    <3>1. l[Old(j)].ssid = l[Old(k)].ssid
      BY <2>4
    <3>2. Old(j) = Old(k)
      BY <2>5, <3>1 DEF Clean
    <3> QED
      BY <2>6, <3>2
  <2>8. Len(a \o b) <= Max
    BY <1>1, <2>4, StoresAssumption DEF Clean
  <2> QED
    BY <2>3, <2>4, <2>7, <2>8 DEF Clean
<1> QED
  BY <1>2, <1>3

(* A write of the handler of the location.                                 *)
LocPut == [key : {"lat", "lon", "tz"}, i : {0}, val : 0 .. 1]

(* What is left of a save of l after its first j writes.                   *)
Rest(l, j) == SubSeq(Wifi!credSave(l), j + 1, 2 * Len(l) + 2)

(* The writes of a save, in order.                                         *)
LEMMA SaveWrites ==
  ASSUME NEW l, Clean(l)
  PROVE  LET w == Wifi!credSave(l) IN
         /\ \E T : w \in Seq(T)
         /\ Len(l) \in Nat /\ Len(w) = 2 * Len(l) + 2
         /\ w[1] = Wifi!Put("clear", 0, 0) /\ w[2] = Wifi!Put("n", 0, Len(l))
         /\ \A i \in 1 .. Len(l) : /\ w[2 * i + 1] = Wifi!Put("s", i, l[i].ssid)
                                   /\ w[2 * i + 2] = Wifi!Put("p", i, l[i].pass)
<1> DEFINE Half(j) == (j + 1) \div 2
           Nth(j) == IF j % 2 = 1 THEN Wifi!Put("s", Half(j), l[Half(j)].ssid)
                     ELSE Wifi!Put("p", Half(j), l[Half(j)].pass)
           n == 2 * Len(l)
           head == << Wifi!Put("clear", 0, 0), Wifi!Put("n", 0, Len(l)) >>
           rows == [j \in 1 .. n |-> Nth(j)]
           T == {Nth(j) : j \in 1 .. n} \cup {Wifi!Put("clear", 0, 0), Wifi!Put("n", 0, Len(l))}
<1>1. Len(l) \in Nat
  BY DEF Clean
<1>2. Wifi!credSave(l) = head \o rows
  BY DEF Wifi!credSave
<1>3. \A i \in 1 .. Len(l) :
        /\ 2 * i - 1 \in 1 .. n /\ 2 * i \in 1 .. n
        /\ Nth(2 * i - 1) = Wifi!Put("s", i, l[i].ssid)
        /\ Nth(2 * i) = Wifi!Put("p", i, l[i].pass)
  <2> TAKE i \in 1 .. Len(l)
  <2>1. /\ (2 * i - 1) % 2 = 1 /\ Half(2 * i - 1) = i
        /\ (2 * i) % 2 = 0 /\ Half(2 * i) = i
    BY <1>1
  <2>2. 2 * i - 1 \in 1 .. n /\ 2 * i \in 1 .. n
    BY <1>1
  <2> QED
    BY <2>1, <2>2
<1> HIDE DEF Nth
<1>4. rows \in Seq(T) /\ Len(rows) = n
  <2>1. rows \in [1 .. n -> T] /\ n \in Nat
    BY <1>1
  <2> HIDE DEF rows, T, n
  <2> QED
    BY <2>1
<1>5. head \in Seq(T) /\ Len(head) = 2
  OBVIOUS
<1>6. \A j \in 1 .. n : rows[j] = Nth(j)
  OBVIOUS
<1>7. head[1] = Wifi!Put("clear", 0, 0) /\ head[2] = Wifi!Put("n", 0, Len(l))
  OBVIOUS
<1> HIDE DEF rows, head, T
<1>8. /\ head \o rows \in Seq(T) /\ Len(head \o rows) = 2 + n
      /\ \A i \in 1 .. 2 + n : (head \o rows)[i] = IF i <= 2 THEN head[i] ELSE rows[i - 2]
  <2>1. /\ head \o rows \in Seq(T) /\ Len(head \o rows) = Len(head) + Len(rows)
        /\ \A i \in 1 .. Len(head) + Len(rows) :
             (head \o rows)[i] = IF i <= Len(head) THEN head[i] ELSE rows[i - Len(head)]
    BY <1>4, <1>5, ConcatProperties
  <2> HIDE DEF n
  <2>2. Len(head) = 2 /\ Len(rows) = n
    BY <1>4, <1>5
  <2> QED
    BY <2>1, <2>2, Zenon
<1>9. (head \o rows)[1] = head[1] /\ (head \o rows)[2] = head[2]
  <2>1. 1 \in 1 .. 2 + n /\ 2 \in 1 .. 2 + n
    BY <1>1
  <2> HIDE DEF n
  <2> QED
    BY <1>8, <2>1
<1>10. ASSUME NEW i \in 1 .. Len(l)
       PROVE  /\ (head \o rows)[2 * i + 1] = rows[2 * i - 1]
              /\ (head \o rows)[2 * i + 2] = rows[2 * i]
  <2>1. /\ 2 * i + 1 \in 1 .. 2 + n /\ ~(2 * i + 1 <= 2) /\ (2 * i + 1) - 2 = 2 * i - 1
        /\ 2 * i + 2 \in 1 .. 2 + n /\ ~(2 * i + 2 <= 2) /\ (2 * i + 2) - 2 = 2 * i
    BY <1>1
  <2> HIDE DEF n
  <2>2. /\ (head \o rows)[2 * i + 1] = rows[(2 * i + 1) - 2]
        /\ (head \o rows)[2 * i + 2] = rows[(2 * i + 2) - 2]
    BY <1>8, <2>1
  <2> QED
    BY <2>1, <2>2
<1> DEFINE w == Wifi!credSave(l)
<1>11. w = head \o rows
  BY <1>2
<1>12. Len(w) = 2 * Len(l) + 2
  BY <1>1, <1>8, <1>11
<1> HIDE DEF w, n
<1>13. w \in Seq(T)
  BY <1>8, <1>11
<1>14. w[1] = Wifi!Put("clear", 0, 0) /\ w[2] = Wifi!Put("n", 0, Len(l))
  BY <1>7, <1>9, <1>11
<1>15. ASSUME NEW i \in 1 .. Len(l)
       PROVE  /\ w[2 * i + 1] = Wifi!Put("s", i, l[i].ssid)
              /\ w[2 * i + 2] = Wifi!Put("p", i, l[i].pass)
  <2>1. rows[2 * i - 1] = Wifi!Put("s", i, l[i].ssid) /\ rows[2 * i] = Wifi!Put("p", i, l[i].pass)
    <3>1. 2 * i - 1 \in 1 .. n /\ 2 * i \in 1 .. n
      BY <1>3
    <3>2. rows[2 * i - 1] = Nth(2 * i - 1) /\ rows[2 * i] = Nth(2 * i)
      BY <1>6, <3>1
    <3> QED
      BY <1>3, <3>2
  <2> QED
    BY <1>10, <1>11, <2>1
<1> QED
  BY <1>1, <1>12, <1>13, <1>14, <1>15 DEF w

(* The next write of a save, and what is left after it.                    *)
LEMMA RestSteps ==
  ASSUME NEW l, Clean(l), NEW j \in 0 .. 2 * Len(l) + 1
  PROVE  /\ Rest(l, j) # << >>
         /\ Head(Rest(l, j)) = Wifi!credSave(l)[j + 1]
         /\ Tail(Rest(l, j)) = Rest(l, j + 1)
<1>1. PICK T : Wifi!credSave(l) \in Seq(T)
  BY SaveWrites
<1>2. Len(l) \in Nat /\ Len(Wifi!credSave(l)) = 2 * Len(l) + 2
  BY SaveWrites
<1> DEFINE w == Wifi!credSave(l)
           m == j + 1
           n == 2 * Len(l) + 2
<1>3. m \in 1 .. Len(w) /\ n \in m .. Len(w)
  BY <1>2
<1>4. w \in Seq(T)
  BY <1>1
<1> HIDE DEF w, m, n
<1>5. /\ Head(SubSeq(w, m, n)) = w[m] /\ Tail(SubSeq(w, m, n)) = SubSeq(w, m + 1, n)
  BY <1>3, <1>4, HeadTailOfSubSeq
<1>6. Len(SubSeq(w, m, n)) = n - m + 1
  <2>1. m \in Int /\ n \in Int /\ m <= n /\ \A i \in m .. n : w[i] \in T
    BY <1>3, <1>4
  <2> QED
    BY <2>1, SubSeqProperties
<1>7. SubSeq(w, m, n) # << >>
  BY <1>3, <1>6
<1> QED
  BY <1>5, <1>7 DEF Rest, w, m, n

(* A save before its first write and after its last one.                   *)
LEMMA RestWhole ==
  ASSUME NEW l, Clean(l)
  PROVE  Rest(l, 0) = Wifi!credSave(l) /\ Rest(l, 2 * Len(l) + 2) = << >>
<1>1. PICK T : Wifi!credSave(l) \in Seq(T)
  BY SaveWrites
<1>2. Len(l) \in Nat /\ Len(Wifi!credSave(l)) = 2 * Len(l) + 2
  BY SaveWrites
<1>3. Rest(l, 2 * Len(l) + 2) = << >>
  BY <1>2, SubSeqEmpty DEF Rest
<1>4. SubSeq(Wifi!credSave(l), 1, Len(Wifi!credSave(l))) = Wifi!credSave(l)
  BY <1>1, SubSeqFull
<1> QED
  BY <1>2, <1>3, <1>4 DEF Rest

(* The keys hold a part of the list that was last saved.                   *)
Part(n, a, b) ==
  /\ n \in {0, Len(meant)} /\ a \in 0 .. Len(meant) /\ b \in 0 .. a /\ a - 1 <= b
  /\ n = 0 => a = 0
  /\ keys = KeysOf(meant, n, a, b)

(* No write of the credentials is under way after the clear; if no cut     *)
(* fell into the last save, the keys hold all of it.                       *)
Settled(n, a, b) ==
  /\ todo \in Seq(LocPut) \/ todo = Wifi!credSave(list)
  /\ kept = "all" => n = Len(meant) /\ a = Len(meant) /\ b = Len(meant)

(* A save is past its clear: the keys hold what it has written.            *)
InSave(n, a, b) ==
  /\ meant = list
  /\ \/ a = 0 /\ todo = Rest(list, 1)
     \/ n = Len(list) /\ ~(a = n /\ b = n) /\ todo = Rest(list, 2 + a + b)

(* A cut fell into the clear of a save, or may yet: any of the keys of the *)
(* list before are gone.                                                   *)
Torn ==
  /\ kept = "some" /\ Remains(keys, meant)
  /\ todo \in Seq(LocPut) \/ todo = Wifi!credSave(list)

Whole(n, a, b) == Part(n, a, b) /\ (Settled(n, a, b) \/ InSave(n, a, b))

Held == Torn \/ \E n, a, b \in 0 .. Max : Whole(n, a, b)

Kept == {"all", "first", "some"}

(* The inductive invariant of the credentials.                             *)
CredInv ==
  /\ Clean(list) /\ Clean(meant) /\ kept \in Kept /\ portal \in BOOLEAN
  /\ todo # << >> => portal
  /\ Held

(* The empty list is a list.                                               *)
LEMMA EmptyIsClean == Clean(<< >>) /\ Len(<< >>) = 0
<1>1. << >> \in Seq(Network) /\ Len(<< >>) = 0
  OBVIOUS
<1> QED
  BY <1>1, StoresAssumption DEF Clean

(* A cleared namespace holds the empty part of any list.                   *)
LEMMA NoKeyIsPart ==
  ASSUME NEW l
  PROVE  Wifi!NoKey = KeysOf(l, 0, 0, 0)
<1>1. \A i \in 1 .. Max : ~(i <= 0)
  BY StoresAssumption
<1> QED
  BY <1>1 DEF Wifi!NoKey, KeysOf, Names, Passes

(* Writing the next SSID or the next password makes the part longer.       *)
LEMMA KeysGrow ==
  ASSUME NEW l, NEW a \in Nat, a + 1 <= Max
  PROVE  /\ [Names(l, a) EXCEPT ![a + 1] = l[a + 1].ssid] = Names(l, a + 1)
         /\ [Passes(l, a) EXCEPT ![a + 1] = l[a + 1].pass] = Passes(l, a + 1)
<1>1. \A i \in 1 .. Max : i <= a + 1 <=> (i <= a \/ i = a + 1)
  BY StoresAssumption
<1>2. \A i \in 1 .. Max : (IF i = a + 1 THEN l[a + 1].ssid ELSE Names(l, a)[i])
                            = Names(l, a + 1)[i]
  BY <1>1 DEF Names
<1>3. \A i \in 1 .. Max : (IF i = a + 1 THEN l[a + 1].pass ELSE Passes(l, a)[i])
                            = Passes(l, a + 1)[i]
  BY <1>1 DEF Passes
<1>4. [Names(l, a) EXCEPT ![a + 1] = l[a + 1].ssid] = Names(l, a + 1)
  BY <1>2 DEF Names
<1>5. [Passes(l, a) EXCEPT ![a + 1] = l[a + 1].pass] = Passes(l, a + 1)
  BY <1>3 DEF Passes
<1> QED
  BY <1>4, <1>5

(* A board that was never set up.                                          *)
LEMMA CredStart ==
  ASSUME Wifi!Init
  PROVE  CredInv
<1>0. 0 \in 0 .. Max /\ 0 \in 0 .. 0 /\ 0 - 1 <= 0
  BY StoresAssumption
<1>1. Part(0, 0, 0)
  BY <1>0, EmptyIsClean, NoKeyIsPart DEF Wifi!Init, Part
<1>2. Settled(0, 0, 0)
  BY EmptyIsClean DEF Wifi!Init, Settled
<1>3. /\ kept \in Kept /\ portal \in BOOLEAN /\ todo = << >>
      /\ list = << >> /\ meant = << >>
  BY DEF Wifi!Init, Kept
<1> QED
  BY <1>0, <1>1, <1>2, <1>3, EmptyIsClean DEF CredInv, Held, Whole

(* What a load finds in the keys.                                          *)
LEMMA HeldIsFound ==
  ASSUME Clean(meant), NEW n, NEW a, NEW b, Part(n, a, b)
  PROVE  Wifi!credLoad(keys) = Found(meant, a, b) /\ Clean(Wifi!credLoad(keys))
<1>1. Len(meant) \in Nat
  BY DEF Clean
<1>2. n \in Nat /\ b \in Int /\ (n = Len(meant) \/ a = 0) /\ a \in 0 .. Len(meant)
  BY <1>1 DEF Part
<1>3. Wifi!credLoad(keys) = Found(meant, a, b)
  BY <1>2, LoadsFound, StoresAssumption DEF Part
<1> QED
  BY <1>2, <1>3, FoundIsClean

(* What the next write of a save is, and what is left after it.            *)
LEMMA NextWrite ==
  ASSUME Clean(meant), NEW n, NEW a, NEW b, Part(n, a, b), InSave(n, a, b)
  PROVE  /\ todo # << >>
         /\ \/ /\ a = 0 /\ b = 0
               /\ Head(todo) = Wifi!Put("n", 0, Len(meant))
               /\ Tail(todo) = Rest(meant, 2)
            \/ /\ n = Len(meant) /\ b = a /\ a + 1 <= n
               /\ Head(todo) = Wifi!Put("s", a + 1, meant[a + 1].ssid)
               /\ Tail(todo) = Rest(meant, 2 + (a + 1) + b)
            \/ /\ n = Len(meant) /\ a = b + 1 /\ b + 1 <= n
               /\ Head(todo) = Wifi!Put("p", b + 1, meant[b + 1].pass)
               /\ Tail(todo) = Rest(meant, 2 + a + (b + 1))
<1> DEFINE w == Wifi!credSave(meant)
<1>1. /\ Len(meant) \in Nat
      /\ w[2] = Wifi!Put("n", 0, Len(meant))
      /\ \A i \in 1 .. Len(meant) : /\ w[2 * i + 1] = Wifi!Put("s", i, meant[i].ssid)
                                    /\ w[2 * i + 2] = Wifi!Put("p", i, meant[i].pass)
  BY SaveWrites
<1>2. \A j \in 0 .. 2 * Len(meant) + 1 :
        Rest(meant, j) # << >> /\ Head(Rest(meant, j)) = w[j + 1]
        /\ Tail(Rest(meant, j)) = Rest(meant, j + 1)
  BY RestSteps
<1> HIDE DEF w
<1>3. /\ a \in Nat /\ b \in Nat /\ a <= Len(meant) /\ (b = a \/ a = b + 1)
      /\ (a = 0 => b = 0)
  BY <1>1 DEF Part
<1>4. CASE a = 0 /\ todo = Rest(meant, 1)
  <2>1. 1 \in 0 .. 2 * Len(meant) + 1
    BY <1>1
  <2>2. /\ Rest(meant, 1) # << >> /\ Head(Rest(meant, 1)) = w[1 + 1]
        /\ Tail(Rest(meant, 1)) = Rest(meant, 1 + 1)
    BY <1>2, <2>1
  <2>3. 1 + 1 = 2
    OBVIOUS
  <2> QED
    BY <1>1, <1>3, <1>4, <2>2, <2>3
<1>5. CASE n = Len(meant) /\ ~(a = n /\ b = n) /\ todo = Rest(meant, 2 + a + b)
  <2> DEFINE j == 2 + a + b
  <2>1. j \in 0 .. 2 * Len(meant) + 1
    BY <1>1, <1>3, <1>5
  <2>2. todo # << >> /\ Head(todo) = w[j + 1] /\ Tail(todo) = Rest(meant, j + 1)
    <3> HIDE DEF j
    <3>1. todo = Rest(meant, j)
      BY <1>5 DEF j
    <3> QED
      BY <1>2, <2>1, <3>1
  <2>3. CASE b = a
    <3>1. /\ j + 1 = 2 * (a + 1) + 1 /\ j + 1 = 2 + (a + 1) + b
          /\ a + 1 \in 1 .. Len(meant) /\ a + 1 <= n
      BY <1>1, <1>3, <1>5, <2>3
    <3>2. w[2 * (a + 1) + 1] = Wifi!Put("s", a + 1, meant[a + 1].ssid)
      BY <1>1, <3>1
    <3> HIDE DEF j
    <3> QED
      BY <1>5, <2>2, <2>3, <3>1, <3>2
  <2>4. CASE a = b + 1
    <3>1. /\ j + 1 = 2 * (b + 1) + 2 /\ j + 1 = 2 + a + (b + 1)
          /\ b + 1 \in 1 .. Len(meant) /\ b + 1 <= n
      <4>1. j + 1 = 2 * (b + 1) + 2 /\ j + 1 = 2 + a + (b + 1)
        BY <1>3, <2>4
      <4>2. b + 1 \in 1 .. Len(meant) /\ b + 1 <= n
        BY <1>1, <1>3, <1>5, <2>4
      <4> QED
        BY <4>1, <4>2
    <3>2. w[2 * (b + 1) + 2] = Wifi!Put("p", b + 1, meant[b + 1].pass)
      BY <1>1, <3>1
    <3> HIDE DEF j
    <3> QED
      BY <1>5, <2>2, <2>4, <3>1, <3>2
  <2> QED
    BY <1>3, <2>3, <2>4
<1> QED
  BY <1>4, <1>5 DEF InSave

(* A save starts by clearing the keys.                                     *)
LEMMA SaveStarts ==
  ASSUME NEW l, Clean(l)
  PROVE  /\ Wifi!credSave(l) # << >> /\ Head(Wifi!credSave(l)) = Wifi!Put("clear", 0, 0)
         /\ Tail(Wifi!credSave(l)) = Rest(l, 1)
<1>1. Len(l) \in Nat /\ Wifi!credSave(l)[1] = Wifi!Put("clear", 0, 0)
  BY SaveWrites
<1>2. 0 \in 0 .. 2 * Len(l) + 1 /\ 0 + 1 = 1
  BY <1>1
<1>3. /\ Rest(l, 0) # << >> /\ Head(Rest(l, 0)) = Wifi!credSave(l)[0 + 1]
      /\ Tail(Rest(l, 0)) = Rest(l, 0 + 1)
  BY <1>2, RestSteps
<1> QED
  BY <1>1, <1>2, <1>3, RestWhole

(* The fields of a write.                                                  *)
LEMMA PutFields ==
  \A key, i, val : Wifi!Put(key, i, val).key = key /\ Wifi!Put(key, i, val).i = i
                   /\ Wifi!Put(key, i, val).val = val
BY DEF Wifi!Put

(* A write of a save takes the keys to the next part of the list.          *)
LEMMA WholeWrite ==
  ASSUME CredInv, Wifi!WriteKey,
         NEW n \in 0 .. Max, NEW a \in 0 .. Max, NEW b \in 0 .. Max, Whole(n, a, b)
  PROVE  CredInv'
<1>1. Part(n, a, b) /\ (Settled(n, a, b) \/ InSave(n, a, b))
  BY DEF Whole
<1>2. /\ Clean(list) /\ Clean(meant) /\ kept \in Kept /\ portal \in BOOLEAN /\ portal
      /\ Len(meant) \in Nat /\ Len(list) \in Nat /\ Len(meant) <= Max /\ Max \in Nat
  BY StoresAssumption DEF CredInv, Wifi!WriteKey, Clean
<1> DEFINE w == Head(todo)
<1>3. /\ todo # << >> /\ todo' = Tail(todo) /\ portal' = portal /\ list' = list
      /\ w.key = "clear" => keys = Wifi!NoKey
      /\ keys' = IF w.key = "n" THEN [keys EXCEPT !.n = w.val]
                 ELSE IF w.key = "s" THEN [keys EXCEPT !.s[w.i] = w.val]
                 ELSE IF w.key = "p" THEN [keys EXCEPT !.p[w.i] = w.val]
                 ELSE keys
      /\ meant' = IF w.key = "clear" THEN list ELSE meant
      /\ kept' = IF w.key = "clear" THEN "all" ELSE kept
  BY DEF Wifi!WriteKey
<1> HIDE DEF w
<1>4. /\ Clean(list') /\ Clean(meant') /\ kept' \in Kept /\ portal' \in BOOLEAN /\ portal'
  <2>1. Clean(list') /\ Clean(meant') /\ portal' \in BOOLEAN /\ portal'
    BY <1>2, <1>3, Zenon
  <2>2. kept' \in Kept
    BY <1>2, <1>3 DEF Kept
  <2> QED
    BY <2>1, <2>2
<1>5. SUFFICES Held'
  BY <1>4 DEF CredInv, Clean
<1>6. CASE Settled(n, a, b) /\ todo \in Seq(LocPut)
  <2>1. w \in LocPut /\ todo' \in Seq(LocPut)
    BY <1>3, <1>6 DEF w
  <2>2. w.key # "clear" /\ w.key # "n" /\ w.key # "s" /\ w.key # "p"
    BY <2>1 DEF LocPut
  <2>3. keys' = keys /\ meant' = meant /\ kept' = kept
    BY <1>3, <2>2
  <2>4. Part(n, a, b)' /\ Settled(n, a, b)'
    BY <1>1, <1>6, <2>1, <2>3 DEF Part, Settled
  <2> QED
    BY <2>4 DEF Held, Whole
<1>7. CASE Settled(n, a, b) /\ todo = Wifi!credSave(list)
  <2>1. w = Wifi!Put("clear", 0, 0) /\ todo' = Rest(list, 1)
    BY <1>2, <1>3, <1>7, SaveStarts DEF w
  <2>2. keys' = Wifi!NoKey /\ meant' = list
    BY <1>3, <2>1, PutFields
  <2>3. keys' = KeysOf(meant', 0, 0, 0)
    BY <2>2, NoKeyIsPart
  <2>4. 0 \in 0 .. Max /\ 0 \in 0 .. Len(list) /\ 0 \in 0 .. 0 /\ 0 - 1 <= 0
    BY <1>2
  <2>5. Part(0, 0, 0)'
    BY <2>2, <2>3, <2>4 DEF Part
  <2>6. InSave(0, 0, 0)'
    BY <1>3, <2>1, <2>2 DEF InSave, Rest, Wifi!credSave
  <2> QED
    BY <2>4, <2>5, <2>6 DEF Held, Whole
<1>8. CASE InSave(n, a, b)
  <2>1. meant = list /\ keys = [n |-> n, s |-> Names(meant, a), p |-> Passes(meant, b)]
    BY <1>1, <1>8 DEF InSave, Part, KeysOf
  <2>2. /\ \/ /\ a = 0 /\ b = 0
              /\ w = Wifi!Put("n", 0, Len(meant))
              /\ todo' = Rest(meant, 2)
           \/ /\ n = Len(meant) /\ b = a /\ a + 1 <= n
              /\ w = Wifi!Put("s", a + 1, meant[a + 1].ssid)
              /\ todo' = Rest(meant, 2 + (a + 1) + b)
           \/ /\ n = Len(meant) /\ a = b + 1 /\ b + 1 <= n
              /\ w = Wifi!Put("p", b + 1, meant[b + 1].pass)
              /\ todo' = Rest(meant, 2 + a + (b + 1))
    BY <1>1, <1>2, <1>3, <1>8, NextWrite DEF w
  <2>3. meant' = meant /\ list' = meant' /\ Len(meant') = Len(meant)
    BY <1>3, <2>1, <2>2, PutFields
  <2>4. ASSUME NEW x \in 0 .. Len(meant), NEW y \in 0 .. x, x - 1 <= y, Len(meant) = 0 => x = 0,
               keys' = KeysOf(meant, Len(meant), x, y), todo' = Rest(meant, 2 + x + y)
        PROVE  Held'
    <3>0. PICK m : m = Len(meant)
      OBVIOUS
    <3>1. x \in 0 .. Max /\ y \in 0 .. Max /\ m \in 0 .. Max
      BY <1>2, <3>0
    <3>2. Part(m, x, y)'
      BY <2>3, <2>4, <3>0 DEF Part
    <3>3. CASE x = Len(meant) /\ y = Len(meant)
      <4>1. 2 + x + y = 2 * Len(meant) + 2
        BY <1>2, <3>3
      <4>2. todo' = << >>
        BY <1>2, <2>4, <4>1, RestWhole
      <4>3. << >> \in Seq(LocPut)
        OBVIOUS
      <4>4. Settled(m, x, y)'
        BY <2>3, <3>0, <3>3, <4>2, <4>3 DEF Settled
      <4> QED
        BY <3>1, <3>2, <4>4 DEF Held, Whole
    <3>4. CASE ~(x = Len(meant) /\ y = Len(meant))
      <4>1. todo' = Rest(list', 2 + x + y)
        BY <2>3, <2>4
      <4>2. InSave(m, x, y)'
        BY <2>3, <3>0, <3>4, <4>1 DEF InSave, Rest, Wifi!credSave
      <4> QED
        BY <3>1, <3>2, <4>2 DEF Held, Whole
    <3> QED
      BY <3>3, <3>4
  <2>5. a \in Nat /\ b \in Nat /\ a <= Len(meant) /\ b <= a
    BY <1>1, <1>2 DEF Part
  <2>6. CASE w = Wifi!Put("n", 0, Len(meant)) /\ a = 0 /\ b = 0 /\ todo' = Rest(meant, 2)
    <3>1. keys' = [keys EXCEPT !.n = Len(meant)]
      BY <1>3, <2>6, PutFields
    <3>2. keys' = KeysOf(meant, Len(meant), 0, 0)
      <4>1. keys' = [n |-> Len(meant), s |-> Names(meant, a), p |-> Passes(meant, b)]
        BY <2>1, <3>1
      <4> QED
        BY <2>6, <4>1 DEF KeysOf
    <3>3. 0 \in 0 .. Len(meant) /\ 0 \in 0 .. 0 /\ 0 - 1 <= 0 /\ 2 + 0 + 0 = 2
      BY <1>2
    <3> QED
      BY <2>4, <2>6, <3>2, <3>3
  <2>7. CASE /\ n = Len(meant) /\ b = a /\ a + 1 <= n
             /\ w = Wifi!Put("s", a + 1, meant[a + 1].ssid)
             /\ todo' = Rest(meant, 2 + (a + 1) + b)
    <3>1. keys' = [keys EXCEPT !.s[a + 1] = meant[a + 1].ssid]
      BY <1>3, <2>7, PutFields
    <3>2. a + 1 <= Max
      BY <1>2, <2>5, <2>7
    <3>3. keys' = KeysOf(meant, Len(meant), a + 1, b)
      <4>1. keys' = [n |-> n, p |-> Passes(meant, b),
                     s |-> [Names(meant, a) EXCEPT ![a + 1] = meant[a + 1].ssid]]
        BY <2>1, <3>1
      <4>2. keys' = [n |-> n, s |-> Names(meant, a + 1), p |-> Passes(meant, b)]
        BY <2>5, <3>2, <4>1, KeysGrow
      <4> QED
        BY <2>7, <4>2 DEF KeysOf
    <3>4. a + 1 \in 0 .. Len(meant) /\ b \in 0 .. a + 1 /\ (a + 1) - 1 <= b /\ Len(meant) # 0
      BY <1>2, <2>5, <2>7
    <3> QED
      BY <2>4, <2>7, <3>3, <3>4
  <2>8. CASE /\ n = Len(meant) /\ a = b + 1 /\ b + 1 <= n
             /\ w = Wifi!Put("p", b + 1, meant[b + 1].pass)
             /\ todo' = Rest(meant, 2 + a + (b + 1))
    <3>1. keys' = [keys EXCEPT !.p[b + 1] = meant[b + 1].pass]
      <4>1. w = Wifi!Put("p", b + 1, meant[b + 1].pass)
        BY <2>8
      <4>2. w.key = "p" /\ w.i = b + 1 /\ w.val = meant[b + 1].pass
        BY <4>1, PutFields
      <4> QED
        BY <1>3, <4>2
    <3>2. b + 1 <= Max
      BY <1>2, <2>5, <2>8
    <3>3. keys' = KeysOf(meant, Len(meant), a, b + 1)
      <4>1. keys' = [n |-> n, s |-> Names(meant, a),
                     p |-> [Passes(meant, b) EXCEPT ![b + 1] = meant[b + 1].pass]]
        BY <2>1, <3>1
      <4>2. keys' = [n |-> n, s |-> Names(meant, a), p |-> Passes(meant, b + 1)]
        BY <2>5, <3>2, <4>1, KeysGrow
      <4> QED
        BY <2>8, <4>2 DEF KeysOf
    <3>4. a \in 0 .. Len(meant) /\ b + 1 \in 0 .. a /\ a - 1 <= b + 1 /\ Len(meant) # 0
      BY <1>2, <2>5, <2>8
    <3> QED
      BY <2>4, <2>8, <3>3, <3>4
  <2> QED
    BY <2>2, <2>6, <2>7, <2>8
<1> QED
  BY <1>1, <1>6, <1>7, <1>8 DEF Settled

(* A write with the keys torn is one of the location, or the end of the    *)
(* clear.                                                                  *)
LEMMA TornWrite ==
  ASSUME CredInv, Wifi!WriteKey, Torn
  PROVE  CredInv'
<1>1. /\ Clean(list) /\ Clean(meant) /\ kept \in Kept /\ portal \in BOOLEAN /\ portal
      /\ Len(list) \in Nat /\ Max \in Nat
  BY StoresAssumption DEF CredInv, Wifi!WriteKey, Clean
<1> DEFINE w == Head(todo)
<1>2. /\ todo # << >> /\ todo' = Tail(todo) /\ portal' = portal /\ list' = list
      /\ w.key = "clear" => keys = Wifi!NoKey
      /\ w.key \notin {"n", "s", "p"} => keys' = keys
      /\ meant' = IF w.key = "clear" THEN list ELSE meant
      /\ kept' = IF w.key = "clear" THEN "all" ELSE kept
  BY DEF Wifi!WriteKey
<1> HIDE DEF w
<1>3. CASE todo \in Seq(LocPut)
  <2>1. w \in LocPut /\ todo' \in Seq(LocPut)
    BY <1>2, <1>3 DEF w
  <2>2. w.key # "clear" /\ w.key \notin {"n", "s", "p"}
    BY <2>1 DEF LocPut
  <2>3. keys' = keys /\ meant' = meant /\ kept' = kept
    BY <1>2, <2>2
  <2>4. Torn'
    BY <2>1, <2>3 DEF Torn
  <2>5. Clean(list') /\ Clean(meant') /\ kept' \in Kept /\ portal' \in BOOLEAN /\ portal'
    BY <1>1, <1>2, <2>3
  <2> QED
    BY <2>4, <2>5 DEF CredInv, Clean, Held
<1>4. CASE todo = Wifi!credSave(list)
  <2>1. w = Wifi!Put("clear", 0, 0) /\ todo' = Rest(list, 1)
    BY <1>1, <1>2, <1>4, SaveStarts DEF w
  <2>2. w.key = "clear" /\ w.key \notin {"n", "s", "p"}
    BY <2>1, PutFields
  <2>3. keys' = Wifi!NoKey /\ meant' = list /\ kept' = "all"
    BY <1>2, <2>2
  <2>4. keys' = KeysOf(meant', 0, 0, 0)
    BY <2>3, NoKeyIsPart
  <2>5. 0 \in 0 .. Max /\ 0 \in 0 .. Len(list) /\ 0 \in 0 .. 0 /\ 0 - 1 <= 0
    BY <1>1
  <2>6. Part(0, 0, 0)'
    BY <2>3, <2>4, <2>5 DEF Part
  <2>7. InSave(0, 0, 0)'
    BY <1>2, <2>1, <2>3 DEF InSave, Rest, Wifi!credSave
  <2>8. Held'
    BY <2>5, <2>6, <2>7 DEF Held, Whole
  <2>9. Clean(list') /\ Clean(meant') /\ kept' \in Kept /\ portal' \in BOOLEAN /\ portal'
    <3>1. Clean(list') /\ Clean(meant')
      BY <1>1, <1>2, <2>3
    <3> QED
      BY <1>1, <1>2, <2>3, <3>1 DEF Kept
  <2> QED
    BY <2>8, <2>9 DEF CredInv, Clean
<1> QED
  BY <1>3, <1>4 DEF Torn

(* The keys of a part of a list are what a clear could leave of it.        *)
LEMMA WholeRemains ==
  ASSUME Clean(meant), NEW n, NEW a, NEW b, Part(n, a, b)
  PROVE  Remains(keys, meant)
<1>1. Len(meant) \in Nat /\ a \in 0 .. Len(meant) /\ b \in 0 .. a
  BY DEF Clean, Part
<1>2. /\ keys = [n |-> n, s |-> Names(meant, a), p |-> Passes(meant, b)]
      /\ keys.n = n /\ keys.s = Names(meant, a) /\ keys.p = Passes(meant, b)
  BY DEF Part, KeysOf
<1>3. /\ Names(meant, a) = [i \in 1 .. Max |-> Names(meant, a)[i]]
      /\ Passes(meant, b) = [i \in 1 .. Max |-> Passes(meant, b)[i]]
  BY DEF Names, Passes
<1>4. \A i \in 1 .. Max :
        /\ Names(meant, a)[i] = Blank \/ (i <= a /\ Names(meant, a)[i] = meant[i].ssid)
        /\ Passes(meant, b)[i] = Blank \/ (i <= b /\ Passes(meant, b)[i] = meant[i].pass)
  BY DEF Names, Passes
<1>5. \A i \in 1 .. Max : /\ i <= a => i \in 1 .. Len(meant)
                          /\ i <= b => i \in 1 .. Len(meant)
  BY <1>1, StoresAssumption
<1> QED
  BY <1>2, <1>3, <1>4, <1>5 DEF Remains

(* The clear takes one more item of what is left.                          *)
LEMMA CredErase ==
  ASSUME CredInv, Wifi!Erase
  PROVE  CredInv'
<1>1. /\ Clean(list) /\ Clean(meant) /\ portal \in BOOLEAN /\ portal
      /\ Head(todo).key = "clear" /\ kept' = "some"
      /\ UNCHANGED <<portal, list, todo, meant>>
  BY DEF CredInv, Wifi!Erase
<1>2. /\ Remains(keys, meant)
      /\ todo \in Seq(LocPut) \/ todo = Wifi!credSave(list)
  <2>1. CASE Torn
    BY <2>1 DEF Torn
  <2>2. ASSUME NEW n, NEW a, NEW b, Whole(n, a, b)
        PROVE  /\ Remains(keys, meant)
               /\ todo \in Seq(LocPut) \/ todo = Wifi!credSave(list)
    <3>1. Part(n, a, b) /\ (Settled(n, a, b) \/ InSave(n, a, b))
      BY <2>2 DEF Whole
    <3>2. ~InSave(n, a, b)
      <4>1. ASSUME InSave(n, a, b) PROVE Head(todo).key \in {"n", "s", "p"}
        BY <1>1, <3>1, <4>1, NextWrite, PutFields
      <4> QED
        BY <1>1, <4>1
    <3> QED
      BY <1>1, <3>1, <3>2, WholeRemains DEF Settled
  <2> QED
    BY <2>1, <2>2 DEF CredInv, Held
<1>3. Remains(keys', meant)
  <2>1. \/ keys' = [keys EXCEPT !.n = 0]
        \/ \E i \in 1 .. Max : keys' = [keys EXCEPT !.s[i] = Blank]
        \/ \E i \in 1 .. Max : keys' = [keys EXCEPT !.p[i] = Blank]
    BY DEF Wifi!Erase
  <2> DEFINE N == keys.n
             A == keys.s
             B == keys.p
  <2>2. keys = [n |-> N, s |-> A, p |-> B] /\ A = [i \in 1 .. Max |-> A[i]]
        /\ B = [i \in 1 .. Max |-> B[i]]
    BY <1>2 DEF Remains
  <2>3. \A i \in 1 .. Max : /\ A[i] = Blank \/ (i \in 1 .. Len(meant) /\ A[i] = meant[i].ssid)
                            /\ B[i] = Blank \/ (i \in 1 .. Len(meant) /\ B[i] = meant[i].pass)
    BY <1>2 DEF Remains
  <2> HIDE DEF N, A, B
  <2>4. CASE keys' = [keys EXCEPT !.n = 0]
    <3>1. keys' = [n |-> 0, s |-> A, p |-> B]
      BY <2>2, <2>4
    <3>2. keys'.n = 0 /\ keys'.s = A /\ keys'.p = B
      BY <3>1
    <3> QED
      BY <2>2, <2>3, <3>1, <3>2 DEF Remains
  <2>5. ASSUME NEW i \in 1 .. Max, keys' = [keys EXCEPT !.s[i] = Blank]
        PROVE  Remains(keys', meant)
    <3> DEFINE C == [A EXCEPT ![i] = Blank]
    <3>1. keys' = [n |-> N, s |-> C, p |-> B]
      BY <2>2, <2>5
    <3>2. C = [j \in 1 .. Max |-> C[j]] /\ \A j \in 1 .. Max : C[j] = Blank \/ C[j] = A[j]
      BY <2>2
    <3> HIDE DEF C
    <3>3. keys'.n = N /\ keys'.s = C /\ keys'.p = B
      BY <3>1
    <3> QED
      BY <2>2, <2>3, <3>1, <3>2, <3>3 DEF Remains
  <2>6. ASSUME NEW i \in 1 .. Max, keys' = [keys EXCEPT !.p[i] = Blank]
        PROVE  Remains(keys', meant)
    <3> DEFINE C == [B EXCEPT ![i] = Blank]
    <3>1. keys' = [n |-> N, s |-> A, p |-> C]
      BY <2>2, <2>6
    <3>2. C = [j \in 1 .. Max |-> C[j]] /\ \A j \in 1 .. Max : C[j] = Blank \/ C[j] = B[j]
      BY <2>2
    <3> HIDE DEF C
    <3>3. keys'.n = N /\ keys'.s = A /\ keys'.p = C
      BY <3>1
    <3> QED
      BY <2>2, <2>3, <3>1, <3>2, <3>3 DEF Remains
  <2> QED
    BY <2>1, <2>4, <2>5, <2>6
<1>4. Torn'
  BY <1>1, <1>2, <1>3 DEF Torn, Wifi!credSave
<1>5. Clean(list') /\ Clean(meant') /\ kept' \in Kept /\ portal' \in BOOLEAN /\ portal'
  BY <1>1 DEF Kept
<1> QED
  BY <1>4, <1>5 DEF CredInv, Clean, Held

(* Every step of the portal, and a power cut, keeps the invariant.         *)
LEMMA CredStep ==
  ASSUME CredInv, [Wifi!Next]_wifi
  PROVE  CredInv'
<1>1. Torn \/ \E n, a, b \in 0 .. Max : Whole(n, a, b)
  BY DEF CredInv, Held
<1>2. /\ Clean(list) /\ Clean(meant) /\ kept \in Kept /\ portal \in BOOLEAN
      /\ (todo # << >> => portal) /\ Len(meant) \in Nat
  BY DEF CredInv, Clean
<1>3. Clean(Wifi!credLoad(keys)) /\ Clean(<< >>)
  <2>1. CASE Torn
    BY <1>2, <2>1, LoadsLeft, EmptyIsClean DEF Torn
  <2>2. CASE \E n, a, b \in 0 .. Max : Whole(n, a, b)
    BY <1>2, <2>2, HeldIsFound, EmptyIsClean DEF Whole
  <2> QED
    BY <1>1, <2>1, <2>2
<1>4. ASSUME UNCHANGED <<keys, meant>>, kept' = IF Wifi!Saving THEN "first" ELSE kept,
             todo' \in Seq(LocPut) \/ todo' = Wifi!credSave(list')
      PROVE  Held'
  <2>1. ASSUME NEW n, NEW a, NEW b, InSave(n, a, b), Part(n, a, b)
        PROVE  todo # << >> /\ Wifi!Saving
    <3>1. todo # << >> /\ Head(todo).key \in {"n", "s", "p"}
      BY <1>2, <2>1, NextWrite, PutFields
    <3> QED
      BY <3>1 DEF Wifi!Saving
  <2>2. CASE Torn
    <3>1. ~Wifi!Saving
      <4>1. CASE todo \in Seq(LocPut)
        <5>1. todo # << >> => Head(todo) \in LocPut
          BY <4>1
        <5>2. \A x \in LocPut : x.key \notin {"n", "s", "p"}
          BY DEF LocPut
        <5> QED
          BY <5>1, <5>2 DEF Wifi!Saving
      <4>2. CASE todo = Wifi!credSave(list)
        <5>1. Head(todo) = Wifi!Put("clear", 0, 0)
          BY <1>2, <4>2, SaveStarts
        <5>2. Head(todo).key = "clear"
          BY <5>1, PutFields
        <5> QED
          BY <5>2 DEF Wifi!Saving
      <4> QED
        BY <2>2, <4>1, <4>2 DEF Torn
    <3>2. kept' = kept
      BY <1>4, <3>1
    <3> QED
      BY <1>4, <2>2, <3>2 DEF Torn, Held, Wifi!credSave
  <2>3. ASSUME NEW n \in 0 .. Max, NEW a \in 0 .. Max, NEW b \in 0 .. Max, Whole(n, a, b)
        PROVE  Held'
    <3>1. Part(n, a, b) /\ (Settled(n, a, b) \/ InSave(n, a, b))
      BY <2>3 DEF Whole
    <3>2. Settled(n, a, b) \/ kept' # "all"
      BY <1>4, <2>1, <3>1
    <3>3. kept' = "all" => Settled(n, a, b) /\ kept = "all"
      BY <1>4, <3>2
    <3>4. Part(n, a, b)' /\ Settled(n, a, b)'
      BY <1>4, <3>1, <3>3 DEF Part, Settled, Wifi!credSave
    <3> QED
      BY <3>4 DEF Held, Whole
  <2> QED
    BY <1>1, <2>2, <2>3
<1>5. << >> \in Seq(LocPut) /\ (todo = << >> => ~Wifi!Saving)
  BY DEF Wifi!Saving
<1>6. ASSUME Clean(list'), portal' \in BOOLEAN, todo' # << >> => portal',
             meant' = meant, kept' \in Kept, Held'
      PROVE  CredInv'
  BY <1>2, <1>6 DEF CredInv, Clean
<1>7. CASE Wifi!OpenPortal
  <2>1. /\ ~portal /\ portal' /\ portal' \in BOOLEAN /\ list' = Wifi!credLoad(keys)
        /\ UNCHANGED <<keys, todo, meant, kept>>
    BY <1>7 DEF Wifi!OpenPortal
  <2>2. todo = << >>
    BY <1>2, <2>1
  <2> QED
    BY <1>2, <1>3, <1>4, <1>5, <1>6, <2>1, <2>2
<1>8. CASE Wifi!ClosePortal
  <2>1. /\ todo = << >> /\ portal' \in BOOLEAN /\ list' = << >>
        /\ UNCHANGED <<keys, todo, meant, kept>>
    BY <1>8 DEF Wifi!ClosePortal
  <2> QED
    BY <1>2, <1>3, <1>4, <1>5, <1>6, <2>1
<1>9. ASSUME NEW l, Clean(l), portal, todo = << >>, Wifi!Save(l) PROVE CredInv'
  <2>1. list' = l /\ todo' = Wifi!credSave(list') /\ UNCHANGED <<portal, keys, meant, kept>>
    BY <1>9 DEF Wifi!Save
  <2> QED
    BY <1>2, <1>4, <1>5, <1>6, <1>9, <2>1
<1>10. CASE \E s \in Ssid : \E p \in Pass : Wifi!Add(s, p)
  BY <1>2, <1>9, <1>10, AddKeepsClean DEF Wifi!Add
<1>11. CASE \E i \in 1 .. Max : Wifi!Del(i)
  BY <1>2, <1>9, <1>11, RemoveKeepsClean DEF Wifi!Del
<1>12. CASE Wifi!Loc
  <2>1. /\ portal /\ todo = << >> /\ UNCHANGED <<portal, list, keys, meant, kept>>
        /\ \E v \in 0 .. 1 : todo' = Wifi!SaveLocation(v)
    BY <1>12 DEF Wifi!Loc
  <2>2. \A v \in 0 .. 1 : Wifi!SaveLocation(v) \in Seq(LocPut)
    <3> TAKE v \in 0 .. 1
    <3>1. \A i \in 1 .. 3 : <<"lat", "lon", "tz">>[i] \in {"lat", "lon", "tz"}
      OBVIOUS
    <3>2. \A i \in 1 .. 3 : Wifi!Put(<<"lat", "lon", "tz">>[i], 0, v) \in LocPut
      BY <3>1 DEF Wifi!Put, LocPut
    <3> QED
      BY <3>2 DEF Wifi!SaveLocation
  <2> QED
    BY <1>2, <1>4, <1>5, <1>6, <2>1, <2>2
<1>13. CASE Wifi!WriteKey
  BY <1>1, <1>13, WholeWrite, TornWrite
<1>14. CASE Wifi!Erase
  BY <1>14, CredErase
<1>15. CASE Wifi!PowerCut
  <2>1. /\ portal' = FALSE /\ list' = << >> /\ todo' = << >>
        /\ kept' = IF Wifi!Saving THEN "first" ELSE kept
        /\ keys' = keys /\ meant' = meant
    BY <1>15 DEF Wifi!PowerCut
  <2>2. Held'
    BY <1>4, <1>5, <2>1
  <2>3. Clean(list') /\ portal' \in BOOLEAN /\ kept' \in Kept
    BY <1>2, <1>3, <2>1 DEF Kept
  <2> QED
    BY <1>6, <2>1, <2>2, <2>3
<1>16. CASE UNCHANGED wifi
  <2>1. UNCHANGED <<portal, list, keys, todo, meant, kept>>
    BY <1>16 DEF wifi
  <2>2. Torn => Torn'
    BY <2>1 DEF Torn, Wifi!credSave
  <2>3. ASSUME NEW n \in 0 .. Max, NEW a \in 0 .. Max, NEW b \in 0 .. Max, Whole(n, a, b)
        PROVE  Held'
    <3>1. Part(n, a, b)'
      BY <2>1, <2>3 DEF Part, Whole
    <3>2. Settled(n, a, b) => Settled(n, a, b)'
      BY <2>1 DEF Settled, Wifi!credSave
    <3>3. InSave(n, a, b) => InSave(n, a, b)'
      BY <2>1 DEF InSave, Rest, Wifi!credSave
    <3> QED
      BY <2>3, <3>1, <3>2, <3>3 DEF Held, Whole
  <2>4. Held'
    BY <1>1, <2>2, <2>3 DEF Held
  <2> QED
    BY <1>2, <1>6, <2>1, <2>4
<1> QED
  BY <1>7, <1>8, <1>10, <1>11, <1>12, <1>13, <1>14, <1>15, <1>16 DEF Wifi!Next

(* A load finds what was last saved, or a part of it.                      *)
LEMMA WholeSound ==
  ASSUME CredInv, NEW n \in 0 .. Max, NEW a \in 0 .. Max, NEW b \in 0 .. Max, Whole(n, a, b)
  PROVE  Wifi!CredsKept
<1>1. Part(n, a, b) /\ (Settled(n, a, b) \/ InSave(n, a, b))
  BY DEF Whole
<1>2. Clean(meant) /\ Len(meant) \in Nat /\ meant \in Seq(Network)
  BY DEF CredInv, Clean
<1> DEFINE found == Wifi!credLoad(keys)
<1>3. found = Found(meant, a, b) /\ a \in 0 .. Len(meant) /\ b \in 0 .. a /\ a - 1 <= b
  BY <1>1, <1>2, HeldIsFound DEF Part
<1> HIDE DEF found
<1>4. Len(found) = a /\ found \in Seq(Network)
  BY <1>2, <1>3, FoundIsClean DEF Clean
<1>5. \A i \in 1 .. a : found[i] = Wifi!Entry(meant[i].ssid, IF i <= b THEN meant[i].pass ELSE Blank)
  BY <1>3 DEF Found
<1>6. \A i \in 1 .. a : i <= b => found[i] = meant[i]
  <2> TAKE i \in 1 .. a
  <2> HAVE i <= b
  <2>1. meant[i] \in Network
    BY <1>2, <1>3
  <2>2. meant[i] = [ssid |-> meant[i].ssid, pass |-> meant[i].pass]
    BY <2>1 DEF Network
  <2>3. found[i] = Wifi!Entry(meant[i].ssid, meant[i].pass)
    BY <1>5
  <2> QED
    BY <2>2, <2>3 DEF Wifi!Entry
<1>7. \A i \in 1 .. a : ~(i <= b) => i = a /\ found[i] = Wifi!Entry(meant[i].ssid, Blank)
  BY <1>3, <1>5
<1>8. ASSUME kept = "all", ~Wifi!Saving PROVE found = meant
  <2>1. ~InSave(n, a, b)
    <3>1. ASSUME InSave(n, a, b) PROVE todo # << >> /\ Head(todo).key \in {"n", "s", "p"}
      BY <1>1, <1>2, <3>1, NextWrite, PutFields
    <3> QED
      BY <1>8, <3>1 DEF Wifi!Saving
  <2>2. a = Len(meant) /\ b = Len(meant)
    BY <1>1, <1>8, <2>1 DEF Settled
  <2>3. \A i \in 1 .. Len(meant) : found[i] = meant[i]
    BY <1>2, <1>6, <2>2
  <2> QED
    BY <1>2, <1>4, <2>2, <2>3
<1>9. Len(found) <= Len(meant)
  BY <1>2, <1>3, <1>4
<1>10. \A i \in 1 .. Len(found) :
         found[i] = meant[i] \/ (i = Len(found) /\ found[i] = Wifi!Entry(meant[i].ssid, Blank))
  BY <1>4, <1>6, <1>7
<1>11. \A i \in 1 .. Len(found) : i \in 1 .. Len(meant)
  BY <1>2, <1>4, <1>9
<1>12. \A e \in {found[i] : i \in 1 .. Len(found)} :
         \E i \in 1 .. Len(meant) : e = meant[i] \/ e = Wifi!Entry(meant[i].ssid, Blank)
  BY <1>10, <1>11
<1> QED
  BY <1>8, <1>9, <1>10, <1>12 DEF Wifi!CredsKept, found

(* Of keys that a clear has torn, what a load finds was in the list before.*)
LEMMA TornSound ==
  ASSUME CredInv, Torn
  PROVE  Wifi!CredsKept
<1> DEFINE found == Wifi!credLoad(keys)
<1>1. kept = "some" /\ Clean(meant) /\ Remains(keys, meant)
  BY DEF CredInv, Torn
<1>2. \A i \in 1 .. Len(found) : LeftOf(meant, found[i])
  BY <1>1, LoadsLeft
<1> HIDE DEF found
<1>3. \A e \in {found[i] : i \in 1 .. Len(found)} :
        \E i \in 1 .. Len(meant) : e = meant[i] \/ e = Wifi!Entry(meant[i].ssid, Blank)
  BY <1>2 DEF LeftOf
<1> QED
  BY <1>1, <1>3 DEF Wifi!CredsKept, found

(* What a load finds is what was last saved; after a cut in the middle of  *)
(* a save, the first networks of it, the last of them perhaps without its  *)
(* password; after a cut in the clear, any networks of the list before,    *)
(* with their passwords or without.  It never mixes two lists, pairs a     *)
(* network with another's password or finds one that was removed           *)
(* (credSave(), wifi_cred_store.cpp:57).                                   *)
THEOREM CredsKeptHolds == StoresSpec => []CredsKept
<1>1. CredInv => CredsKept
  BY WholeSound, TornSound DEF CredsKept, CredInv, Held
<1>2. CredInv /\ [Wifi!Next]_(Wifi!vars) => CredInv'
  BY CredStep DEF Wifi!vars, wifi
<1> QED
  BY <1>1, <1>2, CredStart, StoresAreTheirParts, PTL
=============================================================================
