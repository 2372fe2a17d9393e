--------------------------- MODULE DashTasks_proofs ---------------------------
(***************************************************************************)
(* What the tasks of src/main.cpp guarantee each other, for every registry *)
(* of profiles, every set of cars and any number of power cuts.  DashInv   *)
(* is inductive.  It says where in an iteration of loop() the two copies   *)
(* of the settings agree, and what a frame may still believe of the        *)
(* overlays while the input task goes on.                                  *)
(***************************************************************************)
EXTENDS DashTasks, TLAPS

\* Where loop() is, a save counted as the place it goes on at.
Phase == IF pc = "save" THEN then ELSE pc

\* From the snapshot of the overlays to the end of the frame.
FramePhase == Phase \in {"theme", "gate", "name", "detect", "detected"}

\* A save has a place to go on at, and nothing else has.
SaveReturns == pc = "save" <=> then # "loop"

(* settings and its copy on flash differ only while a pick or a detection  *)
(* is being written, and a detection needs the automatic mode.             *)
CopiesAgree ==
  /\ Phase \notin {"picked", "detected"} => settings = flash
  /\ Phase = "detected" => settings.vehauto /\ flash.vehauto

(* No more than one gesture fits into an iteration: the frame's snapshot   *)
(* is the overlay of now until it falls, and a pick not yet taken was made *)
(* in an overlay the snapshot shows.                                       *)
FrameDefers ==
  /\ Phase = "snapshot" /\ vehReq # NoReq => gestured /\ view = "Menu"
  /\ FramePhase => /\ ~ gestured => view = shown
                   /\ vehReq # NoReq => gestured /\ OverlayOpen
  /\ Phase = "detected" => ~ OverlayOpen

\* Up to the restart the update flow ends in, the OBD task is told to idle.
UpdateSuspends == pc \in {"quiesce", "update"} => suspend

\* The flags of TypeOK, which the provers take apart from the rest.
Flags ==
  /\ tankReq \in BOOLEAN /\ gestured \in BOOLEAN
  /\ suspend \in BOOLEAN /\ calm \in BOOLEAN

DashInv == TypeOK /\ SaveReturns /\ CopiesAgree /\ FrameDefers /\ UpdateSuspends
-----------------------------------------------------------------------------
(* The settings setup() runs with: a key of this firmware, or none.        *)
LEMMA ResolvedIsRunnable ==
  ASSUME NEW s \in Settings
  PROVE  /\ Resolved(s) \in Settings
         /\ Resolved(s).vehkey \in Profile \cup {None}
         /\ s.vehkey \in Profile => Resolved(s) = s
  BY DEF Resolved, Settings, Key

(* A write of one setting to flash leaves settings on it.                  *)
LEMMA PutKeepsSettings ==
  ASSUME flash \in Settings, settings \in Settings, NEW k \in {"vehkey", "vehauto"},
         flash' = [flash EXCEPT ![k] = settings[k]]
  PROVE  /\ flash' \in Settings
         /\ flash'[k] = settings[k]
         /\ \A j \in {"vehkey", "vehauto"} : j # k => flash'[j] = flash[j]
  BY DEF Settings

(* Two settings that agree on both keys are the same.                      *)
LEMMA SameSettings ==
  ASSUME NEW s \in Settings, NEW t \in Settings,
         s.vehkey = t.vehkey, s.vehauto = t.vehauto
  PROVE  s = t
  BY DEF Settings

(* What a save has still to write: both settings, the second, or nothing.  *)
LEMMA SaveSteps ==
  /\ Head(SaveOrder) = "vehkey" /\ Len(SaveOrder) = 2 /\ SaveOrder # << >>
  /\ Head(Tail(SaveOrder)) = "vehauto" /\ Len(Tail(SaveOrder)) = 1
  /\ Tail(Tail(SaveOrder)) = << >> /\ Tail(SaveOrder) # << >>
  BY DEF SaveOrder

(* Begin, and a start from whatever is on flash, establish the invariant.  *)
LEMMA BootEstablishesInv ==
  ASSUME flash \in Settings, BootFrom(flash),
         car' \in Car, cuts' \in 0 .. MaxCuts, calm' \in BOOLEAN
  PROVE  DashInv'
  BY ResolvedIsRunnable, DashTasksAssumption
     DEF BootFrom, DashInv, TypeOK, SaveReturns, CopiesAgree, FrameDefers,
         UpdateSuspends, Phase, FramePhase, View

(* A boot finds flash in one of the states a save can leave.               *)
LEMMA InitInv == Init => DashInv
  <1> SUFFICES ASSUME Init PROVE DashInv
    OBVIOUS
  <1>1. PICK s \in FlashInit :
          settings = Resolved(s) /\ flash = Resolved(s) /\ profile = Resolved(s).vehkey
    BY DEF Init
  <1>2. s \in Settings
    BY DashTasksAssumption DEF Settings, Key
  <1>3. Flags
    BY DEF Init, Flags
  <1>4. /\ settings \in Settings /\ flash = settings
        /\ profile \in Profile \cup {None}
    BY <1>1, <1>2, ResolvedIsRunnable
  <1>5. cuts \in 0 .. MaxCuts
    BY DashTasksAssumption DEF Init
  <1> QED
    BY <1>3, <1>4, <1>5
       DEF Init, Flags, DashInv, TypeOK, SaveReturns, CopiesAgree, FrameDefers,
           UpdateSuspends, Phase, FramePhase, View

(* A restart, of the dash or of its watchdog, keeps it too.                *)
LEMMA RestartKeepsInv == DashInv /\ Restart => DashInv'
  BY BootEstablishesInv DEF Restart, world, DashInv, TypeOK

(* Every step of loop() keeps the invariant.                               *)
LEMMA LoopInv == DashInv /\ Loop => DashInv'
  <1> SUFFICES ASSUME DashInv, Loop PROVE DashInv'
    OBVIOUS
  <1> USE DEF loopVars, storeVars, inputVars, obdVars, world
  <1>1. CASE \/ Watchdog \/ UpdateEnds \/ PickedRestart \/ DetectedRestart
    BY <1>1, RestartKeepsInv DEF Watchdog, UpdateEnds, PickedRestart, DetectedRestart
  <1>2. CASE NoAction \/ DisplayAction \/ TaskAction \/ VersionAction \/ UpdateAction
    <2>1. Flags'
      BY <1>2 DEF NoAction, DisplayAction, TaskAction, VersionAction, UpdateAction,
                  TakeAction, Goto, SaveThen, DashInv, TypeOK, Flags
    <2> QED
      BY <1>2, <2>1, SaveSteps
         DEF NoAction, DisplayAction, TaskAction, VersionAction, UpdateAction,
             TakeAction, Goto, SaveThen, DashInv, TypeOK, Flags, SaveReturns,
             CopiesAgree, FrameDefers, UpdateSuspends, Phase, FramePhase, OverlayOpen
  <1>3. CASE VersionDone \/ UpdateRuns \/ NoTankCommit \/ NoVehicleCommit
    BY <1>3 DEF VersionDone, UpdateRuns, NoTankCommit, NoVehicleCommit, Goto, DashInv,
                TypeOK, SaveReturns, CopiesAgree, FrameDefers, UpdateSuspends, Phase,
                FramePhase, OverlayOpen
  <1>4. CASE TankCommit
    <2>1. Flags'
      BY <1>4 DEF TankCommit, SaveThen, DashInv, TypeOK, Flags
    <2> QED
      BY <1>4, <2>1, SaveSteps
         DEF TankCommit, SaveThen, DashInv, TypeOK, Flags, SaveReturns, CopiesAgree,
             FrameDefers, UpdateSuspends, Phase, FramePhase, OverlayOpen
  <1>5. CASE VehicleCommit
    <2>1. Flags'
      BY <1>5 DEF VehicleCommit, SaveThen, DashInv, TypeOK, Flags
    <2>2. settings' \in Settings
      BY <1>5 DEF VehicleCommit, DashInv, TypeOK, Settings, Key
    <2> QED
      BY <1>5, <2>1, <2>2, SaveSteps
         DEF VehicleCommit, SaveThen, DashInv, TypeOK, Flags, SaveReturns, CopiesAgree,
             FrameDefers, UpdateSuspends, Phase, FramePhase
  <1>6. CASE Snapshot \/ Themed \/ FrameDue \/ NoFrame
    BY <1>6, SaveSteps
       DEF Snapshot, Themed, FrameDue, NoFrame, Goto, SaveThen, DashInv, TypeOK, View,
           SaveReturns, CopiesAgree, FrameDefers, UpdateSuspends, Phase, FramePhase,
           OverlayOpen
  <1>7. CASE Identified \/ NoDetect
    BY <1>7, SaveSteps
       DEF Identified, NoDetect, Goto, SaveThen, DashInv, TypeOK, View, SaveReturns,
           CopiesAgree, FrameDefers, UpdateSuspends, Phase, FramePhase, OverlayOpen
  <1>8. CASE Detect
    <2>1. Flags'
      BY <1>8 DEF Detect, SaveThen, DashInv, TypeOK, Flags
    <2>2. settings.vehauto /\ AutoTarget \in Profile
      BY <1>8, DashTasksAssumption DEF Detect, AutoTarget, DashInv, TypeOK
    <2>3. settings' \in Settings /\ settings'.vehauto /\ settings = flash
      BY <1>8, <2>2
         DEF Detect, DashInv, TypeOK, Settings, Key, CopiesAgree, Phase
    <2> QED
      BY <1>8, <2>1, <2>3, SaveSteps
         DEF Detect, SaveThen, DashInv, TypeOK, Flags, SaveReturns, CopiesAgree,
             FrameDefers, UpdateSuspends, Phase, FramePhase, OverlayOpen
  <1>9. CASE Put
    <2>1. puts \in {SaveOrder, Tail(SaveOrder)}
      BY <1>9 DEF Put, DashInv, TypeOK
    <2>2. Head(puts) \in {"vehkey", "vehauto"} /\ puts' \in {Tail(SaveOrder), << >>}
      BY <1>9, <2>1, SaveSteps DEF Put
    <2>3. flash' \in Settings
      BY <1>9, <2>2, PutKeepsSettings DEF Put, DashInv, TypeOK
    <2>4. TypeOK'
      <3>1. Flags'
        BY <1>9 DEF Put, DashInv, TypeOK, Flags
      <3>2. pc' = "save" <=> puts' # << >>
        <4>1. CASE puts = SaveOrder
          BY <1>9, <4>1, SaveSteps DEF Put
        <4>2. CASE puts = Tail(SaveOrder)
          BY <1>9, <4>2, SaveSteps DEF Put, DashInv, TypeOK
        <4> QED
          BY <2>1, <4>1, <4>2
      <3> QED
        BY <1>9, <2>2, <2>3, <3>1, <3>2 DEF Put, DashInv, TypeOK, Flags, SaveReturns
    <2>5. SaveReturns' /\ Phase' = Phase
      BY <1>9, <2>1, SaveSteps DEF Put, DashInv, TypeOK, SaveReturns, Phase
    <2>6. CopiesAgree'
      <3>1. settings = flash => flash' = flash
        BY <1>9, <2>2, PutKeepsSettings DEF Put, DashInv, TypeOK, Settings
      <3>2. settings.vehauto /\ flash.vehauto => flash'.vehauto
        BY <1>9, <2>2, PutKeepsSettings DEF Put, DashInv, TypeOK
      <3> QED
        BY <1>9, <2>5, <3>1, <3>2 DEF Put, DashInv, CopiesAgree
    <2>7. FrameDefers' /\ UpdateSuspends'
      BY <1>9, <2>5 DEF Put, DashInv, TypeOK, FrameDefers, UpdateSuspends, FramePhase,
                        OverlayOpen
    <2> QED
      BY <2>4, <2>5, <2>6, <2>7 DEF DashInv
  <1> QED
    BY <1>1, <1>2, <1>3, <1>4, <1>5, <1>6, <1>7, <1>8, <1>9 DEF Loop, LoopStep

(* So does every step of the other tasks and of the world.                 *)
LEMMA OthersInv ==
  DashInv /\ (Input \/ Obd \/ PollHangs \/ HeartbeatStalls \/ PowerCut \/ CalmDown)
    => DashInv'
  <1> SUFFICES ASSUME DashInv,
                      Input \/ Obd \/ PollHangs \/ HeartbeatStalls \/ PowerCut \/ CalmDown
               PROVE  DashInv'
    OBVIOUS
  <1> USE DEF loopVars, storeVars, inputVars, obdVars, world
  <1>1. CASE Input
    <2>1. Flags'
      BY <1>1 DEF Input, Hold, OpenOverlay, MenuPress, VehiclePress, TankPress, Gesture,
                  DashInv, TypeOK, Flags
    <2> QED
      BY <1>1, <2>1 DEF Flags, Input, Hold, OpenOverlay, MenuPress, VehiclePress, TankPress, Gesture,
                DashInv, TypeOK, View, SaveReturns, CopiesAgree, FrameDefers,
                UpdateSuspends, Phase, FramePhase, OverlayOpen
  <1>2. CASE Obd \/ PollHangs \/ HeartbeatStalls
    BY <1>2 DEF Obd, PollBegins, PollEnds, PollHangs, HeartbeatStalls, DashInv, TypeOK,
                SaveReturns, CopiesAgree, FrameDefers, UpdateSuspends, Phase,
                FramePhase, OverlayOpen
  <1>3. CASE PowerCut
    BY <1>3, BootEstablishesInv, DashTasksAssumption DEF PowerCut, DashInv, TypeOK
  <1>4. CASE CalmDown
    BY <1>4 DEF CalmDown, DashInv, TypeOK, SaveReturns, CopiesAgree, FrameDefers,
                UpdateSuspends, Phase, FramePhase, OverlayOpen
  <1> QED
    BY <1>1, <1>2, <1>3, <1>4

(* Every step of the three tasks keeps it.                                 *)
LEMMA NextInv == DashInv /\ [Next]_vars => DashInv'
  <1>1. DashInv /\ UNCHANGED vars => DashInv'
    BY DEF vars, loopVars, storeVars, inputVars, obdVars, world, DashInv, TypeOK,
           SaveReturns, CopiesAgree, FrameDefers, UpdateSuspends, Phase, FramePhase,
           OverlayOpen
  <1> QED
    BY <1>1, LoopInv, OthersInv DEF Next

(* The copies, the flags and flash keep together, for ever.                *)
THEOREM DashInvHolds == Spec => []DashInv
  BY InitInv, NextInv, PTL DEF Spec

(* The state is what the handlers can make of it, on every path: what a    *)
(* save has still to write, what the overlays and the commit queues hold.  *)
THEOREM TypeCorrect == Spec => []TypeOK
  <1>1. DashInv => TypeOK
    BY DEF DashInv
  <1> QED
    BY <1>1, DashInvHolds, PTL

(* Outside a pick or a detection being saved, the settings in RAM are the  *)
(* ones on flash: a restart anywhere else in loop() changes no setting.    *)
THEOREM CopiesAgreeHolds == Spec => []CopiesAgree
  <1>1. DashInv => CopiesAgree
    BY DEF DashInv
  <1> QED
    BY <1>1, DashInvHolds, PTL

(* While the update flow waits and runs, the OBD task is told to idle: no  *)
(* poll is begun, and at most the one under way outlasts the wait.         *)
THEOREM UpdateSuspendsHolds == Spec => []UpdateSuspends
  <1>1. DashInv => UpdateSuspends
    BY DEF DashInv
  <1> QED
    BY <1>1, DashInvHolds, PTL

(* A restart for a detected vehicle never discards the vehicle the user    *)
(* has just picked, wherever in the iteration the press falls.             *)
THEOREM PickKeptHolds == Spec => []PickKept
  <1>1. DashInv => PickKept
    BY DEF DashInv, TypeOK, FrameDefers, PickKept, FramePhase, Phase
  <1> QED
    BY <1>1, DashInvHolds, PTL

(* A profile the user has locked is never replaced by detection: flash     *)
(* gets another key only by a save of what the user picked, whatever       *)
(* restarts and power cuts fall between its two writes.                    *)
THEOREM LockKeptHolds == Spec => LockKept
  <1> DEFINE Replaced == ~ flash.vehauto /\ flash.vehkey \in Profile
                           /\ flash'.vehkey # flash.vehkey
  <1>1. DashInv /\ [Next]_vars => (Replaced => then = "picked")
    <2> SUFFICES ASSUME DashInv, [Next]_vars, Replaced PROVE then = "picked"
      OBVIOUS
    <2>1. flash \in Settings /\ settings \in Settings /\ flash' # flash
      BY DEF DashInv, TypeOK
    <2>2. ASSUME BootFrom(flash) PROVE FALSE
      BY <2>1, <2>2, ResolvedIsRunnable DEF BootFrom
    <2>3. CASE Put
      <3>1. Head(puts) = "vehkey" \/ Head(puts) = "vehauto"
        BY <2>3, SaveSteps DEF Put, DashInv, TypeOK
      <3>2. flash'.vehkey = flash.vehkey \/ flash'.vehkey = settings.vehkey
        BY <2>1, <2>3, <3>1, PutKeepsSettings DEF Put
      <3>3. settings # flash
        BY <3>2
      <3> QED
        BY <2>3, <3>3 DEF Put, DashInv, CopiesAgree, Phase
    <2>4. CASE Loop /\ ~ Put
      BY <2>1, <2>2, <2>4 DEF Loop, LoopStep, Watchdog, NoAction, DisplayAction, TaskAction,
             VersionAction, VersionDone, UpdateAction, UpdateRuns, UpdateEnds,
             TankCommit, NoTankCommit, VehicleCommit, NoVehicleCommit, Snapshot, Themed,
             FrameDue, NoFrame, Identified, Detect, NoDetect, PickedRestart,
             DetectedRestart, Restart, Goto, SaveThen, storeVars
    <2>5. CASE Input \/ Obd \/ PollHangs \/ HeartbeatStalls \/ CalmDown
      BY <2>1, <2>5 DEF Input, Hold, OpenOverlay, MenuPress, VehiclePress, TankPress,
             Gesture, Obd, PollBegins, PollEnds, PollHangs, HeartbeatStalls, CalmDown,
             storeVars
    <2>6. CASE PowerCut
      BY <2>2, <2>6 DEF PowerCut
    <2>7. CASE UNCHANGED vars
      BY <2>1, <2>7 DEF vars, storeVars
    <2> QED
      BY <2>3, <2>4, <2>5, <2>6, <2>7 DEF Next
  <1>2. DashInv /\ [Next]_vars => [Replaced => then = "picked"]_vars
    BY <1>1
  <1> QED
    BY <1>2, DashInvHolds, PTL DEF Spec, LockKept
=============================================================================
