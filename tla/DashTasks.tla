------------------------------ MODULE DashTasks ------------------------------
(***************************************************************************)
(* The tasks of src/main.cpp and what they hand to each other: loop() on   *)
(* core 1, which owns the settings, their copy on flash and the restarts;  *)
(* the input task on core 0 (src/encoder_input.cpp), which moves between   *)
(* the gauges and the overlays and queues what the user chose; and the OBD *)
(* task on core 0, which polls and publishes the VIN.                      *)
(*                                                                         *)
(* Time is abstract: a blocking call is a state other tasks run in.  Of    *)
(* the settings the model keeps the two that decide which profile runs; a  *)
(* save writes them one after the other, in the order of saveSettings(),   *)
(* and the power may fail in between.  Saves of the others (display, tank, *)
(* vehicle name) take the same steps and change nothing kept here.  What   *)
(* happens inside a poll is BleConnection and ObdQuery.                    *)
(***************************************************************************)
EXTENDS Naturals, Sequences

CONSTANTS
  Profile,   \* keys of the vehicle registry
  Dead,      \* a key no profile of this firmware has
  None,      \* the empty key or VIN
  Car,       \* vehicles, told apart by their VIN
  Target,    \* Target[c]: the profile of c's VIN, or None
  AutoRow,   \* the Auto-detect row of the vehicle picker
  NoReq,     \* an empty commit queue
  FlashInit, \* settings that may be on flash at the first boot
  MaxCuts    \* bound: power cuts

ASSUME DashTasksAssumption ==
  /\ None \notin Profile \cup Car /\ Dead \notin Profile \cup {None}
  /\ AutoRow \notin Profile /\ NoReq \notin Profile \cup {AutoRow}
  /\ Target \in [Car -> Profile \cup {None}]
  /\ FlashInit \subseteq [vehkey : Profile \cup {Dead, None}, vehauto : BOOLEAN]
  /\ MaxCuts \in Nat

VARIABLES
  pc,       \* where loop() is
  then,     \* where it goes when the save under way is done
  puts,     \* the keys that save has still to write
  settings, \* the global `settings`, in RAM
  flash,    \* its copy in NVS
  profile,  \* g_activeProfile; None is Generic
  view,     \* navState.view
  shown,    \* loop()'s snapshot of it
  reading,  \* loop()'s snapshot of the published VIN
  act,      \* g_menuAction
  vehReq,   \* g_vehCommitReq and g_vehCommitSel
  tankReq,  \* g_tankCommitReq
  gestured, \* has the user done something since this loop began?
  suspend,  \* g_suspendObd
  poll,     \* the OBD task: "idle", "busy", "hung" or "stalled"
  vin,      \* the published VIN, as the car it names
  car,      \* the car the dash is in
  cuts,     \* power cuts so far
  calm      \* has the world stopped interfering?

loopVars  == <<pc, then, puts, shown, reading>>
storeVars == <<settings, flash, profile>>
inputVars == <<view, act, vehReq, tankReq, gestured>>
obdVars   == <<suspend, poll, vin>>
world     == <<car, cuts, calm>>
vars == <<loopVars, storeVars, inputVars, obdVars, world>>

\* "Quad" is the gauges, the trend of one of them (Focus) included.
View == {"Quad", "Menu", "TimeSet", "VehiclePick", "TankPick"}
Key  == Profile \cup {Dead, None}
Settings  == [vehkey : Key, vehauto : BOOLEAN]
SaveOrder == <<"vehkey", "vehauto">>
-----------------------------------------------------------------------------
(* setup(): a key this firmware cannot resolve is cleared and saved.       *)
Resolved(s) == IF s.vehkey \in Profile THEN s ELSE [s EXCEPT !.vehkey = None]

BootFrom(s) ==
  /\ settings' = Resolved(s) /\ flash' = Resolved(s)
  /\ profile' = Resolved(s).vehkey
  /\ pc' = "loop" /\ then' = "loop" /\ puts' = << >>
  /\ shown' = "Quad" /\ reading' = None
  /\ view' = "Quad" /\ act' = "none" /\ vehReq' = NoReq /\ tankReq' = FALSE
  /\ gestured' = FALSE
  /\ suspend' = FALSE /\ poll' = "idle" /\ vin' = None

Init ==
  /\ \E s \in FlashInit :
       settings = Resolved(s) /\ flash = Resolved(s) /\ profile = Resolved(s).vehkey
  /\ pc = "loop" /\ then = "loop" /\ puts = << >>
  /\ shown = "Quad" /\ reading = None
  /\ view = "Quad" /\ act = "none" /\ vehReq = NoReq /\ tankReq = FALSE
  /\ gestured = FALSE
  /\ suspend = FALSE /\ poll = "idle" /\ vin = None
  /\ car \in Car /\ cuts = 0 /\ calm = FALSE

Restart == BootFrom(flash) /\ UNCHANGED world

\* saveSettings(settings), after which loop() goes on at `next`.
SaveThen(next) ==
  /\ puts' = SaveOrder /\ then' = next /\ pc' = "save"
  /\ UNCHANGED <<flash, shown>>

Goto(next) == pc' = next /\ UNCHANGED <<then, puts, shown>>

Put ==
  /\ pc = "save"
  /\ flash' = [flash EXCEPT ![Head(puts)] = settings[Head(puts)]]
  /\ puts' = Tail(puts)
  /\ IF Len(puts) = 1 THEN pc' = then /\ then' = "loop" ELSE UNCHANGED <<pc, then>>
  /\ UNCHANGED <<shown, reading, settings, profile, inputVars, obdVars, world>>
-----------------------------------------------------------------------------
(* loop() on core 1.                                                       *)
\* A bug the watchdog could have: it stands down while an overlay is open.
WatchdogOffInOverlay ==
  /\ pc = "loop" /\ poll = "stalled" /\ view = "Quad"
  /\ Restart

\* The heartbeat has been silent for 240 s.
Watchdog ==
  /\ pc = "loop" /\ poll = "stalled"
  /\ Restart

TakeAction(a) ==
  /\ pc = "loop" /\ poll # "stalled" /\ act = a
  /\ act' = "none" /\ gestured' = FALSE
  /\ UNCHANGED <<view, vehReq, tankReq>>

NoAction ==
  /\ TakeAction("none") /\ Goto("tank")
  /\ UNCHANGED <<reading, storeVars, obdVars, world>>

\* Night, brightness, units and logging: a changed display setting is saved.
DisplayAction ==
  /\ TakeAction("display") /\ SaveThen("tank")
  /\ UNCHANGED <<reading, settings, profile, obdVars, world>>

\* Forget and reset trip: marshalled to the OBD task, nothing is saved.
TaskAction ==
  /\ TakeAction("task") /\ Goto("tank")
  /\ UNCHANGED <<reading, storeVars, obdVars, world>>

\* The version card holds loop() for four seconds.
VersionAction ==
  /\ TakeAction("version") /\ Goto("version")
  /\ UNCHANGED <<reading, storeVars, obdVars, world>>

VersionDone ==
  /\ pc = "version" /\ Goto("tank")
  /\ UNCHANGED <<reading, storeVars, inputVars, obdVars, world>>

\* WiFi set-up or update check: suspend the OBD task, wait 150 ms, ...
UpdateAction ==
  /\ TakeAction("update") /\ Goto("quiesce")
  /\ suspend' = TRUE
  /\ UNCHANGED <<reading, storeVars, poll, vin, world>>

\* ... free the Bluetooth stack, whatever the poll is doing, and run the flow, ...
UpdateRuns ==
  /\ pc = "quiesce" /\ Goto("update")
  /\ UNCHANGED <<reading, storeVars, inputVars, obdVars, world>>

\* ... which restarts when it is over.  Its download has no deadline.
UpdateEnds == pc = "update" /\ Restart

TankCommit ==
  /\ pc = "tank" /\ tankReq
  /\ tankReq' = FALSE
  /\ SaveThen("vehicle")
  /\ UNCHANGED <<reading, settings, profile, view, act, vehReq, gestured, obdVars, world>>

NoTankCommit ==
  /\ pc = "tank" /\ ~ tankReq /\ Goto("vehicle")
  /\ UNCHANGED <<reading, storeVars, inputVars, obdVars, world>>

VehicleCommit ==
  /\ pc = "vehicle" /\ vehReq # NoReq
  /\ settings' = IF vehReq = AutoRow
                 THEN [settings EXCEPT !.vehauto = TRUE, !.vehkey = None]
                 ELSE [settings EXCEPT !.vehauto = FALSE, !.vehkey = vehReq]
  /\ vehReq' = NoReq
  /\ SaveThen("picked")
  /\ UNCHANGED <<reading, profile, view, act, tankReq, gestured, obdVars, world>>

NoVehicleCommit ==
  /\ pc = "vehicle" /\ vehReq = NoReq /\ Goto("snapshot")
  /\ UNCHANGED <<reading, storeVars, inputVars, obdVars, world>>

(* The overlays as they are now decide about this frame.                   *)
Snapshot ==
  /\ pc = "snapshot"
  /\ pc' = "theme" /\ shown' = view
  /\ UNCHANGED <<then, puts, reading, storeVars, inputVars, obdVars, world>>

\* The theme this tick resolves to may be a new one, which is saved.
Themed ==
  /\ pc = "theme"
  /\ \/ SaveThen("gate")
     \/ Goto("gate") /\ UNCHANGED flash
  /\ UNCHANGED <<reading, settings, profile, inputVars, obdVars, world>>

FrameDue ==
  /\ pc = "gate"
  /\ pc' = "name" /\ reading' = vin
  /\ UNCHANGED <<then, puts, shown, storeVars, inputVars, obdVars, world>>

\* Early in the splash, or less than 80 ms after the last frame.
NoFrame ==
  /\ pc = "gate"
  /\ pc' = "loop" /\ shown' = "Quad"
  /\ UNCHANGED <<then, puts, reading, storeVars, inputVars, obdVars, world>>

\* A bug the frame could have: a menu does not count as an open overlay.
OverlayOpenButMenu == shown \in {"VehiclePick", "TimeSet"}

OverlayOpen == shown \in {"VehiclePick", "Menu", "TimeSet"}

\* The vehicle's name is saved when it is not the one on flash.
Identified ==
  /\ pc = "name"
  /\ \/ reading # None /\ ~ OverlayOpen /\ SaveThen("detect")
     \/ Goto("detect") /\ UNCHANGED flash
  /\ UNCHANGED <<reading, settings, profile, inputVars, obdVars, world>>

\* A bug detection could have: a lock is ignored.
AutoTargetIgnoresLock ==
  IF reading # None /\ Target[reading] # settings.vehkey THEN Target[reading] ELSE None

\* vinAutoTarget
AutoTarget ==
  IF settings.vehauto /\ reading # None /\ Target[reading] # settings.vehkey
  THEN Target[reading] ELSE None

\* A bug detection could have: the new key is not saved before the restart.
DetectUnsaved ==
  /\ pc = "detect" /\ ~ OverlayOpen /\ AutoTarget # None
  /\ settings' = [settings EXCEPT !.vehkey = AutoTarget]
  /\ reading' = None
  /\ Goto("detected")
  /\ UNCHANGED <<flash, profile, inputVars, obdVars, world>>

Detect ==
  /\ pc = "detect" /\ ~ OverlayOpen /\ AutoTarget # None
  /\ settings' = [settings EXCEPT !.vehkey = AutoTarget]
  /\ reading' = None
  /\ SaveThen("detected")
  /\ UNCHANGED <<profile, inputVars, obdVars, world>>

NoDetect ==
  /\ pc = "detect" /\ (OverlayOpen \/ AutoTarget = None)
  /\ pc' = "loop" /\ shown' = "Quad" /\ reading' = None
  /\ UNCHANGED <<then, puts, storeVars, inputVars, obdVars, world>>

PickedRestart == pc = "picked" /\ Restart
DetectedRestart == pc = "detected" /\ Restart

\* What loop() does by itself, whatever the network does.
LoopStep ==
  \/ Watchdog
  \/ NoAction \/ DisplayAction \/ TaskAction
  \/ VersionAction \/ VersionDone
  \/ UpdateAction \/ UpdateRuns
  \/ TankCommit \/ NoTankCommit \/ VehicleCommit \/ NoVehicleCommit
  \/ Snapshot \/ Themed \/ FrameDue \/ NoFrame
  \/ Identified \/ Detect \/ NoDetect
  \/ PickedRestart \/ DetectedRestart \/ Put

Loop == LoopStep \/ UpdateEnds
-----------------------------------------------------------------------------
(* The input task.  A press takes at least its debounce and a hold 600 ms: *)
(* no more than one fits into an iteration of loop(), unless it blocks.    *)
Gesture ==
  /\ ~ calm
  /\ ~ gestured \/ pc \in {"version", "update"}
  /\ gestured' = TRUE
  /\ UNCHANGED <<loopVars, storeVars, obdVars, world>>

Hold ==
  /\ Gesture
  /\ view' = IF view \in {"Quad", "TimeSet", "VehiclePick", "TankPick"} THEN "Menu" ELSE "Quad"
  /\ UNCHANGED <<act, vehReq, tankReq>>

OpenOverlay ==
  /\ Gesture /\ view = "Menu"
  /\ view' \in {"TimeSet", "VehiclePick", "TankPick", "Quad"}
  /\ UNCHANGED <<act, vehReq, tankReq>>

MenuPress ==
  /\ Gesture /\ view = "Menu"
  /\ act' \in {"display", "task", "version", "update"}
  /\ view' = IF act' = "task" THEN "Quad" ELSE "Menu"
  /\ UNCHANGED <<vehReq, tankReq>>

VehiclePress ==
  /\ Gesture /\ view = "VehiclePick"
  /\ vehReq' \in Profile \cup {AutoRow}
  /\ view' = "Menu"
  /\ UNCHANGED <<act, tankReq>>

TankPress ==
  /\ Gesture /\ view = "TankPick"
  /\ tankReq' = TRUE
  /\ view' = "Menu"
  /\ UNCHANGED <<act, vehReq>>

Input == Hold \/ OpenOverlay \/ MenuPress \/ VehiclePress \/ TankPress
-----------------------------------------------------------------------------
(* The OBD task: a poll may block, and may come back with the car's VIN.   *)
PollBegins ==
  /\ poll = "idle" /\ ~ suspend
  /\ poll' = "busy"
  /\ UNCHANGED <<suspend, vin, loopVars, storeVars, inputVars, world>>

PollEnds ==
  /\ poll = "busy"
  /\ poll' = "idle"
  /\ vin' \in IF calm THEN {car} ELSE {vin, car}
  /\ UNCHANGED <<suspend, loopVars, storeVars, inputVars, world>>

PollHangs ==
  /\ poll = "busy" /\ ~ calm
  /\ poll' = "hung"
  /\ UNCHANGED <<suspend, vin, loopVars, storeVars, inputVars, world>>

HeartbeatStalls ==
  /\ poll = "hung"
  /\ poll' = "stalled"
  /\ UNCHANGED <<suspend, vin, loopVars, storeVars, inputVars, world>>

Obd == PollBegins \/ PollEnds
-----------------------------------------------------------------------------
(* Everything else: the ignition, another car, and peace.                  *)
PowerCut ==
  /\ ~ calm /\ cuts < MaxCuts
  /\ BootFrom(flash)
  /\ cuts' = cuts + 1
  /\ car' \in Car
  /\ UNCHANGED calm

CalmDown ==
  /\ ~ calm /\ view = "Quad"
  /\ calm' = TRUE
  /\ UNCHANGED <<loopVars, storeVars, inputVars, obdVars, car, cuts>>

Next == Loop \/ Input \/ Obd \/ PollHangs \/ HeartbeatStalls \/ PowerCut \/ CalmDown

Spec == Init /\ [][Next]_vars

(* Both cores keep running and frames keep being drawn; nothing is assumed *)
(* of the update flow, which may wait for the network for ever.            *)
FairSpec ==
  /\ Spec
  /\ WF_vars(LoopStep) /\ WF_vars(Obd) /\ WF_vars(HeartbeatStalls)
  /\ SF_vars(FrameDue)
-----------------------------------------------------------------------------
(* Types. *)
TypeOK ==
  /\ pc \in {"loop", "version", "quiesce", "update", "tank", "vehicle", "snapshot",
             "theme", "gate", "name", "detect", "save", "picked", "detected"}
  /\ then \in {"loop", "tank", "vehicle", "gate", "detect", "picked", "detected"}
  /\ puts \in {SaveOrder, Tail(SaveOrder), << >>}
  /\ pc = "save" <=> puts # << >>
  /\ settings \in Settings /\ flash \in Settings
  /\ profile \in Profile \cup {None}
  /\ view \in View /\ shown \in View
  /\ vin \in Car \cup {None} /\ reading \in Car \cup {None}
  /\ act \in {"none", "display", "task", "version", "update"}
  /\ vehReq \in Profile \cup {AutoRow, NoReq}
  /\ tankReq \in BOOLEAN /\ gestured \in BOOLEAN
  /\ suspend \in BOOLEAN /\ calm \in BOOLEAN
  /\ poll \in {"idle", "busy", "hung", "stalled"}
  /\ car \in Car /\ cuts \in 0 .. MaxCuts

(* No poll is running when the Bluetooth stack is freed for the update:    *)
(* "let an in-flight poll() finish", "safe here because the task above is  *)
(* idled".                                                                 *)
UpdateAlone == pc = "update" => poll # "busy"

(* A restart for a detected vehicle never discards the vehicle the user    *)
(* has just picked: the press leaves the menu open, and the frame that     *)
(* would restart defers to it.                                             *)
PickKept == TypeOK /\ (pc = "detected" => vehReq = NoReq)

(* A profile the user has locked is never replaced by detection, whatever  *)
(* restarts and power cuts fall between the two.                           *)
LockKept ==
  [][(~ flash.vehauto /\ flash.vehkey \in Profile /\ flash'.vehkey # flash.vehkey)
       => then = "picked"]_vars

(* Once nothing interferes any more, the dash runs the profile of the car  *)
(* it is in, unless one is locked, and detection restarts it no more: "no  *)
(* reboot loop".  Only an update flow that never ends is excepted.         *)
Settled == settings.vehauto /\ Target[car] # None => profile = Target[car]
ProfileSettles ==
  calm ~> ([](Settled /\ pc # "detected") \/ [](pc = "update"))

(* A hung poll always ends in a restart, whatever loop() is busy with, but *)
(* for an update flow that never ends.                                     *)
HangCleared == poll = "hung" ~> (poll = "idle" \/ [](pc = "update"))
=============================================================================
