------------------------------- MODULE Gauges -------------------------------
(***************************************************************************)
(* From the readings of the source to the alarm overlay: the frames of the *)
(* render core (src/src/main.cpp loop()), applyReadings                    *)
(* (src/src/obd_source.h), the arming of the low alarms                    *)
(* (src/src/gauge_model.cpp), the hold-off and the acknowledgement         *)
(* (src/src/alarm_holdoff.cpp, alarm_ack.h) and the scan in ui::render().  *)
(*                                                                         *)
(* A tick is the time from one frame to the next.  A stamp is kept as its  *)
(* age, and not told apart once past what it is compared with: a stamp     *)
(* never gets so old that the signed 32-bit difference changes its sign.   *)
(***************************************************************************)
EXTENDS Integers

CONSTANTS Hold,       \* HOLD_MS of the hold-off, in ticks
          RpmFresh,   \* LOWARM_RPM_FRESH_MS
          Grace,      \* the ten seconds after the first link-up
          LowArm,     \* LOWARM_MS
          Stale,      \* staleMsForTier
          Message     \* how long "Adapter forgotten" is shown

ASSUME GaugesAssumption ==
  {Hold, RpmFresh, Grace, LowArm, Stale, Message} \subseteq Nat \ {0}

(* Rpm gates the low alarm of OilP (RF_LOW_NEEDS_ENGINE); Temp is any      *)
(* other stat with an alarm bound.  Both alarming stats are displayed.     *)
Alarming == {"OilP", "Temp"}
Stat     == Alarming \cup {"Rpm"}
Value(s) == IF s = "Rpm" THEN {"stopped", "running"} ELSE {"Green", "Red"}

VARIABLES link,      \* linkUp of the source's readings
          r,         \* the readings: valid, value, age of the stamp
          low,       \* lowArmTick: armed, running, age of the streak
          hold,      \* AlarmHoldoff: per stat armed, age of since
          acked, shown,     \* AlarmAck, g_alarmShown
          pressed,   \* a press has seen alarmShown() and not yet acked
          seen, upSince,    \* linkSeen, age of linkUpSince
          msg,       \* ticks until g_forgetMsgUntil; -1: long past
          phase, lag,       \* of the frame; ticks since it read the clock
          hot,       \* the stats the overlay lists
          screen,    \* what the last frame put in front
          calm,      \* history: age of the last scan that found a stat Green
          ran,       \* history: age of the last frame that saw no running engine
          up,        \* history: ticks since a frame first found the link up
          owed       \* history: how long an alarm has been due

code == <<link, r, low, hold, acked, shown, pressed, seen, upSince, msg,
          phase, lag, hot, screen>>
vars == <<code, calm, ran, up, owed>>

(* Ages past what they are compared with, and past the lag, are not told   *)
(* apart.                                                                  *)
Older(age, limit) == IF age < limit + 1 THEN age + 1 ELSE age

\* A reading's stamp is compared with both.
Limit == IF RpmFresh > Stale THEN RpmFresh ELSE Stale

Init ==
  /\ link = FALSE
  /\ r = [s \in Stat |-> [valid |-> FALSE, val |-> CHOOSE v \in Value(s) : TRUE,
                          age |-> 0]]
  /\ low = [armed |-> FALSE, running |-> FALSE, since |-> 0]
  /\ hold = [s \in Alarming |-> [armed |-> FALSE, since |-> 0]]
  /\ acked = FALSE /\ shown = FALSE /\ pressed = FALSE
  /\ seen = FALSE /\ upSince = 0
  /\ msg = -1
  /\ phase = "done" /\ lag = 0
  /\ hot = {}
  /\ screen = "splash"
  /\ calm = [s \in Alarming |-> 0]
  /\ ran = 0 /\ up = -1
  /\ owed = [s \in Alarming |-> 0]

-----------------------------------------------------------------------------
(* The source on core 0, the driver, and time *)

LinkChange ==
  /\ link' = ~link
  /\ UNCHANGED <<r, low, hold, acked, shown, pressed, seen, upSince, msg,
                 phase, lag, hot, screen, calm, ran, up, owed>>

(* A reply that decodes to a number.  One that decodes to NaN changes      *)
(* nothing, nor does a link-down: the last value stays, and its stamp.     *)
Reading(s, v) ==
  /\ link
  /\ r' = [r EXCEPT ![s] = [valid |-> TRUE, val |-> v, age |-> 0]]
  /\ UNCHANGED <<link, low, hold, acked, shown, pressed, seen, upSince,
                 msg, phase, lag, hot, screen, calm, ran, up, owed>>

(* A press in the Quad view: if (alarmShown()) ackAlarm(), on core 0.      *)
PressSees ==
  /\ shown
  /\ ~pressed
  /\ pressed' = TRUE
  /\ UNCHANGED <<link, r, low, hold, acked, shown, seen, upSince, msg,
                 phase, lag, hot, screen, calm, ran, up, owed>>

PressAcks ==
  /\ pressed
  /\ pressed' = FALSE
  /\ acked' = TRUE
  /\ UNCHANGED <<link, r, low, hold, shown, seen, upSince, msg, phase,
                 lag, hot, screen, calm, ran, up, owed>>

(* "Forget adapter" in the menu.                                           *)
Forget ==
  /\ msg' = Message
  /\ UNCHANGED <<link, r, low, hold, acked, shown, pressed, seen, upSince,
                 phase, lag, hot, screen, calm, ran, up, owed>>

(* A frame reads the clock at the top of loop() and the readings after     *)
(* that: a tick can fall in between, and then a stamp be ahead of the      *)
(* frame's clock.                                                          *)
Tick ==
  /\ \/ phase = "done" /\ phase' = "captured" /\ lag' = 0
     \/ phase = "captured" /\ lag = 0 /\ lag' = 1 /\ UNCHANGED phase
  /\ r' = [s \in Stat |-> IF r[s].valid THEN [r[s] EXCEPT !.age = Older(@, Limit)]
                          ELSE r[s]]
  /\ low' = IF low.running THEN [low EXCEPT !.since = Older(@, LowArm)] ELSE low
  /\ hold' = [s \in Alarming |->
                IF hold[s].armed THEN [hold[s] EXCEPT !.since = Older(@, Hold)]
                ELSE hold[s]]
  /\ upSince' = IF seen THEN Older(upSince, Grace) ELSE upSince
  /\ msg' = IF msg >= 0 THEN msg - 1 ELSE -1
  /\ calm' = [s \in Alarming |-> Older(calm[s], Hold)]
  /\ ran' = Older(ran, LowArm + 1)
  /\ up' = IF up >= 0 THEN Older(up, Grace + 1) ELSE up
  /\ owed' = [s \in Alarming |-> Older(owed[s], Hold + 2)]
  /\ UNCHANGED <<link, acked, shown, pressed, seen, hot, screen>>

-----------------------------------------------------------------------------
(* A frame of the render core *)

(* The signed difference of the frame's clock and a stamp.                 *)
Delta(age) == age - lag

InWindowUnsigned(s) == Delta(r[s].age) >= 0 /\ Delta(r[s].age) < Stale
InWindow(s) == Delta(r[s].age) < Stale

EngineRunning ==
  /\ link
  /\ r["Rpm"].valid /\ Delta(r["Rpm"].age) < RpmFresh
  /\ r["Rpm"].val = "running"

lowArmTick(running) ==
  IF ~running THEN [armed |-> FALSE, running |-> FALSE, since |-> 0]
  ELSE LET since == IF low.running THEN low.since ELSE lag
       IN  [armed   |-> low.armed \/ Delta(since) >= LowArm,
            running |-> TRUE, since |-> since]

(* applyReadings: the gauges left with a value, and those marked stale.    *)
ValidGauge == {s \in Stat : r[s].valid /\ (link \/ InWindow(s))}
StaleGauge == {s \in Stat : r[s].valid /\ link /\ ~InWindow(s)}

zoneForStat(s, armed) ==
  IF s = "OilP" /\ ~armed THEN "Green" ELSE r[s].val

(* A stale value counts as Green.                                          *)
ScannedZone(s, armed) ==
  IF s \in ValidGauge \ StaleGauge THEN zoneForStat(s, armed) ELSE "Green"

heldOffLatched(s, zone) ==
  IF hold[s].armed THEN hold[s] ELSE [armed |-> zone # "Green", since |-> 0]

(* The hold-off reads the clock again, so its ages are taken as they are.  *)
heldOff(s, zone) ==
  IF zone = "Green"       THEN [armed |-> FALSE, since |-> 0]
  ELSE IF ~hold[s].armed  THEN [armed |-> TRUE, since |-> 0]
  ELSE hold[s]

confirmed(h) == h.armed /\ h.since >= Hold

(* The forget message is ahead of the linked branch, and that one ahead of *)
(* the connection status; render() runs in the linked branch only.         *)
Linked == link /\ ~(msg + lag > 0)

(* The ten seconds run from the first frame that finds the link up.        *)
UpSinceReconnect == IF seen /\ screen = "gauges" THEN upSince ELSE lag
UpSince == IF seen THEN upSince ELSE lag
Suppressed == Delta(UpSince) < Grace

(* An alarm of s is due in this frame, from what the source and the driver *)
(* did and not from what earlier frames made of it.                        *)
Due(s) ==
  /\ Linked /\ up > Grace
  /\ r[s].valid /\ r[s].val = "Red" /\ r[s].age < Stale
  /\ s = "OilP" => EngineRunning /\ ran > LowArm + 1

Frame ==
  /\ phase = "captured"
  /\ phase' = "done" /\ lag' = 0
  /\ low' = lowArmTick(EngineRunning)
  /\ ran' = IF EngineRunning THEN ran ELSE 0
  /\ owed' = [s \in Alarming |-> IF Due(s) THEN owed[s] ELSE 0]
  /\ \/ /\ ~Linked
        /\ screen' = "status"
        /\ UNCHANGED <<hold, acked, shown, seen, upSince, hot, calm, up>>
     \/ /\ Linked
        /\ seen' = TRUE /\ upSince' = UpSince
        /\ up' = IF up < 0 THEN 0 ELSE up
        /\ screen' = "gauges"
        /\ \/ /\ Suppressed
              /\ shown' = FALSE /\ hot' = {}
              /\ UNCHANGED <<hold, acked, calm>>
           \/ /\ ~Suppressed
              /\ LET zone == [s \in Alarming |-> ScannedZone(s, low'.armed)] IN
                 /\ hold' = [s \in Alarming |-> heldOff(s, zone[s])]
                 /\ calm' = [s \in Alarming |-> IF zone[s] = "Green" THEN 0 ELSE calm[s]]
              /\ hot' = {s \in Alarming : confirmed(hold'[s])}
              /\ acked' = (acked /\ hot' # {})
              /\ shown' = (hot' # {} /\ ~acked)
  /\ UNCHANGED <<link, r, pressed, msg>>

Next ==
  \/ LinkChange
  \/ \E s \in Stat : \E v \in Value(s) : Reading(s, v)
  \/ PressSees \/ PressAcks
  \/ Forget
  \/ Tick
  \/ Frame

Spec == Init /\ [][Next]_vars

-----------------------------------------------------------------------------
(* Properties *)

(* Types. *)
TypeOK ==
  /\ r \in [Stat -> [valid : BOOLEAN, val : Value("Rpm") \cup Value("Temp"),
                     age : 0 .. Limit + 1]]
  /\ \A s \in Stat : r[s].val \in Value(s)
  /\ low \in [armed : BOOLEAN, running : BOOLEAN, since : 0 .. LowArm + 1]
  /\ hold \in [Alarming -> [armed : BOOLEAN, since : 0 .. Hold + 1]]
  /\ link \in BOOLEAN /\ acked \in BOOLEAN /\ shown \in BOOLEAN
  /\ pressed \in BOOLEAN /\ seen \in BOOLEAN
  /\ phase \in {"done", "captured"} /\ lag \in 0 .. 1 /\ (phase = "done" => lag = 0)
  /\ upSince \in 0 .. Grace + 1 /\ msg \in -1 .. Message
  /\ hot \subseteq Alarming /\ screen \in {"splash", "status", "gauges"}
  /\ calm \in [Alarming -> 0 .. Hold + 1] /\ owed \in [Alarming -> 0 .. Hold + 3]
  /\ ran \in 0 .. LowArm + 2 /\ up \in -1 .. Grace + 2

FrameDone == phase = "captured" /\ phase' = "done"

(* No false alarm.  A stat the overlay lists was read, and read red, not   *)
(* longer ago than its tier allows (a dead PID does not alarm); no scan    *)
(* found it Green during the hold-off; and oil pressure is listed only     *)
(* with an engine that has been running, by RPM that are fresh, in every   *)
(* frame for the time the pressure takes to build (ui.cpp:937,             *)
(* gauge_model.cpp:33).                                                    *)
AlarmJustified ==
  [][FrameDone /\ screen' = "gauges" => \A s \in hot' :
       /\ r[s].valid /\ r[s].val = "Red" /\ r[s].age <= Stale
       /\ calm'[s] >= Hold
       /\ s = "OilP" =>
            /\ r["Rpm"].val = "running" /\ r["Rpm"].age <= RpmFresh
            /\ ran' >= LowArm]_vars

(* No missed alarm.  Once a red reading has been fresh, on a link that is  *)
(* up, past the start-up grace and in front of the driver for the hold-off *)
(* and the two ticks a frame may take, the stat is listed, and the overlay *)
(* is up unless it was acknowledged.  The grace is not given again when    *)
(* the link comes back (main.cpp:801, ui.cpp:926).                         *)
AlarmRaised ==
  [][FrameDone => \A s \in Alarming :
       owed'[s] > Hold + 2 => s \in hot' /\ (shown' \/ acked')]_vars

(* A gauge is drawn stale when its value is older than its tier allows     *)
(* while the link is up, and never because its stamp is ahead of the       *)
(* frame's clock (obd_source.h:85, :96).                                   *)
GreyWhenOld ==
  /\ []TypeOK
  /\ [][FrameDone => \A s \in Stat :
          /\ s \in StaleGauge => r[s].age >= Stale
          /\ link /\ r[s].valid /\ r[s].age > Stale => s \in StaleGauge]_vars
=============================================================================
