----------------------------- MODULE Gauges_proofs -----------------------------
(***************************************************************************)
(* The alarm overlay raises no false alarm and misses none, and a gauge is *)
(* grey when its value is old: for every hold-off, grace, arming time and  *)
(* staleness limit, with readings, ticks and presses falling anywhere      *)
(* between the clock read of a frame and its end.                          *)
(*                                                                         *)
(* AlarmInv relates each clock of the code to what really happened: the    *)
(* arming of the low alarms to the frames that saw the engine run, the     *)
(* hold-off to the last scan that found a stat Green, the grace to the     *)
(* first frame that found the link up.                                     *)
(***************************************************************************)
EXTENDS Gauges, TLAPS

\* The ticks since the last frame ended, none of them having been a frame.
SinceFrame == IF phase = "captured" THEN lag + 1 ELSE 0

(* The streak of lowArmTick began one tick after the last frame that saw   *)
(* no running engine, and arms no earlier than LowArm after that frame.    *)
ArmClock ==
  /\ low.running  => ran = low.since + 1
  /\ ~low.running => ran = SinceFrame
  /\ low.armed    => low.running /\ ran >= LowArm

(* The hold-off is no older than the last Green scan, and no more than two *)
(* ticks younger than the alarm it holds off.                              *)
HoldClock ==
  \A s \in Alarming :
    /\ hold[s].armed  => calm[s] >= hold[s].since /\ owed[s] <= hold[s].since + 2
    /\ ~hold[s].armed => owed[s] <= SinceFrame

\* The grace runs from the first frame that found the link up, once.
GraceClock == /\ seen <=> up >= 0
              /\ seen => (upSince >= up \/ upSince > Grace)

\* The flags of TypeOK, which the provers take apart from the rest.
Flags == /\ link \in BOOLEAN /\ acked \in BOOLEAN /\ shown \in BOOLEAN
         /\ pressed \in BOOLEAN /\ seen \in BOOLEAN

AlarmInv == TypeOK /\ ArmClock /\ HoldClock /\ GraceClock
-----------------------------------------------------------------------------
(* What is assumed of the times.                                           *)
LEMMA Constants ==
  /\ Hold \in Nat /\ Hold >= 1 /\ RpmFresh \in Nat /\ RpmFresh >= 1
  /\ Grace \in Nat /\ Grace >= 1 /\ LowArm \in Nat /\ LowArm >= 1
  /\ Stale \in Nat /\ Stale >= 1 /\ Message \in Nat /\ Message >= 1
  /\ Limit \in Nat /\ Limit >= RpmFresh /\ Limit >= Stale
  BY GaugesAssumption DEF Limit

(* An age grows by one tick, up to one past what it is compared with.      *)
LEMMA OlderAge ==
  ASSUME NEW limit \in Nat, NEW age \in 0 .. limit + 1
  PROVE  /\ Older(age, limit) \in 0 .. limit + 1
         /\ Older(age, limit) >= age
         /\ Older(age, limit) = IF age = limit + 1 THEN age ELSE age + 1
  BY DEF Older

(* At a boot nothing is alarmed, shown or counted.                         *)
LEMMA InitAlarm == Init => AlarmInv
  <1> SUFFICES ASSUME Init PROVE AlarmInv
    OBVIOUS
  <1>1. \A s \in Stat : (CHOOSE v \in Value(s) : TRUE) \in Value(s)
    BY DEF Value
  <1>2. TypeOK
    <2>1. /\ r \in [Stat -> [valid : BOOLEAN, val : Value("Rpm") \cup Value("Temp"),
                            age : 0 .. Limit + 1]]
          /\ \A s \in Stat : r[s].val \in Value(s)
      <3> DEFINE First(s) == [valid |-> FALSE, val |-> CHOOSE v \in Value(s) : TRUE, age |-> 0]
      <3>1. ASSUME NEW s \in Stat
            PROVE  /\ First(s) \in [valid : BOOLEAN, val : Value("Rpm") \cup Value("Temp"),
                                    age : 0 .. Limit + 1]
                   /\ First(s).val \in Value(s)
        <4>1. (CHOOSE v \in Value(s) : TRUE) \in Value(s)
          BY <1>1
        <4>2. Value(s) \subseteq Value("Rpm") \cup Value("Temp")
          BY DEF Value
        <4> QED
          BY <4>1, <4>2, Constants
      <3>2. r = [s \in Stat |-> First(s)]
        BY DEF Init
      <3> HIDE DEF First
      <3> QED
        BY <3>1, <3>2
    <2>2. /\ low \in [armed : BOOLEAN, running : BOOLEAN, since : 0 .. LowArm + 1]
          /\ hold \in [Alarming -> [armed : BOOLEAN, since : 0 .. Hold + 1]]
      BY Constants DEF Init
    <2>3. Flags
      BY DEF Init, Flags
    <2>4. calm \in [Alarming -> 0 .. Hold + 1] /\ owed \in [Alarming -> 0 .. Hold + 3]
      BY Constants DEF Init
    <2>5. /\ phase \in {"done", "captured"} /\ lag \in 0 .. 1 /\ (phase = "done" => lag = 0)
          /\ upSince \in 0 .. Grace + 1 /\ msg \in -1 .. Message
          /\ hot \subseteq Alarming /\ screen \in {"splash", "status", "gauges"}
          /\ ran \in 0 .. LowArm + 2 /\ up \in -1 .. Grace + 2
      BY Constants DEF Init
    <2> QED
      BY <2>1, <2>2, <2>3, <2>4, <2>5 DEF Flags, TypeOK
  <1> QED
    BY <1>2, Constants DEF Init, AlarmInv, ArmClock, HoldClock, GraceClock, SinceFrame

(* A tick makes everything older by the same.                              *)
LEMMA TickAlarm == AlarmInv /\ Tick => AlarmInv'
  <1> SUFFICES ASSUME AlarmInv, Tick PROVE AlarmInv'
    OBVIOUS
  <1>1. TypeOK
    BY DEF AlarmInv
  <1>2. /\ r' \in [Stat -> [valid : BOOLEAN, val : Value("Rpm") \cup Value("Temp"),
                           age : 0 .. Limit + 1]]
        /\ \A s \in Stat : r'[s].val \in Value(s)
    <2>1. ASSUME NEW s \in Stat
          PROVE  /\ r'[s] \in [valid : BOOLEAN, val : Value("Rpm") \cup Value("Temp"),
                              age : 0 .. Limit + 1]
                 /\ r'[s].val \in Value(s)
      <3>1. /\ r[s] \in [valid : BOOLEAN, val : Value("Rpm") \cup Value("Temp"),
                        age : 0 .. Limit + 1]
            /\ r[s].val \in Value(s)
        BY <1>1, <2>1 DEF TypeOK
      <3>2. Older(r[s].age, Limit) \in 0 .. Limit + 1
        BY <3>1, OlderAge, Constants
      <3>3. r'[s] = IF r[s].valid THEN [r[s] EXCEPT !.age = Older(@, Limit)] ELSE r[s]
        BY <2>1 DEF Tick
      <3> QED
        BY <3>1, <3>2, <3>3
    <2> QED
      BY <2>1 DEF Tick
  <1>3. /\ low' \in [armed : BOOLEAN, running : BOOLEAN, since : 0 .. LowArm + 1]
        /\ low'.running = low.running /\ low'.armed = low.armed
        /\ low.running => low'.since = Older(low.since, LowArm)
    <2>1. low.running => Older(low.since, LowArm) \in 0 .. LowArm + 1
      BY <1>1, OlderAge, Constants DEF TypeOK
    <2> QED
      BY <1>1, <2>1 DEF Tick, TypeOK
  <1>4. hold' \in [Alarming -> [armed : BOOLEAN, since : 0 .. Hold + 1]]
    <2>1. ASSUME NEW s \in Alarming
          PROVE  hold'[s] \in [armed : BOOLEAN, since : 0 .. Hold + 1]
      <3>1. hold[s] \in [armed : BOOLEAN, since : 0 .. Hold + 1]
        BY <1>1 DEF TypeOK
      <3>2. Older(hold[s].since, Hold) \in 0 .. Hold + 1
        BY <3>1, OlderAge, Constants
      <3> QED
        BY <3>1, <3>2 DEF Tick
    <2> QED
      BY <2>1 DEF Tick
  <1>5. calm' \in [Alarming -> 0 .. Hold + 1] /\ owed' \in [Alarming -> 0 .. Hold + 3]
    <2>1. ASSUME NEW s \in Alarming
          PROVE  /\ Older(calm[s], Hold) \in 0 .. Hold + 1
                 /\ Older(owed[s], Hold + 2) \in 0 .. Hold + 3
      BY <1>1, Constants DEF TypeOK, Older
    <2> QED
      BY <2>1 DEF Tick
  <1>6. /\ upSince' \in 0 .. Grace + 1 /\ msg' \in -1 .. Message
        /\ ran' \in 0 .. LowArm + 2 /\ up' \in -1 .. Grace + 2
    BY <1>1, Constants DEF TypeOK, Tick, Older
  <1>7. phase' \in {"done", "captured"} /\ lag' \in 0 .. 1 /\ (phase' = "done" => lag' = 0)
    BY DEF Tick
  <1>8. TypeOK'
    BY <1>1, <1>2, <1>3, <1>4, <1>5, <1>6, <1>7 DEF Tick, TypeOK
  <1>9. SinceFrame' = SinceFrame + 1 /\ SinceFrame' \in 1 .. 2
    BY <1>1 DEF Tick, TypeOK, SinceFrame
  <1>10. ArmClock'
    <2>1. low.since \in 0 .. LowArm + 1 /\ ran \in 0 .. LowArm + 2
      BY <1>1 DEF TypeOK
    <2>2. ran' = Older(ran, LowArm + 1)
      BY DEF Tick
    <2> QED
      BY <1>3, <1>9, <2>1, <2>2, Constants DEF AlarmInv, ArmClock, Older
  <1>11. HoldClock'
    <2> SUFFICES ASSUME NEW s \in Alarming
                 PROVE  /\ hold'[s].armed  => /\ calm'[s] >= hold'[s].since
                                              /\ owed'[s] <= hold'[s].since + 2
                        /\ ~hold'[s].armed => owed'[s] <= SinceFrame'
      BY DEF HoldClock
    <2>1. /\ hold[s] \in [armed : BOOLEAN, since : 0 .. Hold + 1]
          /\ calm[s] \in 0 .. Hold + 1 /\ owed[s] \in 0 .. Hold + 3
      BY <1>1 DEF TypeOK
    <2>2. /\ calm'[s] = Older(calm[s], Hold) /\ owed'[s] = Older(owed[s], Hold + 2)
          /\ hold'[s] = IF hold[s].armed
                        THEN [hold[s] EXCEPT !.since = Older(@, Hold)] ELSE hold[s]
      BY DEF Tick
    <2>3. /\ hold'[s].armed = hold[s].armed
          /\ hold[s].armed => hold'[s].since = Older(hold[s].since, Hold)
      BY <2>1, <2>2
    <2>4. /\ hold[s].armed  => calm[s] >= hold[s].since /\ owed[s] <= hold[s].since + 2
          /\ ~hold[s].armed => owed[s] <= SinceFrame
      BY DEF AlarmInv, HoldClock
    <2>5. hold[s].since \in 0 .. Hold + 1
      BY <2>1
    <2>6. CASE hold[s].armed
      BY <2>1, <2>2, <2>3, <2>4, <2>5, <2>6, Constants DEF Older
    <2>7. CASE ~hold[s].armed
      <3>1. owed'[s] <= owed[s] + 1
        BY <2>1, <2>2, Constants DEF Older
      <3>2. SinceFrame \in Nat /\ owed'[s] \in Nat
        BY <1>1, <2>1, <2>2, Constants DEF TypeOK, SinceFrame, Older
      <3> QED
        BY <1>9, <2>1, <2>3, <2>4, <2>7, <3>1, <3>2
    <2> QED
      BY <2>6, <2>7
  <1>12. GraceClock'
    BY <1>1, Constants DEF AlarmInv, TypeOK, GraceClock, Tick, Older
  <1> QED
    BY <1>8, <1>10, <1>11, <1>12 DEF AlarmInv
-----------------------------------------------------------------------------
(* The scan of one stat in a frame that draws the gauges past the grace.   *)
LEMMA ScanStep ==
  ASSUME Frame, Linked, ~Suppressed, NEW s \in Alarming
  PROVE  LET zone == ScannedZone(s, low'.armed) IN
         /\ hold'[s] = heldOff(s, zone)
         /\ calm'[s] = IF zone = "Green" THEN 0 ELSE calm[s]
         /\ s \in hot' <=> confirmed(hold'[s])
  <1> DEFINE zone == [t \in Alarming |-> ScannedZone(t, low'.armed)]
  <1>1. /\ hold' = [t \in Alarming |-> heldOff(t, zone[t])]
        /\ calm' = [t \in Alarming |-> IF zone[t] = "Green" THEN 0 ELSE calm[t]]
        /\ hot' = {t \in Alarming : confirmed(hold'[t])}
    BY DEF Frame
  <1>2. zone[s] = ScannedZone(s, low'.armed)
    OBVIOUS
  <1> HIDE DEF zone
  <1> QED
    BY <1>1, <1>2

(* A stat is not Green in the scan only if it is read red, on a link that  *)
(* is up, by a stamp that has not run out.                                 *)
LEMMA ScannedRed ==
  ASSUME TypeOK, Linked, NEW s \in Alarming, NEW armed \in BOOLEAN
  PROVE  ScannedZone(s, armed) # "Green" <=>
           /\ r[s].valid /\ r[s].val = "Red" /\ Delta(r[s].age) < Stale
           /\ s = "OilP" => armed
  <1>1. s \in Stat /\ Value(s) = {"Green", "Red"} /\ r[s].val \in {"Green", "Red"} /\ link
    BY DEF TypeOK, Alarming, Stat, Value, Linked
  <1>2. s \in ValidGauge \ StaleGauge <=> r[s].valid /\ Delta(r[s].age) < Stale
    BY <1>1 DEF ValidGauge, StaleGauge, InWindow
  <1>3. zoneForStat(s, armed) # "Green" <=> r[s].val = "Red" /\ (s = "OilP" => armed)
    BY <1>1 DEF zoneForStat
  <1> QED
    BY <1>2, <1>3 DEF ScannedZone

(* The low alarms arm by the frames that saw the engine run.               *)
LEMMA FrameArm ==
  ASSUME AlarmInv, Frame
  PROVE  /\ ArmClock'
         /\ low' \in [armed : BOOLEAN, running : BOOLEAN, since : 0 .. LowArm + 1]
         /\ ran' \in 0 .. LowArm + 2
         /\ low'.running <=> EngineRunning
         /\ EngineRunning => ran' = ran /\ (ran > LowArm + 1 => low'.armed)
  <1>1. /\ low \in [armed : BOOLEAN, running : BOOLEAN, since : 0 .. LowArm + 1]
        /\ ran \in 0 .. LowArm + 2 /\ lag \in 0 .. 1
        /\ low.since \in 0 .. LowArm + 1
    BY DEF AlarmInv, TypeOK
  <1>2. SinceFrame = lag + 1 /\ SinceFrame' = 0
    BY DEF Frame, SinceFrame
  <1>3. /\ low' = lowArmTick(EngineRunning)
        /\ ran' = IF EngineRunning THEN ran ELSE 0
    BY DEF Frame
  <1>4. CASE ~EngineRunning
    <2>1. low' = [armed |-> FALSE, running |-> FALSE, since |-> 0] /\ ran' = 0
      BY <1>3, <1>4 DEF lowArmTick
    <2> QED
      BY <1>2, <1>4, <2>1, Constants DEF ArmClock
  <1>5. CASE EngineRunning
    <2> DEFINE since == IF low.running THEN low.since ELSE lag
    <2>1. /\ low' = [armed |-> low.armed \/ Delta(since) >= LowArm,
                     running |-> TRUE, since |-> since]
          /\ ran' = ran
      BY <1>3, <1>5 DEF lowArmTick
    <2>2. since \in 0 .. LowArm + 1 /\ ran = since + 1
      BY <1>1, <1>2, Constants DEF AlarmInv, ArmClock
    <2> HIDE DEF since
    <2>3. /\ low'.running /\ low'.since = since
          /\ low'.armed <=> low.armed \/ Delta(since) >= LowArm
      BY <2>1
    <2>4. low'.armed => ran >= LowArm
      BY <1>1, <2>2, <2>3, Constants DEF AlarmInv, ArmClock, Delta
    <2>5. ran > LowArm + 1 => low'.armed
      BY <1>1, <2>2, <2>3, Constants DEF Delta
    <2>6. low' \in [armed : BOOLEAN, running : BOOLEAN, since : 0 .. LowArm + 1]
      BY <2>1, <2>2
    <2> QED
      BY <1>1, <1>5, <2>1, <2>2, <2>3, <2>4, <2>5, <2>6 DEF ArmClock
  <1> QED
    BY <1>4, <1>5

(* Once the grace is over by the first link-up, no frame is suppressed.    *)
LEMMA GraceIsOver ==
  ASSUME AlarmInv, up > Grace
  PROVE  ~Suppressed
  BY Constants DEF AlarmInv, TypeOK, GraceClock, Suppressed, UpSince, Delta

(* A frame an alarm is due in scans it as red, and its hold-off runs.      *)
LEMMA DueIsHeld ==
  ASSUME AlarmInv, Frame, NEW s \in Alarming, Due(s)
  PROVE  /\ Linked /\ ~Suppressed
         /\ ScannedZone(s, low'.armed) # "Green"
         /\ hold'[s].armed /\ owed'[s] <= hold'[s].since + 2
  <1>1. Linked /\ ~Suppressed
    BY GraceIsOver DEF Due
  <1>2. TypeOK /\ low'.armed \in BOOLEAN /\ s \in Stat /\ lag \in 0 .. 1
    BY FrameArm DEF AlarmInv, TypeOK, Stat
  <1>3. r[s].age \in 0 .. Limit + 1
    BY <1>2 DEF TypeOK
  <1>4. r[s].valid /\ r[s].val = "Red" /\ Delta(r[s].age) < Stale
    BY <1>2, <1>3, Constants DEF Due, Delta
  <1>5. s = "OilP" => low'.armed
    BY <1>2, FrameArm DEF Due
  <1>6. ScannedZone(s, low'.armed) # "Green"
    BY <1>1, <1>2, <1>4, <1>5, ScannedRed
  <1>7. hold'[s] = IF hold[s].armed THEN hold[s] ELSE [armed |-> TRUE, since |-> 0]
    BY <1>1, <1>6, ScanStep DEF heldOff
  <1>8. owed'[s] = owed[s]
    BY DEF Frame
  <1>9. /\ owed[s] \in 0 .. Hold + 3 /\ hold[s].since \in 0 .. Hold + 1
        /\ hold[s].armed  => owed[s] <= hold[s].since + 2
        /\ ~hold[s].armed => owed[s] <= lag + 1
    BY <1>2 DEF AlarmInv, TypeOK, HoldClock, SinceFrame, Frame
  <1>10. hold'[s].armed /\ owed'[s] <= hold'[s].since + 2
    BY <1>2, <1>7, <1>8, <1>9
  <1> QED
    BY <1>1, <1>6, <1>10

(* A frame keeps the invariant.                                            *)
LEMMA FrameAlarm == AlarmInv /\ Frame => AlarmInv'
  <1> SUFFICES ASSUME AlarmInv, Frame PROVE AlarmInv'
    OBVIOUS
  <1>1. TypeOK /\ ArmClock'
    BY FrameArm DEF AlarmInv
  <1>2. ASSUME NEW s \in Alarming
        PROVE  /\ hold'[s] \in [armed : BOOLEAN, since : 0 .. Hold + 1]
               /\ calm'[s] \in 0 .. Hold + 1 /\ owed'[s] \in 0 .. Hold + 3
               /\ hold'[s].armed  => calm'[s] >= hold'[s].since
               /\ hold'[s].armed  => owed'[s] <= hold'[s].since + 2
               /\ ~hold'[s].armed => owed'[s] <= 0
    <2>1. /\ hold[s] \in [armed : BOOLEAN, since : 0 .. Hold + 1]
          /\ hold[s].since \in 0 .. Hold + 1
          /\ calm[s] \in 0 .. Hold + 1 /\ owed[s] \in 0 .. Hold + 3
          /\ hold[s].armed => calm[s] >= hold[s].since
      BY <1>1 DEF AlarmInv, TypeOK, HoldClock
    <2>2. owed'[s] = IF Due(s) THEN owed[s] ELSE 0
      BY DEF Frame
    <2>3. /\ hold'[s] \in [armed : BOOLEAN, since : 0 .. Hold + 1]
          /\ calm'[s] \in 0 .. Hold + 1
          /\ hold'[s].armed => calm'[s] >= hold'[s].since
      <3>1. CASE Linked /\ ~Suppressed
        <4> DEFINE zone == ScannedZone(s, low'.armed)
        <4>1. /\ hold'[s] = heldOff(s, zone)
              /\ calm'[s] = IF zone = "Green" THEN 0 ELSE calm[s]
          BY <3>1, ScanStep
        <4> HIDE DEF zone
        <4>2. CASE zone = "Green"
          BY <4>1, <4>2, Constants DEF heldOff
        <4>3. CASE zone # "Green" /\ ~hold[s].armed
          BY <2>1, <4>1, <4>3, Constants DEF heldOff
        <4>4. CASE zone # "Green" /\ hold[s].armed
          BY <2>1, <4>1, <4>4 DEF heldOff
        <4> QED
          BY <4>2, <4>3, <4>4
      <3>2. CASE ~(Linked /\ ~Suppressed)
        <4>1. UNCHANGED <<hold, calm>>
          BY <3>2 DEF Frame
        <4> QED
          BY <2>1, <4>1
      <3> QED
        BY <3>1, <3>2
    <2>4. CASE Due(s)
      BY <2>1, <2>2, <2>3, <2>4, DueIsHeld
    <2>5. CASE ~Due(s)
      <3>1. owed'[s] = 0 /\ hold'[s].since \in 0 .. Hold + 1
        BY <2>2, <2>3, <2>5
      <3> QED
        BY <2>3, <3>1, Constants
    <2> QED
      BY <2>4, <2>5
  <1>3. HoldClock'
    BY <1>2 DEF HoldClock, SinceFrame, Frame
  <1>4. UpSince \in 0 .. Grace + 1
    BY <1>1, Constants DEF TypeOK, UpSince
  <1>5. GraceClock'
    <2>1. CASE ~Linked
      BY <2>1 DEF Frame, AlarmInv, GraceClock
    <2>2. CASE Linked
      BY <1>1, <2>2, Constants DEF Frame, AlarmInv, TypeOK, GraceClock, UpSince
    <2> QED
      BY <2>1, <2>2
  <1>6. TypeOK'
    <2>1. /\ hold' \in [Alarming -> [armed : BOOLEAN, since : 0 .. Hold + 1]]
          /\ calm' \in [Alarming -> 0 .. Hold + 1] /\ owed' \in [Alarming -> 0 .. Hold + 3]
      <3>1. owed' = [s \in Alarming |-> owed'[s]]
        BY DEF Frame
      <3>2. hold' = [s \in Alarming |-> hold'[s]] /\ calm' = [s \in Alarming |-> calm'[s]]
        BY <1>1 DEF Frame, TypeOK
      <3> QED
        BY <1>2, <3>1, <3>2
    <2>2. Flags'
      BY <1>1 DEF Frame, TypeOK, Flags
    <2>3. /\ upSince' \in 0 .. Grace + 1 /\ up' \in -1 .. Grace + 2
          /\ hot' \subseteq Alarming /\ screen' \in {"splash", "status", "gauges"}
      BY <1>1, <1>4, Constants DEF Frame, TypeOK
    <2>4. /\ low' \in [armed : BOOLEAN, running : BOOLEAN, since : 0 .. LowArm + 1]
          /\ ran' \in 0 .. LowArm + 2
      BY FrameArm
    <2>5. /\ phase' = "done" /\ lag' = 0 /\ UNCHANGED <<link, r, pressed, msg>>
      BY DEF Frame
    <2> QED
      BY <1>1, <2>1, <2>2, <2>3, <2>4, <2>5 DEF TypeOK, Flags
  <1> QED
    BY <1>1, <1>3, <1>5, <1>6 DEF AlarmInv

(* The source and the driver keep the invariant.                           *)
LEMMA NextAlarm == AlarmInv /\ [Next]_vars => AlarmInv'
  <1> SUFFICES ASSUME AlarmInv, [Next]_vars PROVE AlarmInv'
    OBVIOUS
  <1>1. ASSUME NEW s \in Stat, NEW v \in Value(s), Reading(s, v) PROVE AlarmInv'
    <2>1. v \in Value("Rpm") \cup Value("Temp") /\ 0 \in 0 .. Limit + 1
      BY Constants DEF Value
    <2>2. /\ r' \in [Stat -> [valid : BOOLEAN, val : Value("Rpm") \cup Value("Temp"),
                             age : 0 .. Limit + 1]]
          /\ \A t \in Stat : r'[t].val \in Value(t)
      BY <1>1, <2>1 DEF Reading, AlarmInv, TypeOK
    <2> QED
      BY <1>1, <2>2 DEF Reading, AlarmInv, TypeOK, ArmClock, HoldClock, GraceClock, SinceFrame
  <1>2. CASE LinkChange \/ PressSees \/ PressAcks \/ Forget
    <2>1. Flags'
      BY <1>2 DEF LinkChange, PressSees, PressAcks, Forget, AlarmInv, TypeOK, Flags
    <2>2. msg' \in -1 .. Message
      BY <1>2, Constants DEF LinkChange, PressSees, PressAcks, Forget, AlarmInv, TypeOK
    <2>3. UNCHANGED <<r, low, hold, seen, upSince, phase, lag, hot, screen, calm, ran, up,
                      owed>>
      BY <1>2 DEF LinkChange, PressSees, PressAcks, Forget
    <2> QED
      BY <2>1, <2>2, <2>3 DEF AlarmInv, TypeOK, Flags, ArmClock, HoldClock, GraceClock,
                              SinceFrame
  <1>3. CASE UNCHANGED vars
    BY <1>3 DEF vars, code, AlarmInv, TypeOK, ArmClock, HoldClock, GraceClock, SinceFrame
  <1> QED
    BY <1>1, <1>2, <1>3, TickAlarm, FrameAlarm DEF Next

(* The clocks of the alarm stay as far as their stages, for ever.          *)
THEOREM AlarmInvHolds == Spec => []AlarmInv
  BY InitAlarm, NextAlarm, PTL DEF Spec
-----------------------------------------------------------------------------
(* The stats the overlay lists after a frame are those whose hold-off has  *)
(* run out in a scan that found them red again.                            *)
LEMMA ListedIsScanned ==
  ASSUME AlarmInv, Frame, screen' = "gauges", NEW s \in hot'
  PROVE  /\ Linked /\ ~Suppressed /\ s \in Alarming
         /\ ScannedZone(s, low'.armed) # "Green"
         /\ hold[s].armed /\ hold[s].since >= Hold
         /\ calm'[s] = calm[s]
  <1>1. Linked /\ ~Suppressed /\ s \in Alarming
    BY DEF Frame
  <1>2. confirmed(hold'[s]) /\ hold'[s] = heldOff(s, ScannedZone(s, low'.armed))
    BY <1>1, ScanStep
  <1>3. ScannedZone(s, low'.armed) # "Green"
    BY <1>2 DEF confirmed, heldOff
  <1>4. hold'[s] = IF hold[s].armed THEN hold[s] ELSE [armed |-> TRUE, since |-> 0]
    BY <1>2, <1>3 DEF heldOff
  <1>5. hold[s].armed /\ hold[s].since >= Hold
    BY <1>2, <1>4, Constants DEF confirmed
  <1> QED
    BY <1>1, <1>3, <1>5, ScanStep

(* No false alarm: what the overlay lists was read red within its tier and *)
(* never found Green during the hold-off; oil pressure only with an engine *)
(* that every frame of the arming time has seen running.                   *)
THEOREM AlarmJustifiedHolds == Spec => AlarmJustified
  <1> DEFINE Justified(s) ==
        /\ r[s].valid /\ r[s].val = "Red" /\ r[s].age <= Stale
        /\ calm'[s] >= Hold
        /\ s = "OilP" => /\ r["Rpm"].val = "running" /\ r["Rpm"].age <= RpmFresh
                         /\ ran' >= LowArm
  <1>1. ASSUME AlarmInv, Frame, screen' = "gauges", NEW s \in hot' PROVE Justified(s)
    <2>1. /\ Linked /\ s \in Alarming /\ hold[s].armed /\ hold[s].since >= Hold
          /\ ScannedZone(s, low'.armed) # "Green" /\ calm'[s] = calm[s]
      BY <1>1, ListedIsScanned
    <2>2. TypeOK /\ low'.armed \in BOOLEAN /\ s \in Stat /\ "Rpm" \in Stat /\ lag \in 0 .. 1
      BY <1>1, <2>1, FrameArm DEF AlarmInv, TypeOK, Stat
    <2>3. /\ r[s].valid /\ r[s].val = "Red" /\ Delta(r[s].age) < Stale
          /\ s = "OilP" => low'.armed
      BY <2>1, <2>2, ScannedRed
    <2>4. r[s].age \in Nat /\ r["Rpm"].age \in Nat
      BY <2>2, Constants DEF TypeOK
    <2>5. r[s].age <= Stale
      BY <2>2, <2>3, <2>4, Constants DEF Delta
    <2>6. calm'[s] >= Hold
      <3>1. calm[s] \in Nat /\ hold[s].since \in Nat /\ calm[s] >= hold[s].since
        BY <1>1, <2>1, <2>2, Constants DEF AlarmInv, HoldClock, TypeOK
      <3> QED
        BY <2>1, <3>1, Constants
    <2>7. ASSUME s = "OilP"
          PROVE  /\ r["Rpm"].val = "running" /\ r["Rpm"].age <= RpmFresh
                 /\ ran' >= LowArm
      <3>1. low'.armed /\ low'.running /\ ran' >= LowArm
        BY <1>1, <2>3, <2>7, FrameArm DEF ArmClock
      <3>2. EngineRunning
        BY <1>1, <3>1, FrameArm
      <3> QED
        BY <2>2, <2>4, <3>1, <3>2, Constants DEF EngineRunning, Delta
    <2> QED
      BY <2>3, <2>5, <2>6, <2>7
  <1> HIDE DEF Justified
  <1>2. AlarmInv /\ [Next]_vars =>
          (FrameDone /\ screen' = "gauges" => \A s \in hot' : Justified(s))
    <2>1. FrameDone /\ [Next]_vars => Frame
      BY DEF FrameDone, Next, vars, code, LinkChange, Reading, PressSees, PressAcks,
             Forget, Tick
    <2> QED
      BY <1>1, <2>1
  <1>3. AlarmInv /\ [Next]_vars =>
          [FrameDone /\ screen' = "gauges" => \A s \in hot' : Justified(s)]_vars
    BY <1>2
  <1> USE DEF Justified
  <1> QED
    BY <1>3, AlarmInvHolds, PTL DEF Spec, AlarmJustified

(* No missed alarm: a red reading that stays fresh, past the grace and in  *)
(* front of the driver, is listed once the hold-off and the two ticks a    *)
(* frame may take are over, and the overlay is up unless acknowledged.     *)
THEOREM AlarmRaisedHolds == Spec => AlarmRaised
  <1>1. ASSUME AlarmInv, Frame, NEW s \in Alarming, owed'[s] > Hold + 2
        PROVE  s \in hot' /\ (shown' \/ acked')
    <2>1. Due(s)
      BY <1>1, Constants DEF Frame
    <2>2. /\ Linked /\ ~Suppressed
          /\ hold'[s].armed /\ owed'[s] <= hold'[s].since + 2
      BY <1>1, <2>1, DueIsHeld
    <2>3. hold'[s].since \in Nat /\ owed'[s] \in Nat
      BY <1>1, FrameAlarm, Constants DEF AlarmInv, TypeOK
    <2>4. confirmed(hold'[s])
      BY <1>1, <2>2, <2>3, Constants DEF confirmed
    <2>5. s \in hot'
      BY <1>1, <2>2, <2>4, ScanStep
    <2>6. acked' = (acked /\ hot' # {}) /\ shown' = (hot' # {} /\ ~acked)
      BY <1>1, <2>2 DEF Frame
    <2> QED
      BY <2>5, <2>6
  <1>2. AlarmInv /\ [Next]_vars =>
          (FrameDone => \A s \in Alarming : owed'[s] > Hold + 2 => s \in hot' /\ (shown' \/ acked'))
    <2>1. FrameDone /\ [Next]_vars => Frame
      BY DEF FrameDone, Next, vars, code, LinkChange, Reading, PressSees, PressAcks,
             Forget, Tick
    <2> QED
      BY <1>1, <2>1
  <1>3. AlarmInv /\ [Next]_vars =>
          [FrameDone => \A s \in Alarming :
             owed'[s] > Hold + 2 => s \in hot' /\ (shown' \/ acked')]_vars
    BY <1>2
  <1> QED
    BY <1>3, AlarmInvHolds, PTL DEF Spec, AlarmRaised

(* A gauge is drawn stale when its value is older than its tier allows     *)
(* while the link is up, never because its stamp is ahead of the clock the *)
(* frame has read.                                                         *)
THEOREM GreyWhenOldHolds == Spec => GreyWhenOld
  <1> DEFINE Grey == \A s \in Stat :
        /\ s \in StaleGauge => r[s].age >= Stale
        /\ link /\ r[s].valid /\ r[s].age > Stale => s \in StaleGauge
  <1>1. AlarmInv => TypeOK
    BY DEF AlarmInv
  <1>2. TypeOK => Grey
    <2> SUFFICES ASSUME TypeOK, NEW s \in Stat
                 PROVE  /\ s \in StaleGauge => r[s].age >= Stale
                        /\ link /\ r[s].valid /\ r[s].age > Stale => s \in StaleGauge
      OBVIOUS
    <2>1. r[s].age \in 0 .. Limit + 1 /\ lag \in 0 .. 1
      BY DEF TypeOK
    <2> QED
      BY <2>1, Constants DEF StaleGauge, InWindow, Delta
  <1>3. TypeOK /\ [Next]_vars => [FrameDone => Grey]_vars
    BY <1>2
  <1> QED
    BY <1>1, <1>3, AlarmInvHolds, PTL DEF Spec, GreyWhenOld
=============================================================================
