--------------------------- MODULE VehicleChoice ---------------------------
(***************************************************************************)
(* From the car to what the dash polls: loop() (src/src/main.cpp) looks at *)
(* the VIN that the connection published, saves what the car is called and *)
(* the profile it gets, and restarts; the boot that follows schedules that *)
(* profile's rows.  Rows and VINs do not meet otherwise, so a behaviour    *)
(* that publishes a VIN polls no more.  Locks, overlays and cuts between   *)
(* the two saves are DashTasks'.                                           *)
(***************************************************************************)
EXTENDS PollSchedule, VinTables

CONSTANTS Vins,      \* the VINs a first car may have
          Later      \* those of the cars after it

VARIABLES vin,       \* the published VIN, or NoVin in a behaviour of polling
          detected,  \* settings.detectedName and detectedEngine
          looked     \* loop() has seen the VIN

choice == <<vin, detected, looked>>

NoVin == [wmi |-> "", at |-> << >>]

Label(id) == [name |-> id.name, engine |-> id.engine]

ChoiceInit == Init /\ vin = NoVin /\ detected = Label(Nothing) /\ looked = FALSE

(* The first car finds the dash without a profile, built and not polling.  *)
FirstCar ==
  /\ vin = NoVin /\ asked = Built /\ key = "generic"
  /\ vin' \in Vins
  /\ UNCHANGED <<vars, detected, looked>>

(* The name and the engine are saved together when the name is another.    *)
Remember(label) == IF detected.name # label.name THEN label ELSE detected

(* vinAutoTarget(): only a profile of the registry, and not the current.   *)
Target == LET k == vinIdentify(vin).key IN IF k \in Keys THEN k ELSE key

(* One pass of loop(), with the restart and the boot when the profile is   *)
(* another one.                                                            *)
Look ==
  /\ vin # NoVin /\ ~looked
  /\ looked' = TRUE
  /\ detected' = Remember(Label(vinDisplayIdentity(vin)))
  /\ key' = Target
  /\ LET rows == ActiveRows(ProfileForKey(key')) IN
       BuildFrom(rows) /\ waited' = [s \in StatsOf(rows) |-> 0]
  /\ trips' = waited'
  /\ UNCHANGED vin

(* The dash is plugged into another car.                                   *)
OtherCar ==
  /\ vin # NoVin /\ looked
  /\ vin' \in Later
  /\ looked' = FALSE
  /\ UNCHANGED <<vars, detected>>

ChoiceNext ==
  \/ FirstCar
  \/ Look
  \/ OtherCar
  \/ vin = NoVin /\ Next /\ UNCHANGED choice

ChoiceSpec == ChoiceInit /\ [][ChoiceNext]_<<vars, choice>>

-----------------------------------------------------------------------------
(* Properties *)

Year(v) == 2000 + SelectInSeq(YearCodes, LAMBDA c : c = v.at[9])

(* The trucks the two scanned truck profiles were made on, by what the     *)
(* identification says of them.                                            *)
TruckProfile(v) ==
  LET id == vinIdentify(v)
  IN  IF id.engine = "6.7L Power Stroke" /\ Year(v) \in 2020..2026 THEN "ford_sd_67"
      ELSE IF id.engine = "3.0L Duramax I6" /\ Year(v) \in 2023..2026 THEN "gm_sierra_lz0"
      ELSE NoKey

(* The engines that cars of this name may be saved with.                   *)
EnginesOf(name) ==
  {""} \cup UNION {{LINES[n].engines[c].engine : c \in DOMAIN LINES[n].engines} :
                  n \in {m \in DOMAIN LINES : \E s \in ToSet(LINES[m].series) : s.name = name}}

(* The three tables of VINs agree (vin.cpp:337, vin.cpp:634): no VIN is    *)
(* named by two lines, although the alphabets of the generations collide;  *)
(* the gates give a named truck the profile of its engine and gearbox, all *)
(* such trucks and no others; every identified car is driven by a profile  *)
(* of the registry; and the name that is saved for the splash is this      *)
(* car's, with an engine that cars of this name have.                      *)
CarIsKnown ==
  /\ vin # NoVin => Cardinality({n \in DOMAIN LINES : Names(LINES[n], vin)}) <= 1
  /\ looked =>
     LET id == vinIdentify(vin) IN
     /\ id.name # "" => (id.key = TruckProfile(vin) \/ TruckProfile(vin) = NoKey)
     /\ id.name # "" /\ id.key \in {"ford_sd_67", "gm_sierra_lz0"} =>
          id.key = TruckProfile(vin)
     /\ id.key # NoKey => key = id.key
     /\ detected.name = vinDisplayIdentity(vin).name
     /\ detected.engine \in EnginesOf(detected.name)
=============================================================================
