------------------------------ MODULE Decoders ------------------------------
(***************************************************************************)
(* From the bytes of a reply to the colour of a gauge, for the rows that   *)
(* have alarm bounds: the decoders of the profiles (src/src/vehicles), the *)
(* conversions they wrap (src/src/pid_decode.cpp) and zoneFor()            *)
(* (src/src/gauge_model.cpp).                                              *)
(*                                                                         *)
(* A value is in thousandths of the unit of its row.  A decoder returns    *)
(* the set of its value, which is empty where the code returns NaN and     *)
(* the gauge keeps its last value.  d is what parseObdResponse() left.     *)
(***************************************************************************)
EXTENDS VehicleProfiles, FiniteSetsExt

Word(hi, lo) == 256 * hi + lo

Signed(w) == IF w >= 32768 THEN w - 65536 ELSE w

Between(v, lo, hi) == IF v < lo \/ v > hi THEN {} ELSE {v}

(* decodeTempC() and cToF(); FF is a pad everywhere, 00 in the profiles of *)
(* the GM, BMW, Audi and Jeep vehicles.                                    *)
ZeroIsPad(key) == key \in {"gm_sierra_lz0", "bmw_f10_535i", "audi_q5", "jeep_ws"}

decTempF(key, d) ==
  IF Len(d) = 0 \/ d[1] = 255 \/ (ZeroIsPad(key) /\ d[1] = 0) THEN {}
  ELSE {(d[1] - 40) * 1800 + 32000}

decVoltsUnbounded(d) ==
  IF Len(d) = 0 THEN {} ELSE {Word(d[1], IF Len(d) > 1 THEN d[2] ELSE 0)}

(* Six to eighteen volts; a missing low byte counts as 0.                  *)
decVolts(d) ==
  IF Len(d) = 0 THEN {}
  ELSE Between(Word(d[1], IF Len(d) > 1 THEN d[2] ELSE 0), 6000, 18000)

(* The sensors that are whole in the frame, and what one of them reads.    *)
Sensors(d) == {s \in 0..2 : 2 * s + 3 <= Len(d)}
Heat(d, s) == Word(d[2 * s + 2], d[2 * s + 3]) * 180 - 40000

(* The hottest of up to three sensors; with none in the frame, zero.       *)
decodeEgtMaxF(d) ==
  IF Sensors(d) = {} THEN 0 ELSE Max({Heat(d, s) : s \in Sensors(d)})

decEgt(d) ==
  IF Len(d) < 2 THEN {} ELSE Between(decodeEgtMaxF(d), -60000, 2500000)

decDpfDp(d) == IF Len(d) < 3 THEN {} ELSE {Signed(Word(d[2], d[3])) * 10}

decDef(d) ==
  IF Len(d) < 4 THEN {} ELSE IF d[4] = 0 THEN {} ELSE {(d[4] * 100000) \div 255}

(* The raw 36 is no pressure.                                              *)
decOilPsi(d) ==
  IF Len(d) = 0 \/ d[1] = 255 THEN {}
  ELSE {IF d[1] < 36 THEN 0 ELSE (d[1] - 36) * 600}

(* The column decode of the rows with alarm bounds.                        *)
Decode(key, stat, d) ==
  IF stat = "Volts"      THEN decVolts(d)
  ELSE IF stat = "Egt"   THEN decEgt(d)
  ELSE IF stat = "DpfDp" THEN decDpfDp(d)
  ELSE IF stat = "Def"   THEN decDef(d)
  ELSE IF stat = "OilP"  THEN decOilPsi(d)
  ELSE decTempF(key, d)

(* The bounds are in tenths.                                               *)
zoneFor(v, t) ==
  LET above(bound) == bound # NA /\ v >= 100 * bound
      below(bound) == bound # NA /\ v <= 100 * bound
  IN  IF above(t.critHi) \/ below(t.critLo)      THEN "Red"
      ELSE IF above(t.warnHi) \/ below(t.warnLo) THEN "Amber"
      ELSE "Green"

ZonesOf(key, stat, d) ==
  {zoneFor(v, AlarmOf(ProfileForKey(key), stat)) : v \in Decode(key, stat, d)}
=============================================================================
