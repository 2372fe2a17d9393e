----------------------------- MODULE VinTables -----------------------------
(***************************************************************************)
(* What a VIN says of a vehicle (src/src/vin.cpp): which profile it may    *)
(* have, what it is called and which engine it has.                        *)
(*                                                                         *)
(* A VIN is its manufacturer code and the characters the tables look at:   *)
(* positions 3 to 7, counted from zero, and 9, the model year.  A pattern  *)
(* is a set of pairs, a position and the characters allowed there; a gate  *)
(* is a set of patterns, one of which must fit.                            *)
(***************************************************************************)
EXTENDS Integers, SequencesExt

Fits(vin, pattern) == \A p \in pattern : vin.at[p[1]] \in p[2]

Passes(vin, gate) == \E pattern \in gate : Fits(vin, pattern)

NoGate == {{}}

(* The model years, 2001 to 2009 and then 2010 to 2030.                    *)
YearCodes == << "1", "2", "3", "4", "5", "6", "7", "8", "9", "A", "B", "C",
                "D", "E", "F", "G", "H", "J", "K", "L", "M", "N", "P", "R",
                "S", "T", "V", "W", "X", "Y" >>

Years(from, to) == {YearCodes[y - 2000] : y \in from..to}

-----------------------------------------------------------------------------
(* The gates of the scanned profiles.                                      *)

gmSierra1500Diesel ==
  {{<<3, {"N", "P", "R", "U", "V"}>>, <<4, {"H", "U"}>>, <<7, {"8"}>>,
    <<9, Years(2023, 2026)>>}}

bmwF10535i ==
  {{<<3, {"F"}>>, <<4, {"R", "U"}>>, <<5, {"7"}>>, <<6, {"C"}>>, <<7, {"5"}>>}}

audiQ5_20T ==
  {{<<3, {"A", "B", "C"}>>, <<4, {"N"}>>, <<6, {"F"}>>, <<7, {"Y"}>>}}

jeepWagoneer57 ==
  {{<<4, {"J"}>>, <<5, {"R", "S", "U", "V"}>>, <<6, {"A", "B", "D"}>>, <<7, {"T"}>>,
    <<9, Years(2022, 2023)>>}}

fordSuperDuty67 == {<<5, {"2", "3", "4", "5"}>>, <<7, {"T"}>>}

fordSuperDuty67_10R140 == {fordSuperDuty67 \cup {<<9, Years(2020, 2026)>>}}

Sierra    == {"1GT", "3GT"}
Silverado == {"1GC", "3GC"}

Gate(wmi, extra, key) == [wmi |-> wmi, extra |-> extra, key |-> key]

MAP ==
  << Gate(Sierra \cup Silverado, gmSierra1500Diesel, "gm_sierra_lz0"),
     Gate({"WBA", "WBS", "5UX", "4US"}, bmwF10535i, "bmw_f10_535i"),
     Gate({"WAU", "WA1", "WUA", "TRU"}, audiQ5_20T, "audi_q5"),
     Gate({"1C4"}, jeepWagoneer57, "jeep_ws"),
     Gate({"1FT", "3FT", "1FD"}, fordSuperDuty67_10R140, "ford_sd_67") >>

NoKey == "none"

(* The first row of the manufacturer whose gate the VIN passes.            *)
profileKeyFor(vin) ==
  LET row == SelectInSeq(MAP, LAMBDA m : vin.wmi \in m.wmi /\ Passes(vin, m.extra))
  IN  IF row = 0 THEN NoKey ELSE MAP[row].key

-----------------------------------------------------------------------------
(* The lines: a series is named by the character at position 5, an engine  *)
(* by the one at position 7.                                               *)

Ser(codes, name) == [codes |-> codes, name |-> name]

FORD_SD_SERIES ==
  << Ser({"2"}, "Ford F-250"), Ser({"3"}, "Ford F-350"),
     Ser({"4"}, "Ford F-450"), Ser({"5"}, "Ford F-550") >>
FORD_F150_SERIES == << Ser({"1"}, "Ford F-150") >>
RAM_SERIES ==
  << Ser({"6", "7", "B", "E", "F"}, "Ram 1500"), Ser({"4", "5"}, "Ram 2500"),
     Ser({"2", "3"}, "Ram 3500") >>
RAM_PRE2013_SERIES ==
  << Ser({"1"}, "Ram 1500"), Ser({"2"}, "Ram 2500"), Ser({"3", "4"}, "Ram 3500") >>
RAM_PRE2013_SERIES_NO35 == << Ser({"1"}, "Ram 1500"), Ser({"2"}, "Ram 2500") >>

Tons(names, half, threeQuarter, one) ==
  << Ser(half, names[1]), Ser(threeQuarter, names[2]), Ser(one, names[3]) >>
GMC   == << "GMC Sierra 1500", "GMC Sierra 2500", "GMC Sierra 3500",
            "GMC Sierra HD" >>
Chevy == << "Chevrolet Silverado 1500", "Chevrolet Silverado 2500",
            "Chevrolet Silverado 3500", "Chevrolet Silverado HD" >>

GM_SIERRA_K2XX_EARLY ==
  Tons(GMC, {"T", "U", "V", "W"}, {"0", "4", "X", "Y", "Z"}, {"1", "2", "3"})
GM_SIERRA_K2XX_LATE ==
  Tons(GMC, {"L", "M", "N", "P"}, {"R", "S", "T", "U"}, {"V", "W", "X", "Y"})
GM_SILVERADO_K2XX ==
  Tons(Chevy, {"N", "P", "R", "S", "T"}, {"U", "V", "W", "X"}, {"0", "1", "Y", "Z"})
GM_SIERRA_GMT900 ==
  Tons(GMC, {"T", "U", "V", "W", "X", "Y"}, {"0", "1", "5", "Z"}, {"2", "3", "4", "6"})
GM_SILVERADO_GMT900 ==
  Tons(Chevy, {"P", "R", "S", "T", "U"}, {"V", "X", "Y"}, {"0", "1", "Z"})

Eng(code, engine, diesel) == [code |-> code, engine |-> engine, diesel |-> diesel]
NoEngine == Eng("", "", FALSE)

FORD_SD_ENGINES ==
  << Eng("T", "6.7L Power Stroke", TRUE), Eng("6", "6.2L V8", FALSE),
     Eng("N", "7.3L V8", FALSE) >>
FORD_SD_ENGINES_PRE2010 ==
  << Eng("P", "6.0L Power Stroke", TRUE), Eng("R", "6.4L Power Stroke", TRUE),
     Eng("5", "5.4L V8", FALSE), Eng("Y", "6.8L V10", FALSE) >>
RAM_ENGINES ==
  << Eng("T", "5.7L HEMI V8", FALSE), Eng("L", "6.7L Cummins I6", TRUE),
     Eng("G", "3.6L V6", FALSE), Eng("J", "6.4L HEMI V8", FALSE),
     Eng("9", "6.2L HEMI V8", FALSE), Eng("M", "3.0L EcoDiesel V6", TRUE) >>
GM_LD_ENGINES ==
  << Eng("8", "3.0L Duramax I6", TRUE), Eng("D", "5.3L V8", FALSE),
     Eng("K", "2.7L I4 Turbo", FALSE), Eng("L", "6.2L V8", FALSE) >>
GM_LD_ENGINES_T1XX ==
  << Eng("T", "3.0L Duramax I6", TRUE), Eng("D", "5.3L V8", FALSE),
     Eng("F", "5.3L V8", FALSE), Eng("H", "4.3L V6", FALSE),
     Eng("K", "2.7L I4 Turbo", FALSE), Eng("L", "6.2L V8", FALSE) >>
GM_HD_ENGINES == << Eng("Y", "6.6L Duramax V8", TRUE), Eng("7", "6.6L V8", FALSE) >>

ramBrand == {{<<4, {"R"}>>}}
ramPre2013 ==
  { {<<9, Years(2006, 2007)>>, <<4, {"A", "R", "S", "U"}>>},
    {<<9, Years(2008, 2009)>>, <<4, {"A", "B", "R", "S", "U", "V"}>>},
    {<<9, Years(2010, 2010)>>, <<4, {"B", "P", "T", "V"}>>},
    {<<9, Years(2011, 2011)>>, <<4, {"6", "B", "P", "T", "V"}>>} }

GM_TONNAGE_LD == {"A", "B", "C", "D", "E", "F", "G"}
GM_TONNAGE_HD == {"L", "M", "N", "P", "R", "S", "T", "U", "V", "W"}
gmLightDuty == {{<<3, {"N", "P", "R", "U", "V"}>>, <<4, {"H", "U"}>>}}
gmHeavyDutyAnyTonnage ==
  {{<<3, {"0", "1", "2", "3", "4", "5"}>>, <<4, {"8", "9"}>>}}
gmHeavyDuty ==
  {{<<3, {"0", "1", "2", "3", "4", "5"}>>, <<4, {"8", "9"}>>, <<5, GM_TONNAGE_HD>>}}
gmLightDutyT1XX == {{<<4, {"8", "9"}>>, <<5, GM_TONNAGE_LD>>}}
gmPickupSierraK2XX    == {{<<4, {"1", "2"}>>}}
gmPickupSilveradoK2XX == {{<<4, {"C", "K"}>>}}

Line(wmi, years, guard, series, engines) ==
  [wmi |-> wmi, years |-> years, guard |-> guard, series |-> series,
   engines |-> engines]

(* A line with a fixed name: whatever position 5 says, the letters I, O    *)
(* and Q that no VIN should have among it.                                 *)
Codes == {"0", "1", "2", "3", "4", "5", "6", "7", "8", "9", "A", "B", "C",
          "D", "E", "F", "G", "H", "I", "J", "K", "L", "M", "N", "O", "P",
          "Q", "R", "S", "T", "U", "V", "W", "X", "Y", "Z"}
Fixed(name) == << Ser(Codes, name) >>

LINES ==
  << Line({"1FT", "3FT", "1FD"}, Years(2011, 2026), NoGate, FORD_SD_SERIES,
          FORD_SD_ENGINES),
     Line({"1FT", "3FT", "1FD"}, Years(2003, 2009), NoGate, FORD_SD_SERIES,
          FORD_SD_ENGINES_PRE2010),
     Line({"1FT", "3FT"}, Years(2010, 2023), NoGate, FORD_F150_SERIES, << >>),
     Line({"1C6", "3C6"}, Years(2013, 2024), ramBrand, RAM_SERIES, RAM_ENGINES),
     Line({"1D7", "3D7"}, Years(2006, 2007), ramPre2013, RAM_PRE2013_SERIES, << >>),
     Line({"1D7", "3D7"}, Years(2008, 2011), ramPre2013, RAM_PRE2013_SERIES_NO35,
          << >>),
     Line(Sierra, Years(2022, 2026), gmLightDuty, Fixed(GMC[1]), GM_LD_ENGINES),
     Line(Silverado, Years(2022, 2026), gmLightDuty, Fixed(Chevy[1]), GM_LD_ENGINES),
     Line(Silverado, Years(2010, 2013), gmPickupSilveradoK2XX, GM_SILVERADO_GMT900,
          << >>),
     Line(Sierra, Years(2011, 2013), gmPickupSierraK2XX, GM_SIERRA_GMT900, << >>),
     Line(Sierra, Years(2014, 2015), gmPickupSierraK2XX, GM_SIERRA_K2XX_EARLY, << >>),
     Line(Sierra, Years(2016, 2018), gmPickupSierraK2XX, GM_SIERRA_K2XX_LATE, << >>),
     Line(Silverado, Years(2014, 2018), gmPickupSilveradoK2XX, GM_SILVERADO_K2XX,
          << >>),
     Line(Sierra, Years(2019, 2021), gmLightDutyT1XX, Fixed(GMC[1]),
          GM_LD_ENGINES_T1XX),
     Line(Silverado, Years(2019, 2021), gmLightDutyT1XX, Fixed(Chevy[1]),
          GM_LD_ENGINES_T1XX),
     Line(Sierra, Years(2020, 2024), gmHeavyDuty, Fixed(GMC[4]),
          GM_HD_ENGINES),
     Line(Silverado, Years(2020, 2024), gmHeavyDuty, Fixed(Chevy[4]),
          GM_HD_ENGINES) >>

-----------------------------------------------------------------------------
(* vinIdentify(): the first line that the VIN fits and that knows its      *)
(* series.  A series or a line it does not know is passed over.            *)

SeriesIn(line, vin) == SelectInSeq(line.series, LAMBDA s : vin.at[5] \in s.codes)

Names(line, vin) ==
  /\ vin.wmi \in line.wmi
  /\ vin.at[9] \in line.years
  /\ Passes(vin, line.guard)
  /\ SeriesIn(line, vin) # 0

EngineIn(line, vin) ==
  LET e == SelectInSeq(line.engines, LAMBDA x : x.code = vin.at[7])
  IN  IF e = 0 THEN NoEngine ELSE line.engines[e]

Nothing == [key |-> NoKey, name |-> "", engine |-> ""]

(* A scanned profile before a standard one, the diesel's or the petrol     *)
(* engine's; for vehicles outside the lines the scanned profile alone.     *)
vinIdentify(vin) ==
  LET n == SelectInSeq(LINES, LAMBDA l : Names(l, vin))
      scanned == profileKeyFor(vin)
  IN  IF n = 0 THEN [Nothing EXCEPT !.key = scanned]
      ELSE LET e == EngineIn(LINES[n], vin)
           IN  [key |-> IF scanned # NoKey THEN scanned
                        ELSE IF e.diesel THEN "std_diesel" ELSE "std_gas",
                name |-> LINES[n].series[SeriesIn(LINES[n], vin)].name,
                engine |-> e.engine]

(* vinDisplayIdentity(): only a standard profile needs the stored name.    *)
vinDisplayIdentity(vin) ==
  LET id == vinIdentify(vin)
  IN  IF id.key \in {"std_diesel", "std_gas"} THEN id ELSE Nothing
=============================================================================
