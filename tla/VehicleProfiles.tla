-------------------------- MODULE VehicleProfiles --------------------------
(***************************************************************************)
(* What the firmware knows of each vehicle (src/src/vehicles) and the      *)
(* look-ups over the active profile (src/src/readouts.cpp,                 *)
(* src/src/vehicle_registry.cpp).                                          *)
(*                                                                         *)
(* A profile keeps, of its table of readouts, the rows that carry a        *)
(* command: the other rows are filled in by the dash or never.  Rows are   *)
(* in StatId order.  Display text, units and full scales are left out.     *)
(* Alarm bounds are in tenths of the unit of the row.                      *)
(***************************************************************************)
EXTENDS Integers, Sequences, FiniteSets

(***************************************************************************)
(* enum class StatId, and a row of a readout table: its stat, its command, *)
(* the index of its addressing entry and its tier.                         *)
(***************************************************************************)
StatIds == << "Trans", "Oil", "Boost", "Coolant", "Volts", "Intake", "Rpm",
              "Speed", "Egt", "DpfDp", "FuelRate", "Load", "MpgInst",
              "MpgAvg", "Gal100mi", "L100km", "Rail", "Hp", "Def",
              "FuelLevel", "DslFill", "DefFill", "ActTq", "RefTq", "Baro",
              "Maf", "Ambient", "Egr", "Pedal", "Cac", "Nox", "OilP", "Gear" >>

Stats == {StatIds[i] : i \in 1..Len(StatIds)}

Empty == "COUNT"     \* a cell of a page that shows nothing

R(stat, cmd, header, tier) ==
  [stat |-> stat, cmd |-> cmd, header |-> header, tier |-> tier]

NA == -9999          \* a disabled alarm bound

T(warnHi, critHi, warnLo, critLo) ==
  [warnHi |-> warnHi, critHi |-> critHi, warnLo |-> warnLo, critLo |-> critLo]

NoAlarm  == T(NA, NA, NA, NA)
LowVolts == T(NA, NA, 110, 102)

-----------------------------------------------------------------------------
(* generic_obd.cpp *)

GenericReadouts ==
  << R("Coolant", "0105", 0, 1), R("Volts", "0142", 0, 1),
     R("Intake", "010F", 0, 1), R("Rpm", "010C", 0, 0),
     R("Speed", "010D", 0, 0), R("Load", "0104", 0, 0),
     R("FuelLevel", "012F", 0, 1), R("Maf", "0110", 0, 1),
     R("Pedal", "0111", 0, 1) >>

GenericLayout ==
  [pages   |-> << <<"Rpm", "Speed", "Coolant", "Load">>,
                  <<"Intake", "Pedal", "Maf", "Volts">> >>,
   helpers |-> {"FuelLevel"}]

(* No set-up command: the adapter's power-on header, 7DF, is relied on.    *)
GenericAddressing == << << >> >>

Generic ==
  [readouts |-> GenericReadouts, layout |-> GenericLayout,
   addressing |-> GenericAddressing, dieselTank |-> 0, defTank |-> 0,
   alarms |-> [Coolant |-> T(2420, 2550, NA, NA), Volts |-> LowVolts]]

-----------------------------------------------------------------------------
(* gm_sierra_lz0.cpp, with its 11-bit addresses *)

GmReadouts ==
  << R("Trans", "221940", 1, 1), R("Oil", "015C", 0, 1),
     R("Boost", "22000B", 2, 0), R("Coolant", "0105", 0, 1),
     R("Volts", "0142", 0, 1), R("Intake", "22000F", 2, 1),
     R("Rpm", "010C", 0, 0), R("Speed", "010D", 0, 0),
     R("Egt", "220078", 2, 1), R("DpfDp", "22007A", 2, 1),
     R("FuelRate", "22005E", 2, 1), R("Load", "0104", 0, 1),
     R("Rail", "220023", 2, 0), R("Def", "22009B", 2, 1),
     R("FuelLevel", "22002F", 2, 1), R("ActTq", "220062", 2, 0),
     R("RefTq", "220063", 2, 2), R("Baro", "0133", 0, 2),
     R("Maf", "220010", 2, 0), R("Ambient", "220046", 2, 1),
     R("Egr", "22002C", 2, 1), R("Pedal", "22004A", 2, 0),
     R("Cac", "220077", 2, 1), R("Nox", "220083", 2, 1),
     R("OilP", "22115C", 2, 0), R("Gear", "22199A", 1, 0) >>

GmAlarms ==
  [Trans   |-> T(2400, 2600, NA, NA), Oil   |-> T(2500, 2650, NA, NA),
   Coolant |-> T(2350, 2450, NA, NA), Volts |-> T(158, 162, 110, 102),
   Egt     |-> T(13000, 14500, NA, NA), DpfDp |-> T(500, 600, NA, NA),
   Def     |-> T(NA, NA, 100, 50), OilP |-> T(NA, NA, 120, 80)]

GmLayout ==
  [pages   |-> << <<"Trans", "Coolant", "OilP", "Egt">>,
                  <<"Boost", "Hp", "Rpm", "Load">>,
                  <<"DpfDp", "FuelRate", "Nox", "Rail">>,
                  <<"FuelLevel", "DslFill", "Def", "DefFill">>,
                  <<"MpgInst", "MpgAvg", "Gal100mi", "L100km">>,
                  <<"Maf", "Egr", "Cac", "Intake">>,
                  <<"Speed", "Volts", "Oil", Empty>> >>,
   helpers |-> {"RefTq", "Baro", "ActTq", "Gear"}]

GmAddressing == << <<"SH 7DF">>, <<"SH 7E2">>, <<"SH 7E0">> >>

GmSierra ==
  [readouts |-> GmReadouts, layout |-> GmLayout,
   addressing |-> GmAddressing, dieselTank |-> 240, defTank |-> 54,
   alarms |-> GmAlarms]

-----------------------------------------------------------------------------
(* bmw_f10_535i.cpp *)

BmwReadouts ==
  << R("Oil", "224402", 0, 1), R("Boost", "010B", 0, 0),
     R("Coolant", "0105", 0, 1), R("Volts", "0142", 0, 1),
     R("Intake", "010F", 0, 1), R("Rpm", "010C", 0, 0),
     R("Speed", "010D", 0, 0), R("FuelRate", "0110", 0, 1),
     R("Load", "0104", 0, 1), R("Rail", "0123", 0, 1),
     R("FuelLevel", "012F", 0, 1), R("ActTq", "2258BA", 0, 0),
     R("RefTq", "224517", 0, 2), R("Baro", "0133", 0, 2),
     R("Ambient", "0146", 0, 1), R("Pedal", "0149", 0, 0),
     R("OilP", "22586F", 0, 0) >>

BmwLayout ==
  [pages   |-> << <<"Coolant", "OilP", "Boost", "Load">>,
                  <<"Rpm", "Speed", "Intake", "Ambient">>,
                  <<"Baro", "FuelLevel", "Volts", Empty>>,
                  <<"MpgInst", "MpgAvg", "Gal100mi", "L100km">>,
                  <<"Oil", "Rail", "FuelRate", Empty>>,
                  <<"ActTq", "RefTq", "Hp", "Pedal">> >>,
   helpers |-> {}]

BmwAddressing == << <<"CEA", "CRA", "SH 7DF">> >>

Bmw ==
  [readouts |-> BmwReadouts, layout |-> BmwLayout,
   addressing |-> BmwAddressing, dieselTank |-> 185, defTank |-> 0,
   alarms |-> [Coolant |-> T(2390, 2480, NA, NA), Volts |-> LowVolts]]

-----------------------------------------------------------------------------
(* audi_q5.cpp *)

AudiReadouts ==
  << R("Trans", "222104", 1, 1), R("Oil", "2220A1", 0, 1),
     R("Boost", "22202A", 0, 0), R("Coolant", "0105", 0, 1),
     R("Volts", "0142", 0, 1), R("Intake", "010F", 0, 1),
     R("Rpm", "010C", 0, 0), R("Speed", "010D", 0, 0),
     R("Load", "0104", 0, 1), R("FuelLevel", "012F", 0, 1),
     R("Maf", "0110", 0, 1), R("Pedal", "0111", 0, 0) >>

AudiLayout ==
  [pages   |-> << <<"Trans", "Oil", "Coolant", "Boost">>,
                  <<"Rpm", "Speed", "Load", "Volts">>,
                  <<"Intake", "Pedal", "Maf", "FuelLevel">> >>,
   helpers |-> {}]

AudiAddressing == << <<"SH 7E0">>, <<"SH 7E1">> >>

Audi ==
  [readouts |-> AudiReadouts, layout |-> AudiLayout,
   addressing |-> AudiAddressing, dieselTank |-> 185, defTank |-> 0,
   alarms |-> [Volts |-> LowVolts]]

-----------------------------------------------------------------------------
(* jeep_ws.cpp *)

JeepReadouts ==
  << R("Trans", "2204FE", 1, 1), R("Coolant", "0105", 0, 1),
     R("Volts", "0142", 0, 1), R("Intake", "010F", 0, 1),
     R("Rpm", "010C", 0, 0), R("Speed", "010D", 0, 0),
     R("FuelRate", "015E", 0, 1), R("Load", "0104", 0, 1),
     R("FuelLevel", "012F", 0, 1), R("ActTq", "0162", 0, 0),
     R("RefTq", "0163", 0, 2), R("Baro", "0133", 0, 2),
     R("Ambient", "0146", 0, 1), R("Pedal", "0111", 0, 0),
     R("Gear", "22051A", 1, 0) >>

JeepLayout ==
  [pages   |-> << <<"Trans", "Coolant", "Intake", "Ambient">>,
                  <<"Rpm", "Speed", "Load", "Pedal">>,
                  <<"ActTq", "RefTq", "Hp", "FuelRate">>,
                  <<"Gear", "FuelLevel", "Volts", "Baro">> >>,
   helpers |-> {}]

JeepAddressing == << <<"CP 18", "SH DB33F1">>, <<"CP 18", "SH DA18F1">> >>

Jeep ==
  [readouts |-> JeepReadouts, layout |-> JeepLayout,
   addressing |-> JeepAddressing, dieselTank |-> 265, defTank |-> 0,
   alarms |-> [Volts |-> LowVolts]]

-----------------------------------------------------------------------------
(* ford_sd_67.cpp *)

FordReadouts ==
  << R("Trans", "221E1C", 1, 1), R("Oil", "015C", 0, 1),
     R("Boost", "0187", 0, 0), R("Coolant", "0105", 0, 1),
     R("Volts", "0142", 0, 1), R("Intake", "010F", 1, 1),
     R("Rpm", "010C", 0, 0), R("Speed", "010D", 0, 0),
     R("Egt", "0178", 0, 1), R("DpfDp", "017A", 0, 2),
     R("FuelRate", "019D", 0, 1), R("Load", "0104", 0, 0),
     R("Rail", "016D", 0, 1), R("Def", "019B", 0, 2),
     R("FuelLevel", "012F", 0, 1), R("ActTq", "0162", 0, 1),
     R("RefTq", "0163", 0, 2), R("Baro", "0133", 0, 2),
     R("Maf", "0110", 0, 1), R("Ambient", "0146", 0, 2),
     R("Egr", "0169", 0, 2), R("Pedal", "0149", 0, 1),
     R("Cac", "0177", 0, 1), R("Nox", "0183", 0, 2),
     R("Gear", "221E60", 1, 0) >>

FordLayout ==
  [pages   |-> << <<"Rpm", "Speed", "Coolant", "Load">>,
                  <<"Trans", "Oil", "Egt", "Cac">>,
                  <<"Boost", "Rail", "ActTq", "Gear">>,
                  <<"FuelRate", "MpgInst", "MpgAvg", "Gal100mi">>,
                  <<"Maf", "Intake", "Pedal", "Volts">>,
                  <<"DpfDp", "Egr", "Nox", Empty>>,
                  <<"Ambient", "Baro", "RefTq", "Hp">>,
                  <<"FuelLevel", "DslFill", "Def", "DefFill">> >>,
   helpers |-> {"L100km"}]

FordAddressing == << <<"SH 7E0">>, <<"SH 7E1">> >>

Ford ==
  [readouts |-> FordReadouts, layout |-> FordLayout,
   addressing |-> FordAddressing, dieselTank |-> 0, defTank |-> 74,
   alarms |-> [Coolant |-> T(2420, 2550, NA, NA), Volts |-> LowVolts]]

-----------------------------------------------------------------------------
(* standard_plus.cpp: one table, two layouts *)

StdReadouts ==
  << R("Oil", "015C", 0, 1), R("Coolant", "0105", 0, 1),
     R("Volts", "0142", 0, 1), R("Intake", "010F", 0, 1),
     R("Rpm", "010C", 0, 0), R("Speed", "010D", 0, 0),
     R("Egt", "0178", 0, 1), R("FuelRate", "015E", 0, 1),
     R("Load", "0104", 0, 0), R("Rail", "0123", 0, 1),
     R("FuelLevel", "012F", 0, 1), R("ActTq", "0162", 0, 1),
     R("RefTq", "0163", 0, 2), R("Baro", "0133", 0, 2),
     R("Maf", "0110", 0, 1), R("Ambient", "0146", 0, 2),
     R("Egr", "012C", 0, 2), R("Pedal", "0111", 0, 1),
     R("Nox", "0183", 0, 2) >>

StdHelpers == {"FuelLevel", "Pedal"}

StdDieselLayout ==
  [pages   |-> << <<"Rpm", "Speed", "Coolant", "Load">>,
                  <<"Oil", "Egt", "Intake", "Ambient">>,
                  <<"ActTq", "RefTq", "FuelRate", "Rail">>,
                  <<"Baro", "Egr", "Nox", "Volts">> >>,
   helpers |-> StdHelpers]

StdGasLayout ==
  [pages   |-> << <<"Rpm", "Speed", "Coolant", "Load">>,
                  <<"Oil", "Intake", "Ambient", "Baro">>,
                  <<"ActTq", "FuelRate", "Maf", "Volts">> >>,
   helpers |-> StdHelpers]

StandardPlus(layout) ==
  [readouts |-> StdReadouts, layout |-> layout,
   addressing |-> << << >> >>, dieselTank |-> 0, defTank |-> 0,
   alarms |-> [Coolant |-> T(2420, 2550, NA, NA), Volts |-> LowVolts]]

-----------------------------------------------------------------------------
(* vehicle_registry.cpp: the registry, Generic first, and its look-ups *)

Registry ==
  << [key |-> "generic",       profile |-> Generic],
     [key |-> "gm_sierra_lz0", profile |-> GmSierra],
     [key |-> "bmw_f10_535i",  profile |-> Bmw],
     [key |-> "audi_q5",       profile |-> Audi],
     [key |-> "jeep_ws",       profile |-> Jeep],
     [key |-> "ford_sd_67",    profile |-> Ford],
     [key |-> "std_diesel",    profile |-> StandardPlus(StdDieselLayout)],
     [key |-> "std_gas",       profile |-> StandardPlus(StdGasLayout)] >>

Keys == {Registry[i].key : i \in 1..Len(Registry)}

ProfileForKey(key) ==
  LET i == CHOOSE j \in 1..Len(Registry) : Registry[j].key = key
  IN  Registry[i].profile

-----------------------------------------------------------------------------
(* readouts.cpp: the look-ups over the layout of a profile *)

PageOf(p, stat) == {n \in 1..Len(p.layout.pages) :
                      \E c \in 1..4 : p.layout.pages[n][c] = stat}

IsDisplayed(p, stat) == PageOf(p, stat) # {}

IsActiveShown(p, stat) == IsDisplayed(p, stat)

IsActive(p, stat) == IsDisplayed(p, stat) \/ stat \in p.layout.helpers

Displayed(p) == {s \in Stats : IsDisplayed(p, s)}

Polled(p) == {p.readouts[i].stat : i \in 1..Len(p.readouts)}

AlarmOf(p, stat) == IF stat \in DOMAIN p.alarms THEN p.alarms[stat] ELSE NoAlarm

-----------------------------------------------------------------------------
(* updateComputedReadouts(): what each derived row is computed from *)

Inputs(stat) ==
  IF stat \in {"MpgInst", "MpgAvg", "Gal100mi", "L100km"}
  THEN {"FuelRate", "Speed"}
  ELSE IF stat = "Hp" THEN {"ActTq", "RefTq", "Rpm"}
  ELSE IF stat = "DslFill" THEN {"FuelLevel"}
  ELSE IF stat = "DefFill" THEN {"Def"}
  ELSE {}

Computed == {s \in Stats : Inputs(s) # {}}
=============================================================================
