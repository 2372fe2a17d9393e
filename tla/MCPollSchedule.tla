--------------------------- MODULE MCPollSchedule ---------------------------
(***************************************************************************)
(* PollSchedule on the buckets and the vehicles of the firmware: sixteen   *)
(* places, all eight profiles.  Nothing is bounded: the counters are kept  *)
(* modulo their use, so each vehicle's rotation is run to the end.  The    *)
(* VINs have, at each position, characters of every table that reads it    *)
(* and one that no table knows, and every model year a table begins or     *)
(* ends with.                                                              *)
(***************************************************************************)
EXTENDS VehicleChoice

const_Vehicles == Keys
const_Bytes == {0, 1, 36, 55, 128, 161, 200, 254, 255} \cup 38..71

Vin(w, c3, c4, c5, c6, c7, c9) ==
  [wmi |-> w, at |-> 3 :> c3 @@ 4 :> c4 @@ 5 :> c5 @@ 6 :> c6 @@ 7 :> c7 @@ 9 :> c9]

Fords ==
  {Vin(w, "8", "W", c5, "B", c7, c9) :
     w \in {"1FT", "1FD"}, c5 \in {"1", "2", "5", "6"},
     c7 \in {"T", "6", "P", "R", "Z"}, c9 \in Years(2002, 2027)}

Rams ==
  {Vin(w, "S", c4, c5, "B", c7, c9) :
     w \in {"1C6", "1D7"}, c4 \in {"R", "B", "6", "J"},
     c5 \in {"1", "2", "3", "4", "6"}, c7 \in {"T", "L", "Z"},
     c9 \in Years(2005, 2013) \cup Years(2024, 2025)}

Gms ==
  {Vin(w, c3, c4, c5, "E", c7, c9) :
     w \in {"1GT", "1GC"}, c3 \in {"N", "0", "Z"}, c4 \in {"H", "8", "1", "C"},
     c5 \in {"A", "L", "T", "U", "Y", "0", "O"}, c7 \in {"8", "T", "Y", "Z"},
     c9 \in Years(2009, 2016) \cup Years(2018, 2027)}

Cars ==
  {Vin(w, c3, c4, c5, c6, c7, c9) :
     w \in {"WBA", "WA1", "1C4"}, c3 \in {"F", "A"}, c4 \in {"R", "N", "J"},
     c5 \in {"7", "1", "R"}, c6 \in {"C", "F", "A"}, c7 \in {"5", "Y", "T", "P"},
     c9 \in {"N", "R"}}

const_Vins == Fords \cup Rams \cup Gms \cup Cars

const_Later ==
  {Vin("1FT", "8", "W", "2", "B", "T", "M"), Vin("1FT", "8", "W", "2", "B", "6", "M"),
   Vin("1FT", "8", "W", "1", "B", "T", "M"), Vin("1GT", "N", "H", "A", "E", "8", "P"),
   Vin("WBA", "F", "R", "7", "C", "5", "N"), Vin("1C6", "S", "J", "1", "B", "Z", "M")}
=============================================================================
