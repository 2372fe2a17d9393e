---------------------------- MODULE MCDashStores ----------------------------
(* Among them five devices in a ring of three, one of them spelled in two  *)
(* ways.                                                                   *)
EXTENDS DashStores

CONSTANTS a, b, c, p, q, d1, d2, d3, d4, d5

const_Task  == 1..2
const_Ssid  == {a, b, c, Blank}
const_Pass  == {p, q}
const_Build == {"old", "new"}

const_Peer       == {d1, d2, d3, d4, d5}
const_Unstorable == {"empty"}
const_Addr       == {"a1", "A1", "a2", "a3", "a4", "a5", "empty"}
const_Who == [x \in const_Addr \ const_Unstorable |->
                CASE x \in {"a1", "A1"} -> d1 [] x = "a2" -> d2
                  [] x = "a3" -> d3 [] x = "a4" -> d4 [] x = "a5" -> d5]
=============================================================================
