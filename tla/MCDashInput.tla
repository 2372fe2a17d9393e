----------------------------- MODULE MCDashInput ----------------------------
(***************************************************************************)
(* The Generic profile, on a board without an SD slot or an update stack.  *)
(***************************************************************************)
EXTENDS DashInput

const_Hidden == {"Logging", "WifiSetup", "CheckUpdate"}
const_Gaps   == {1, 2}
const_Turns  == {-1, 0, 2}

(* Everything but the requests to commit, which nothing here reads.        *)
Seen == <<contact, held, pos, nav, menu, field, veh, tank, slot, waited,
          consent, line, amiss>>
=============================================================================
