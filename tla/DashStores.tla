----------------------------- MODULE DashStores -----------------------------
(***************************************************************************)
(* What the dash keeps beside its settings: the WiFi credentials, the      *)
(* record of the stacks and the CSV log in flash or on the card, and in    *)
(* RAM the addresses of the devices it has rejected.  They share no state  *)
(* (the namespaces' keys are distinct), so their interleavings add         *)
(* nothing, and a behaviour exercises one of them.  The record of the      *)
(* stacks and the rejected addresses are extended and keep their names;    *)
(* the others are instances.                                               *)
(***************************************************************************)
EXTENDS StackRecord, RejectRing, FiniteSets

CONSTANTS Ssid, Pass, Blank, Max,
          Retry, MaxRows

ASSUME StoresAssumption == MaxRows \in Nat /\ Max \in Nat

VARIABLES store,
          portal, list, keys, todo, geo, meant, kept,
          card, mount, linked, enabled, clock, log, lastRetry, file, logn,
          heads

Wifi == INSTANCE WifiStore
Csv  == INSTANCE SdLog

wifi == <<portal, list, keys, todo, geo, meant, kept>>
csv  == <<card, mount, linked, enabled, clock, log, lastRetry, file, logn,
          heads>>

StoresInit ==
  /\ store \in {"wifi", "stack", "csv", "ring"}
  /\ Wifi!Init /\ Init /\ Csv!Init /\ RingInit

StoresNext ==
  /\ UNCHANGED store
  /\ \/ store = "wifi" /\ Wifi!Next /\ UNCHANGED <<vars, csv, ringVars>>
     \/ store = "stack" /\ Next /\ UNCHANGED <<wifi, csv, ringVars>>
     \/ store = "csv" /\ Csv!Next /\ UNCHANGED <<wifi, vars, ringVars>>
     \/ store = "ring" /\ RingNext /\ UNCHANGED <<wifi, vars, csv>>

StoresSpec ==
  StoresInit /\ [][StoresNext]_<<store, wifi, vars, csv, ringVars>>
  /\ (store = "csv" => Csv!Fairness)

(* The properties of the two that are instances (WifiStore, SdLog).        *)
CredsKept   == Wifi!CredsKept
LogKept     == Csv!LogKept
LogRecovers == store = "csv" => Csv!LogRecovers
=============================================================================
