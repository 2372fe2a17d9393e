--------------------------- MODULE MCBleConnection ---------------------------
(* The owner's adapter, another adapter cached earlier and now out of      *)
(* range, a laptop (silent) and a watch (advertising other services).      *)
EXTENDS BleConnection

CONSTANTS adapter, oldAdapter, laptop, watch

MCDevice == {adapter, oldAdapter, laptop, watch}
\* a quiet place; strangers only; the adapter among them
MCPlaces == {{}, {laptop, watch}, {adapter, laptop, watch}}
EqualRssi == [d \in Device |-> 50]
=============================================================================
