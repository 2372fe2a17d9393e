------------------------- MODULE BleConnection_proofs -------------------------
(***************************************************************************)
(* What the connection half of src/ble_obd_source.cpp guarantees, for any  *)
(* set of devices, any escalation thresholds and any size of the reject    *)
(* list.  LinkInv is inductive; no theorem needs anything of the constants *)
(* but BleConnectionAssumption.  The connection uses the reject list as a  *)
(* RecentSet; at the end the ring of ble_rank.cpp is proved to be one, for *)
(* every capacity and every way the addresses name devices.                *)
(***************************************************************************)
EXTENDS BleConnection, RejectRing, FiniteSetTheorems, FunctionTheorems,
        SequenceTheorems, TLAPS

\* Where the poll task is tells whether a connection is established.
ConnOfPc == /\ pc \in {"forget", "scan", "round", "cache"} => conn = "Down"
            /\ pc = "vin" => conn = "Up"

\* Only a device with a GATT profile is ever cached, pinned or stored.
CachedIsAdapter == {addr, pinned, nvs} \subseteq Adapter \cup {None}

\* What the half-done forget and the half-done caching have done so far.
HalfDone == /\ pc = "forget" => addr = None /\ nvs = None
            /\ pc = "cache" => addr \in Adapter /\ peer \in {addr, None}

\* The flags of TypeOK, which the provers take apart from the rest.
Flags == /\ linkUp \in BOOLEAN /\ vinRead \in BOOLEAN /\ seen \in BOOLEAN
         /\ forgetReq \in BOOLEAN /\ calm \in BOOLEAN

LinkInv == LinkCoherent /\ ConnOfPc /\ CachedIsAdapter /\ HalfDone
-----------------------------------------------------------------------------
(* A device pushed on the reject list is its first, and the others move up *)
(* by one, but for the oldest of a full list.                              *)
LEMMA PushedOnto ==
  ASSUME rejected \in Seq(Device), Len(rejected) <= RingCap, NEW d \in Device
  PROVE  LET n == IF Len(rejected) < RingCap THEN Len(rejected) + 1 ELSE RingCap
             p == Rejects!Pushed(d)
         IN  /\ p \in Seq(Device) /\ Len(p) = n /\ n \in Nat /\ n <= RingCap
             /\ p[1] = d
             /\ \A i \in 2 .. n : p[i] = rejected[i - 1]
  <1> DEFINE n == IF Len(rejected) < RingCap THEN Len(rejected) + 1 ELSE RingCap
             p == Rejects!Pushed(d)
  <1>1. Len(rejected) \in Nat /\ RingCap \in Nat \ {0}
    BY BleConnectionAssumption
  <1>2. n \in Nat /\ n >= 1 /\ n <= RingCap /\ n - 1 <= Len(rejected)
    BY <1>1
  <1>3. p = [i \in 1 .. n |-> IF i = 1 THEN d ELSE rejected[i - 1]]
    BY DEF Rejects!Pushed
  <1>4. \A i \in 1 .. n : (IF i = 1 THEN d ELSE rejected[i - 1]) \in Device
    <2> TAKE i \in 1 .. n
    <2>1. CASE i # 1
      <3>1. i - 1 \in 1 .. Len(rejected)
        BY <1>2, <2>1
      <3> QED
        BY <2>1, <3>1
    <2> QED
      BY <2>1
  <1> HIDE DEF n
  <1>5. p \in Seq(Device) /\ Len(p) = n
    BY <1>2, <1>3, <1>4, IsASeq
  <1>6. p[1] = d /\ \A i \in 2 .. n : p[i] = rejected[i - 1]
    BY <1>2, <1>3
  <1> QED
    BY <1>2, <1>5, <1>6 DEF n

(* What is remembered after a push: the new device, and nothing that was   *)
(* not remembered before.                                                  *)
LEMMA PushedRemembers ==
  ASSUME rejected \in Seq(Device), Len(rejected) <= RingCap, NEW d \in Device,
         rejected' = Rejects!Pushed(d), NEW e \in Device
  PROVE  /\ Rejects!Remembers(d)'
         /\ Rejects!Remembers(e)' => e = d \/ Rejects!Remembers(e)
         /\ Len(rejected) < RingCap /\ Rejects!Remembers(e) => Rejects!Remembers(e)'
  <1> DEFINE n == IF Len(rejected) < RingCap THEN Len(rejected) + 1 ELSE RingCap
  <1>1. Len(rejected) \in Nat /\ RingCap \in Nat \ {0}
    BY BleConnectionAssumption
  <1>2. /\ Len(rejected') = n
        /\ rejected'[1] = d
        /\ \A i \in 2 .. n : rejected'[i] = rejected[i - 1]
    BY PushedOnto
  <1>3. Rejects!Remembers(d)'
    BY <1>1, <1>2 DEF Rejects!Remembers
  <1>4. ASSUME Rejects!Remembers(e)', e # d PROVE Rejects!Remembers(e)
    <2>1. PICK i \in 1 .. n : rejected'[i] = e
      BY <1>2, <1>4 DEF Rejects!Remembers
    <2>2. i \in 2 .. n
      BY <1>1, <1>2, <1>4, <2>1
    <2>3. rejected[i - 1] = e /\ i - 1 \in 1 .. Len(rejected)
      BY <1>1, <1>2, <2>1, <2>2
    <2> QED
      BY <2>3 DEF Rejects!Remembers
  <1>5. ASSUME Len(rejected) < RingCap, Rejects!Remembers(e)
        PROVE  Rejects!Remembers(e)'
    <2>1. PICK i \in 1 .. Len(rejected) : rejected[i] = e
      BY <1>5 DEF Rejects!Remembers
    <2>2. i + 1 \in 2 .. n
      BY <1>1, <1>5
    <2>3. rejected'[i + 1] = rejected[(i + 1) - 1]
      BY <1>2, <2>2
    <2>4. rejected'[i + 1] = e
      BY <2>1, <2>3
    <2>5. i + 1 \in 1 .. Len(rejected')
      BY <1>2, <2>2
    <2> QED
      BY <2>4, <2>5 DEF Rejects!Remembers
  <1> QED
    BY <1>3, <1>4, <1>5

(* A contact that comes to nothing keeps the types.                        *)
LEMMA VainContactTypes ==
  ASSUME TypeOK, NEW d \in Device, VainContact(d)
  PROVE  /\ rejected' \in Seq(Device) /\ Len(rejected') <= RingCap
         /\ walked' \subseteq Device
  <1>1. CASE UNCHANGED memory
    BY <1>1 DEF VainContact, TypeOK, memory
  <1>2. CASE RecordReject(d) /\ walked' = walked \cup {d}
    <2>1. rejected' \in Seq(Device) /\ Len(rejected') <= RingCap
      BY <1>2, PushedOnto DEF RecordReject, TypeOK
    <2> QED
      BY <1>2, <2>1 DEF TypeOK
  <1> QED
    BY <1>1, <1>2 DEF VainContact

(* The failure count stays below the bound it is cut back at.              *)
LEMMA CountedInRange ==
  ASSUME NEW n \in 0 .. RebootAt + ReinitEvery - 1
  PROVE  Counted(n + 1) \in 0 .. RebootAt + ReinitEvery - 1
  BY BleConnectionAssumption DEF Counted
-----------------------------------------------------------------------------
(* What Init, a restart and Forget leave behind.                           *)
LEMMA FreshTypes ==
  /\ << >> \in Seq(Device) /\ Len(<< >>) = 0 /\ 0 <= RingCap
  /\ 0 \in 0 .. MaxTries /\ 0 \in 0 .. RebootAt + ReinitEvery - 1
  <1>1. RingCap \in Nat /\ MaxTries \in Nat /\ RebootAt \in Nat \ {0} /\ ReinitEvery \in Nat
    BY BleConnectionAssumption
  <1> QED
    BY <1>1, EmptySeq

(* At a boot nothing is connected, listed or set aside.                    *)
LEMMA InitLink == Init => LinkInv
  <1> SUFFICES ASSUME Init PROVE LinkInv
    OBVIOUS
  <1>1. TypeOK
    <2>1. Flags
      BY DEF Init, Flags
    <2> QED
      BY <2>1, BleConnectionAssumption, FreshTypes DEF Init, Flags, TypeOK
  <1> QED
    BY <1>1, BleConnectionAssumption
       DEF Init, LinkInv, LinkCoherent, LinkFlag, PolledIsCached, CacheCoherent, ConnOfPc,
           CachedIsAdapter, HalfDone

(* A restart forgets everything but what NVS holds.                        *)
LEMMA RestartKeepsLink ==
  ASSUME LinkInv, Restart, UNCHANGED <<calm, near>>
  PROVE  LinkInv'
  <1>1. TypeOK'
    <2>1. Flags'
      BY DEF Restart, LinkInv, LinkCoherent, TypeOK, Flags
    <2> QED
      BY <2>1, FreshTypes DEF Restart, LinkInv, LinkCoherent, Flags, TypeOK
  <1> QED
    BY <1>1 DEF Restart, LinkInv, LinkCoherent, LinkFlag, PolledIsCached, CacheCoherent,
                ConnOfPc, CachedIsAdapter, HalfDone

(* Every step of the poll task keeps the connection coherent.              *)
LEMMA PollStepLink == LinkInv /\ PollStep => LinkInv'
  <1> SUFFICES ASSUME LinkInv, PollStep PROVE LinkInv'
    OBVIOUS
  <1> USE DEF LinkInv, LinkCoherent, LinkFlag, PolledIsCached, CacheCoherent, ConnOfPc,
              CachedIsAdapter, HalfDone, link, cache, round, world, vinVars, memory
  <1>1. CASE PollForget
    <2>1. Flags'
      BY <1>1 DEF PollForget, TypeOK, Flags
    <2> QED
      BY <1>1, <2>1 DEF PollForget, Flags, TypeOK
  <1>14. CASE PollForgot
    <2>1. Flags'
      BY <1>14 DEF PollForgot, TypeOK, Flags
    <2>2. TypeOK'
      BY <1>14, <2>1, FreshTypes DEF PollForgot, Flags, TypeOK
    <2> QED
      BY <1>14, <2>2 DEF PollForgot
  <1>2. CASE PollLinkLost
    BY <1>2 DEF PollLinkLost, TypeOK
  <1>3. CASE PollUp
    BY <1>3 DEF PollUp, TypeOK, vars
  <1>4. CASE FastBinds
    BY <1>4, BleConnectionAssumption DEF FastBinds, ComesUp, Retry, Binds, TypeOK
  <1>5. CASE FastFails
    <2>1. addr \in Device
      BY <1>5 DEF FastFails, TypeOK
    <2> QED
      BY <1>5, <2>1, VainContactTypes DEF FastFails, Retry, TypeOK
  <1>6. CASE NoFastPath
    BY <1>6 DEF NoFastPath, Retry, TypeOK
  <1>7. CASE Scan
    <2>1. left' \subseteq Device
      BY <1>7 DEF Scan, ScanResults, TypeOK
    <2> QED
      BY <1>7, <2>1, BleConnectionAssumption DEF Scan, TypeOK
  <1>8. ASSUME NEW d \in Device, Skip(d) PROVE LinkInv'
    BY <1>8 DEF Skip, Candidate, TypeOK
  <1>9. ASSUME NEW d \in Device, TryVain(d) PROVE LinkInv'
    <2>1. tried' \in 0 .. MaxTries
      BY <1>9, BleConnectionAssumption DEF TryVain, Candidate, TypeOK
    <2> QED
      BY <1>9, <2>1, VainContactTypes DEF TryVain, Candidate, TypeOK
  <1>10. ASSUME NEW d \in Device, TryBinds(d) PROVE LinkInv'
    <2>1. Flags'
      BY <1>10 DEF TryBinds, TypeOK, Flags
    <2> QED
      BY <1>10, <2>1, BleConnectionAssumption DEF TryBinds, Candidate, Binds, Flags, TypeOK
  <1>15. CASE StoreAdapter
    <2>1. Flags'
      BY <1>15 DEF StoreAdapter, ComesUp, TypeOK, Flags
    <2> QED
      BY <1>15, <2>1, FreshTypes DEF StoreAdapter, ComesUp, Flags, TypeOK
  <1>11. CASE RoundFails
    <2>1. fails' \in 0 .. RebootAt + ReinitEvery - 1
      BY <1>11, CountedInRange DEF RoundFails, TypeOK
    <2>2. Flags'
      BY <1>11 DEF RoundFails, TypeOK, Flags
    <2>3. TypeOK'
      BY <1>11, <2>1, <2>2, FreshTypes DEF RoundFails, Flags, TypeOK
    <2> QED
      BY <1>11, <2>3 DEF RoundFails, RoundOver
  <1>12. CASE Reboot
    BY <1>12, RestartKeepsLink DEF Reboot
  <1>13. CASE VinReads \/ VinFails
    BY <1>13 DEF VinReads, VinFails, TypeOK
  <1> QED
    BY <1>1, <1>2, <1>3, <1>4, <1>5, <1>6, <1>7, <1>8, <1>9, <1>10, <1>11, <1>12, <1>13,
       <1>14, <1>15
       DEF PollStep

(* So does whatever the menu, the adapter, the radio or the power does     *)
(* between two of them.                                                    *)
LEMMA NextLink == LinkInv /\ [Next]_vars => LinkInv'
  <1> SUFFICES ASSUME LinkInv, [Next]_vars PROVE LinkInv'
    OBVIOUS
  <1> USE DEF LinkInv, LinkCoherent, LinkFlag, PolledIsCached, CacheCoherent, ConnOfPc,
              CachedIsAdapter, HalfDone, link, cache, round, world, vinVars, memory
  <1>1. CASE Forget \/ LinkDrop
    <2>1. Flags'
      BY <1>1 DEF Forget, LinkDrop, TypeOK, Flags
    <2> QED
      BY <1>1, <2>1 DEF Forget, LinkDrop, Flags, TypeOK
  <1>2. CASE Swap
    BY <1>2 DEF Swap, TypeOK
  <1>3. CASE Wedge
    BY <1>3, BleConnectionAssumption DEF Wedge, TypeOK
  <1>4. CASE PowerCycle
    BY <1>4, RestartKeepsLink DEF PowerCycle
  <1>5. CASE CalmDown
    <2>1. near' \subseteq Device
      BY <1>5, BleConnectionAssumption DEF CalmDown
    <2>2. Flags'
      BY <1>5 DEF CalmDown, TypeOK, Flags
    <2> QED
      BY <1>5, <2>1, <2>2 DEF CalmDown, Flags, TypeOK
  <1>6. CASE UNCHANGED vars
    BY <1>6 DEF vars, TypeOK
  <1> QED
    BY <1>1, <1>2, <1>3, <1>4, <1>5, <1>6, PollStepLink DEF Next

(* The link, the list of adapters and the radio keep together, for ever.   *)
THEOREM LinkInvHolds == Spec => []LinkInv
  BY InitLink, NextLink, PTL DEF Spec

(* The flag the gauges trust, the polled adapter, the cache, the pairing   *)
(* pin and NVS belong to one connection, wherever a Forget, a drop, a      *)
(* wedge or a restart falls.                                               *)
THEOREM LinkCoherentHolds == Spec => []LinkCoherent
  <1>1. LinkInv => LinkCoherent
    BY DEF LinkInv
  <1> QED
    BY <1>1, LinkInvHolds, PTL

(* Nothing but a device with a profile of the PROFILES table is ever       *)
(* cached, pinned or stored.                                               *)
THEOREM OnlyAdaptersCached == Spec => []({addr, pinned, nvs} \subseteq Adapter \cup {None})
  <1>1. LinkInv => {addr, pinned, nvs} \subseteq Adapter \cup {None}
    BY DEF LinkInv, CachedIsAdapter
  <1> QED
    BY <1>1, LinkInvHolds, PTL
-----------------------------------------------------------------------------
(* The connection changes the reject list by the operations of its         *)
(* abstract specification and no others: what the ring is proved to        *)
(* implement is what is used here.                                         *)
THEOREM ListIsRecentSet == Spec => Rejects!Spec
  <1> USE DEF memory
  <1>1. Init => Rejects!Init
    BY DEF Init, Rejects!Init
  <1>2. ASSUME LinkInv, [Next]_vars PROVE [Rejects!Next]_rejected
    <2>1. ASSUME NEW d \in Device, VainContact(d) PROVE [Rejects!Next]_rejected
      BY <2>1 DEF VainContact, RecordReject, Rejects!Next, Rejects!Remember
    <2>2. CASE PollForgot \/ Reboot \/ PowerCycle
      BY <2>2 DEF PollForgot, Reboot, PowerCycle, Restart, Rejects!Next, Rejects!Forget
    <2>3. CASE FastFails
      BY <1>2, <2>1, <2>3 DEF FastFails, LinkInv, LinkCoherent, TypeOK
    <2>4. CASE \E d \in Device : TryVain(d)
      BY <2>1, <2>4 DEF TryVain
    <2>5. CASE \/ PollForget \/ PollLinkLost \/ PollUp \/ FastBinds \/ NoFastPath \/ Scan
               \/ (\E d \in Device : Skip(d) \/ TryBinds(d))
               \/ StoreAdapter \/ RoundFails \/ VinReads \/ VinFails
      BY <2>5 DEF PollForget, StoreAdapter, PollLinkLost, PollUp, FastBinds, NoFastPath, Scan, Skip, TryBinds,
                  RoundFails, VinReads, VinFails, vars
    <2>6. CASE Forget \/ LinkDrop \/ Swap \/ Wedge \/ CalmDown \/ UNCHANGED vars
      BY <2>6 DEF Forget, LinkDrop, Swap, Wedge, CalmDown, vars
    <2> QED
      BY <1>2, <2>2, <2>3, <2>4, <2>5, <2>6 DEF Next, PollStep
  <1> QED
    BY <1>1, <1>2, LinkInvHolds, PTL DEF Spec, Rejects!Spec

(* The steps the reject list can change in: it is emptied together with    *)
(* the account of who was walked, or a device is recorded in both.         *)
LEMMA MemorySteps ==
  ASSUME LinkInv, [Next]_vars
  PROVE  \/ UNCHANGED memory
         \/ rejected' = << >> /\ walked' = {}
         \/ \E d \in Device : RecordReject(d) /\ walked' = walked \cup {d}
         \/ UNCHANGED rejected /\ walked \subseteq walked'
  <1> USE DEF memory
  <1>1. CASE PollForgot \/ Reboot \/ PowerCycle
    BY <1>1 DEF PollForgot, Reboot, PowerCycle, Restart
  <1>2. CASE FastFails
    BY <1>2 DEF FastFails, VainContact, LinkInv, LinkCoherent, TypeOK
  <1>3. CASE \E d \in Device : TryVain(d)
    BY <1>3 DEF TryVain, VainContact
  <1>4. CASE \/ PollForget \/ PollLinkLost \/ PollUp \/ FastBinds \/ NoFastPath \/ Scan
             \/ (\E d \in Device : Skip(d) \/ TryBinds(d))
             \/ StoreAdapter \/ RoundFails \/ VinReads \/ VinFails
    BY <1>4 DEF PollForget, PollLinkLost, PollUp, FastBinds, NoFastPath, Scan, Skip,
                TryBinds, StoreAdapter, RoundFails, VinReads, VinFails, vars
  <1>5. CASE Forget \/ LinkDrop \/ Swap \/ Wedge \/ CalmDown \/ UNCHANGED vars
    BY <1>5 DEF Forget, LinkDrop, Swap, Wedge, CalmDown, vars
  <1> QED
    BY <1>1, <1>2, <1>3, <1>4, <1>5 DEF Next, PollStep

(* Nothing is remembered by an empty list.                                 *)
LEMMA EmptyRemembersNothing ==
  ASSUME rejected = << >>, NEW d
  PROVE  ~ Rejects!Remembers(d)
  BY DEF Rejects!Remembers

(* Who is on the reject list had its GATT walked to the end with the link  *)
(* up, since the list was last emptied, whatever the ring has dropped in   *)
(* between, and whichever bad moments, forgets and restarts there were.    *)
THEOREM RejectsWalkedHolds == Spec => []RejectsWalked
  <1>1. Init => RejectsWalked
    BY EmptyRemembersNothing DEF Init, RejectsWalked
  <1>2. LinkInv /\ RejectsWalked /\ [Next]_vars => RejectsWalked'
    <2> SUFFICES ASSUME LinkInv, RejectsWalked, [Next]_vars PROVE RejectsWalked'
      OBVIOUS
    <2>1. CASE UNCHANGED rejected /\ walked \subseteq walked'
      BY <2>1 DEF RejectsWalked, Rejects!Remembers
    <2>2. CASE rejected' = << >>
      BY <2>2 DEF RejectsWalked, Rejects!Remembers
    <2>3. ASSUME NEW d \in Device, RecordReject(d), walked' = walked \cup {d}
          PROVE  RejectsWalked'
      <3>1. CASE Rejects!Remembers(d)
        BY <2>3, <3>1 DEF RecordReject, RejectsWalked, Rejects!Remembers
      <3>2. CASE ~ Rejects!Remembers(d)
        <4>1. /\ rejected \in Seq(Device) /\ Len(rejected) <= RingCap
              /\ rejected' = Rejects!Pushed(d)
          BY <2>3, <3>2 DEF RecordReject, LinkInv, LinkCoherent, TypeOK
        <4>2. \A e \in Device : Rejects!Remembers(e)' => e = d \/ Rejects!Remembers(e)
          BY <4>1, PushedRemembers
        <4> QED
          BY <2>3, <4>2 DEF RejectsWalked
      <3> QED
        BY <3>1, <3>2
    <2> QED
      BY <2>1, <2>2, <2>3, MemorySteps DEF memory
  <1> QED
    BY <1>1, <1>2, LinkInvHolds, PTL DEF Spec
-----------------------------------------------------------------------------
(* The ring.                                                               *)

(* Storing at the cursor of a ring that does not hold the device keeps     *)
(* every device in at most one slot; whether the ring has been filled      *)
(* before decides which slot is overwritten.                               *)
LEMMA RecordKeepsInv ==
  ASSUME NEW a \in Addr, RingInv, Record(a)
  PROVE  RingInv'
<1> USE RejectRingAssumption DEF Storable
<1>1. /\ a \in Storable
      /\ slot' = [slot EXCEPT ![next] = a]
      /\ used' = IF used < Cap THEN used + 1 ELSE used
      /\ \A i \in 0 .. used - 1 : Who[slot[i]] # Who[a]
  BY DEF Record, Contains
<1>2. /\ next \in 0 .. Cap - 1
      /\ used \in 0 .. Cap
      /\ slot \in [0 .. Cap - 1 -> Storable]
  BY DEF RingInv, RingTypeOK
<1>3. next' = IF next + 1 < Cap THEN next + 1 ELSE 0
  BY <1>2 DEF Record
<1>4. RingTypeOK'
  BY <1>1, <1>2, <1>3 DEF RingTypeOK
<1>5. PrefixInUse'
  BY <1>1, <1>2, <1>3 DEF RingInv, PrefixInUse
<1>6. NoDeviceTwice'
  <2> SUFFICES ASSUME NEW i \in 0 .. used' - 1, NEW j \in 0 .. used' - 1,
                      Who[slot'[i]] = Who[slot'[j]]
               PROVE  i = j
    BY DEF NoDeviceTwice
  <2>1. /\ i \in 0 .. Cap - 1
        /\ j \in 0 .. Cap - 1
    BY <1>1, <1>2
  <2>2. /\ i # next => i \in 0 .. used - 1
        /\ j # next => j \in 0 .. used - 1
    BY <1>1, <1>2 DEF RingInv, PrefixInUse
  <2> QED
    BY <1>1, <1>2, <2>1, <2>2 DEF RingInv, NoDeviceTwice
<1> QED
  BY <1>4, <1>5, <1>6 DEF RingInv

(* The cursor, the count and the stored addresses always keep their types, *)
(* and no device ever holds two of the slots bleRejectRecord fills.        *)
THEOREM RingInvariant == RingSpec => []RingInv
<1> USE RejectRingAssumption DEF Storable
<1>1. RingInit => RingInv
  BY DEF RingInit, RingInv, RingTypeOK, PrefixInUse, NoDeviceTwice
<1>2. RingInv /\ [RingNext]_ringVars => RingInv'
  <2> SUFFICES ASSUME RingInv, [RingNext]_ringVars
               PROVE  RingInv'
    OBVIOUS
  <2>1. CASE Clear
    BY <2>1 DEF Clear, RingInv, RingTypeOK, PrefixInUse, NoDeviceTwice
  <2>2. ASSUME NEW a \in Addr, Record(a)
        PROVE  RingInv'
    BY <2>2, RecordKeepsInv
  <2>3. CASE UNCHANGED ringVars
    BY <2>3 DEF ringVars, RingInv, RingTypeOK, PrefixInUse, NoDeviceTwice
  <2> QED
    BY <2>1, <2>2, <2>3 DEF RingNext, RecordRefused
<1> QED
  BY <1>1, <1>2, PTL DEF RingSpec

(* A device is never remembered twice, so recording one it already knows   *)
(* cannot push another out of the list.                                    *)
THEOREM NoDeviceTwiceHolds == RingSpec => []NoDeviceTwice
<1>1. RingInv => NoDeviceTwice
  BY DEF RingInv
<1> QED
  BY <1>1, RingInvariant, PTL
-----------------------------------------------------------------------------
(* Reading backwards from the cursor, entry i lies i slots behind it.      *)
LEMMA Behind ==
  ASSUME NEW n \in 0 .. Cap - 1, NEW i \in 1 .. Cap
  PROVE  (n + Cap - i) % Cap = IF i <= n THEN n - i ELSE n + Cap - i
  BY RejectRingAssumption

(* The ring read backwards is a sequence of devices as long as the ring is *)
(* full.                                                                   *)
LEMMA NewestType ==
  ASSUME RingTypeOK
  PROVE  /\ Len(Newest) = used
         /\ DOMAIN Newest = 1 .. used
         /\ \A i \in 1 .. used :
              Newest[i] = Who[slot[IF i <= next THEN next - i ELSE next + Cap - i]]
<1>1. used \in Nat /\ next \in 0 .. Cap - 1 /\ used <= Cap
  BY RejectRingAssumption DEF RingTypeOK
<1>2. \A i \in 1 .. used :
        (next + Cap - i) % Cap = IF i <= next THEN next - i ELSE next + Cap - i
  BY <1>1, Behind, RejectRingAssumption
<1> QED
  BY <1>1, <1>2 DEF Newest

(* bleRejectRecord's scan finds a device exactly when the abstract memory  *)
(* holds it: nothing in use is out of the backward reading's reach.        *)
LEMMA ContainsRemembers ==
  ASSUME RingInv, NEW a \in Storable
  PROVE  Contains(a) <=> Memory!Remembers(Who[a])
<1> USE RejectRingAssumption
<1>1. RingTypeOK /\ PrefixInUse
  BY DEF RingInv
<1>2. /\ Len(Newest) = used
      /\ \A i \in 1 .. used :
           Newest[i] = Who[slot[IF i <= next THEN next - i ELSE next + Cap - i]]
  BY <1>1, NewestType
<1>3. used \in 0 .. Cap /\ next \in 0 .. Cap - 1
  BY <1>1 DEF RingTypeOK
<1>4. ASSUME Contains(a)
      PROVE  Memory!Remembers(Who[a])
  <2>1. PICK k \in 0 .. used - 1 : Who[slot[k]] = Who[a]
    BY <1>4 DEF Contains
  <2> DEFINE i == IF k < next THEN next - k ELSE next + Cap - k
  <2>2. i \in 1 .. used
    BY <1>1, <1>3 DEF PrefixInUse
  <2>3. (IF i <= next THEN next - i ELSE next + Cap - i) = k
    BY <1>3, <2>1
  <2> QED
    BY <1>2, <2>1, <2>2, <2>3 DEF Memory!Remembers
<1>5. ASSUME Memory!Remembers(Who[a])
      PROVE  Contains(a)
  <2>1. PICK i \in 1 .. used : Newest[i] = Who[a]
    BY <1>2, <1>5 DEF Memory!Remembers
  <2> DEFINE k == IF i <= next THEN next - i ELSE next + Cap - i
  <2>2. k \in 0 .. used - 1
    BY <1>1, <1>3 DEF PrefixInUse
  <2>3. Who[slot[k]] = Who[a]
    BY <1>2, <2>1
  <2> QED
    BY <2>2, <2>3 DEF Contains
<1> QED
  BY <1>4, <1>5

(* Recording a new device is the abstract memory's step: it goes in front, *)
(* everything else moves back by one, and only the oldest can fall out.    *)
LEMMA RecordRemembers ==
  ASSUME RingInv, RingInv', NEW a \in Addr, Record(a)
  PROVE  Memory!Remember(Who[a])
<1> USE RejectRingAssumption
<1>1. /\ a \in Storable
      /\ ~ Contains(a)
      /\ slot' = [slot EXCEPT ![next] = a]
      /\ next' = (next + 1) % Cap
      /\ used' = IF used < Cap THEN used + 1 ELSE used
  BY DEF Record
<1>2. RingTypeOK /\ RingTypeOK' /\ PrefixInUse
  BY DEF RingInv
<1>3. /\ used \in 0 .. Cap
      /\ next \in 0 .. Cap - 1
      /\ slot \in [0 .. Cap - 1 -> Storable]
  BY <1>2 DEF RingTypeOK
<1>4. next' = IF next + 1 < Cap THEN next + 1 ELSE 0
  BY <1>1, <1>3
<1>5. ~ Memory!Remembers(Who[a])
  BY <1>1, ContainsRemembers
<1>6. /\ Len(Newest) = used
      /\ \A i \in 1 .. used :
           Newest[i] = Who[slot[IF i <= next THEN next - i ELSE next + Cap - i]]
  BY <1>2, NewestType
<1>7. /\ DOMAIN Newest' = 1 .. used'
      /\ \A i \in 1 .. used' : Newest'[i] =
           Who[slot'[IF i <= next' THEN next' - i ELSE next' + Cap - i]]
  <2>1. ASSUME RingTypeOK'
        PROVE  /\ used' \in Nat /\ next' \in 0 .. Cap - 1 /\ used' <= Cap
    BY <2>1 DEF RingTypeOK
  <2>2. \A i \in 1 .. used' : (next' + Cap - i) % Cap =
            IF i <= next' THEN next' - i ELSE next' + Cap - i
    BY <1>2, <2>1, Behind
  <2> QED
    BY <2>2 DEF Newest
<1>8. Memory!Pushed(Who[a]) =
        [i \in 1 .. used' |-> IF i = 1 THEN Who[a] ELSE Newest[i - 1]]
  BY <1>1, <1>3, <1>6 DEF Memory!Pushed
<1>9. \A i \in 1 .. used' :
        Newest'[i] = IF i = 1 THEN Who[a] ELSE Newest[i - 1]
  <2> SUFFICES ASSUME NEW i \in 1 .. used'
               PROVE  Newest'[i] = IF i = 1 THEN Who[a] ELSE Newest[i - 1]
    OBVIOUS
  <2>1. Newest'[i] = Who[slot'[IF i <= next' THEN next' - i ELSE next' + Cap - i]]
    BY <1>7
  <2>2. CASE i = 1
    BY <1>1, <1>3, <1>4, <2>1, <2>2
  <2>3. CASE i # 1
    <3>1. i - 1 \in 1 .. used
      BY <1>1, <1>3, <2>3
    <3> DEFINE k == IF i - 1 <= next THEN next - (i - 1) ELSE next + Cap - (i - 1)
    <3>2. Newest[i - 1] = Who[slot[k]]
      BY <1>6, <3>1
    <3>3. k \in 0 .. Cap - 1 /\ k # next
      BY <1>1, <1>3, <2>3, <3>1
    <3>4. (IF i <= next' THEN next' - i ELSE next' + Cap - i) = k
      BY <1>1, <1>3, <1>4, <2>3, <3>1
    <3>5. slot'[k] = slot[k]
      BY <1>1, <1>3, <3>3
    <3> QED
      BY <2>1, <2>3, <3>2, <3>4, <3>5
  <2> QED
    BY <2>2, <2>3
<1>10. Newest' = Memory!Pushed(Who[a])
  BY <1>7, <1>8, <1>9 DEF Newest
<1> QED
  BY <1>5, <1>10 DEF Memory!Remember

(* The ring is an implementation of the memory of the last Cap different   *)
(* devices, whatever order devices are recorded and forgotten in.          *)
THEOREM RingImplementsRecentSet == RingSpec => ImplementsRecentSet
<1>1. RingInit => Memory!Init
  BY DEF RingInit, Memory!Init, Newest
<1>2. RingInv /\ RingInv' /\ [RingNext]_ringVars => [Memory!Next]_Newest
  <2> SUFFICES ASSUME RingInv, RingInv', [RingNext]_ringVars
               PROVE  [Memory!Next]_Newest
    OBVIOUS
  <2>1. CASE Clear
    BY <2>1 DEF Clear, Newest, Memory!Next, Memory!Forget
  <2>2. ASSUME NEW a \in Addr, Record(a)
        PROVE  Memory!Next
    <3>1. Memory!Remember(Who[a])
      BY <2>2, RecordRemembers
    <3>2. Who[a] \in Peer
      BY <2>2, RejectRingAssumption DEF Record, Storable
    <3> QED
      BY <3>1, <3>2 DEF Memory!Next
  <2>3. CASE UNCHANGED ringVars
    BY <2>3 DEF ringVars, Newest
  <2> QED
    BY <2>1, <2>2, <2>3 DEF RingNext, RecordRefused
<1> QED
  BY <1>1, <1>2, RingInvariant, PTL DEF RingSpec, ImplementsRecentSet, Memory!Spec
=============================================================================
