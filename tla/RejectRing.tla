----------------------------- MODULE RejectRing -----------------------------
(***************************************************************************)
(* The session-scoped reject list of src/ble_rank.cpp: REJ_CAP address     *)
(* slots, a count of the slots in use and a write cursor.  A device that   *)
(* connected and exposed no known GATT profile is recorded here and        *)
(* skipped by later scans; the list lives in RAM and is emptied by a       *)
(* reboot and by "Forget adapter".                                         *)
(*                                                                         *)
(* An address is a spelling: the two Bluetooth stacks print the same       *)
(* device in different hex case, so Who maps each spelling to the device   *)
(* it names (strcasecmp), and Unstorable holds the spellings the code      *)
(* refuses: null, empty, or too long for a slot.                           *)
(***************************************************************************)
EXTENDS Naturals, Sequences

CONSTANTS Addr,        \* address spellings, Unstorable ones included
          Unstorable,  \* null, empty or over-long addresses
          Peer,        \* the devices the storable spellings name
          Who,         \* Who[a]: the device spelling a names
          Cap          \* REJ_CAP

ASSUME RejectRingAssumption ==
  /\ Cap \in Nat \ {0}
  /\ Unstorable \subseteq Addr
  /\ Addr \ Unstorable # {}
  /\ Who \in [Addr \ Unstorable -> Peer]

VARIABLES slot,   \* s_rej: the stored spellings
          used,   \* s_rejCount: entries in use
          next    \* s_rejNext: the write cursor

ringVars == <<slot, used, next>>

Storable == Addr \ Unstorable

\* A bug this list could have: exact comparison of the spellings.
ContainsExact(a) == a \in Storable /\ \E i \in 0 .. used - 1 : slot[i] = a

(* bleRejectContains: a scan of the slots in use, comparing without case.  *)
Contains(a) ==
  /\ a \in Storable
  /\ \E i \in 0 .. used - 1 : Who[slot[i]] = Who[a]

(* Static storage starts zeroed; its contents are never read past used, so *)
(* that any spelling stands for the zeros.                                 *)
RingInit ==
  /\ slot = [i \in 0 .. Cap - 1 |-> CHOOSE a \in Storable : TRUE]
  /\ used = 0
  /\ next = 0

\* A bug this list could have: the cursor sticks at the end instead of wrapping.
RecordNoWrap(a) ==
  /\ a \in Storable
  /\ ~ Contains(a)
  /\ slot' = [slot EXCEPT ![next] = a]
  /\ next' = IF next + 1 < Cap THEN next + 1 ELSE next
  /\ used' = IF used < Cap THEN used + 1 ELSE used

\* bleRejectRecord
Record(a) ==
  /\ a \in Storable
  /\ ~ Contains(a)
  /\ slot' = [slot EXCEPT ![next] = a]
  /\ next' = (next + 1) % Cap
  /\ used' = IF used < Cap THEN used + 1 ELSE used

\* The early returns of bleRejectRecord: nothing is stored.
RecordRefused(a) ==
  /\ a \in Unstorable \/ Contains(a)
  /\ UNCHANGED ringVars

\* bleRejectClear
Clear ==
  /\ used' = 0
  /\ next' = 0
  /\ UNCHANGED slot

RingNext == Clear \/ \E a \in Addr : Record(a) \/ RecordRefused(a)

RingSpec == RingInit /\ [][RingNext]_ringVars
-----------------------------------------------------------------------------
(* The types of the three statics. *)
RingTypeOK ==
  /\ slot \in [0 .. Cap - 1 -> Storable]
  /\ used \in 0 .. Cap
  /\ next \in 0 .. Cap - 1

(* No device holds two slots, however its address is spelled: a duplicate  *)
(* would push a different stranger out of the ring and have it probed      *)
(* again (bleRejectRecord's "duplicates must not consume slots").          *)
NoDeviceTwice ==
  \A i, j \in 0 .. used - 1 : Who[slot[i]] = Who[slot[j]] => i = j

(* Until the ring has been filled once, the slots in use are exactly those *)
(* before the cursor.                                                      *)
PrefixInUse == used < Cap => next = used

(* What the proof of NoDeviceTwice is an induction over. *)
RingInv == RingTypeOK /\ PrefixInUse /\ NoDeviceTwice

(* The ring read backwards from the cursor is the abstract memory. *)
Newest == [i \in 1 .. used |-> Who[slot[(next + Cap - i) % Cap]]]

Memory == INSTANCE RecentSet WITH Device <- Peer, recent <- Newest

(* The ring implements the memory of the last Cap different devices:       *)
(* overflow drops the oldest entry and only it.                            *)
ImplementsRecentSet == Memory!Spec
=============================================================================
