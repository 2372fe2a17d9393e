--------------------------- MODULE OtaUpdate_proofs ---------------------------
(***************************************************************************)
(* What the update flow guarantees, for every set of releases, crashing or *)
(* not, and every size of an image.  UpdateInv is inductive: a slot that   *)
(* is selected and not run holds a part of an image or a higher version.   *)
(***************************************************************************)
EXTENDS OtaUpdate, TLAPS

(* Two slots: the other one of a slot is the one it is not.                *)
LEMMA TwoSlots ==
  \A s \in Slot : /\ Other(s) \in Slot /\ Other(s) # s
                  /\ \A t \in Slot : t # s => t = Other(s)
  BY DEF Slot, Other

(* What the boot loader runs: the selected slot or, when that holds no     *)
(* whole image, the running one, which always does.                        *)
LEMMA BootedIsWhole ==
  ASSUME UpdateInv
  PROVE  /\ Chosen \in Slot /\ Booted \in Slot
         /\ slot[Booted] \in Release
         /\ Chosen # Booted => slot[Chosen] = Torn /\ Booted = running
  <1>1. boot \in Slot /\ running \in Slot /\ slot[running] \in Release
    BY DEF UpdateInv, TypeOK
  <1>2. Chosen \in Slot
    BY <1>1, TwoSlots DEF Chosen
  <1>3. slot[running] # Torn
    BY <1>1, OtaUpdateAssumption
  <1>4. CASE Whole(Chosen)
    <2>1. Booted = Chosen
      BY <1>4 DEF Booted
    <2>2. slot[Chosen] \in Release
      BY <1>2, <1>4 DEF UpdateInv, TypeOK, Whole
    <2> QED
      BY <1>2, <2>1, <2>2
  <1>5. CASE ~ Whole(Chosen)
    <2>1. slot[Chosen] = Torn
      BY <1>5 DEF Whole
    <2>2. Booted = running
      BY <1>1, <1>2, <1>3, <1>5, <2>1, TwoSlots DEF Booted
    <2> QED
      BY <1>1, <1>2, <2>1, <2>2
  <1> QED
    BY <1>4, <1>5

(* The boot loader keeps the invariant, whatever it finds.                 *)
LEMMA RebootKeepsInv ==
  ASSUME UpdateInv, Reboot
  PROVE  UpdateInv'
  <1>1. /\ Chosen \in Slot /\ Booted \in Slot /\ slot[Booted] \in Release
        /\ Chosen # Booted => slot[Chosen] = Torn
    BY BootedIsWhole
  <1>2. mark' \in [Slot -> {"new", "pending", "valid", "aborted"}]
    <2>1. mark \in [Slot -> {"new", "pending", "valid", "aborted"}]
      BY DEF UpdateInv, TypeOK
    <2>2. \A s \in Slot : mark'[s] \in {"new", "pending", "valid", "aborted"}
      BY <2>1 DEF Reboot
    <2> QED
      BY <2>2 DEF Reboot
  <1>3. TypeOK'
    <2>1. offer' \in [version : Release \cup {0}, signed : BOOLEAN]
      BY DEF Reboot, NoOffer
    <2>2. got' \in 0 .. Size
      BY OtaUpdateAssumption DEF Reboot
    <2>3. slot' \in [Slot -> Release \cup {Torn, Alien}]
      BY DEF UpdateInv, TypeOK, Reboot
    <2> QED
      BY <1>1, <1>2, <2>1, <2>2, <2>3 DEF TypeOK, Reboot
  <1>4. slot'[running'] \in Release /\ (\A s \in Slot : slot'[s] # Alien)
    BY <1>1 DEF UpdateInv, Reboot
  <1>5. boot' # running' => slot'[boot'] = Torn
    BY <1>1 DEF Reboot
  <1> QED
    BY <1>3, <1>4, <1>5 DEF UpdateInv, Reboot

(* Begin.  Nothing is on flash but a whole image and no image at all.      *)
LEMMA InitInv == Init => UpdateInv
  <1> SUFFICES ASSUME Init PROVE UpdateInv
    OBVIOUS
  <1>1. PICK r \in Release \ Crashing :
          slot = [s \in Slot |-> IF s = "A" THEN r ELSE Torn]
    BY DEF Init
  <1>2. /\ "A" \in Slot /\ slot["A"] = r
        /\ \A s \in Slot : slot[s] \in {r, Torn}
    BY <1>1 DEF Slot
  <1>3. slot \in [Slot -> Release \cup {Torn, Alien}]
    BY <1>1
  <1>4. \A s \in Slot : slot[s] # Alien
    BY <1>2, OtaUpdateAssumption
  <1>5. TypeOK
    <2>1. offer \in [version : Release \cup {0}, signed : BOOLEAN]
      BY DEF Init, NoOffer
    <2>2. got \in 0 .. Size
      BY OtaUpdateAssumption DEF Init
    <2>3. mark \in [Slot -> {"new", "pending", "valid", "aborted"}]
      BY DEF Init
    <2> QED
      BY <1>2, <1>3, <2>1, <2>2, <2>3 DEF Init, TypeOK
  <1> QED
    BY <1>2, <1>4, <1>5 DEF Init, UpdateInv

(* Every step keeps the invariant.                                         *)
LEMMA NextInv == UpdateInv /\ [Next]_vars => UpdateInv'
  <1> SUFFICES ASSUME UpdateInv, [Next]_vars PROVE UpdateInv'
    OBVIOUS
  <1> USE DEF FlowStays, flashVars
  <1>1. CASE Confirm
    BY <1>1 DEF Confirm, UpdateInv, TypeOK, flowVars, Acceptable, Spare, Other
  <1>2. CASE Begin
    BY <1>2 DEF Begin, UpdateInv, TypeOK, Acceptable, Spare, Other
  <1>3. CASE \/ NothingFetched \/ Refuse \/ NoImage \/ DownloadEnds \/ DownloadStalls
             \/ Discard \/ ActivateFails
    BY <1>3 DEF NothingFetched, Refuse, NoImage, DownloadEnds, DownloadStalls,
                Discard, ActivateFails, UpdateInv, TypeOK, Acceptable, Spare, Other
  <1>4. CASE ManifestFetched
    BY <1>4 DEF ManifestFetched, UpdateInv, TypeOK
  <1>5. CASE Open
    <2>1. running \in Slot /\ Spare \in Slot /\ Spare # running
      BY TwoSlots DEF UpdateInv, TypeOK, Spare
    <2>2. slot' \in [Slot -> Release \cup {Torn, Alien}]
      BY <1>5, <2>1 DEF Open, UpdateInv, TypeOK
    <2>3. TypeOK'
      BY <1>5, <2>2, OtaUpdateAssumption DEF Open, UpdateInv, TypeOK
    <2>4. slot'[running] = slot[running] /\ slot'[Spare] = Torn /\ running' = running
      BY <1>5, <2>1 DEF Open, UpdateInv, TypeOK
    <2>5. \A s \in Slot : slot'[s] # Alien
      BY <1>5, OtaUpdateAssumption DEF Open, UpdateInv, TypeOK
    <2>6. boot' # running' => slot'[boot'] = Torn
      BY <1>5, <2>1, <2>4, TwoSlots DEF Open, UpdateInv, TypeOK, Spare
    <2>7. Acceptable' /\ slot'[Spare'] = Torn
      BY <1>5, <2>4 DEF Open, Acceptable, Spare, Other
    <2> QED
      BY <2>3, <2>4, <2>5, <2>6, <2>7 DEF UpdateInv
  <1>6. CASE Chunk
    <2>1. got' \in 0 .. Size /\ intact' \in BOOLEAN
      <3>1. got \in 0 .. Size /\ intact \in BOOLEAN
        BY DEF UpdateInv, TypeOK
      <3>2. got < Size /\ got' = got + 1 /\ Size \in Nat
        BY <1>6, OtaUpdateAssumption DEF Chunk
      <3>3. got' \in 0 .. Size
        BY <3>1, <3>2
      <3>4. intact' = intact \/ intact' = FALSE
        BY <1>6, Zenon DEF Chunk
      <3> QED
        BY <3>1, <3>3, <3>4
    <2>2. UNCHANGED <<pc, offer, slot, mark, boot, confirmed, running>>
      BY <1>6 DEF Chunk
    <2>3. TypeOK'
      BY <2>1, <2>2 DEF UpdateInv, TypeOK
    <2>4. (Acceptable <=> Acceptable') /\ Spare' = Spare
      BY <2>2 DEF Acceptable, Spare, Other
    <2> QED
      BY <2>2, <2>3, <2>4 DEF UpdateInv
  <1>7. CASE Activate
    <2>1. running \in Slot /\ Spare \in Slot /\ Spare # running
      BY TwoSlots DEF UpdateInv, TypeOK, Spare
    <2>2. Received = offer.version
      BY <1>7, OtaUpdateAssumption DEF Activate, Verified, Received
    <2>3. offer.version \in Release /\ offer.version > slot[running]
      <3>1. Acceptable /\ slot[running] \in Nat
        BY <1>7, OtaUpdateAssumption DEF Activate, UpdateInv
      <3>2. offer.version \in Release \cup {0}
        BY DEF UpdateInv, TypeOK
      <3> QED
        BY <3>1, <3>2 DEF Acceptable
    <2>4. slot' = [slot EXCEPT ![Spare] = offer.version] /\ running' = running
      BY <1>7, <2>2 DEF Activate
    <2>5. slot' \in [Slot -> Release \cup {Torn, Alien}]
      BY <2>1, <2>3, <2>4 DEF UpdateInv, TypeOK
    <2>6. TypeOK'
      BY <1>7, <2>1, <2>5 DEF Activate, UpdateInv, TypeOK
    <2>7. slot'[running] = slot[running] /\ slot'[Spare] = offer.version
      BY <2>1, <2>4 DEF UpdateInv, TypeOK
    <2>8. \A s \in Slot : slot'[s] # Alien
      BY <2>3, <2>4, OtaUpdateAssumption DEF UpdateInv, TypeOK
    <2> QED
      BY <1>7, <2>3, <2>4, <2>6, <2>7, <2>8 DEF Activate, UpdateInv
  <1>8. CASE FlowRestarts \/ Crash \/ RestartOrCut
    BY <1>8, RebootKeepsInv DEF FlowRestarts, Crash, RestartOrCut
  <1>9. CASE UNCHANGED vars
    BY <1>9 DEF vars, flowVars, UpdateInv, TypeOK, Acceptable, Spare, Other
  <1> QED
    BY <1>1, <1>2, <1>3, <1>4, <1>5, <1>6, <1>7, <1>8, <1>9 DEF Next, Flow

(* The invariant holds for ever.                                           *)
THEOREM UpdateInvHolds == Spec => []UpdateInv
  BY InitInv, NextInv, PTL DEF Spec

(* The state is what otaCheckUpdate() and the boot loader can make of it:  *)
(* no slot or chunk count out of range, on any path.                       *)
THEOREM TypeCorrect == Spec => []TypeOK
  <1>1. UpdateInv => TypeOK
    BY DEF UpdateInv
  <1> QED
    BY <1>1, UpdateInvHolds, PTL

(* "The device either boots the verified new image or keeps running        *)
(* exactly what it was already running": wherever the flow fails or the    *)
(* power is cut, the running slot holds a whole release, and so does the   *)
(* one the boot loader will take.                                          *)
THEOREM BootsVerifiedHolds == Spec => []BootsVerified
  <1>1. UpdateInv => BootsVerified
    BY BootedIsWhole DEF UpdateInv, BootsVerified
  <1> QED
    BY <1>1, UpdateInvHolds, PTL

(* A lower version is run again only when the boot loader gives up an      *)
(* image that loop() has not confirmed: no manifest takes a dash back.     *)
THEOREM OnlyUnconfirmedGivenUpHolds == Spec => OnlyUnconfirmedGivenUp
  <1> DEFINE Kept == slot'[running'] < slot[running] => mark[running] = "pending"
  <1>1. UpdateInv /\ Reboot => Kept
    <2> SUFFICES ASSUME UpdateInv, Reboot, mark[running] # "pending"
                 PROVE  ~ (slot'[running'] < slot[running])
      OBVIOUS
    <2>1. /\ running \in Slot /\ boot \in Slot /\ slot[running] \in Nat
          /\ running' = Booted /\ slot' = slot
      BY OtaUpdateAssumption DEF UpdateInv, TypeOK, Reboot
    <2>2. Chosen \in {boot, running}
      BY <2>1, TwoSlots DEF Chosen
    <2>3. CASE Booted = running
      BY <2>1, <2>3
    <2>4. CASE Booted # running
      <3>1. slot[Booted] \in Nat /\ slot[Booted] # Torn
        BY BootedIsWhole, OtaUpdateAssumption
      <3>2. Booted = Chosen
        BY <2>4, BootedIsWhole
      <3>3. boot # running /\ Booted = boot
        BY <2>2, <2>4, <3>2
      <3>4. slot[Booted] > slot[running]
        BY <3>1, <3>3 DEF UpdateInv
      <3>5. slot'[running'] = slot[Booted]
        BY <2>1
      <3> QED
        BY <2>1, <3>1, <3>4, <3>5
    <2> QED
      BY <2>3, <2>4
  <1>2. UpdateInv /\ [Next]_vars => [Kept]_vars
    <2> SUFFICES ASSUME UpdateInv, Next PROVE Kept
      OBVIOUS
    <2> USE DEF FlowStays, flashVars
    <2>1. running \in Slot /\ Spare # running /\ slot[running] \in Nat
      BY TwoSlots, OtaUpdateAssumption DEF UpdateInv, TypeOK, Spare
    <2>2. CASE Open \/ Activate
      BY <2>1, <2>2 DEF Open, Activate, UpdateInv, TypeOK
    <2>3. CASE FlowRestarts \/ Crash \/ RestartOrCut
      BY <1>1, <2>3 DEF FlowRestarts, Crash, RestartOrCut
    <2>4. CASE \/ Confirm \/ Begin \/ NothingFetched \/ ManifestFetched \/ Refuse \/ NoImage
               \/ Chunk \/ DownloadEnds \/ DownloadStalls \/ Discard \/ ActivateFails
      <3>1. slot' = slot /\ running' = running
        BY <2>4 DEF Confirm, Begin, NothingFetched, ManifestFetched, Refuse, NoImage,
           Chunk, DownloadEnds, DownloadStalls, Discard, ActivateFails
      <3> QED
        BY <2>1, <3>1
    <2> QED
      BY <2>2, <2>3, <2>4 DEF Next, Flow
  <1> QED
    BY <1>2, UpdateInvHolds, PTL DEF Spec, OnlyUnconfirmedGivenUp
=============================================================================
