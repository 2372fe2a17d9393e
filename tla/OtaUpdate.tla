------------------------------ MODULE OtaUpdate ------------------------------
(***************************************************************************)
(* Firmware update: otaCheckUpdate() of src/ota_update.cpp from the menu   *)
(* action to the restart that ends it, the boot that follows, and the      *)
(* confirmation of the running image by loop() (src/main.cpp), with the    *)
(* power or the image failing anywhere in between.                         *)
(*                                                                         *)
(* There are two slots.  A release is its version number; a slot may also  *)
(* hold a part of an image (Torn), or one that is whole and is not what    *)
(* the manifest announced (Alien).  The boot loader, the Update library    *)
(* and the release server are external.                                    *)
(***************************************************************************)
EXTENDS Naturals

CONSTANTS
  Release,       \* version numbers; 0 is a local build (parseSemver)
  Crashing,      \* releases that crash before they have run for 20 s
  Torn, Alien,   \* no whole image; an image that is no release
  Size           \* chunks in an image

ASSUME OtaUpdateAssumption ==
  /\ Release \subseteq Nat /\ Crashing \subseteq Release
  /\ Torn # Alien /\ {Torn, Alien} \cap Release = {}
  /\ Size \in Nat \ {0}

VARIABLES
  pc,        \* "loop", or where the update flow is
  offer,     \* the release of the manifest, and is its signature valid?
  got,       \* chunks written
  intact,    \* do they have the digest of the manifest so far?
  confirmed, \* otaConfirmed
  slot,      \* slot[s]: the image in slot s
  mark,      \* mark[s]: "new", "pending", "valid" or "aborted"
  boot,      \* the slot selected for the next boot
  running    \* the slot this boot runs from

flowVars  == <<pc, offer, got, intact>>
flashVars == <<slot, mark, boot>>
vars == <<flowVars, flashVars, confirmed, running>>

Slot == {"A", "B"}
Other(s) == IF s = "A" THEN "B" ELSE "A"
Spare == Other(running)
Whole(s) == slot[s] # Torn
NoOffer == [version |-> 0, signed |-> FALSE]

Init ==
  /\ pc = "loop" /\ offer = NoOffer /\ got = 0 /\ intact = TRUE
  /\ confirmed = FALSE
  /\ \E r \in Release \ Crashing : slot = [s \in Slot |-> IF s = "A" THEN r ELSE Torn]
  /\ mark = [s \in Slot |-> "valid"]
  /\ boot = "A" /\ running = "A"
-----------------------------------------------------------------------------
(* The boot loader gives a new image one boot; an image that was booted    *)
(* and not confirmed is given up for the other slot.  A slot without a     *)
(* whole image is passed over.                                             *)
Chosen == IF mark[boot] = "pending" THEN Other(boot) ELSE boot
Booted == IF Whole(Chosen) THEN Chosen ELSE Other(Chosen)

Reboot ==
  /\ boot' = Chosen /\ running' = Booted
  /\ mark' = [s \in Slot |->
                IF s = boot /\ mark[s] = "pending" THEN "aborted"
                ELSE IF s = Chosen /\ mark[s] = "new" THEN "pending" ELSE mark[s]]
  /\ confirmed' = FALSE
  /\ pc' = "loop" /\ offer' = NoOffer /\ got' = 0 /\ intact' = TRUE
  /\ UNCHANGED slot

Crash == slot[running] \in Crashing /\ Reboot

(* The ignition is turned off, a vehicle was picked or has been detected,  *)
(* or the watchdog has fired: at any time, also in the first 20 s.         *)
RestartOrCut == Reboot

\* A bug loop() could have: the image is confirmed as soon as it runs.
ConfirmAtOnce ==
  /\ pc = "loop" /\ ~ confirmed
  /\ confirmed' = TRUE
  /\ mark' = [mark EXCEPT ![running] = "valid"]
  /\ UNCHANGED <<flowVars, slot, boot, running>>

(* loop() has run for 20 s: the image has not crashed.                     *)
Confirm ==
  /\ pc = "loop" /\ ~ confirmed /\ slot[running] \notin Crashing
  /\ confirmed' = TRUE
  /\ mark' = [mark EXCEPT ![running] = "valid"]
  /\ UNCHANGED <<flowVars, slot, boot, running>>
-----------------------------------------------------------------------------
(* The flow, which blocks loop().                                          *)
FlowStays == UNCHANGED <<confirmed, running>>

Begin ==
  /\ pc = "loop"
  /\ pc' = "manifest"
  /\ UNCHANGED <<offer, got, intact, flashVars>> /\ FlowStays

(* No credentials, no network, no connection, no signature, no release for *)
(* this environment: nothing was touched.                                  *)
NothingFetched ==
  /\ pc = "manifest"
  /\ pc' = "done"
  /\ UNCHANGED <<offer, got, intact, flashVars>> /\ FlowStays

(* The server may offer any release, a replayed one too.                   *)
ManifestFetched ==
  /\ pc = "manifest"
  /\ offer' \in [version : Release, signed : BOOLEAN]
  /\ pc' = "offer"
  /\ UNCHANGED <<got, intact, flashVars>> /\ FlowStays

\* A bug the flow could have: any release but the running one is taken.
AcceptableIfOther == offer.signed /\ offer.version # slot[running]

Acceptable == offer.signed /\ offer.version > slot[running]

Refuse ==
  /\ pc = "offer" /\ ~ Acceptable
  /\ pc' = "done"
  /\ UNCHANGED <<offer, got, intact, flashVars>> /\ FlowStays

\* The image cannot be fetched, has another size, or does not fit.
NoImage ==
  /\ pc = "offer" /\ Acceptable
  /\ pc' = "done"
  /\ UNCHANGED <<offer, got, intact, flashVars>> /\ FlowStays

\* Update.begin
Open ==
  /\ pc = "offer" /\ Acceptable
  /\ slot' = [slot EXCEPT ![Spare] = Torn]
  /\ got' = 0 /\ intact' = TRUE
  /\ pc' = "download"
  /\ UNCHANGED <<offer, mark, boot>> /\ FlowStays

Chunk ==
  /\ pc = "download" /\ got < Size
  /\ got' = got + 1 /\ intact' \in {intact, FALSE}
  /\ UNCHANGED <<pc, offer, flashVars>> /\ FlowStays

\* Everything is there, the connection is closed, or a read or a write fails.
DownloadEnds ==
  /\ pc = "download"
  /\ pc' = "verify"
  /\ UNCHANGED <<offer, got, intact, flashVars>> /\ FlowStays

\* No data, and the connection stays open: the loop has no deadline.
DownloadStalls ==
  /\ pc = "download" /\ got < Size
  /\ pc' = "stalled"
  /\ UNCHANGED <<offer, got, intact, flashVars>> /\ FlowStays

\* A bug the flow could have: the size is checked and the digest is not.
VerifiedSize == got = Size

Verified == got = Size /\ intact

\* A bug the flow could have: a bad download is fetched again, for ever.
DiscardRetries ==
  /\ pc = "verify" /\ ~ Verified
  /\ pc' = "offer"
  /\ UNCHANGED <<offer, got, intact, flashVars>> /\ FlowStays

\* Update.abort
Discard ==
  /\ pc = "verify" /\ ~ Verified
  /\ pc' = "done"
  /\ UNCHANGED <<offer, got, intact, flashVars>> /\ FlowStays

\* Update.end fails: a flash error.
ActivateFails ==
  /\ pc = "verify" /\ Verified
  /\ pc' = "done"
  /\ UNCHANGED <<offer, got, intact, flashVars>> /\ FlowStays

\* What Update.end makes of the chunks written.
Received ==
  IF got < Size THEN Torn
  ELSE IF got = Size /\ intact THEN offer.version ELSE Alien

Activate ==
  /\ pc = "verify" /\ Verified
  /\ slot' = [slot EXCEPT ![Spare] = Received]
  /\ mark' = [mark EXCEPT ![Spare] = "new"]
  /\ boot' = Spare
  /\ pc' = "done"
  /\ UNCHANGED <<offer, got, intact>> /\ FlowStays

\* Every end of the flow is a restart.
FlowRestarts == pc = "done" /\ Reboot

Flow ==
  \/ NothingFetched \/ ManifestFetched
  \/ Refuse \/ NoImage \/ Open
  \/ Chunk \/ DownloadEnds
  \/ Discard \/ ActivateFails \/ Activate
  \/ FlowRestarts

Next == Confirm \/ Begin \/ Flow \/ DownloadStalls \/ Crash \/ RestartOrCut

Spec == Init /\ [][Next]_vars

(* loop() runs, a flow goes on, and an image that crashes does.            *)
FairSpec == Spec /\ WF_vars(Flow) /\ WF_vars(Confirm) /\ WF_vars(Crash)
-----------------------------------------------------------------------------
(* Types. *)
TypeOK ==
  /\ pc \in {"loop", "manifest", "offer", "download", "stalled", "verify", "done"}
  /\ offer \in [version : Release \cup {0}, signed : BOOLEAN]
  /\ got \in 0 .. Size
  /\ intact \in BOOLEAN /\ confirmed \in BOOLEAN
  /\ slot \in [Slot -> Release \cup {Torn, Alien}]
  /\ mark \in [Slot -> {"new", "pending", "valid", "aborted"}]
  /\ boot \in Slot /\ running \in Slot

(* "The device either boots the verified new image or keeps running        *)
(* exactly what it was already running; there is no partially-applied      *)
(* state": whatever failed or was cut, the slot the boot loader will pick  *)
(* holds a whole image, and so does the running one.                       *)
BootsVerified == slot[running] \in Release /\ slot[Booted] \in Release

(* A slot the boot loader is sent to before it is run holds a part of an   *)
(* image or a higher version, and nothing else is ever written.            *)
UpdateInv ==
  /\ TypeOK
  /\ slot[running] \in Release
  /\ \A s \in Slot : slot[s] # Alien
  /\ pc \in {"download", "stalled", "verify"} => Acceptable /\ slot[Spare] = Torn
  /\ boot # running => slot[boot] = Torn \/ slot[boot] > slot[running]

(* A dash runs a lower version than before only when the boot loader gives *)
(* up an image that was never confirmed: a replayed manifest, a refused    *)
(* offer or a failed download never take it back.                          *)
OnlyUnconfirmedGivenUp ==
  [][slot'[running'] < slot[running] => mark[running] = "pending"]_vars

(* "A freshly-OTA'd image that crashes before this is rolled back to the   *)
(* previous partition on the next boot": as long as that partition holds   *)
(* a confirmed image, which an update asked for in the first 20 s          *)
(* overwrites, as Update does not mind that the running image is on        *)
(* probation.                                                              *)
CrashingGivenUp ==
  slot[running] \in Crashing ~>
    slot[running] \notin Crashing \/ ~ Whole(Spare) \/ mark[Spare] # "valid"

(* "Both flows end in ESP.restart(), so there is no resume path", and the  *)
(* OBD task idles until then: the flow ends, unless the download goes      *)
(* silent, for which it has no deadline.                                   *)
FlowEnds == pc # "loop" ~> pc \in {"loop", "stalled"}

=============================================================================
