---------------------------- MODULE BleConnection ----------------------------
(***************************************************************************)
(* The connection half of src/ble_obd_source.cpp: poll() with its blocking *)
(* connectAndSetup() and bindChars(), the adapter cache kept in NVS, the   *)
(* pairing policy the Bluetooth host task asks about, the session reject   *)
(* list, the VIN read that follows a connect, and the escalation from      *)
(* retry to stack re-init to reboot.                                       *)
(*                                                                         *)
(* The poll task is one actor; the menu (forget), the adapter, the radio   *)
(* and the power supply are the others.  They interleave with every        *)
(* blocking call inside a connect round.  The reject list is used through  *)
(* its abstract specification, which RejectRing implements.  The polling   *)
(* of an established link is ObdQuery.                                     *)
(***************************************************************************)
EXTENDS Naturals, Sequences, FiniteSets

CONSTANTS
  Device,      \* everything that may advertise
  Adapter,     \* devices with a GATT profile of the PROFILES table
  SaysObd,     \* advertise one of our services (SvcHint::Obd)
  SaysOther,   \* advertise other services only (SvcHint::Other)
  Named,       \* carry an OBD-ish name
  Bonding,     \* insist on a bond before GATT works
  Places,      \* what may be in range where the car comes to rest
  Rssi,        \* Rssi[d]: signal strength, 0 .. 99
  None,
  NvsInit,     \* adapters that may be cached when the dash first boots
  RingCap,     \* REJ_CAP
  MaxTries,    \* connect attempts per round (12)
  ReinitEvery, \* failed rounds between stack re-inits (8)
  RebootAt,    \* failed rounds before a reboot is considered (20)
  Wedges       \* how the Bluetooth stack can wedge: "host", "radio"

ASSUME BleConnectionAssumption ==
  /\ IsFiniteSet(Device)
  /\ Adapter \subseteq Device
  /\ Places \subseteq SUBSET Device /\ Places # {}
  /\ SaysObd \cap SaysOther = {}
  /\ Rssi \in [Device -> 0 .. 99]
  /\ None \notin Device
  /\ NvsInit \subseteq Adapter \cup {None} /\ NvsInit # {}
  /\ {RingCap, MaxTries, ReinitEvery, RebootAt} \subseteq Nat \ {0}
  /\ Wedges \subseteq {"host", "radio"}

VARIABLES
  pc,        \* where the poll task is: "poll", "forget", "scan", "round",
             \* "cache" or "vin"
  conn,      \* conn_
  addr,      \* addr_: the cached adapter
  pinned,    \* addrBuf_: its mirror, read by the pairing callbacks
  nvs,       \* "bleaddr" as stored
  peer,      \* the device the link is really up to
  linkUp,    \* cur_.linkUp
  vin,       \* whose VIN cur_.vin holds: "none", "this" car's or "another" one's
  vinRead,   \* vinRead_
  rejected,  \* the reject list
  left,      \* scan results not yet examined
  tried,     \* connect attempts made in this round
  fails,     \* connFails_
  seen,      \* did this round's scan find anything (lastScanCount_ > 0)?
  forgetReq, \* forgetReq_
  wedge,     \* is the Bluetooth stack wedged, and how
  calm,      \* has the world stopped interfering?
  near,      \* what is in range once the world is calm
  walked     \* history: whose GATT was walked to its end in vain, the link
             \* still up, since the list was last emptied

link   == <<conn, peer, linkUp>>
cache  == <<addr, pinned, nvs>>
round  == <<left, tried, seen>>
world  == <<wedge, calm, near>>
vinVars == <<vin, vinRead>>
memory == <<rejected, walked>>
vars == <<pc, link, cache, vinVars, memory, round, fails, forgetReq, world>>

Rejects == INSTANCE RecentSet WITH Cap <- RingCap, recent <- rejected
-----------------------------------------------------------------------------
Init ==
  /\ nvs \in NvsInit /\ addr = nvs /\ pinned = nvs
  /\ pc = "poll" /\ conn = "Down" /\ peer = None /\ linkUp = FALSE
  /\ vin = "none" /\ vinRead = FALSE
  /\ rejected = << >> /\ walked = {}
  /\ left = {} /\ tried = 0 /\ seen = FALSE /\ fails = 0
  /\ forgetReq = FALSE
  /\ wedge = "ok" /\ calm = FALSE /\ near = {}

(* poll(): a forget request is honoured before anything else.  NVS and the *)
(* cached address are cleared and the link is closed first; the published  *)
(* flag, the pairing pin and the reject list follow.                       *)
PollForget ==
  /\ pc = "poll" /\ forgetReq
  /\ forgetReq' = FALSE
  /\ nvs' = None /\ addr' = None
  /\ conn' = "Down" /\ peer' = None /\ vinRead' = FALSE
  /\ pc' = "forget"
  /\ UNCHANGED <<pinned, linkUp, vin, memory, round, fails, world>>

\* A bug the forget branch could have: the pairing pin is not cleared.
PollForgotKeepsPin ==
  /\ pc = "forget"
  /\ linkUp' = FALSE
  /\ rejected' = << >> /\ walked' = {}
  /\ pc' = "scan"
  /\ UNCHANGED <<conn, peer, cache, vinVars, round, fails, forgetReq, world>>

(* The rest of the branch.  The same poll falls through to the retry, with *)
(* no cached adapter any more; a retry that is not due yet only delays it. *)
PollForgot ==
  /\ pc = "forget"
  /\ linkUp' = FALSE /\ pinned' = None
  /\ rejected' = << >> /\ walked' = {}
  /\ pc' = "scan"
  /\ UNCHANGED <<conn, peer, addr, nvs, vinVars, round, fails, forgetReq, world>>

\* poll(): the link of an established connection is gone.
PollLinkLost ==
  /\ pc = "poll" /\ ~ forgetReq /\ conn = "Up" /\ peer = None
  /\ conn' = "Down" /\ linkUp' = FALSE /\ vinRead' = FALSE
  /\ UNCHANGED <<pc, peer, vin, cache, memory, round, fails, forgetReq, world>>

\* poll(): the link is up; the query engine takes over (ObdQuery).
PollUp ==
  /\ pc = "poll" /\ ~ forgetReq /\ conn = "Up" /\ peer # None
  /\ UNCHANGED vars
-----------------------------------------------------------------------------
(* What contacting a device can come to: connect() and bindChars().        *)

Reachable(d) == wedge = "ok" /\ (calm => d \in near)
Allowed(d) == pinned \in {None, d}                 \* currentPeerAllowed
Refused(d) == d \in Bonding /\ ~ Allowed(d)

ConnectFails(d) == ~ Reachable(d) \/ ~ calm
Binds(d)        == Reachable(d) /\ d \in Adapter /\ ~ Refused(d)
\* the link dropped during bonding or discovery
Drops(d)        == Reachable(d) /\ (~ calm \/ Refused(d))
\* everything was found, but ATE0 was not acknowledged
EchoFails(d)    == Binds(d) /\ ~ calm
\* GATT was walked, no profile was found, and the link is still up; in a bad
\* moment that befalls an adapter too
NoProfile(d)    == Reachable(d) /\ (d \notin Adapter \/ Refused(d) \/ ~ calm)


\* bleRejectRecord at the end of a vain discovery.
RecordReject(d) ==
  rejected' = IF Rejects!Remembers(d) THEN rejected ELSE Rejects!Pushed(d)

\* A bug the failure path could have: a dropped link counts as no profile.
RecordsDrops(d) ==
  \/ ConnectFails(d) /\ UNCHANGED memory
  \/ EchoFails(d) /\ UNCHANGED memory
  \/ Drops(d) /\ RecordReject(d) /\ UNCHANGED walked
  \/ NoProfile(d) /\ RecordReject(d) /\ walked' = walked \cup {d}

(* A contact that came to nothing; only a walk that ended with the link up *)
(* is remembered.  The link is closed either way.                          *)
VainContact(d) ==
  \/ ConnectFails(d) /\ UNCHANGED memory
  \/ EchoFails(d) /\ UNCHANGED memory
  \/ Drops(d) /\ UNCHANGED memory
  \/ NoProfile(d) /\ RecordReject(d) /\ walked' = walked \cup {d}

\* poll(), connectAndSetup() returned true.
ComesUp ==
  /\ conn' = "Up" /\ linkUp' = TRUE
  /\ fails' = 0
  /\ pc' = "vin"

Retry == pc = "poll" /\ ~ forgetReq /\ conn = "Down"

\* connectAndSetup(), fast path: the cached adapter answers.
FastBinds ==
  /\ Retry /\ addr # None /\ Binds(addr)
  /\ peer' = addr
  /\ ComesUp
  /\ UNCHANGED <<cache, vinVars, memory, round, forgetReq, world>>

\* The cached adapter does not answer; discovery follows.
FastFails ==
  /\ Retry /\ addr # None
  /\ VainContact(addr)
  /\ pc' = "scan"
  /\ UNCHANGED <<conn, peer, linkUp, cache, vinVars, round, fails, forgetReq, world>>

NoFastPath ==
  /\ Retry /\ addr = None
  /\ pc' = "scan"
  /\ UNCHANGED <<link, cache, vinVars, memory, round, fails, forgetReq, world>>

ScanResults ==
  IF wedge = "radio" THEN {{}}
  ELSE IF calm THEN {near}
  ELSE SUBSET Device

Scan ==
  /\ pc = "scan"
  /\ left' \in ScanResults
  /\ seen' = (left' # {}) /\ tried' = 0 /\ pc' = "round"
  /\ UNCHANGED <<link, cache, vinVars, memory, fails, forgetReq, world>>

RankKey(d) == (IF d \in SaysObd THEN 1000 ELSE 0)
              + (IF d \in Named THEN 100 ELSE 0) + Rssi[d]

\* A bug the policy could have: with an adapter cached, a name is not enough.
ShouldSkipNamed(d) ==
  \/ d \in SaysOther
  \/ Rejects!Remembers(d)
  \/ addr # None /\ d \notin SaysObd

\* bleShouldSkip
ShouldSkip(d) ==
  \/ d \in SaysOther
  \/ Rejects!Remembers(d)
  \/ addr # None /\ d \notin SaysObd \cup Named

\* The candidate examined next: the best ranked of those left.
Candidate(d) ==
  /\ pc = "round" /\ tried < MaxTries /\ d \in left
  /\ \A e \in left : RankKey(e) <= RankKey(d)

Skip(d) ==
  /\ Candidate(d) /\ ShouldSkip(d)
  /\ left' = left \ {d}
  /\ UNCHANGED <<pc, link, cache, vinVars, memory, tried, seen, fails, forgetReq, world>>

TryVain(d) ==
  /\ Candidate(d) /\ ~ ShouldSkip(d)
  /\ VainContact(d)
  /\ left' = left \ {d} /\ tried' = tried + 1
  /\ UNCHANGED <<pc, conn, peer, linkUp, cache, vinVars, seen, fails, forgetReq, world>>

\* The adapter is found, and becomes the cached one.
TryBinds(d) ==
  /\ Candidate(d) /\ ~ ShouldSkip(d) /\ Binds(d)
  /\ peer' = d
  /\ addr' = d
  /\ left' = {} /\ tried' = 0 /\ seen' = FALSE /\ pc' = "cache"
  /\ UNCHANGED <<conn, linkUp, pinned, nvs, vinVars, memory, fails, forgetReq, world>>

\* It is stored and pinned, and poll() goes on with a connection.
StoreAdapter ==
  /\ pc = "cache"
  /\ nvs' = addr /\ pinned' = addr
  /\ ComesUp
  /\ UNCHANGED <<peer, addr, vinVars, memory, round, forgetReq, world>>
-----------------------------------------------------------------------------
\* connFails_, cut back once only its remainder can matter any more.
Counted(n) == IF n >= RebootAt + ReinitEvery THEN n - ReinitEvery ELSE n

(* ESP.restart(): RAM is lost, NVS stays, the stack starts afresh.         *)
Restart ==
  /\ pc' = "poll" /\ conn' = "Down" /\ peer' = None
  /\ linkUp' = FALSE /\ vin' = "none" /\ vinRead' = FALSE
  /\ addr' = nvs /\ pinned' = nvs /\ rejected' = << >>
  /\ left' = {} /\ tried' = 0 /\ seen' = FALSE /\ fails' = 0
  /\ forgetReq' = FALSE /\ wedge' = "ok"
  /\ walked' = {}
  /\ UNCHANGED nvs

\* All candidates were examined, the tries are used up, or the round's time is.
RoundOver == pc = "round" /\ (left = {} \/ tried = MaxTries \/ tried > 0)

\* A bug the escalation could have: it reboots whatever the scan found.
EscalatesAnyway ==
  LET n == Counted(fails + 1) IN n % ReinitEvery # 0 /\ n >= RebootAt

EscalatesToReboot ==
  LET n == Counted(fails + 1) IN
  n % ReinitEvery # 0 /\ n >= RebootAt /\ ~ seen

\* The bug the escalation once had: a round whose scan found something is not counted.
RoundFailsIfBlind ==
  /\ RoundOver /\ ~ EscalatesToReboot
  /\ fails' = IF seen THEN fails ELSE Counted(fails + 1)
  /\ wedge' = IF ~ seen /\ fails' % ReinitEvery = 0 /\ wedge = "host" THEN "ok" ELSE wedge
  /\ left' = {} /\ tried' = 0 /\ seen' = FALSE /\ pc' = "poll"
  /\ UNCHANGED <<conn, peer, linkUp, cache, vinVars, memory, forgetReq, calm, near>>

(* poll(), connectAndSetup() returned false: count the round and, every    *)
(* ReinitEvery of them, recoverBleStack().                                 *)
RoundFails ==
  /\ RoundOver /\ ~ EscalatesToReboot
  /\ fails' = Counted(fails + 1)
  /\ wedge' = IF fails' % ReinitEvery = 0 /\ wedge = "host" THEN "ok" ELSE wedge
  /\ left' = {} /\ tried' = 0 /\ seen' = FALSE /\ pc' = "poll"
  /\ UNCHANGED <<conn, peer, linkUp, cache, vinVars, memory, forgetReq, calm, near>>

Reboot ==
  /\ RoundOver /\ EscalatesToReboot
  /\ Restart
  /\ UNCHANGED <<calm, near>>

(* The VIN read of a fresh connection, after linkUp has been published.    *)
VinReads ==
  /\ pc = "vin" /\ peer # None /\ wedge = "ok"
  /\ vin' = "this" /\ vinRead' = TRUE /\ pc' = "poll"
  /\ UNCHANGED <<link, cache, memory, round, fails, forgetReq, world>>

VinFails ==
  /\ pc = "vin" /\ (~ calm \/ peer = None \/ wedge # "ok")
  /\ vinRead' = TRUE /\ pc' = "poll"
  /\ UNCHANGED <<link, vin, cache, memory, round, fails, forgetReq, world>>

PollStep ==
  \/ PollForget \/ PollForgot \/ PollLinkLost \/ PollUp
  \/ FastBinds \/ FastFails \/ NoFastPath \/ Scan
  \/ \E d \in Device : Skip(d) \/ TryVain(d) \/ TryBinds(d)
  \/ StoreAdapter
  \/ RoundFails \/ Reboot \/ VinReads \/ VinFails
-----------------------------------------------------------------------------
(* The other actors. *)
Forget ==
  /\ ~ calm /\ ~ forgetReq
  /\ forgetReq' = TRUE
  /\ UNCHANGED <<pc, link, cache, vinVars, memory, round, fails, world>>

LinkDrop ==
  /\ ~ calm /\ peer # None
  /\ peer' = None
  /\ UNCHANGED <<pc, conn, linkUp, cache, vinVars, memory, round, fails,
                 forgetReq, world>>

(* The adapter is moved to another car; unplugging it drops the link.  A   *)
(* VIN read before is then another car's, or the car's again if it is the  *)
(* one the adapter was in at the time.                                     *)
Swap ==
  /\ ~ calm /\ peer = None /\ vin # "none"
  /\ vin' \in IF vin = "this" THEN {"another"} ELSE {"this", "another"}
  /\ UNCHANGED <<pc, link, cache, vinRead, memory, round, fails, forgetReq, world>>

Wedge ==
  /\ ~ calm /\ wedge = "ok"
  /\ wedge' \in Wedges /\ peer' = None
  /\ UNCHANGED <<pc, conn, linkUp, cache, vinVars, memory, round, fails,
                 forgetReq, calm, near>>

PowerCycle ==
  /\ ~ calm
  /\ Restart
  /\ UNCHANGED <<calm, near>>

\* The car comes to rest somewhere, and nothing interferes any more.
CalmDown ==
  /\ ~ calm
  /\ calm' = TRUE /\ near' \in Places
  /\ peer' = IF peer \in near' THEN peer ELSE None
  /\ UNCHANGED <<pc, conn, linkUp, cache, vinVars, memory, round, fails,
                 forgetReq, wedge>>

Next == PollStep \/ Forget \/ LinkDrop \/ Swap \/ Wedge \/ PowerCycle \/ CalmDown

Spec == Init /\ [][Next]_vars

\* The poll task runs for ever; nothing is assumed of the other actors.
FairSpec == Spec /\ WF_vars(PollStep)
-----------------------------------------------------------------------------
(* Types. *)
TypeOK ==
  /\ pc \in {"poll", "forget", "scan", "round", "cache", "vin"}
  /\ conn \in {"Down", "Up"}
  /\ {addr, pinned, nvs, peer} \subseteq Device \cup {None}
  /\ linkUp \in BOOLEAN /\ vinRead \in BOOLEAN /\ vin \in {"none", "this", "another"}
  /\ rejected \in Seq(Device) /\ Len(rejected) <= RingCap
  /\ left \subseteq Device /\ tried \in 0 .. MaxTries
  /\ fails \in 0 .. RebootAt + ReinitEvery - 1
  /\ seen \in BOOLEAN /\ forgetReq \in BOOLEAN /\ calm \in BOOLEAN
  /\ wedge \in {"ok", "host", "radio"}
  /\ near \subseteq Device /\ walked \subseteq Device

(* The flag the gauges trust is the connection state, whichever way the    *)
(* connection ended: "without this the UI/logger would keep treating       *)
(* frozen values as live".  Only inside the forget branch they may differ. *)
LinkFlag == pc # "forget" => (linkUp <=> conn = "Up")

(* An established connection is to a real adapter, the cached one, and the *)
(* link is up to no one else.                                              *)
PolledIsCached == conn = "Up" => addr \in Adapter /\ peer \in {addr, None}

(* The pairing pin and NVS follow the cache through forgetting, discovery  *)
(* and reboots: a stale pin would refuse the new adapter its bond.         *)
CacheCoherent == pc \notin {"forget", "cache"} => pinned = addr /\ nvs = addr

(* What the tasks take from each other's state is one connection's: the    *)
(* four above, wherever a Forget, a drop or a restart falls.               *)
LinkCoherent == TypeOK /\ LinkFlag /\ PolledIsCached /\ CacheCoherent

(* Who is skipped for the session has had its GATT walked to the end with  *)
(* the link up: "ONLY the no OBD profile outcome belongs here".  No        *)
(* timeout, no link that drops over a bond and no failed ATE0 puts anyone  *)
(* on the list, and what a Forget or a restart empties is gone.            *)
RejectsWalked == \A d \in Device : Rejects!Remembers(d) => d \in walked

(* The published VIN is that of the car the adapter is in, or none.        *)
VinIsCurrent == (pc = "poll" /\ linkUp /\ peer # None) => vin # "another"

(* A wedged stack is always recovered, by re-init or by reboot.            *)
WedgeCleared == wedge # "ok" ~> wedge = "ok"

(* An adapter in range that the dash can still come by itself to connect   *)
(* to: the cached one, whatever the reject list holds of it, or one that   *)
(* is not rejected, does not advertise other services, will not be refused *)
(* a bond, and is named or advertised as one when another is cached.       *)
Findable ==
  \E d \in near \cap Adapter :
     \/ d = addr
     \/ /\ d \notin SaysOther /\ ~ Rejects!Remembers(d) /\ ~ Refused(d)
        /\ addr = None \/ d \in SaysObd \cup Named

(* Once nothing interferes any more, a findable adapter is connected, and  *)
(* for good, whatever was cached, wedged, rejected or asked to be          *)
(* forgotten by then.                                                      *)
Reconnects == (calm /\ Findable) ~> [](conn = "Up" /\ peer # None)

(* "An adapter that is simply absent must NOT reboot-loop": while anything *)
(* at all is in range the escalation comes to an end of its reboots.       *)
(* (Where nothing is, an empty scan tells no absent adapter from a radio   *)
(* that cannot scan, and the dash does reboot for ever.)                   *)
NoRebootLoop == <>[](calm /\ near # {}) => <>[][~ Reboot]_vars

=============================================================================
