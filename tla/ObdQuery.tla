------------------------------ MODULE ObdQuery ------------------------------
(***************************************************************************)
(* The non-blocking query engine of src/obd_query.h over the Bluetooth     *)
(* transport of src/ble_obd_source.cpp, from the VIN read that follows a   *)
(* connect (src/vin_read.h) to the next loss of the link.                  *)
(*                                                                         *)
(* The poll task runs the engine, the Bluetooth host task pushes received  *)
(* bytes into the ring, and the adapter executes commands in its own time. *)
(* A text is one token: an answer names the command it answers and the ECU *)
(* address it was asked under, a prompt is the '>' that ends every reply.  *)
(* Commands and answers that time out are not lost: they turn up late.     *)
(***************************************************************************)
EXTENDS Integers, Sequences

CONSTANTS
  Row,          \* the polled readouts
  Hdr,          \* the ECU addresses of the profile
  Header,       \* Header[r]: the address row r is asked under
  Cmd,          \* Cmd[r]: mode and PID of row r
  SetupLen,     \* SetupLen[h]: setup commands of h; the last one is AT SH
  DefaultHdr,   \* the address an adapter has after ATZ
  VinHdr,       \* the address of the VIN read (7E0)
  VinCmd,       \* the VIN request (0902)
  NoHdr, NoCmd, \* no address (-1) and no command
  VinAttempts,  \* VIN_READ_ATTEMPTS
  RingCap,      \* the ring's capacity, in tokens
  FloodMax,     \* the flood guard, in tokens
  Lines,        \* how many answer lines a reply may have
  BadFrames,    \* may a decoder reject an answer (NaN)?
  Aborts,       \* does a busy adapter abort when it is written to?
  MaxLate       \* bound: commands a live adapter may be behind at a timeout

Address == Hdr \cup {DefaultHdr, VinHdr}
Query == {Cmd[r] : r \in Row} \cup {VinCmd}

ASSUME ObdQueryAssumption ==
  /\ Header \in [Row -> Hdr]
  /\ SetupLen \in [Hdr -> Nat]
  /\ NoHdr \notin Address
  /\ NoCmd \notin Query
  /\ VinCmd \notin {Cmd[r] : r \in Row}
  /\ VinAttempts \in Nat \ {0}
  /\ RingCap \in Nat
  /\ FloodMax \in Nat \ {0}
  /\ Lines \subseteq Nat
  /\ BadFrames \in BOOLEAN
  /\ Aborts \in BOOLEAN
  /\ MaxLate \in Nat

VARIABLES
  tx,     \* PidQueryState::txState, and the connection steps around it
  cur,    \* curIdx
  hdr,    \* curHeader
  step,   \* setupStep
  buf,    \* rxBuf (and the local buffer of the VIN read)
  tries,  \* VIN attempts made
  due,    \* has deadlineMs passed?
  store,  \* the ECU each published value came from
  rx,     \* the ByteRing between the host task and the poll task
  air,    \* tokens the adapter has sent and the radio has not delivered
  cmdQ,   \* commands written and not yet executed by the adapter
  elm,    \* the address the adapter really has selected
  hung,   \* does the adapter ignore us?
  late    \* history: on this link something was given up before its reply
          \* was over

engine  == <<cur, hdr, step, tries, store>>
adapter == <<air, elm, hung>>
vars    == <<tx, cur, hdr, step, buf, tries, due, store, rx, air, cmdQ, elm, hung,
             late>>

(* A live adapter has not sent, or the radio not delivered, all of it.     *)
Owing == ~ hung /\ (cmdQ # << >> \/ air # << >>)
-----------------------------------------------------------------------------
(* Tokens and commands. *)

Body(c, h) == [cmd |-> c, from |-> h]
Prompt     == [cmd |-> NoCmd, from |-> NoHdr]
Token      == [cmd : Query \cup {NoCmd}, from : Address \cup {NoHdr}]

Aux    == [op |-> "aux", arg |-> NoHdr]   \* AT CP, AT CRA, ...: no new address
Stop   == [op |-> "stop", arg |-> NoHdr]  \* an aborted request
Sh(h)  == [op |-> "sh", arg |-> h]        \* AT SH
Get(c) == [op |-> "get", arg |-> c]       \* a request
Command == {Aux, Stop} \cup {Sh(h) : h \in Address} \cup {Get(c) : c \in Query}

SetupCmd(h, k) == IF k = SetupLen[h] - 1 THEN Sh(h) ELSE Aux

FirstPrompt(p) == rx[p] = Prompt /\ \A i \in 1 .. p - 1 : rx[i] # Prompt
NoPrompt == \A i \in DOMAIN rx : rx[i] # Prompt
After(p) == SubSeq(rx, p + 1, Len(rx))
Before(p) == SubSeq(rx, 1, p - 1)

(* QueryIo::write.  A hung adapter reads nothing; a busy one that aborts   *)
(* drops what it was doing and may take the new command for the key press  *)
(* that stopped it.                                                        *)
Write(c) ==
  IF hung THEN UNCHANGED cmdQ
  ELSE IF Aborts /\ cmdQ # << >> THEN cmdQ' \in {<<Stop>>, <<Stop, c>>}
  ELSE cmdQ' = Append(cmdQ, c)
-----------------------------------------------------------------------------
Init ==
  /\ tx = "Down" /\ cur \in Row /\ hdr = NoHdr /\ step = 0
  /\ buf = << >> /\ tries = 0 /\ due = FALSE
  /\ store = [r \in Row |-> NoHdr]
  /\ rx = << >> /\ air = << >> /\ cmdQ = << >>
  /\ elm = DefaultHdr /\ hung = FALSE
  /\ late = FALSE

(* A connect that succeeded: ATZ has reset the adapter, a late adapter may *)
(* still owe a reply to the best-effort AT init, and the VIN read begins.  *)
Connect ==
  /\ tx = "Down"
  /\ tx' = "VinHeader" /\ tries' = 1 /\ due' = FALSE /\ hdr' = NoHdr
  /\ rx' = << >> /\ buf' = << >> /\ air' = << >>
  /\ \/ cmdQ' = <<Sh(VinHdr)>> /\ late' = FALSE
     \/ MaxLate > 0 /\ cmdQ' = <<Aux, Sh(VinHdr)>> /\ late' = TRUE
  /\ elm' = DefaultHdr /\ hung' = FALSE
  /\ UNCHANGED <<cur, step, store>>

\* readVinOverIo: the AT SH prompt came or 400 ms passed; ask for the VIN.
VinAsk ==
  /\ tx = "VinHeader"
  /\ due \/ ~ NoPrompt
  /\ rx' = << >> /\ buf' = << >> /\ due' = FALSE
  /\ Write(Get(VinCmd))
  /\ tx' = "VinReply"
  /\ UNCHANGED <<engine, adapter, late>>

(* The reply ended or timed out with nothing usable and attempts are left. *)
VinRetry ==
  /\ tx = "VinReply" /\ tries < VinAttempts
  /\ \/ due /\ NoPrompt
     \/ \E p \in DOMAIN rx : FirstPrompt(p)
  /\ tries' = tries + 1
  /\ rx' = << >> /\ buf' = << >> /\ due' = FALSE
  /\ Write(Sh(VinHdr))
  /\ tx' = "VinHeader"
  /\ UNCHANGED <<cur, hdr, step, store, adapter, late>>

(* A VIN was parsed, or the attempts are used up: polling begins with the  *)
(* header belief cleared.                                                  *)
VinDone ==
  /\ tx = "VinReply"
  /\ \/ /\ due /\ NoPrompt /\ tries = VinAttempts
        /\ rx' = << >>
     \/ \E p \in DOMAIN rx :
          /\ FirstPrompt(p)
          /\ \/ tries = VinAttempts
             \/ \E i \in DOMAIN (buf \o Before(p)) : (buf \o Before(p))[i].cmd = VinCmd
          /\ rx' = After(p)
  /\ tx' = "Idle" /\ hdr' = NoHdr /\ due' = FALSE
  /\ UNCHANGED <<cur, step, buf, tries, store, cmdQ, adapter, late>>

\* The VIN read drains what has come in without a prompt.
VinDrain ==
  /\ tx \in {"VinHeader", "VinReply"} /\ ~ due /\ NoPrompt /\ rx # << >>
  /\ buf' = buf \o rx /\ rx' = << >>
  /\ UNCHANGED <<tx, due, cmdQ, engine, adapter, late>>
-----------------------------------------------------------------------------
(* pidQueryStep, Idle: flush, pick a row, and either select its header or  *)
(* ask right away.  The schedule may pick any row.                         *)
StartSetup(r) ==
  /\ tx = "Idle"
  /\ Header[r] # hdr /\ SetupLen[Header[r]] > 0
  /\ cur' = r /\ hdr' = Header[r] /\ step' = 1
  /\ rx' = << >> /\ buf' = << >> /\ due' = FALSE
  /\ Write(SetupCmd(Header[r], 0))
  /\ tx' = "WaitHeader"
  /\ UNCHANGED <<tries, store, adapter, late>>

StartQuery(r) ==
  /\ tx = "Idle"
  /\ Header[r] = hdr \/ SetupLen[Header[r]] = 0
  /\ cur' = r /\ hdr' = Header[r]
  /\ step' = IF Header[r] = hdr THEN step ELSE 1
  /\ rx' = << >> /\ buf' = << >> /\ due' = FALSE
  /\ Write(Get(Cmd[r]))
  /\ tx' = "WaitData"
  /\ UNCHANGED <<tries, store, adapter, late>>

\* WaitHeader: a prompt was read and a setup command is left to send.
HeaderNext ==
  /\ tx = "WaitHeader" /\ step < SetupLen[hdr]
  /\ \E p \in DOMAIN rx : FirstPrompt(p) /\ rx' = After(p)
  /\ Write(SetupCmd(hdr, step))
  /\ step' = step + 1 /\ due' = FALSE
  /\ UNCHANGED <<tx, cur, hdr, buf, tries, store, adapter, late>>

\* A bug the engine could have: setup and query are sent back to back.
HeaderDoneEager ==
  /\ tx = "WaitHeader" /\ step >= SetupLen[hdr]
  /\ Write(Get(Cmd[cur]))
  /\ step' = step + 1 /\ buf' = << >> /\ due' = FALSE
  /\ tx' = "WaitData"
  /\ UNCHANGED <<cur, hdr, rx, tries, store, adapter, late>>

\* WaitHeader: a prompt was read and the setup is complete; ask.
HeaderDone ==
  /\ tx = "WaitHeader" /\ step >= SetupLen[hdr]
  /\ \E p \in DOMAIN rx : FirstPrompt(p) /\ rx' = After(p)
  /\ Write(Get(Cmd[cur]))
  /\ step' = step + 1 /\ buf' = << >> /\ due' = FALSE
  /\ tx' = "WaitData"
  /\ UNCHANGED <<cur, hdr, tries, store, adapter, late>>

\* A bug the engine could have: the belief survives a failed header change.
HeaderTimeoutKeepsBelief ==
  /\ tx = "WaitHeader" /\ due /\ NoPrompt
  /\ rx' = << >> /\ tx' = "Idle" /\ due' = FALSE
  /\ UNCHANGED <<buf, cmdQ, engine, adapter, late>>

\* WaitHeader: nothing but noise by the deadline; select the header anew.
HeaderTimeout ==
  /\ tx = "WaitHeader" /\ due /\ NoPrompt
  /\ rx' = << >> /\ hdr' = NoHdr /\ tx' = "Idle" /\ due' = FALSE
  /\ UNCHANGED <<cur, step, buf, tries, store, cmdQ, adapter, late>>

HeaderDrain ==
  /\ tx = "WaitHeader" /\ ~ due /\ NoPrompt /\ rx # << >>
  /\ rx' = << >>
  /\ UNCHANGED <<tx, due, buf, cmdQ, engine, adapter, late>>
-----------------------------------------------------------------------------
(* WaitData.  A reply is everything up to the first prompt, provided the   *)
(* flood guard does not strike first; the value published is that of the   *)
(* first line that answers the command asked.                              *)
ReplyEnds(p) == FirstPrompt(p) /\ Len(buf) + p <= FloodMax
Flooded == /\ Len(buf) + Len(rx) > FloodMax
           /\ \A p \in DOMAIN rx : ~ ReplyEnds(p)

\* A bug the engine could have: the PID of the reply is not compared.
AnyAnswerIn(data, i) == i = 1 /\ data[1].cmd # VinCmd

AnswerIn(data, i) ==
  /\ data[i].cmd = Cmd[cur]
  /\ \A j \in 1 .. i - 1 : data[j].cmd # Cmd[cur]

DataPublish ==
  /\ tx = "WaitData"
  /\ \E p \in DOMAIN rx :
       LET data == buf \o Before(p) IN
       /\ ReplyEnds(p)
       /\ \E i \in DOMAIN data :
            AnswerIn(data, i) /\ store' = [store EXCEPT ![cur] = data[i].from]
       /\ buf' = data /\ rx' = After(p)
  /\ tx' = "Idle" /\ due' = FALSE
  /\ UNCHANGED <<cur, hdr, step, tries, cmdQ, adapter, late>>

\* The reply does not answer this row, or its decoder returned NaN.
DataIgnore ==
  /\ tx = "WaitData"
  /\ \E p \in DOMAIN rx :
       LET data == buf \o Before(p) IN
       /\ ReplyEnds(p)
       /\ BadFrames \/ \A i \in DOMAIN data : ~ AnswerIn(data, i)
       /\ buf' = data /\ rx' = After(p)
  /\ tx' = "Idle" /\ due' = FALSE
  /\ UNCHANGED <<cmdQ, engine, adapter, late>>

DataFlood ==
  /\ tx = "WaitData" /\ Flooded
  /\ rx' = SubSeq(rx, FloodMax - Len(buf) + 2, Len(rx))
  /\ buf' = << >> /\ tx' = "Idle" /\ due' = FALSE
  /\ late' = IF Owing THEN TRUE ELSE late
  /\ UNCHANGED <<cmdQ, engine, adapter>>

\* A bug the engine could have: a reply without a prompt is awaited for ever.
DataTimeoutOnlyIfAnswered ==
  /\ tx = "WaitData" /\ due /\ NoPrompt /\ ~ Flooded /\ rx # << >>
  /\ buf' = buf \o rx /\ rx' = << >> /\ tx' = "Idle" /\ due' = FALSE
  /\ UNCHANGED <<cmdQ, engine, adapter, late>>

DataTimeout ==
  /\ tx = "WaitData" /\ due /\ NoPrompt /\ ~ Flooded
  /\ buf' = buf \o rx /\ rx' = << >> /\ tx' = "Idle" /\ due' = FALSE
  /\ UNCHANGED <<cmdQ, engine, adapter, late>>

DataDrain ==
  /\ tx = "WaitData" /\ ~ due /\ NoPrompt /\ ~ Flooded /\ rx # << >>
  /\ buf' = buf \o rx /\ rx' = << >>
  /\ UNCHANGED <<tx, due, cmdQ, engine, adapter, late>>

(* poll() finds the link gone. *)
LinkLost ==
  /\ tx \in {"Idle", "WaitHeader", "WaitData"}
  /\ tx' = "Down" /\ due' = FALSE
  /\ UNCHANGED <<buf, rx, cmdQ, engine, adapter, late>>
-----------------------------------------------------------------------------
Waiting == tx \in {"VinHeader", "VinReply", "WaitHeader", "WaitData"}

(* The reply deadline passes. *)
Elapse ==
  /\ Waiting /\ ~ due
  /\ hung \/ Len(cmdQ) < MaxLate
  /\ due' = TRUE
  /\ late' = IF Owing THEN TRUE ELSE late
  /\ UNCHANGED <<tx, buf, rx, cmdQ, engine, adapter>>

(* The adapter executes the oldest command.  A request is answered by some *)
(* number of lines (none: NO DATA), every command ends in a prompt.        *)
Answer ==
  /\ ~ hung /\ cmdQ # << >> /\ air = << >>
  /\ LET c == Head(cmdQ) IN
     IF c.op = "get"
     THEN \E n \in Lines : air' = Append([i \in 1 .. n |-> Body(c.arg, elm)], Prompt)
     ELSE air' = <<Prompt>>
  /\ elm' = IF Head(cmdQ).op = "sh" THEN Head(cmdQ).arg ELSE elm
  /\ cmdQ' = Tail(cmdQ)
  /\ UNCHANGED <<tx, due, buf, rx, hung, late, engine>>

Hang ==
  /\ ~ hung /\ tx # "Down"
  /\ hung' = TRUE
  /\ UNCHANGED <<tx, due, buf, rx, cmdQ, air, elm, late, engine>>

(* onNotify on the host task: ByteRing::push, which drops when full. *)
Notify ==
  /\ air # << >>
  /\ rx' = IF Len(rx) < RingCap THEN Append(rx, Head(air)) ELSE rx
  /\ air' = Tail(air)
  /\ UNCHANGED <<tx, due, buf, cmdQ, elm, hung, late, engine>>

VinStep == VinAsk \/ VinRetry \/ VinDone \/ VinDrain

PollStep ==
  \/ VinStep
  \/ \E r \in Row : StartSetup(r) \/ StartQuery(r)
  \/ HeaderNext \/ HeaderDone \/ HeaderTimeout \/ HeaderDrain
  \/ DataPublish \/ DataIgnore \/ DataFlood \/ DataTimeout \/ DataDrain

Next == Connect \/ PollStep \/ LinkLost \/ Elapse \/ Answer \/ Hang \/ Notify

Spec == Init /\ [][Next]_vars

(* The poll task keeps polling, time passes, and what the adapter does it  *)
(* does eventually; nothing makes the link fail or the adapter hang.       *)
FairSpec == /\ Spec
            /\ WF_vars(PollStep) /\ WF_vars(Elapse)
            /\ WF_vars(Answer) /\ WF_vars(Notify)
-----------------------------------------------------------------------------
(* What is queued, in flight and received, and the bounds the ring and the *)
(* flood guard put on it.                                                  *)
TrafficType ==
  /\ rx \in Seq(Token)
  /\ Len(rx) <= RingCap
  /\ buf \in Seq(Token)
  /\ tx = "WaitData" => Len(buf) <= FloodMax
  /\ air \in Seq(Token)
  /\ cmdQ \in Seq(Command)

(* The state of a query as obd_query.h keeps it, and of the adapter. *)
ControlType ==
  /\ tx \in {"Down", "VinHeader", "VinReply", "Idle", "WaitHeader", "WaitData"}
  /\ cur \in Row
  /\ hdr \in Hdr \cup {NoHdr}
  /\ tx = "WaitHeader" => hdr # NoHdr
  /\ step \in Nat
  /\ tries \in 0 .. VinAttempts
  /\ due \in BOOLEAN
  /\ store \in [Row -> Address \cup {NoHdr}]
  /\ elm \in Address
  /\ hung \in BOOLEAN

(* Types, with the capacity of the ring and the bound of the flood guard. *)
TypeOK == ControlType /\ TrafficType

(* A published value came from the ECU its row names: however late answers *)
(* and prompts are, no row ever shows another module's answer.             *)
Attribution == \A r \in Row : store[r] \in {NoHdr, Header[r]}

(* curHeader is the address really selected whenever the adapter has       *)
(* caught up and no header change is in progress ("last header index       *)
(* selected; -1 forces re-send").                                          *)
HeaderBelief ==
  (tx = "Idle" /\ ~ hung /\ cmdQ = << >> /\ hdr # NoHdr) => elm = hdr

(* The query is written only after the adapter has acknowledged every      *)
(* setup command, and nothing it has sent is still to come ("so the OK>    *)
(* ack is consumed before the query"), on a link on which no reply has yet *)
(* been given up: the '>' of one that was is taken for a later command's.  *)
SetupAcked ==
  [][(tx = "WaitHeader" /\ tx' = "WaitData")
       => hung \/ late \/ (cmdQ = << >> /\ air = << >>)]_vars

(* The argument for the two, as an inductive invariant.  What an adapter   *)
(* that executes q in order has selected after the first n commands:       *)
Selects(q, e, n, h) ==
  \/ e = h /\ \A k \in 1 .. n : q[k].op # "sh"
  \/ \E j \in 1 .. n : q[j] = Sh(h) /\ \A k \in j + 1 .. n : q[k].op # "sh"

Attributed(t) == \A r \in Row : t.cmd = Cmd[r] => t.from = Header[r]

\* Every request under way will be executed under its row's address.
RequestsAddressed ==
  ~ hung => \A i \in 1 .. Len(cmdQ), r \in Row :
              cmdQ[i] = Get(Cmd[r]) => Selects(cmdQ, elm, i, Header[r])

\* A belief held outside a header change is what the adapter will select.
BeliefHeld == \/ tx \in {"Idle", "WaitData"}
              \/ tx = "WaitHeader" /\ step >= SetupLen[hdr]
BeliefSound == (~ hung /\ hdr # NoHdr /\ BeliefHeld)
                 => Selects(cmdQ, elm, Len(cmdQ), hdr)

SetupUnderWay == tx = "WaitHeader" => hdr = Header[cur] /\ step >= 1

AnswersAttributed ==
  /\ \A i \in 1 .. Len(air) : Attributed(air[i])
  /\ \A i \in 1 .. Len(rx) : Attributed(rx[i])
  /\ \A i \in 1 .. Len(buf) : Attributed(buf[i])

QueryInv == /\ RequestsAddressed /\ BeliefSound /\ SetupUnderWay
            /\ AnswersAttributed /\ Attribution

(* What it rests on: the adapter executes every command it is sent, every  *)
(* address of the profile takes at least the AT SH, and no two rows send   *)
(* the same request to different addresses.                                *)
InOrderProfile ==
  /\ ~ Aborts
  /\ \A h \in Hdr : SetupLen[h] >= 1
  /\ \A r, s \in Row : Cmd[r] = Cmd[s] => Header[r] = Header[s]

(* No reply, no prompt, a flood or a dead adapter can hold the engine: it  *)
(* always gets back to Idle (or the link goes down).                       *)
NeverStuck == Waiting ~> tx \in {"Idle", "Down"}

(* Once replies are no longer late, values are published again: "drop      *)
(* stale bytes from a timed-out prior query (desync guard)"                *)
(* (obd_query.h:54).                                                       *)
Resync ==
  (<>[](~ due /\ ~ hung /\ tx # "Down")) => []<><<DataPublish>>_vars
=============================================================================
