--------------------------- MODULE ObdQuery_proofs ---------------------------
(***************************************************************************)
(* Proofs about the query engine: its types for every profile and adapter, *)
(* and the attribution of every published value for an adapter that        *)
(* executes what it is sent in order, however late it answers.             *)
(***************************************************************************)
EXTENDS ObdQuery, SequenceTheorems, TLAPS

(* What the bytes left after a prompt, and before it, are. *)
LEMMA AfterType ==
  ASSUME NEW S, NEW s \in Seq(S), NEW m \in Nat \ {0}
  PROVE  /\ SubSeq(s, m, Len(s)) \in Seq(S)
         /\ Len(SubSeq(s, m, Len(s))) <= Len(s)
         /\ \A i \in 1 .. Len(SubSeq(s, m, Len(s))) :
              /\ m + i - 1 \in 1 .. Len(s)
              /\ SubSeq(s, m, Len(s))[i] = s[m + i - 1]
<1>1. /\ Len(s) \in Nat
      /\ \A i \in m .. Len(s) : s[i] \in S
  BY ElementOfSeq
<1>2. /\ SubSeq(s, m, Len(s)) \in Seq(S)
      /\ Len(SubSeq(s, m, Len(s))) = IF m <= Len(s) THEN Len(s) - m + 1 ELSE 0
      /\ \A i \in 1 .. Len(s) - m + 1 : SubSeq(s, m, Len(s))[i] = s[m + i - 1]
  BY <1>1, SubSeqProperties
<1> QED
  BY <1>1, <1>2

(* What stands before a prompt.                                            *)
LEMMA BeforeType ==
  ASSUME NEW S, NEW s \in Seq(S), NEW p \in 1 .. Len(s)
  PROVE  /\ SubSeq(s, 1, p - 1) \in Seq(S)
         /\ Len(SubSeq(s, 1, p - 1)) = p - 1
         /\ \A i \in 1 .. p - 1 : SubSeq(s, 1, p - 1)[i] = s[i]
<1>1. Len(s) \in Nat /\ p - 1 \in Int /\ \A i \in 1 .. p - 1 : s[i] \in S
  BY ElementOfSeq
<1>2. /\ SubSeq(s, 1, p - 1) \in Seq(S)
      /\ Len(SubSeq(s, 1, p - 1)) = IF 1 <= p - 1 THEN p - 1 - 1 + 1 ELSE 0
      /\ \A i \in 1 .. p - 1 - 1 + 1 : SubSeq(s, 1, p - 1)[i] = s[1 + i - 1]
  BY <1>1, SubSeqProperties
<1> QED
  BY <1>1, <1>2

(* The kinds of command are disjoint and typed. *)
LEMMA CommandType ==
  /\ Aux \in Command /\ Stop \in Command
  /\ \A h \in Address : Sh(h) \in Command
  /\ \A r \in Row : Get(Cmd[r]) \in Command
  /\ Get(VinCmd) \in Command
  /\ \A h \in Hdr, k \in Int : SetupCmd(h, k) \in Command
  BY ObdQueryAssumption DEF Command, Query, Address, Aux, Stop, Sh, Get, SetupCmd

(* A write leaves a queue of commands.                                     *)
LEMMA WriteType ==
  ASSUME TypeOK, NEW c \in Command, Write(c)
  PROVE  cmdQ' \in Seq(Command)
<1>1. cmdQ \in Seq(Command) /\ Stop \in Command
  BY CommandType DEF TypeOK, TrafficType
<1>2. <<Stop>> \in Seq(Command) /\ <<Stop, c>> \in Seq(Command)
  BY <1>1
<1>3. Append(cmdQ, c) \in Seq(Command)
  BY <1>1
<1> QED
  BY <1>1, <1>2, <1>3 DEF Write

(* A prompt and an answer are tokens.                                      *)
LEMMA TokenType ==
  /\ Prompt \in Token
  /\ \A c \in Query, h \in Address : Body(c, h) \in Token
  BY DEF Prompt, Body, Token

(* What a flush leaves.                                                    *)
LEMMA EmptyType == << >> \in Seq(Token) /\ Len(<< >>) = 0 /\ << >> \in Seq(Command)
  OBVIOUS

(* Every step keeps the types, for every profile, ring and adapter. *)
LEMMA TypeStep ==
  ASSUME TypeOK, [Next]_vars
  PROVE  TypeOK'
<1>1. /\ Len(rx) \in Nat
      /\ DOMAIN rx = 1 .. Len(rx)
      /\ \A p \in DOMAIN rx : After(p) \in Seq(Token) /\ Len(After(p)) <= RingCap
      /\ \A p \in DOMAIN rx : buf \o Before(p) \in Seq(Token)
      /\ buf \o rx \in Seq(Token)
      /\ Len(buf \o rx) = Len(buf) + Len(rx)
  <2>1. /\ rx \in Seq(Token) /\ buf \in Seq(Token)
        /\ Len(rx) \in Nat /\ DOMAIN rx = 1 .. Len(rx)
        /\ Len(rx) <= RingCap
    BY DEF TypeOK, TrafficType
  <2>2. ASSUME NEW p \in DOMAIN rx
        PROVE  /\ After(p) \in Seq(Token) /\ Len(After(p)) <= RingCap
               /\ buf \o Before(p) \in Seq(Token)
    <3>1. After(p) \in Seq(Token) /\ Len(After(p)) <= Len(rx)
      BY <2>1, AfterType, p + 1 \in Nat \ {0} DEF After
    <3>2. Before(p) \in Seq(Token)
      BY <2>1, BeforeType DEF Before
    <3> QED
      BY <2>1, <3>1, <3>2, AfterType, ObdQueryAssumption DEF After
  <2> QED
    BY <2>1, <2>2
<1>2. CASE Connect
  <2>1. <<Sh(VinHdr)>> \in Seq(Command) /\ <<Aux, Sh(VinHdr)>> \in Seq(Command)
    BY CommandType DEF Address
  <2>2. tries' \in 0 .. VinAttempts
    BY <1>2, ObdQueryAssumption DEF Connect
  <2>3. elm' \in Address
    BY <1>2 DEF Connect, Address
  <2>4. ControlType'
    BY <1>2, <2>2, <2>3 DEF Connect, TypeOK, ControlType
  <2>5. rx' \in Seq(Token) /\ Len(rx') <= RingCap
    BY <1>2, EmptyType, ObdQueryAssumption DEF Connect
  <2>6. TrafficType'
    BY <1>2, <2>1, <2>5, EmptyType DEF Connect, TrafficType
  <2> QED
    BY <2>4, <2>6 DEF TypeOK
<1>3. CASE VinAsk
  <2>1. cmdQ' \in Seq(Command)
    BY <1>3, WriteType, CommandType DEF VinAsk
  <2>2. ControlType'
    BY <1>3 DEF VinAsk, TypeOK, ControlType, engine, adapter
  <2>3. TrafficType'
    BY <1>3, <2>1, EmptyType, ObdQueryAssumption DEF VinAsk, TypeOK, TrafficType, adapter
  <2> QED
    BY <2>2, <2>3 DEF TypeOK
<1>4. CASE VinRetry
  <2>1. cmdQ' \in Seq(Command)
    BY <1>4, WriteType, CommandType DEF VinRetry, Address
  <2>2. tries' \in 0 .. VinAttempts
    BY <1>4, ObdQueryAssumption DEF VinRetry, TypeOK, ControlType
  <2>3. ControlType'
    BY <1>4, <2>2 DEF VinRetry, TypeOK, ControlType, adapter
  <2>4. TrafficType'
    BY <1>4, <2>1, EmptyType, ObdQueryAssumption DEF VinRetry, TypeOK, TrafficType, adapter
  <2> QED
    BY <2>3, <2>4 DEF TypeOK
<1>5. CASE VinDone
  <2>1. ControlType'
    BY <1>5, ObdQueryAssumption DEF VinDone, TypeOK, ControlType, adapter
  <2>2. rx' \in Seq(Token) /\ Len(rx') <= RingCap
    <3>1. rx' = << >> \/ \E p \in DOMAIN rx : rx' = After(p)
      BY <1>5 DEF VinDone
    <3>2. 0 <= RingCap
      BY ObdQueryAssumption
    <3> QED
      BY <1>1, <3>1, <3>2, EmptyType
  <2>3. TrafficType'
    BY <1>5, <2>2 DEF VinDone, TypeOK, TrafficType, adapter
  <2> QED
    BY <2>1, <2>3 DEF TypeOK
<1>6. CASE VinDrain
  <2>1. ControlType'
    BY <1>6 DEF VinDrain, TypeOK, ControlType, engine, adapter
  <2>2. TrafficType'
    BY <1>6, <1>1, EmptyType, ObdQueryAssumption DEF VinDrain, TypeOK, TrafficType, adapter
  <2> QED
    BY <2>1, <2>2 DEF TypeOK
<1>7. ASSUME NEW r \in Row, StartSetup(r)
      PROVE  TypeOK'
  <2>1. Header[r] \in Hdr
    BY ObdQueryAssumption
  <2>2. cmdQ' \in Seq(Command)
    BY <1>7, <2>1, WriteType, CommandType DEF StartSetup
  <2>3. ControlType'
    BY <1>7, <2>1, ObdQueryAssumption DEF StartSetup, TypeOK, ControlType, Address, adapter
  <2>4. TrafficType'
    BY <1>7, <2>2, EmptyType, ObdQueryAssumption DEF StartSetup, TypeOK, TrafficType, adapter
  <2> QED
    BY <2>3, <2>4 DEF TypeOK
<1>8. ASSUME NEW r \in Row, StartQuery(r)
      PROVE  TypeOK'
  <2>1. Header[r] \in Hdr
    BY ObdQueryAssumption
  <2>2. cmdQ' \in Seq(Command)
    BY <1>8, WriteType, CommandType DEF StartQuery
  <2>3. ControlType'
    BY <1>8, <2>1, ObdQueryAssumption DEF StartQuery, TypeOK, ControlType, Address, adapter
  <2>4. TrafficType'
    BY <1>8, <2>2, EmptyType, ObdQueryAssumption DEF StartQuery, TypeOK, TrafficType, adapter
  <2> QED
    BY <2>3, <2>4 DEF TypeOK
<1>9. CASE HeaderNext
  <2>1. SetupCmd(hdr, step) \in Command
    BY <1>9, CommandType DEF HeaderNext, TypeOK, ControlType
  <2>2. cmdQ' \in Seq(Command)
    BY <1>9, <2>1, WriteType DEF HeaderNext
  <2>3. step' \in Nat
    BY <1>9 DEF HeaderNext, TypeOK, ControlType
  <2>4. ControlType'
    BY <1>9, <2>3 DEF HeaderNext, TypeOK, ControlType, adapter
  <2>5. TrafficType'
    BY <1>9, <1>1, <2>2 DEF HeaderNext, TypeOK, TrafficType, adapter
  <2> QED
    BY <2>4, <2>5 DEF TypeOK
<1>10. CASE HeaderDone
  <2>1. Get(Cmd[cur]) \in Command
    BY CommandType DEF TypeOK, ControlType
  <2>2. cmdQ' \in Seq(Command)
    BY <1>10, <2>1, WriteType DEF HeaderDone
  <2>3. step' \in Nat
    BY <1>10 DEF HeaderDone, TypeOK, ControlType
  <2>4. ControlType'
    BY <1>10, <2>3 DEF HeaderDone, TypeOK, ControlType, adapter
  <2>5. TrafficType'
    BY <1>10, <1>1, <2>2, EmptyType, ObdQueryAssumption DEF HeaderDone, TypeOK, TrafficType, adapter
  <2> QED
    BY <2>4, <2>5 DEF TypeOK
<1>11. CASE HeaderTimeout
  <2>1. ControlType'
    BY <1>11 DEF HeaderTimeout, TypeOK, ControlType, adapter
  <2>2. TrafficType'
    BY <1>11, EmptyType, ObdQueryAssumption DEF HeaderTimeout, TypeOK, TrafficType, adapter
  <2> QED
    BY <2>1, <2>2 DEF TypeOK
<1>12. CASE HeaderDrain
  <2>1. ControlType'
    BY <1>12 DEF HeaderDrain, TypeOK, ControlType, engine, adapter
  <2>2. TrafficType'
    BY <1>12, EmptyType, ObdQueryAssumption DEF HeaderDrain, TypeOK, TrafficType, engine, adapter
  <2> QED
    BY <2>1, <2>2 DEF TypeOK
<1>13. CASE DataPublish
  <2>1. PICK p \in DOMAIN rx :
          /\ buf' = buf \o Before(p) /\ rx' = After(p)
          /\ \E i \in DOMAIN (buf \o Before(p)) :
               store' = [store EXCEPT ![cur] = (buf \o Before(p))[i].from]
    BY <1>13 DEF DataPublish
  <2>2. \A i \in DOMAIN (buf \o Before(p)) :
          (buf \o Before(p))[i].from \in Address \cup {NoHdr}
    <3>1. \A i \in DOMAIN (buf \o Before(p)) : (buf \o Before(p))[i] \in Token
      BY <1>1, ElementOfSeq, LenProperties
    <3> QED
      BY <3>1 DEF Token
  <2>3. store' \in [Row -> Address \cup {NoHdr}]
    BY <2>1, <2>2 DEF TypeOK, ControlType
  <2>4. ControlType'
    BY <1>13, <2>3 DEF DataPublish, TypeOK, ControlType, adapter
  <2>5. TrafficType'
    BY <1>1, <1>13, <2>1 DEF DataPublish, TypeOK, TrafficType, adapter
  <2> QED
    BY <2>4, <2>5 DEF TypeOK
<1>14. CASE DataIgnore
  <2>1. ControlType'
    BY <1>14 DEF DataIgnore, TypeOK, ControlType, engine, adapter
  <2>2. TrafficType'
    BY <1>14, <1>1 DEF DataIgnore, TypeOK, TrafficType, adapter
  <2> QED
    BY <2>1, <2>2 DEF TypeOK
<1>15. CASE DataFlood
  <2>1. FloodMax - Len(buf) + 2 \in Nat \ {0}
    BY <1>15, ObdQueryAssumption DEF DataFlood, TypeOK, TrafficType
  <2>2. rx' \in Seq(Token) /\ Len(rx') <= Len(rx)
    BY <1>15, <2>1, AfterType DEF DataFlood, TypeOK, TrafficType
  <2>3. ControlType'
    BY <1>15 DEF DataFlood, TypeOK, ControlType, engine, adapter
  <2>4. TrafficType'
    BY <1>15, <1>1, <2>2, EmptyType, ObdQueryAssumption DEF DataFlood, TypeOK, TrafficType, adapter
  <2> QED
    BY <2>3, <2>4 DEF TypeOK
<1>16. CASE DataTimeout
  <2>1. ControlType'
    BY <1>16 DEF DataTimeout, TypeOK, ControlType, engine, adapter
  <2>2. TrafficType'
    BY <1>16, <1>1, EmptyType, ObdQueryAssumption DEF DataTimeout, TypeOK, TrafficType, adapter
  <2> QED
    BY <2>1, <2>2 DEF TypeOK
<1>17. CASE DataDrain
  <2>1. Len(buf \o rx) <= FloodMax
    <3>1. NoPrompt /\ ~ Flooded
      BY <1>17 DEF DataDrain
    <3>2. \A p \in DOMAIN rx : ~ ReplyEnds(p)
      BY <3>1 DEF NoPrompt, ReplyEnds, FirstPrompt
    <3>3. ~ (Len(buf) + Len(rx) > FloodMax)
      BY <3>1, <3>2 DEF Flooded
    <3>4. Len(buf) \in Nat
      BY DEF TypeOK, TrafficType
    <3> QED
      BY <1>1, <3>3, <3>4, ObdQueryAssumption
  <2>2. ControlType'
    BY <1>17 DEF DataDrain, TypeOK, ControlType, engine, adapter
  <2>3. TrafficType'
    BY <1>17, <1>1, <2>1, EmptyType, ObdQueryAssumption DEF DataDrain, TypeOK, TrafficType, adapter
  <2> QED
    BY <2>2, <2>3 DEF TypeOK
<1>18. CASE LinkLost
  <2>1. ControlType'
    BY <1>18 DEF LinkLost, TypeOK, ControlType, engine, adapter
  <2>2. TrafficType'
    BY <1>18 DEF LinkLost, TypeOK, TrafficType, adapter
  <2> QED
    BY <2>1, <2>2 DEF TypeOK
<1>19. CASE Elapse
  <2>1. ControlType'
    BY <1>19 DEF Elapse, TypeOK, ControlType, engine, adapter
  <2>2. TrafficType'
    BY <1>19 DEF Elapse, TypeOK, TrafficType, adapter
  <2> QED
    BY <2>1, <2>2 DEF TypeOK
<1>20. CASE Answer
  <2>1. Head(cmdQ) \in Command /\ Tail(cmdQ) \in Seq(Command)
    BY <1>20, HeadTailProperties DEF Answer, TypeOK, TrafficType
  <2>2. air' \in Seq(Token)
    <3>1. CASE Head(cmdQ).op = "get"
      <4>1. Head(cmdQ).arg \in Query
        BY <2>1, <3>1 DEF Command, Aux, Stop, Sh, Get
      <4>2. PICK n \in Nat : air' =
              Append([i \in 1 .. n |-> Body(Head(cmdQ).arg, elm)], Prompt)
        BY <1>20, <3>1, ObdQueryAssumption DEF Answer
      <4>3. Body(Head(cmdQ).arg, elm) \in Token
        BY <4>1, TokenType DEF TypeOK, ControlType
      <4>4. [i \in 1 .. n |-> Body(Head(cmdQ).arg, elm)] \in Seq(Token)
        BY <4>3
      <4> QED
        BY <4>2, <4>4, TokenType
    <3>2. CASE Head(cmdQ).op # "get"
      <4>1. air' = <<Prompt>>
        BY <1>20, <3>2 DEF Answer
      <4> QED
        BY <4>1, TokenType
    <3> QED
      BY <3>1, <3>2
  <2>3. elm' \in Address
    BY <1>20, <2>1 DEF Answer, TypeOK, ControlType, Command, Aux, Stop, Sh, Get
  <2>4. ControlType'
    BY <1>20, <2>3 DEF Answer, TypeOK, ControlType, engine
  <2>5. TrafficType'
    BY <1>20, <2>1, <2>2 DEF Answer, TypeOK, TrafficType
  <2> QED
    BY <2>4, <2>5 DEF TypeOK
<1>21. CASE Hang
  <2>1. ControlType'
    BY <1>21 DEF Hang, TypeOK, ControlType, engine
  <2>2. TrafficType'
    BY <1>21 DEF Hang, TypeOK, TrafficType
  <2> QED
    BY <2>1, <2>2 DEF TypeOK
<1>22. CASE Notify
  <2>1. Head(air) \in Token /\ Tail(air) \in Seq(Token)
    BY <1>22, HeadTailProperties DEF Notify, TypeOK, TrafficType
  <2>2. ControlType'
    BY <1>22 DEF Notify, TypeOK, ControlType, engine
  <2>3. rx' \in Seq(Token) /\ Len(rx') <= RingCap
    <3>1. rx \in Seq(Token) /\ Len(rx) <= RingCap
      BY DEF TypeOK, TrafficType
    <3>2. Append(rx, Head(air)) \in Seq(Token) /\ Len(Append(rx, Head(air))) = Len(rx) + 1
      BY <2>1, <3>1, AppendProperties
    <3> QED
      BY <1>1, <1>22, <3>1, <3>2, ObdQueryAssumption DEF Notify
  <2>4. TrafficType'
    BY <1>22, <2>1, <2>3 DEF Notify, TypeOK, TrafficType
  <2> QED
    BY <2>2, <2>4 DEF TypeOK
<1>23. CASE UNCHANGED vars
  BY <1>23 DEF vars, TypeOK, ControlType, TrafficType
<1> QED
  BY <1>2, <1>3, <1>4, <1>5, <1>6, <1>7, <1>8, <1>9, <1>10, <1>11, <1>12,
     <1>13, <1>14, <1>15, <1>16, <1>17, <1>18, <1>19, <1>20, <1>21, <1>22,
     <1>23 DEF Next, PollStep, VinStep

(* The engine, the ring and the adapter keep their types: in particular    *)
(* the ring never holds more than its capacity.                            *)
THEOREM TypeCorrect == Spec => []TypeOK
<1>1. Init => TypeOK
  <2> SUFFICES ASSUME Init
               PROVE  TypeOK
    OBVIOUS
  <2>1. step \in Nat /\ tries \in 0 .. VinAttempts /\ 0 <= RingCap
    BY ObdQueryAssumption DEF Init
  <2>2. ControlType
    BY <2>1 DEF Init, ControlType, Address
  <2>3. TrafficType
    BY <2>1, EmptyType DEF Init, TrafficType
  <2> QED
    BY <2>2, <2>3 DEF TypeOK
<1>2. TypeOK /\ [Next]_vars => TypeOK'
  BY TypeStep
<1> QED
  BY <1>1, <1>2, PTL DEF Spec
-----------------------------------------------------------------------------
(* What an adapter has selected is not changed by later commands, is moved *)
(* by an AT SH alone, and is carried over when a command is executed.      *)
LEMMA SelectsKept ==
  ASSUME NEW q \in Seq(Command), NEW c \in Command, NEW e, NEW h,
         NEW n \in 0 .. Len(q), Selects(q, e, n, h)
  PROVE  Selects(Append(q, c), e, n, h)
<1>1. \A k \in 1 .. n : Append(q, c)[k] = q[k]
  BY AppendProperties
<1> QED
  BY <1>1 DEF Selects

(* Another command leaves the selection.                                   *)
LEMMA SelectsAfterOther ==
  ASSUME NEW q \in Seq(Command), NEW c \in Command, NEW e, NEW h,
         c.op # "sh", Selects(q, e, Len(q), h)
  PROVE  Selects(Append(q, c), e, Len(q) + 1, h)
<1>1. /\ Len(q) \in Nat
      /\ Append(q, c)[Len(q) + 1] = c
      /\ \A k \in 1 .. Len(q) : Append(q, c)[k] = q[k]
  BY AppendProperties, LenProperties
<1>2. CASE e = h /\ \A k \in 1 .. Len(q) : q[k].op # "sh"
  <2>1. \A k \in 1 .. Len(q) + 1 : Append(q, c)[k].op # "sh"
    BY <1>1, <1>2
  <2> QED
    BY <1>2, <2>1 DEF Selects
<1>3. CASE \E j \in 1 .. Len(q) : q[j] = Sh(h) /\ \A k \in j + 1 .. Len(q) : q[k].op # "sh"
  <2>1. PICK j \in 1 .. Len(q) :
          q[j] = Sh(h) /\ \A k \in j + 1 .. Len(q) : q[k].op # "sh"
    BY <1>3
  <2>2. \A k \in j + 1 .. Len(q) + 1 : Append(q, c)[k].op # "sh"
    BY <1>1, <2>1
  <2>3. j \in 1 .. Len(q) + 1 /\ Append(q, c)[j] = Sh(h)
    BY <1>1, <2>1
  <2> QED
    BY <2>2, <2>3 DEF Selects
<1> QED
  BY <1>2, <1>3 DEF Selects

(* An AT SH selects its address.                                           *)
LEMMA SelectsAfterSh ==
  ASSUME NEW q \in Seq(Command), NEW e, NEW h, Sh(h) \in Command
  PROVE  Selects(Append(q, Sh(h)), e, Len(q) + 1, h)
<1>1. Len(q) \in Nat /\ Append(q, Sh(h))[Len(q) + 1] = Sh(h)
  BY AppendProperties, LenProperties
<1> QED
  BY <1>1 DEF Selects

(* What is executed is selected.                                           *)
LEMMA SelectsExecuted ==
  ASSUME NEW q \in Seq(Command), q # << >>, NEW e, NEW h,
         NEW n \in 1 .. Len(q), Selects(q, e, n, h)
  PROVE  Selects(Tail(q), IF Head(q).op = "sh" THEN Head(q).arg ELSE e, n - 1, h)
<1>1. /\ Len(q) \in Nat
      /\ Head(q) = q[1]
      /\ \A k \in 1 .. Len(q) - 1 : Tail(q)[k] = q[k + 1]
  BY HeadTailProperties, LenProperties
<1>2. CASE e = h /\ \A k \in 1 .. n : q[k].op # "sh"
  <2>1. Head(q).op # "sh"
    BY <1>1, <1>2
  <2>2. \A k \in 1 .. n - 1 : Tail(q)[k].op # "sh"
    BY <1>1, <1>2
  <2> QED
    BY <1>2, <2>1, <2>2 DEF Selects
<1>3. CASE \E j \in 1 .. n : q[j] = Sh(h) /\ \A k \in j + 1 .. n : q[k].op # "sh"
  <2>1. PICK j \in 1 .. n : q[j] = Sh(h) /\ \A k \in j + 1 .. n : q[k].op # "sh"
    BY <1>3
  <2>2. \A k \in j .. n - 1 : Tail(q)[k].op # "sh"
    BY <1>1, <2>1
  <2>3. CASE j = 1
    <3>1. Head(q).op = "sh" /\ Head(q).arg = h
      BY <1>1, <2>1, <2>3 DEF Sh
    <3> QED
      BY <2>2, <2>3, <3>1 DEF Selects
  <2>4. CASE j # 1
    <3>1. j - 1 \in 1 .. n - 1 /\ Tail(q)[j - 1] = Sh(h)
      BY <1>1, <2>1, <2>4
    <3>2. \A k \in (j - 1) + 1 .. n - 1 : Tail(q)[k].op # "sh"
      BY <2>2
    <3> QED
      BY <3>1, <3>2 DEF Selects
  <2> QED
    BY <2>3, <2>4
<1> QED
  BY <1>2, <1>3 DEF Selects

(* Writing a command leaves every earlier request addressed as it was.     *)
LEMMA WriteKeepsRequests ==
  ASSUME InOrderProfile, TypeOK, RequestsAddressed, UNCHANGED <<elm, hung>>,
         NEW c \in Command, Write(c),
         ~ hung => \A r \in Row : c = Get(Cmd[r]) =>
                     Selects(cmdQ, elm, Len(cmdQ), Header[r])
  PROVE  RequestsAddressed'
<1>1. CASE hung
  BY <1>1 DEF RequestsAddressed
<1>2. CASE ~ hung
  <2>1. cmdQ \in Seq(Command) /\ Len(cmdQ) \in Nat
    BY DEF TypeOK, TrafficType
  <2>2. cmdQ' = Append(cmdQ, c)
    BY <1>2 DEF Write, InOrderProfile
  <2>3. /\ Len(cmdQ') = Len(cmdQ) + 1
        /\ cmdQ'[Len(cmdQ) + 1] = c
        /\ \A i \in 1 .. Len(cmdQ) : cmdQ'[i] = cmdQ[i]
    BY <2>1, <2>2, AppendProperties
  <2>4. ASSUME NEW i \in 1 .. Len(cmdQ'), NEW r \in Row, cmdQ'[i] = Get(Cmd[r])
        PROVE  Selects(cmdQ', elm, i, Header[r])
    <3>1. CASE i \in 1 .. Len(cmdQ)
      <4>1. Selects(cmdQ, elm, i, Header[r])
        BY <1>2, <2>3, <2>4, <3>1 DEF RequestsAddressed
      <4> QED
        BY <2>1, <2>2, <3>1, <4>1, SelectsKept
    <3>2. CASE i = Len(cmdQ) + 1
      <4>1. c = Get(Cmd[r]) /\ c.op # "sh"
        BY <2>3, <2>4, <3>2 DEF Get
      <4>2. Selects(cmdQ, elm, Len(cmdQ), Header[r])
        BY <1>2, <4>1
      <4> QED
        BY <2>1, <2>2, <3>2, <4>1, <4>2, SelectsAfterOther
    <3> QED
      BY <2>1, <2>3, <3>1, <3>2
  <2> QED
    BY <1>2, <2>4 DEF RequestsAddressed
<1> QED
  BY <1>1, <1>2

(* Writing a request keeps what is selected at the end of the queue, and   *)
(* writing the last setup command selects its address there.               *)
LEMMA WriteGetSelects ==
  ASSUME InOrderProfile, TypeOK, UNCHANGED elm, ~ hung, NEW h, NEW c,
         Get(c) \in Command, Write(Get(c)), Selects(cmdQ, elm, Len(cmdQ), h)
  PROVE  Selects(cmdQ', elm', Len(cmdQ'), h)
<1>1. cmdQ \in Seq(Command) /\ cmdQ' = Append(cmdQ, Get(c))
  BY DEF TypeOK, TrafficType, Write, InOrderProfile
<1>2. Len(cmdQ') = Len(cmdQ) + 1 /\ Get(c).op # "sh"
  BY <1>1, AppendProperties DEF Get
<1> QED
  BY <1>1, <1>2, SelectsAfterOther

(* The last set-up command selects the address.                            *)
LEMMA WriteSetupSelects ==
  ASSUME InOrderProfile, TypeOK, UNCHANGED elm, ~ hung, NEW h \in Hdr, NEW k \in Nat,
         Write(SetupCmd(h, k)), k + 1 = SetupLen[h]
  PROVE  Selects(cmdQ', elm', Len(cmdQ'), h)
<1>1. SetupCmd(h, k) = Sh(h) /\ Sh(h) \in Command
  BY CommandType, ObdQueryAssumption DEF SetupCmd, Address
<1>2. cmdQ \in Seq(Command) /\ cmdQ' = Append(cmdQ, Sh(h))
  BY <1>1 DEF TypeOK, TrafficType, Write, InOrderProfile
<1>3. Len(cmdQ') = Len(cmdQ) + 1
  BY <1>1, <1>2, AppendProperties
<1> QED
  BY <1>1, <1>2, <1>3, SelectsAfterSh

\* Only a request for a row is a row's request.
LEMMA NotARequest ==
  /\ \A r \in Row : Get(VinCmd) # Get(Cmd[r])
  /\ \A r \in Row, h \in Address : Sh(h) # Get(Cmd[r])
  /\ \A r \in Row, h \in Hdr, k \in Int : SetupCmd(h, k) # Get(Cmd[r])
  BY ObdQueryAssumption DEF Get, Sh, Aux, SetupCmd, Address

\* What is left in the ring, and what has been collected from it, is still
\* what the ring held.
LEMMA ReceivedAttributed ==
  ASSUME TypeOK, AnswersAttributed
  PROVE  /\ \A p \in DOMAIN rx :
              /\ \A i \in 1 .. Len(After(p)) : Attributed(After(p)[i])
              /\ \A i \in 1 .. Len(buf \o Before(p)) : Attributed((buf \o Before(p))[i])
              /\ DOMAIN (buf \o Before(p)) = 1 .. Len(buf \o Before(p))
         /\ \A i \in 1 .. Len(buf \o rx) : Attributed((buf \o rx)[i])
<1>1. /\ rx \in Seq(Token) /\ buf \in Seq(Token)
      /\ Len(rx) \in Nat /\ Len(buf) \in Nat /\ DOMAIN rx = 1 .. Len(rx)
  BY DEF TypeOK, TrafficType
<1>2. ASSUME NEW p \in DOMAIN rx
      PROVE  /\ \A i \in 1 .. Len(After(p)) : Attributed(After(p)[i])
             /\ \A i \in 1 .. Len(buf \o Before(p)) : Attributed((buf \o Before(p))[i])
             /\ DOMAIN (buf \o Before(p)) = 1 .. Len(buf \o Before(p))
  <2>1. p + 1 \in Nat \ {0}
    BY <1>1
  <2>2. \A i \in 1 .. Len(After(p)) :
          /\ p + 1 + i - 1 \in 1 .. Len(rx)
          /\ After(p)[i] = rx[p + 1 + i - 1]
    BY <1>1, <2>1, AfterType DEF After
  <2>3. /\ Before(p) \in Seq(Token)
        /\ Len(Before(p)) = p - 1
        /\ \A i \in 1 .. p - 1 : Before(p)[i] = rx[i]
    BY <1>1, BeforeType DEF Before
  <2>4. /\ buf \o Before(p) \in Seq(Token)
        /\ Len(buf \o Before(p)) = Len(buf) + Len(Before(p))
        /\ \A i \in 1 .. Len(buf) + Len(Before(p)) : (buf \o Before(p))[i] =
              IF i <= Len(buf) THEN buf[i] ELSE Before(p)[i - Len(buf)]
    BY <1>1, <2>3, ConcatProperties
  <2>5. \A i \in 1 .. Len(buf \o Before(p)) : Attributed((buf \o Before(p))[i])
    <3> SUFFICES ASSUME NEW i \in 1 .. Len(buf \o Before(p))
                 PROVE  Attributed((buf \o Before(p))[i])
      OBVIOUS
    <3>1. CASE i <= Len(buf)
      BY <1>1, <2>3, <2>4, <3>1 DEF AnswersAttributed
    <3>2. CASE ~ (i <= Len(buf))
      <4>1. i - Len(buf) \in 1 .. p - 1 /\ i - Len(buf) \in 1 .. Len(rx)
        BY <1>1, <2>3, <2>4, <3>2
      <4>2. (buf \o Before(p))[i] = rx[i - Len(buf)]
        BY <2>3, <2>4, <3>2, <4>1
      <4> QED
        BY <4>1, <4>2 DEF AnswersAttributed
    <3> QED
      BY <3>1, <3>2
  <2>6. \A i \in 1 .. Len(After(p)) : Attributed(After(p)[i])
    BY <2>2 DEF AnswersAttributed
  <2> QED
    BY <2>4, <2>5, <2>6, LenProperties
<1>3. \A i \in 1 .. Len(buf \o rx) : Attributed((buf \o rx)[i])
  <2>1. /\ Len(buf \o rx) = Len(buf) + Len(rx)
        /\ \A i \in 1 .. Len(buf) + Len(rx) : (buf \o rx)[i] =
              IF i <= Len(buf) THEN buf[i] ELSE rx[i - Len(buf)]
    BY <1>1, ConcatProperties
  <2> SUFFICES ASSUME NEW i \in 1 .. Len(buf \o rx)
               PROVE  Attributed((buf \o rx)[i])
    OBVIOUS
  <2>2. CASE i <= Len(buf)
    BY <1>1, <2>1, <2>2 DEF AnswersAttributed
  <2>3. CASE ~ (i <= Len(buf))
    <3>1. i - Len(buf) \in 1 .. Len(rx) /\ (buf \o rx)[i] = rx[i - Len(buf)]
      BY <1>1, <2>1, <2>3
    <3> QED
      BY <3>1 DEF AnswersAttributed
  <2> QED
    BY <2>2, <2>3
<1> QED
  BY <1>2, <1>3

(* A step of the engine that writes nothing keeps what is queued addressed *)
(* and keeps the belief, if it does not start to hold a new one.           *)
LEMMA QuietStep ==
  ASSUME RequestsAddressed, BeliefSound, UNCHANGED <<cmdQ, elm, hung>>,
         hdr' \in {hdr, NoHdr}, BeliefHeld' /\ hdr' # NoHdr => BeliefHeld
  PROVE  RequestsAddressed' /\ BeliefSound'
  BY DEF RequestsAddressed, BeliefSound

(* Every step of the engine, the host task and the adapter keeps the       *)
(* attribution argument, for an adapter and a profile that execute what    *)
(* they are sent in order.                                                 *)
LEMMA QueryStep ==
  ASSUME InOrderProfile, TypeOK, TypeOK', QueryInv, [Next]_vars
  PROVE  QueryInv'
<1> USE DEF QueryInv
<1>0. /\ \A i \in 1 .. Len(<< >>) : Attributed(<< >>[i])
      /\ DOMAIN rx = 1 .. Len(rx)
  BY DEF TypeOK, TrafficType
<1>1. CASE Connect
  <2>1. RequestsAddressed'
    <3>1. \A i \in 1 .. Len(cmdQ'), r \in Row : cmdQ'[i] # Get(Cmd[r])
      BY <1>1 DEF Connect, Sh, Aux, Get
    <3> QED
      BY <3>1 DEF RequestsAddressed
  <2>2. BeliefSound' /\ SetupUnderWay'
    BY <1>1 DEF Connect, BeliefSound, SetupUnderWay
  <2>3. AnswersAttributed' /\ Attribution'
    BY <1>0, <1>1 DEF Connect, AnswersAttributed, Attribution
  <2> QED
    BY <2>1, <2>2, <2>3
<1>2. CASE VinAsk
  <2>1. RequestsAddressed'
    BY <1>2, WriteKeepsRequests, CommandType, NotARequest DEF VinAsk, adapter
  <2>2. BeliefSound' /\ SetupUnderWay'
    BY <1>2 DEF VinAsk, BeliefSound, BeliefHeld, SetupUnderWay
  <2>3. AnswersAttributed' /\ Attribution'
    BY <1>0, <1>2 DEF VinAsk, engine, adapter, AnswersAttributed, Attribution
  <2> QED
    BY <2>1, <2>2, <2>3
<1>3. CASE VinRetry
  <2>1. VinHdr \in Address
    BY DEF Address
  <2>2. RequestsAddressed'
    BY <1>3, <2>1, WriteKeepsRequests, CommandType, NotARequest DEF VinRetry, adapter
  <2>3. BeliefSound' /\ SetupUnderWay'
    BY <1>3 DEF VinRetry, BeliefSound, BeliefHeld, SetupUnderWay
  <2>4. AnswersAttributed' /\ Attribution'
    BY <1>0, <1>3 DEF VinRetry, adapter, AnswersAttributed, Attribution
  <2> QED
    BY <2>2, <2>3, <2>4
<1>4. CASE VinDone
  <2>1. RequestsAddressed' /\ BeliefSound'
    BY <1>4, QuietStep DEF VinDone, adapter
  <2>2. SetupUnderWay'
    BY <1>4 DEF VinDone, SetupUnderWay
  <2>3. \A i \in 1 .. Len(rx') : Attributed(rx'[i])
    <3>1. rx' = << >> \/ \E p \in DOMAIN rx : rx' = After(p)
      BY <1>4 DEF VinDone
    <3> QED
      BY <1>0, <3>1, ReceivedAttributed
  <2>4. AnswersAttributed' /\ Attribution'
    BY <1>4, <2>3 DEF VinDone, adapter, AnswersAttributed, Attribution
  <2> QED
    BY <2>1, <2>2, <2>4
<1>5. CASE VinDrain
  <2>1. RequestsAddressed' /\ BeliefSound'
    BY <1>5, QuietStep DEF VinDrain, engine, adapter, BeliefHeld
  <2>2. SetupUnderWay'
    BY <1>5 DEF VinDrain, SetupUnderWay
  <2>3. AnswersAttributed' /\ Attribution'
    BY <1>0, <1>5, ReceivedAttributed
       DEF VinDrain, engine, adapter, AnswersAttributed, Attribution
  <2> QED
    BY <2>1, <2>2, <2>3
<1>6. ASSUME NEW r \in Row, StartSetup(r)
      PROVE  QueryInv'
  <2>1. Header[r] \in Hdr /\ SetupLen[Header[r]] \in Nat /\ 0 \in Int
    BY ObdQueryAssumption
  <2>2. RequestsAddressed'
    BY <1>6, <2>1, WriteKeepsRequests, CommandType, NotARequest DEF StartSetup, adapter
  <2>3. BeliefSound'
    <3> SUFFICES ASSUME ~ hung', BeliefHeld'
                 PROVE  Selects(cmdQ', elm', Len(cmdQ'), hdr')
      BY DEF BeliefSound
    <3>1. /\ hdr' = Header[r] /\ 1 >= SetupLen[Header[r]] /\ SetupLen[Header[r]] > 0
          /\ ~ hung /\ UNCHANGED elm
      BY <1>6 DEF StartSetup, BeliefHeld, adapter
    <3>2. 0 + 1 = SetupLen[Header[r]] /\ 0 \in Nat
      BY <2>1, <3>1
    <3> QED
      BY <1>6, <2>1, <3>1, <3>2, WriteSetupSelects DEF StartSetup
  <2>4. SetupUnderWay'
    BY <1>6 DEF StartSetup, SetupUnderWay
  <2>5. AnswersAttributed' /\ Attribution'
    BY <1>0, <1>6 DEF StartSetup, adapter, AnswersAttributed, Attribution
  <2> QED
    BY <2>2, <2>3, <2>4, <2>5
<1>7. ASSUME NEW r \in Row, StartQuery(r)
      PROVE  QueryInv'
  <2>1. /\ Header[r] \in Hdr /\ SetupLen[Header[r]] >= 1 /\ SetupLen[Header[r]] \in Nat
        /\ Header[r] # NoHdr
    BY ObdQueryAssumption DEF InOrderProfile, Address
  <2>2. Header[r] = hdr /\ tx = "Idle"
    BY <1>7, <2>1 DEF StartQuery
  <2>3. ~ hung => Selects(cmdQ, elm, Len(cmdQ), Header[r])
    BY <2>1, <2>2 DEF BeliefSound, BeliefHeld
  <2>4. \A s \in Row : Get(Cmd[r]) = Get(Cmd[s]) => Header[r] = Header[s]
    BY DEF Get, InOrderProfile
  <2>5. RequestsAddressed'
    BY <1>7, <2>3, <2>4, WriteKeepsRequests, CommandType DEF StartQuery, adapter
  <2>6. BeliefSound'
    BY <1>7, <2>3, WriteGetSelects, CommandType DEF StartQuery, adapter, BeliefSound
  <2>7. SetupUnderWay'
    BY <1>7 DEF StartQuery, SetupUnderWay
  <2>8. AnswersAttributed' /\ Attribution'
    BY <1>0, <1>7 DEF StartQuery, adapter, AnswersAttributed, Attribution
  <2> QED
    BY <2>5, <2>6, <2>7, <2>8
<1>8. CASE HeaderNext
  <2>1. hdr \in Hdr /\ SetupLen[hdr] \in Nat /\ step \in Nat /\ step \in Int
    BY <1>8, ObdQueryAssumption DEF HeaderNext, TypeOK, ControlType
  <2>2. RequestsAddressed'
    BY <1>8, <2>1, WriteKeepsRequests, CommandType, NotARequest DEF HeaderNext, adapter
  <2>3. BeliefSound'
    <3> SUFFICES ASSUME ~ hung', BeliefHeld'
                 PROVE  Selects(cmdQ', elm', Len(cmdQ'), hdr')
      BY DEF BeliefSound
    <3>1. /\ hdr' = hdr /\ step + 1 >= SetupLen[hdr] /\ step < SetupLen[hdr]
          /\ ~ hung /\ UNCHANGED elm
      BY <1>8 DEF HeaderNext, BeliefHeld, adapter
    <3>2. step + 1 = SetupLen[hdr]
      BY <2>1, <3>1
    <3> QED
      BY <1>8, <2>1, <3>1, <3>2, WriteSetupSelects DEF HeaderNext
  <2>4. SetupUnderWay'
    BY <1>8, <2>1 DEF HeaderNext, SetupUnderWay
  <2>5. \A i \in 1 .. Len(rx') : Attributed(rx'[i])
    BY <1>8, ReceivedAttributed DEF HeaderNext
  <2>6. AnswersAttributed' /\ Attribution'
    BY <1>8, <2>5 DEF HeaderNext, adapter, AnswersAttributed, Attribution
  <2> QED
    BY <2>2, <2>3, <2>4, <2>6
<1>9. CASE HeaderDone
  <2>1. hdr = Header[cur] /\ hdr # NoHdr /\ cur \in Row
    BY <1>9 DEF HeaderDone, SetupUnderWay, TypeOK, ControlType
  <2>2. ~ hung => Selects(cmdQ, elm, Len(cmdQ), Header[cur])
    BY <1>9, <2>1 DEF HeaderDone, BeliefSound, BeliefHeld
  <2>3. \A s \in Row : Get(Cmd[cur]) = Get(Cmd[s]) => Header[cur] = Header[s]
    BY <2>1 DEF Get, InOrderProfile
  <2>4. RequestsAddressed'
    BY <1>9, <2>1, <2>2, <2>3, WriteKeepsRequests, CommandType DEF HeaderDone, adapter
  <2>5. BeliefSound'
    BY <1>9, <2>1, <2>2, WriteGetSelects, CommandType DEF HeaderDone, adapter, BeliefSound
  <2>6. SetupUnderWay'
    BY <1>9 DEF HeaderDone, SetupUnderWay
  <2>7. \A i \in 1 .. Len(rx') : Attributed(rx'[i])
    BY <1>9, ReceivedAttributed DEF HeaderDone
  <2>8. AnswersAttributed' /\ Attribution'
    BY <1>0, <1>9, <2>7 DEF HeaderDone, adapter, AnswersAttributed, Attribution
  <2> QED
    BY <2>4, <2>5, <2>6, <2>8
<1>10. CASE HeaderTimeout
  <2>1. RequestsAddressed' /\ BeliefSound'
    BY <1>10, QuietStep DEF HeaderTimeout, adapter
  <2>2. SetupUnderWay'
    BY <1>10 DEF HeaderTimeout, SetupUnderWay
  <2>3. AnswersAttributed' /\ Attribution'
    BY <1>0, <1>10 DEF HeaderTimeout, adapter, AnswersAttributed, Attribution
  <2> QED
    BY <2>1, <2>2, <2>3
<1>11. CASE HeaderDrain
  <2>1. RequestsAddressed' /\ BeliefSound'
    BY <1>11, QuietStep DEF HeaderDrain, engine, adapter, BeliefHeld
  <2>2. SetupUnderWay'
    BY <1>11 DEF HeaderDrain, engine, SetupUnderWay
  <2>3. AnswersAttributed' /\ Attribution'
    BY <1>0, <1>11 DEF HeaderDrain, engine, adapter, AnswersAttributed, Attribution
  <2> QED
    BY <2>1, <2>2, <2>3
<1>12. CASE DataPublish
  <2>1. RequestsAddressed' /\ BeliefSound'
    BY <1>12, QuietStep DEF DataPublish, adapter, BeliefHeld
  <2>2. SetupUnderWay'
    BY <1>12 DEF DataPublish, SetupUnderWay
  <2>3. PICK p \in DOMAIN rx :
          /\ buf' = buf \o Before(p) /\ rx' = After(p)
          /\ \E i \in DOMAIN (buf \o Before(p)) :
               /\ AnswerIn(buf \o Before(p), i)
               /\ store' = [store EXCEPT ![cur] = (buf \o Before(p))[i].from]
    BY <1>12 DEF DataPublish
  <2>4. AnswersAttributed'
    BY <1>12, <2>3, ReceivedAttributed DEF DataPublish, adapter, AnswersAttributed
  <2>5. Attribution'
    <3>1. PICK i \in DOMAIN (buf \o Before(p)) :
            /\ AnswerIn(buf \o Before(p), i)
            /\ store' = [store EXCEPT ![cur] = (buf \o Before(p))[i].from]
      BY <2>3
    <3>2. Attributed((buf \o Before(p))[i])
      BY ReceivedAttributed
    <3>3. (buf \o Before(p))[i].from = Header[cur]
      BY <3>1, <3>2 DEF AnswerIn, Attributed, TypeOK, ControlType
    <3> QED
      BY <3>1, <3>3 DEF Attribution, TypeOK, ControlType
  <2> QED
    BY <2>1, <2>2, <2>4, <2>5
<1>13. CASE DataIgnore
  <2>1. RequestsAddressed' /\ BeliefSound'
    BY <1>13, QuietStep DEF DataIgnore, engine, adapter, BeliefHeld
  <2>2. SetupUnderWay'
    BY <1>13 DEF DataIgnore, SetupUnderWay
  <2>3. PICK p \in DOMAIN rx : buf' = buf \o Before(p) /\ rx' = After(p)
    BY <1>13 DEF DataIgnore
  <2>4. AnswersAttributed' /\ Attribution'
    BY <1>13, <2>3, ReceivedAttributed
       DEF DataIgnore, engine, adapter, AnswersAttributed, Attribution
  <2> QED
    BY <2>1, <2>2, <2>4
<1>14. CASE DataFlood
  <2>1. RequestsAddressed' /\ BeliefSound'
    BY <1>14, QuietStep DEF DataFlood, engine, adapter, BeliefHeld
  <2>2. SetupUnderWay'
    BY <1>14 DEF DataFlood, SetupUnderWay
  <2>3. \A i \in 1 .. Len(rx') : Attributed(rx'[i])
    <3>1. FloodMax - Len(buf) + 2 \in Nat \ {0} /\ rx \in Seq(Token)
      BY <1>14, ObdQueryAssumption DEF DataFlood, TypeOK, TrafficType
    <3>2. \A i \in 1 .. Len(rx') : \E j \in 1 .. Len(rx) : rx'[i] = rx[j]
      BY <1>14, <3>1, AfterType DEF DataFlood
    <3> QED
      BY <3>2 DEF AnswersAttributed
  <2>4. AnswersAttributed' /\ Attribution'
    BY <1>0, <1>14, <2>3 DEF DataFlood, engine, adapter, AnswersAttributed, Attribution
  <2> QED
    BY <2>1, <2>2, <2>4
<1>15. CASE DataTimeout
  <2>1. RequestsAddressed' /\ BeliefSound'
    BY <1>15, QuietStep DEF DataTimeout, engine, adapter, BeliefHeld
  <2>2. SetupUnderWay'
    BY <1>15 DEF DataTimeout, SetupUnderWay
  <2>3. AnswersAttributed' /\ Attribution'
    BY <1>0, <1>15, ReceivedAttributed
       DEF DataTimeout, engine, adapter, AnswersAttributed, Attribution
  <2> QED
    BY <2>1, <2>2, <2>3
<1>16. CASE DataDrain
  <2>1. RequestsAddressed' /\ BeliefSound'
    BY <1>16, QuietStep DEF DataDrain, engine, adapter, BeliefHeld
  <2>2. SetupUnderWay'
    BY <1>16 DEF DataDrain, SetupUnderWay
  <2>3. AnswersAttributed' /\ Attribution'
    BY <1>0, <1>16, ReceivedAttributed
       DEF DataDrain, engine, adapter, AnswersAttributed, Attribution
  <2> QED
    BY <2>1, <2>2, <2>3
<1>17. CASE LinkLost
  <2>1. RequestsAddressed' /\ BeliefSound'
    BY <1>17, QuietStep DEF LinkLost, engine, adapter, BeliefHeld
  <2>2. SetupUnderWay' /\ AnswersAttributed' /\ Attribution'
    BY <1>17 DEF LinkLost, engine, adapter, SetupUnderWay, AnswersAttributed, Attribution
  <2> QED
    BY <2>1, <2>2
<1>18. CASE Elapse
  <2>1. RequestsAddressed' /\ BeliefSound'
    BY <1>18, QuietStep DEF Elapse, engine, adapter, BeliefHeld
  <2>2. SetupUnderWay' /\ AnswersAttributed' /\ Attribution'
    BY <1>18 DEF Elapse, engine, adapter, SetupUnderWay, AnswersAttributed, Attribution
  <2> QED
    BY <2>1, <2>2
<1>19. CASE Answer
  <2>1. /\ cmdQ \in Seq(Command) /\ cmdQ # << >> /\ ~ hung
        /\ Len(cmdQ) \in Nat /\ Len(cmdQ) >= 1 /\ Head(cmdQ) = cmdQ[1]
        /\ UNCHANGED <<hung, hdr, tx, step, cur, store, rx, buf>>
    BY <1>19 DEF Answer, engine, TypeOK, TrafficType
  <2>2. /\ cmdQ' = Tail(cmdQ)
        /\ elm' = IF Head(cmdQ).op = "sh" THEN Head(cmdQ).arg ELSE elm
    BY <1>19 DEF Answer
  <2>3. /\ Len(cmdQ') = Len(cmdQ) - 1
        /\ \A i \in 1 .. Len(cmdQ') : cmdQ'[i] = cmdQ[i + 1]
    BY <2>1, <2>2, HeadTailProperties
  <2>4. \A n \in 1 .. Len(cmdQ) : \A h :
          Selects(cmdQ, elm, n, h) => Selects(cmdQ', elm', n - 1, h)
    BY <2>1, <2>2, SelectsExecuted
  <2>5. RequestsAddressed'
    <3> SUFFICES ASSUME NEW i \in 1 .. Len(cmdQ'), NEW r \in Row,
                        cmdQ'[i] = Get(Cmd[r])
                 PROVE  Selects(cmdQ', elm', i, Header[r])
      BY DEF RequestsAddressed
    <3>1. i + 1 \in 1 .. Len(cmdQ) /\ cmdQ[i + 1] = Get(Cmd[r]) /\ (i + 1) - 1 = i
      BY <2>1, <2>3
    <3>2. Selects(cmdQ, elm, i + 1, Header[r])
      BY <2>1, <3>1 DEF RequestsAddressed
    <3> QED
      BY <2>4, <3>1, <3>2
  <2>6. BeliefSound'
    <3>1. Len(cmdQ) \in 1 .. Len(cmdQ)
      BY <2>1
    <3> QED
      BY <2>1, <2>3, <2>4, <3>1 DEF BeliefSound, BeliefHeld
  <2>7. \A i \in 1 .. Len(air') : Attributed(air'[i])
    <3>1. Attributed(Prompt)
      BY ObdQueryAssumption DEF Attributed, Prompt, Query
    <3>2. CASE Head(cmdQ).op = "get"
      <4>1. PICK n \in Nat : air' =
              Append([i \in 1 .. n |-> Body(Head(cmdQ).arg, elm)], Prompt)
        BY <1>19, <3>2, ObdQueryAssumption DEF Answer
      <4>2. Attributed(Body(Head(cmdQ).arg, elm))
        <5> SUFFICES ASSUME NEW r \in Row, Head(cmdQ).arg = Cmd[r]
                     PROVE  elm = Header[r]
          BY DEF Attributed, Body
        <5>1. cmdQ[1] \in Command
          BY <2>1
        <5>2. cmdQ[1] = Get(Cmd[r])
          BY <2>1, <3>2, <5>1 DEF Command, Aux, Stop, Sh, Get
        <5>3. Selects(cmdQ, elm, 1, Header[r])
          BY <2>1, <5>2 DEF RequestsAddressed
        <5> QED
          BY <2>1, <3>2, <5>3 DEF Selects, Sh
      <4> DEFINE lines == [i \in 1 .. n |-> Body(Head(cmdQ).arg, elm)]
      <4>3. lines \in Seq({Body(Head(cmdQ).arg, elm), Prompt}) /\ Len(lines) = n
        OBVIOUS
      <4>4. /\ Len(Append(lines, Prompt)) = n + 1
            /\ Append(lines, Prompt)[n + 1] = Prompt
            /\ \A i \in 1 .. n : Append(lines, Prompt)[i] = Body(Head(cmdQ).arg, elm)
        BY <4>3, AppendProperties
      <4> QED
        BY <3>1, <4>1, <4>2, <4>4
    <3>3. CASE Head(cmdQ).op # "get"
      <4>1. air' = <<Prompt>>
        BY <1>19, <3>3 DEF Answer
      <4> QED
        BY <3>1, <4>1
    <3> QED
      BY <3>2, <3>3
  <2>8. SetupUnderWay' /\ AnswersAttributed' /\ Attribution'
    BY <2>1, <2>7 DEF SetupUnderWay, AnswersAttributed, Attribution
  <2> QED
    BY <2>5, <2>6, <2>8
<1>20. CASE Hang
  BY <1>20 DEF Hang, engine, RequestsAddressed, BeliefSound, SetupUnderWay,
     AnswersAttributed, Attribution
<1>21. CASE Notify
  <2>1. RequestsAddressed' /\ BeliefSound'
    BY <1>21, QuietStep DEF Notify, engine, BeliefHeld
  <2>2. /\ rx \in Seq(Token) /\ air \in Seq(Token) /\ air # << >>
        /\ Len(air) \in Nat /\ Len(rx) \in Nat /\ Len(air) >= 1
    BY <1>21 DEF Notify, TypeOK, TrafficType
  <2>3. /\ Head(air) = air[1] /\ Head(air) \in Token
        /\ Len(Tail(air)) = Len(air) - 1
        /\ \A i \in 1 .. Len(Tail(air)) : Tail(air)[i] = air[i + 1]
    BY <2>2, HeadTailProperties
  <2>4. /\ Len(Append(rx, Head(air))) = Len(rx) + 1
        /\ Append(rx, Head(air))[Len(rx) + 1] = Head(air)
        /\ \A i \in 1 .. Len(rx) : Append(rx, Head(air))[i] = rx[i]
    BY <2>2, <2>3, AppendProperties
  <2>5. \A i \in 1 .. Len(air') : Attributed(air'[i])
    BY <1>21, <2>2, <2>3 DEF Notify, AnswersAttributed
  <2>6. \A i \in 1 .. Len(rx') : Attributed(rx'[i])
    <3>1. Attributed(Head(air))
      BY <2>2, <2>3 DEF AnswersAttributed
    <3>2. \A i \in 1 .. Len(Append(rx, Head(air))) : Attributed(Append(rx, Head(air))[i])
      BY <2>2, <2>4, <3>1 DEF AnswersAttributed
    <3> QED
      BY <1>21, <3>2 DEF Notify, AnswersAttributed
  <2>7. SetupUnderWay' /\ AnswersAttributed' /\ Attribution'
    BY <1>21, <2>5, <2>6 DEF Notify, engine, SetupUnderWay, AnswersAttributed, Attribution
  <2> QED
    BY <2>1, <2>7
<1>22. CASE UNCHANGED vars
  BY <1>22 DEF vars, RequestsAddressed, BeliefSound, BeliefHeld, SetupUnderWay,
     AnswersAttributed, Attribution
<1> QED
  BY <1>1, <1>2, <1>3, <1>4, <1>5, <1>6, <1>7, <1>8, <1>9, <1>10, <1>11, <1>12,
     <1>13, <1>14, <1>15, <1>16, <1>17, <1>18, <1>19, <1>20, <1>21, <1>22
     DEF Next, PollStep, VinStep

(* With an adapter that executes its commands in order and a profile whose *)
(* addresses all take an AT SH, the attribution argument always holds.     *)
THEOREM QueryInvariant ==
  ASSUME InOrderProfile
  PROVE  Spec => []QueryInv
<1>1. Init => QueryInv
  BY DEF Init, QueryInv, RequestsAddressed, BeliefSound, SetupUnderWay,
     AnswersAttributed, Attribution
<1>2. TypeOK /\ TypeOK' /\ QueryInv /\ [Next]_vars => QueryInv'
  BY QueryStep
<1> QED
  BY <1>1, <1>2, TypeCorrect, PTL DEF Spec

(* No row ever shows the answer of another module, however late answers    *)
(* and prompts arrive, whatever is dropped by the ring or by a hung        *)
(* adapter, and whenever the link goes and comes back.                     *)
THEOREM AttributionHolds ==
  ASSUME InOrderProfile
  PROVE  Spec => []Attribution
<1>1. QueryInv => Attribution
  BY DEF QueryInv
<1> QED
  BY <1>1, QueryInvariant, PTL

(* curHeader is what the adapter has selected whenever the adapter has     *)
(* caught up and no header change is under way.                            *)
THEOREM HeaderBeliefHolds ==
  ASSUME InOrderProfile
  PROVE  Spec => []HeaderBelief
<1>1. QueryInv => HeaderBelief
  <2> SUFFICES ASSUME QueryInv, tx = "Idle", ~ hung, cmdQ = << >>, hdr # NoHdr
               PROVE  elm = hdr
    BY DEF HeaderBelief
  <2>1. Selects(cmdQ, elm, Len(cmdQ), hdr) /\ Len(cmdQ) = 0
    BY DEF QueryInv, BeliefSound, BeliefHeld
  <2> QED
    BY <2>1 DEF Selects
<1> QED
  BY <1>1, QueryInvariant, PTL
-----------------------------------------------------------------------------
(* The account of one exchange on a link on which nothing was given up     *)
(* before its reply was over: what was written waits, or its answer is on  *)
(* the way with one prompt at its end, or has come in, all of it or what   *)
(* the ring had room for; a prompt in the ring is therefore the prompt of  *)
(* what was written last.  A deadline passes only if the prompt was lost.  *)
Asked   == Len(cmdQ) = 1 /\ air = << >> /\ rx = << >>
Coming  == /\ cmdQ = << >> /\ air # << >> /\ NoPrompt
           /\ \A i \in 1 .. Len(air) - 1 : air[i] # Prompt
Arrived == /\ cmdQ = << >> /\ air = << >>
           /\ \A i \in 1 .. Len(rx) - 1 : rx[i] # Prompt

OneExchange ==
  ~ hung /\ ~ late =>
    /\ due \/ tx = "Idle" => cmdQ = << >> /\ air = << >>
    /\ Waiting => Asked \/ Coming \/ Arrived

(* A prompt in the ring ends the exchange: nothing is queued or under way, *)
(* and nothing stands behind it.                                           *)
LEMMA PromptEnds ==
  ASSUME TypeOK, OneExchange, ~ hung, ~ late, Waiting, NEW p \in DOMAIN rx, FirstPrompt(p)
  PROVE  cmdQ = << >> /\ air = << >> /\ p = Len(rx) /\ After(p) = << >>
<1>1. rx \in Seq(Token) /\ Len(rx) \in Nat /\ p \in 1 .. Len(rx) /\ rx[p] = Prompt
  BY DEF TypeOK, TrafficType, FirstPrompt
<1>2. Arrived
  <2>1. ~ Asked /\ ~ Coming
    BY <1>1 DEF Asked, Coming, NoPrompt
  <2> QED
    BY <2>1 DEF OneExchange
<1>3. p = Len(rx)
  BY <1>1, <1>2 DEF Arrived
<1>4. After(p) = << >>
  <2>1. /\ SubSeq(rx, p + 1, Len(rx)) \in Seq(Token)
        /\ Len(SubSeq(rx, p + 1, Len(rx))) = 0
    BY <1>1, <1>3, SubSeqProperties
  <2> QED
    BY <2>1, EmptySeq DEF After
<1> QED
  BY <1>2, <1>3, <1>4 DEF Arrived

(* Writing to an adapter that has nothing left to do begins an exchange.   *)
LEMMA WriteAsks ==
  ASSUME ~ hung, cmdQ = << >>, NEW c, Write(c)
  PROVE  Len(cmdQ') = 1 /\ cmdQ' # << >>
<1>1. cmdQ' = <<c>>
  BY DEF Write
<1> QED
  BY <1>1

(* Every step of the engine, the host task and the adapter keeps to it.    *)
LEMMA ExchangeStep ==
  ASSUME TypeOK, TypeOK', OneExchange, [Next]_vars
  PROVE  OneExchange'
<1> SUFFICES ASSUME ~ hung', ~ late'
             PROVE  /\ due' \/ tx' = "Idle" => cmdQ' = << >> /\ air' = << >>
                    /\ Waiting' => Asked' \/ Coming' \/ Arrived'
  BY DEF OneExchange
<1>0. /\ rx \in Seq(Token) /\ air \in Seq(Token) /\ buf \in Seq(Token)
      /\ Len(rx) \in Nat /\ Len(air) \in Nat
      /\ DOMAIN rx = 1 .. Len(rx) /\ due \in BOOLEAN
  BY DEF TypeOK, TrafficType, ControlType
<1>1. CASE Connect
  <2>1. cmdQ' = <<Sh(VinHdr)>> /\ rx' = << >> /\ air' = << >> /\ tx' = "VinHeader" /\ ~ due'
    BY <1>1 DEF Connect
  <2>2. Asked'
    BY <2>1 DEF Asked
  <2> QED
    BY <2>1, <2>2
<1>2. CASE VinAsk \/ VinRetry
  <2>1. /\ Waiting /\ ~ hung /\ ~ late /\ tx' \in {"VinHeader", "VinReply"} /\ ~ due'
        /\ rx' = << >> /\ air' = air /\ \E c : Write(c)
    BY <1>2 DEF VinAsk, VinRetry, Waiting, adapter
  <2>2. due \/ \E p \in DOMAIN rx : FirstPrompt(p)
    <3>1. CASE VinRetry
      BY <3>1 DEF VinRetry
    <3>2. CASE VinAsk /\ ~ due
      <4>1. Coming \/ Asked \/ Arrived
        BY <2>1 DEF OneExchange
      <4>2. PICK p \in DOMAIN rx : rx[p] = Prompt
        BY <3>2 DEF VinAsk, NoPrompt
      <4>3. Arrived
        BY <1>0, <4>1, <4>2 DEF Coming, Asked, NoPrompt
      <4>4. FirstPrompt(p)
        BY <1>0, <4>2, <4>3 DEF Arrived, FirstPrompt
      <4> QED
        BY <4>4
    <3> QED
      BY <1>2, <3>1, <3>2
  <2>3. cmdQ = << >> /\ air = << >>
    BY <2>1, <2>2, PromptEnds DEF OneExchange
  <2>4. Asked'
    BY <2>1, <2>3, WriteAsks DEF Asked
  <2> QED
    BY <2>1, <2>4
<1>3. CASE VinDone \/ DataPublish \/ DataIgnore
  <2>1. /\ Waiting /\ ~ hung /\ ~ late /\ tx' = "Idle" /\ UNCHANGED <<cmdQ, air>>
    BY <1>3 DEF VinDone, DataPublish, DataIgnore, Waiting, adapter
  <2>2. due \/ \E p \in DOMAIN rx : FirstPrompt(p)
    BY <1>3 DEF VinDone, DataPublish, DataIgnore, ReplyEnds
  <2>3. cmdQ = << >> /\ air = << >>
    BY <2>1, <2>2, PromptEnds DEF OneExchange
  <2> QED
    BY <2>1, <2>3 DEF Waiting
<1>4. CASE VinDrain \/ HeaderDrain \/ DataDrain
  <2>1. /\ Waiting /\ ~ hung /\ ~ late /\ NoPrompt /\ rx' = << >>
        /\ UNCHANGED <<tx, due, cmdQ, air>>
    BY <1>4 DEF VinDrain, HeaderDrain, DataDrain, Waiting, adapter
  <2>2. Asked' \/ Coming' \/ Arrived'
    <3>1. CASE Asked
      BY <2>1, <3>1 DEF Asked
    <3>2. CASE Coming
      BY <2>1, <3>2 DEF Coming, NoPrompt
    <3>3. CASE Arrived
      BY <2>1, <3>3 DEF Arrived
    <3> QED
      BY <2>1, <3>1, <3>2, <3>3 DEF OneExchange
  <2> QED
    BY <2>1, <2>2 DEF OneExchange
<1>5. ASSUME NEW r \in Row, StartSetup(r) \/ StartQuery(r)
      PROVE  ~ due' /\ tx' # "Idle" /\ Asked'
  <2>1. /\ tx = "Idle" /\ tx' \in {"WaitHeader", "WaitData"} /\ ~ hung /\ ~ late /\ ~ due'
        /\ rx' = << >> /\ air' = air /\ \E c : Write(c)
    BY <1>5 DEF StartSetup, StartQuery, adapter
  <2>2. cmdQ = << >> /\ air = << >>
    BY <2>1 DEF OneExchange
  <2>3. Asked'
    BY <2>1, <2>2, WriteAsks DEF Asked
  <2> QED
    BY <2>1, <2>3
<1>6. CASE HeaderNext \/ HeaderDone
  <2>1. /\ Waiting /\ ~ hung /\ ~ late /\ tx' \in {"WaitHeader", "WaitData"} /\ ~ due'
        /\ air' = air
    BY <1>6 DEF HeaderNext, HeaderDone, Waiting, adapter
  <2>2. \E c : Write(c)
    BY <1>6 DEF HeaderNext, HeaderDone
  <2>3. PICK p \in DOMAIN rx : FirstPrompt(p) /\ rx' = After(p)
    BY <1>6 DEF HeaderNext, HeaderDone
  <2>4. cmdQ = << >> /\ air = << >> /\ rx' = << >>
    BY <2>1, <2>3, PromptEnds
  <2>5. Asked'
    BY <2>1, <2>2, <2>4, WriteAsks DEF Asked
  <2> QED
    BY <2>1, <2>5
<1>7. CASE HeaderTimeout \/ DataTimeout
  <2>1. /\ due /\ ~ hung /\ ~ late /\ tx' = "Idle" /\ UNCHANGED <<cmdQ, air>>
    BY <1>7 DEF HeaderTimeout, DataTimeout, adapter
  <2> QED
    BY <2>1 DEF OneExchange, Waiting
<1>8. CASE DataFlood
  <2>1. /\ ~ hung /\ tx' = "Idle" /\ UNCHANGED <<cmdQ, air>>
        /\ late' = IF Owing THEN TRUE ELSE late
    BY <1>8 DEF DataFlood, adapter
  <2>2. cmdQ = << >> /\ air = << >>
    BY <2>1 DEF Owing
  <2> QED
    BY <2>1, <2>2 DEF Waiting
<1>9. CASE LinkLost
  BY <1>9 DEF LinkLost, Waiting
<1>10. CASE Elapse
  <2>1. /\ Waiting /\ ~ hung /\ UNCHANGED <<tx, rx, cmdQ, air>>
        /\ late' = IF Owing THEN TRUE ELSE late
    BY <1>10 DEF Elapse, adapter
  <2>2. ~ late /\ cmdQ = << >> /\ air = << >>
    BY <2>1 DEF Owing
  <2>3. Arrived'
    BY <2>1, <2>2 DEF OneExchange, Asked, Coming, Arrived
  <2> QED
    BY <2>1, <2>2, <2>3
<1>11. CASE Answer
  <2>1. /\ ~ hung /\ ~ late /\ cmdQ # << >> /\ air = << >> /\ cmdQ' = Tail(cmdQ)
        /\ UNCHANGED <<tx, due, buf, rx>>
    BY <1>11 DEF Answer, engine
  <2>2. cmdQ \in Seq(Command) /\ Len(cmdQ) \in Nat
    BY DEF TypeOK, TrafficType
  <2>3. PICK n \in Nat, b \in Token :
          b # Prompt /\ air' = Append([i \in 1 .. n |-> b], Prompt)
    <3>1. Head(cmdQ) \in Command
      BY <2>1, <2>2
    <3>2. CASE Head(cmdQ).op = "get"
      <4>1. Head(cmdQ).arg \in Query
        BY <3>1, <3>2 DEF Command, Aux, Stop, Sh, Get
      <4>2. Body(Head(cmdQ).arg, elm) # Prompt /\ Body(Head(cmdQ).arg, elm) \in Token
        <5>1. Head(cmdQ).arg # NoCmd
          BY <4>1, ObdQueryAssumption
        <5>2. Body(Head(cmdQ).arg, elm).cmd = Head(cmdQ).arg /\ Prompt.cmd = NoCmd
          BY DEF Body, Prompt
        <5> QED
          BY <4>1, <5>1, <5>2, TokenType DEF TypeOK, ControlType
      <4>3. \E n \in Lines :
              air' = Append([i \in 1 .. n |-> Body(Head(cmdQ).arg, elm)], Prompt)
        BY <1>11, <3>2 DEF Answer
      <4> QED
        BY <4>2, <4>3, ObdQueryAssumption
    <3>3. CASE Head(cmdQ).op # "get"
      <4>1. air' = <<Prompt>>
        BY <1>11, <3>3 DEF Answer
      <4>2. <<Prompt>> = Append([i \in 1 .. 0 |-> Stop], Prompt)
        OBVIOUS
      <4>3. \E b \in Token : b # Prompt
        <5>1. /\ Body(VinCmd, VinHdr) \in Token
              /\ Body(VinCmd, VinHdr).cmd = VinCmd /\ Prompt.cmd = NoCmd
          BY TokenType DEF Body, Prompt, Address, Query
        <5>2. VinCmd # NoCmd
          BY ObdQueryAssumption DEF Query
        <5> QED
          BY <5>1, <5>2
      <4>4. \A b : [i \in 1 .. 0 |-> b] = [i \in 1 .. 0 |-> Stop]
        OBVIOUS
      <4> QED
        BY <4>1, <4>2, <4>3, <4>4
    <3> QED
      BY <3>2, <3>3
  <2>4. /\ Len(air') = n + 1 /\ air' # << >>
        /\ \A i \in 1 .. n : air'[i] # Prompt
    <3> DEFINE lines == [i \in 1 .. n |-> b]
    <3>1. lines \in Seq(Token) /\ Len(lines) = n /\ Prompt \in Token
      BY <2>3, TokenType
    <3>2. /\ Len(Append(lines, Prompt)) = n + 1
          /\ \A i \in 1 .. n : Append(lines, Prompt)[i] = lines[i]
      BY <3>1, AppendProperties
    <3> QED
      BY <2>3, <3>2
  <2>5. ~ due /\ tx # "Idle" /\ (Waiting => Asked)
    BY <2>1 DEF OneExchange, Coming, Arrived
  <2>6. Waiting => Coming'
    <3> SUFFICES ASSUME Waiting PROVE Coming'
      OBVIOUS
    <3>1. cmdQ' = << >> /\ rx = << >>
      BY <2>1, <2>2, <2>5, HeadTailProperties, EmptySeq DEF Asked
    <3> QED
      BY <2>1, <2>4, <3>1 DEF Coming, NoPrompt
  <2> QED
    BY <2>1, <2>5, <2>6 DEF Waiting
<1>12. CASE Hang
  BY <1>12 DEF Hang
<1>13. CASE Notify
  <2>1. /\ ~ hung /\ ~ late /\ air # << >> /\ air' = Tail(air)
        /\ UNCHANGED <<tx, due, buf, cmdQ>>
        /\ rx' = rx \/ rx' = Append(rx, Head(air))
    BY <1>13 DEF Notify, engine
  <2>2. /\ Head(air) = air[1] /\ Head(air) \in Token /\ Len(air) >= 1
        /\ air' \in Seq(Token) /\ Len(air') = Len(air) - 1
        /\ \A i \in 1 .. Len(air') : air'[i] = air[i + 1]
    BY <1>0, <2>1, HeadTailProperties
  <2>3. /\ Len(rx') \in {Len(rx), Len(rx) + 1} /\ rx' \in Seq(Token)
        /\ \A i \in 1 .. Len(rx) : rx'[i] = rx[i]
        /\ Len(rx') = Len(rx) + 1 => rx'[Len(rx) + 1] = Head(air)
    <3>1. CASE rx' = rx
      <4>1. \A n \in Nat : n # n + 1
        OBVIOUS
      <4>2. Len(rx') # Len(rx) + 1
        BY <1>0, <3>1, <4>1, Zenon
      <4> QED
        BY <1>0, <3>1, <4>2
    <3>2. CASE rx' = Append(rx, Head(air))
      BY <1>0, <2>2, <3>2, AppendProperties
    <3> QED
      BY <2>1, <3>1, <3>2
  <2>4. ~ due /\ tx # "Idle" /\ (Waiting => Coming)
    BY <2>1 DEF OneExchange, Asked, Arrived
  <2>5. ASSUME Waiting PROVE Coming' \/ Arrived'
    <3>1. /\ cmdQ' = << >> /\ \A i \in 1 .. Len(rx) : rx[i] # Prompt
          /\ \A i \in 1 .. Len(air) - 1 : air[i] # Prompt
      BY <1>0, <2>1, <2>4, <2>5 DEF Coming, NoPrompt
    <3>2. CASE air' = << >>
      BY <1>0, <2>3, <3>1, <3>2 DEF Arrived
    <3>3. CASE air' # << >>
      <4>1. Len(air') >= 1 /\ Head(air) # Prompt
        BY <1>0, <2>2, <3>1, <3>3, EmptySeq
      <4>2. \A i \in 1 .. Len(rx') : rx'[i] # Prompt
        BY <1>0, <2>3, <3>1, <4>1
      <4>3. DOMAIN rx' = 1 .. Len(rx')
        BY <2>3
      <4>4. \A i \in 1 .. Len(air') - 1 : air'[i] # Prompt
        <5> SUFFICES ASSUME NEW i \in 1 .. Len(air') - 1 PROVE air'[i] # Prompt
          OBVIOUS
        <5>1. i \in 1 .. Len(air') /\ i + 1 \in 1 .. Len(air) - 1
          BY <1>0, <2>2
        <5> QED
          BY <2>2, <3>1, <5>1
      <4> QED
        BY <3>1, <3>3, <4>2, <4>3, <4>4 DEF Coming, NoPrompt
    <3> QED
      BY <3>2, <3>3
  <2> QED
    BY <2>1, <2>4, <2>5 DEF Waiting
<1>14. CASE UNCHANGED vars
  BY <1>14 DEF vars, OneExchange, Waiting, Asked, Coming, Arrived, NoPrompt
<1> QED
  BY <1>1, <1>2, <1>3, <1>4, <1>5, <1>6, <1>7, <1>8, <1>9, <1>10, <1>11, <1>12,
     <1>13, <1>14 DEF Next, PollStep, VinStep

(* As long as nothing was given up before its reply was over, every        *)
(* exchange is over before the next one begins, however long replies are   *)
(* and whatever the ring or the flood guard drop.                          *)
THEOREM ExchangeHolds == Spec => []OneExchange
<1>1. Init => OneExchange
  BY DEF Init, OneExchange, Waiting
<1>2. TypeOK /\ TypeOK' /\ OneExchange /\ [Next]_vars => OneExchange'
  BY ExchangeStep
<1> QED
  BY <1>1, <1>2, TypeCorrect, PTL DEF Spec

(* The query is written only after the adapter has acknowledged every      *)
(* set-up command, until something was given up before its reply was over: *)
(* the prompt that is taken for the last command's is its own              *)
(* (obd_query.h:76-93).                                                    *)
THEOREM SetupAckedHolds == Spec => SetupAcked
<1>1. TypeOK /\ OneExchange /\ [Next]_vars =>
        [(tx = "WaitHeader" /\ tx' = "WaitData")
           => hung \/ late \/ (cmdQ = << >> /\ air = << >>)]_vars
  <2> SUFFICES ASSUME TypeOK, OneExchange, Next, tx = "WaitHeader", tx' = "WaitData",
                      ~ hung, ~ late
               PROVE  cmdQ = << >> /\ air = << >>
    OBVIOUS
  <2>1. HeaderDone
    BY DEF Next, PollStep, VinStep, Connect, VinAsk, VinRetry, VinDone, VinDrain, StartSetup,
       StartQuery, HeaderNext, HeaderTimeout, HeaderDrain, DataPublish, DataIgnore, DataFlood,
       DataTimeout, DataDrain, LinkLost, Elapse, Answer, Hang, Notify
  <2>2. PICK p \in DOMAIN rx : FirstPrompt(p)
    BY <2>1 DEF HeaderDone
  <2> QED
    BY <2>2, PromptEnds DEF Waiting
<1> QED
  BY <1>1, TypeCorrect, ExchangeHolds, PTL DEF Spec, SetupAcked
=============================================================================
