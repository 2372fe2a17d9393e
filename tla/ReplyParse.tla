----------------------------- MODULE ReplyParse -----------------------------
(***************************************************************************)
(* From what the adapter prints for one request to the bytes a decoder is  *)
(* given: the notifications that carry the text, and parseObdResponse()    *)
(* (src/src/obd_parse.cpp).                                                *)
(*                                                                         *)
(* A character keeps where it came from, besides what it is: <<v, e, i>>   *)
(* is the i-th digit of what module e answered, and e is 0 for what the    *)
(* adapter adds.  v is the hex digit, or one of the marks below.           *)
(***************************************************************************)
EXTENDS Integers, Sequences, FiniteSetsExt, SequencesExt

CONSTANTS Chunk,     \* characters in a notification
          Lengths,   \* bytes in a positive reply, service and PID included
          Preambles  \* what the adapter may print first

ASSUME ReplyAssumption ==
  /\ Chunk \in Nat \ {0}
  /\ Lengths \subseteq 3..20
  /\ Preambles \subseteq {"", "OK", "SEARCHING..."}

VARIABLES mode,     \* service of the request, 1 or 34
          text,     \* what the adapter has printed and not yet sent
          rx,       \* rxBuf
          got,      \* what parseObdResponse() made of it
          answers,  \* history: the length of each module's positive reply
          hurt      \* history: what happened to the answers on their way

vars == <<mode, text, rx, got, answers, hurt>>

CR == -1   Colon == -2   Prompt == -3   Dot == -4   Letter == -5   Sorry == -6

Char(v) == <<v, 0, 0>>
IsHex(c) == c[1] >= 0
Is(c, mark) == c[1] = mark

Waiting == <<Char(Prompt)>>
Refused == << >>

-----------------------------------------------------------------------------
(* The modules of the vehicle and the adapter *)

(* The positive answer names the service, 41 or 62, and the PID of the     *)
(* request, which has one byte or two.                                     *)
HeaderOf(m) == IF m = 1 THEN <<4, 1, 5, 12>> ELSE <<6, 2, 1, 1, 5, 12>>
Header == HeaderOf(mode)
HeaderLen == Len(Header)

(* The digits of a reply of n bytes.  Three digits of the data, left over  *)
(* on a line of their own, look like the length of the reply.              *)
Payload(e, n) ==
  [i \in 1..(2 * n) |->
     <<IF i <= HeaderLen THEN Header[i] ELSE IF i % 3 = 0 THEN n % 16 ELSE 0, e, i>>]

(* A reply of up to seven bytes is one line; a longer one a line with its  *)
(* length, then its frames, the last one padded.                           *)
Frame(p, k) ==
  LET first == IF k = 0 THEN 1 ELSE 14 * k - 1
      size  == IF k = 0 THEN 12 ELSE 14
  IN  <<Char(k % 16), Char(Colon)>> \o
      [i \in 1..size |-> IF first + i - 1 <= Len(p) THEN p[first + i - 1] ELSE Char(5)]

Frames(n) == 0..((n - 6 + 6) \div 7)

LengthLine(n) == <<Char(0), Char(n \div 16), Char(n % 16)>>

Nak ==
  <<Char(7), Char(15)>> \o (IF mode = 1 THEN <<Char(0), Char(1)>>
                           ELSE <<Char(2), Char(2)>>) \o <<Char(1), Char(2)>>

LinesOf(e, n) ==
  LET p == Payload(e, n) IN
  IF n <= 7 THEN <<p>>
  ELSE <<LengthLine(n)>> \o [k \in 1..Cardinality(Frames(n)) |-> Frame(p, k - 1)]

(* Two modules answer a broadcast, and their lines come in any order.      *)
Merges(a, b) ==
  {[i \in 1..(Len(a) + Len(b)) |->
      LET before == Cardinality({j \in P : j <= i})
      IN  IF i \in P THEN a[before] ELSE b[i - before]]
     : P \in kSubset(Len(a), 1..(Len(a) + Len(b)))}

(* Frames lost, repeated and out of order on the bus.                      *)
Disturbed(e, n) ==
  UNION {{<<LengthLine(n)>> \o [i \in 1..m |-> Frame(Payload(e, n), f[i])]
            : f \in [1..m -> Frames(n)]} : m \in 1..Cardinality(Frames(n))}

Preamble(w) ==
  IF w = "OK" THEN <<Char(Letter), Char(Letter), Char(CR)>>
  ELSE IF w = "" THEN << >>
  ELSE [i \in 1..12 |-> Char(Dot)] \o <<Char(CR)>>

Printed(w, lines) ==
  Preamble(w) \o FlattenSeq([i \in 1..Len(lines) |-> Append(lines[i], Char(CR))])
              \o <<Char(CR), Char(Prompt)>>

-----------------------------------------------------------------------------
(* parseObdResponse() *)

LinesIn(buf) ==
  FoldLeft(LAMBDA ls, c : IF Is(c, CR) THEN Append(ls, << >>)
                          ELSE [ls EXCEPT ![Len(ls)] = Append(@, c)],
           << << >> >>, buf)

Digits(s) == SelectSeq(s, IsHex)

AllHex(s) == \A i \in 1..Len(s) : IsHex(s[i])

AssembledInAnyOrder(st, line) ==
  LET colons == {i \in 1..Len(line) : Is(line[i], Colon)} IN
  IF colons # {}
  THEN [st EXCEPT !.frames = @ + 1,
                  !.acc = @ \o Digits(SubSeq(line, Min(colons) + 1, Len(line)))]
  ELSE IF Len(line) = 3 /\ AllHex(line)
  THEN [st EXCEPT !.len = 256 * line[1][1] + 16 * line[2][1] + line[3][1]]
  ELSE st

(* One line of a reply in several frames.  The ordinal of a frame line     *)
(* must be the next one, of which the adapter prints the low four bits.    *)
Assembled(st, line) ==
  LET colons == {i \in 1..Len(line) : Is(line[i], Colon)} IN
  IF st.refused THEN st
  ELSE IF colons # {}
  THEN LET at == Min(colons) IN
       IF /\ at > 1
          /\ AllHex(SubSeq(line, 1, at - 1))
          /\ line[at - 1][1] = st.frames % 16
       THEN [st EXCEPT !.frames = @ + 1,
                       !.acc = @ \o Digits(SubSeq(line, at + 1, Len(line)))]
       ELSE [st EXCEPT !.refused = TRUE]
  ELSE IF Len(line) = 3 /\ AllHex(line)
  THEN [st EXCEPT !.len = 256 * line[1][1] + 16 * line[2][1] + line[3][1]]
  ELSE st

assembleMultiFrame(buf) ==
  FoldLeft(Assembled, [frames |-> 0, acc |-> << >>, len |-> -1, refused |-> FALSE],
           LinesIn(buf))

(* The payload, cut to the declared length; none if it falls short of it.  *)
AssembledHex(st) ==
  LET want == IF st.len >= 0 THEN 2 * st.len ELSE 128 IN
  IF st.refused \/ (st.len >= 0 /\ Len(st.acc) < want) THEN << >>
  ELSE SubSeq(st.acc, 1, IF Len(st.acc) < want THEN Len(st.acc) ELSE want)

(* Of either service: it and the PID match, and a byte of data follows.    *)
decodeFrameHex(s) ==
  IF /\ Len(s) >= HeaderLen + 2 /\ Len(s) % 2 = 0
     /\ AllHex(s)
     /\ \A i \in 1..HeaderLen : s[i][1] = Header[i]
  THEN SubSeq(s, HeaderLen + 1, Len(s)) ELSE Refused

Shown(s) == SelectSeq(s, LAMBDA c : ~Is(c, CR) /\ ~Is(c, Prompt))

(* The token "SEARCHING..." wherever it stands whole, and a leading "OK".  *)
Stripped(s) ==
  LET token(i) == \A j \in i..(i + 11) : Is(s[j], Dot)
      at == {i \in 1..(Len(s) - 11) : token(i)}
      t  == IF at = {} THEN s
            ELSE SubSeq(s, 1, Min(at) - 1) \o SubSeq(s, Min(at) + 12, Len(s))
  IN  IF Len(t) >= 2 /\ Is(t[1], Letter) /\ Is(t[2], Letter)
      THEN SubSeq(t, 3, Len(t)) ELSE t

FirstFound(results) ==
  LET found == {i \in 1..Len(results) : results[i] # Refused}
  IN  IF found = {} THEN Refused ELSE results[Min(found)]

parseFirstPositiveLine(buf) ==
  LET lines == LinesIn(buf)
  IN  FirstFound([i \in 1..Len(lines) |-> decodeFrameHex(Shown(lines[i]))])

(* Behind negative answers that nothing separates from the positive one.   *)
BehindNaks(s) ==
  LET nak(k) == s[6 * k - 5][1] = 7 /\ s[6 * k - 4][1] = 15
      n == Max({k \in 0..(Len(s) \div 6) : \A j \in 1..k : nak(j)})
  IN  FirstFound([k \in 1..n |-> decodeFrameHex(SubSeq(s, 6 * k + 1, Len(s)))])

parseSingleAtOnce(buf) == decodeFrameHex(Stripped(Shown(buf)))

(* An adapter that says it has no data ends the matter, whatever else it   *)
(* printed; otherwise there are three attempts on a reply of single frames.*)
parseSingle(buf) ==
  LET s == Stripped(Shown(buf))
  IN  IF \E i \in 1..Len(s) : Is(s[i], Sorry) THEN Refused
      ELSE FirstFound(<<decodeFrameHex(s), parseFirstPositiveLine(buf), BehindNaks(s)>>)

parseObdResponse(buf) ==
  LET st == assembleMultiFrame(buf) IN
  IF st.frames > 0 \/ st.refused THEN decodeFrameHex(AssembledHex(st))
  ELSE parseSingle(buf)

-----------------------------------------------------------------------------
Init ==
  /\ mode = 1
  /\ text = << >> /\ rx = << >>
  /\ got = Refused
  /\ answers = << >>
  /\ hurt = {}

Ask ==
  /\ got # Waiting
  /\ got' = Waiting /\ rx' = << >>
  /\ UNCHANGED mode

(* The next request may be of the other service.                           *)
OtherService ==
  /\ got # Waiting
  /\ mode' = IF mode = 1 THEN 34 ELSE 1
  /\ text' = << >> /\ rx' = << >> /\ got' = Refused
  /\ answers' = << >> /\ hurt' = {}

(* A reply has at least one byte of data.                                  *)
Replies == {n \in Lengths : 2 * n > HeaderLen}

(* One module answers, or two (what is asked on the broadcast address has  *)
(* short replies); a module that does not know the PID says no.            *)
OneAnswers ==
  /\ Ask
  /\ \E n \in Replies, w \in Preambles :
       /\ text' = Printed(w, LinesOf(1, n))
       /\ answers' = <<n>>
  /\ hurt' = {}

TwoAnswer ==
  /\ Ask
  /\ \E n, m \in {l \in Replies : l <= 7}, w \in Preambles :
       \E lines \in Merges(LinesOf(1, n), LinesOf(2, m)) :
         /\ text' = Printed(w, lines)
         /\ answers' = <<n, m>>
  /\ hurt' = {}

OneRefuses ==
  /\ Ask
  /\ \E n \in Replies, w \in Preambles :
       \E lines \in Merges(LinesOf(1, n), <<Nak>>) :
         /\ text' = Printed(w, lines)
         /\ answers' = <<n>>
         /\ hurt' = IF n <= 7 THEN {} ELSE {"joined"}

(* No module answers, or the adapter does not understand: it prints a line *)
(* with NO DATA or a question mark.                                        *)
NoneAnswers ==
  /\ Ask
  /\ \E w \in Preambles : text' = Printed(w, << <<Char(Sorry)>> >>)
  /\ answers' = << >>
  /\ hurt' = {"unanswered"}

BusDisturbs ==
  /\ Ask
  /\ \E n \in {l \in Replies : l > 7} : \E lines \in Disturbed(1, n) :
       /\ text' = Printed("", lines)
       /\ answers' = <<n>>
  /\ hurt' = {"disturbed"}

Sent == SubSeq(text, 1, IF Len(text) < Chunk THEN Len(text) ELSE Chunk)
Rest == SubSeq(text, Len(Sent) + 1, Len(text))

Notify ==
  /\ text # << >>
  /\ rx' = rx \o Sent /\ text' = Rest
  /\ UNCHANGED <<mode, got, answers, hurt>>

(* A full notification is lost: one, and of a reply that has no other      *)
(* trouble, for the length cannot tell padding and other lines from data.  *)
LoseNotification ==
  /\ Len(text) >= Chunk
  /\ hurt = {}
  /\ text' = Rest
  /\ hurt' = {"lost"}
  /\ UNCHANGED <<mode, rx, got, answers>>

(* pidQueryStep() reads up to the prompt, or gives up without one.         *)
Parse ==
  /\ got = Waiting /\ text = << >>
  /\ got' = IF \E i \in 1..Len(rx) : Is(rx[i], Prompt) THEN parseObdResponse(rx)
            ELSE Refused
  /\ UNCHANGED <<mode, text, rx, answers, hurt>>

Next ==
  \/ OneAnswers \/ TwoAnswer \/ OneRefuses \/ NoneAnswers \/ BusDisturbs
  \/ OtherService
  \/ Notify \/ LoseNotification
  \/ Parse

Spec == Init /\ [][Next]_vars

-----------------------------------------------------------------------------
(* Properties *)

Data(e) == SubSeq(Payload(e, answers[e]), HeaderLen + 1, 2 * answers[e])

(* No decoder is given a value made of two replies, of frames in the wrong *)
(* order or of padding: as far as the reply of some module goes, the data  *)
(* are that reply's, digit by digit, whatever was lost, repeated or        *)
(* interleaved, and none of it is missing (obd_parse.cpp:42, :86).         *)
NoMixedReply ==
  got \notin {Waiting, Refused} =>
    \E e \in 1..Len(answers) : IsPrefix(Data(e), got)

(* A reply nothing happened to is decoded, wherever another module's       *)
(* refusal stands and whatever the adapter printed first                   *)
(* (obd_parse.cpp:126).                                                    *)
PositiveFound == hurt \subseteq {"joined"} /\ text = << >> /\ rx # << >> => got # Refused
=============================================================================
