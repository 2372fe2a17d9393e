---------------------------- MODULE PollSchedule ----------------------------
(***************************************************************************)
(* The order the rows of the active profile are asked in: ObdSchedule      *)
(* (src/src/obd_schedule.cpp).  build() sorts the active rows into three   *)
(* buckets of Cap places, next() picks from them in a pattern of sixty     *)
(* ticks.  A tick is one question put to the vehicle; what becomes of the  *)
(* question is ObdQuery's.                                                 *)
(***************************************************************************)
EXTENDS Decoders, FiniteSetsExt, SequencesExt

CONSTANTS Cap,        \* places in a bucket
          Vehicles,   \* the registry keys a boot may have selected
          Bytes       \* the bytes that replies are made of

ASSUME BytesAssumption == Bytes \subseteq 0..255

VARIABLES key,        \* the profile of this boot
          fast, slow, rare,     \* the buckets
          tick, fi, si, ri,     \* the counters, each kept modulo its use
          asked,      \* the stat next() returned last, or Nobody
          waited,     \* history: ticks since a row was last asked
          trips       \* history: round trips with the adapter since then

vars == <<key, fast, slow, rare, tick, fi, si, ri, asked, waited, trips>>

Nobody == "nobody"      \* build() has not run
Built  == "built"       \* it has, and nothing has been asked

profile == ProfileForKey(key)

-----------------------------------------------------------------------------
(* build() *)

(* Rows without a command are not in the table; of the others, the rows    *)
(* that the layout neither shows nor lists as helpers are never polled.    *)
ActiveRows(p) == SelectSeq(p.readouts, LAMBDA r : IsActive(p, r.stat))

StatsOf(rows) == {r.stat : r \in ToSet(rows)}

OfTier(rows, t) == SelectSeq(rows, LAMBDA r : r.tier = t)

Take(s, n) == SubSeq(s, 1, IF Len(s) < n THEN Len(s) ELSE n)

FastRows(rows) == Take(OfTier(rows, 0), Cap)
SlowRows(rows) == Take(OfTier(rows, 1), Cap)

(* What fits neither of the first two buckets overflows into the third,    *)
(* and what does not fit there is dropped.                                 *)
RareRows(rows) ==
  LET placed == ToSet(FastRows(rows)) \cup ToSet(SlowRows(rows))
  IN  Take(SelectSeq(rows, LAMBDA r : r \notin placed), Cap)

(* A stable sort by header: the blocks of equal headers, in order.         *)
SortByHeader(bucket) ==
  FlattenSeq([h \in 1..3 |->
                SelectSeq(bucket, LAMBDA r : r.header = h - 1)])

RowOf ==
  [k \in Keys |-> [s \in Polled(ProfileForKey(k)) |->
     CHOOSE r \in ToSet(ProfileForKey(k).readouts) : r.stat = s]]

BucketOf(rows, t) ==
  SortByHeader(IF t = 0 THEN FastRows(rows)
               ELSE IF t = 1 THEN SlowRows(rows) ELSE RareRows(rows))

(* What build() makes of the tables of the firmware: every active row has  *)
(* a place in the bucket of its own tier, no bucket holds anything else,   *)
(* the first two are not both empty, and a row's addressing entry exists.  *)
ASSUME TablesAssumption ==
  /\ Vehicles \subseteq Keys
  /\ \A k \in Keys :
       LET p == ProfileForKey(k)  rows == ActiveRows(p) IN
       /\ StatsOf(rows) \subseteq Stats
       /\ \A t \in 0..2 : BucketOf(rows, t) \in Seq(ToSet(rows))
       /\ BucketOf(rows, 0) # << >> \/ BucketOf(rows, 1) # << >>
       /\ \A s \in StatsOf(rows) : LET row == RowOf[k][s] IN
            /\ row.tier \in 0..2 /\ s \in StatsOf(BucketOf(rows, row.tier))
            /\ row.header + 1 \in 1..Len(p.addressing)

Init ==
  /\ key \in Vehicles
  /\ fast = << >> /\ slow = << >> /\ rare = << >>
  /\ tick = 0 /\ fi = 0 /\ si = 0 /\ ri = 0
  /\ asked = Nobody
  /\ waited = [s \in StatsOf(ActiveRows(profile)) |-> 0]
  /\ trips = waited

BuildFrom(rows) ==
  /\ fast' = BucketOf(rows, 0)
  /\ slow' = BucketOf(rows, 1)
  /\ rare' = BucketOf(rows, 2)
  /\ tick' = 0 /\ fi' = 0 /\ si' = 0 /\ ri' = 0
  /\ asked' = Built

(* Called from begin() of the source, after setup() has chosen the profile. *)
Build ==
  /\ asked = Nobody
  /\ BuildFrom(ActiveRows(profile))
  /\ UNCHANGED <<key, waited, trips>>

-----------------------------------------------------------------------------
(* next(): four fast slots, then a slow one; every sixtieth tick the slow  *)
(* slot yields a rare row instead.                                         *)

PickSlowBeforeRare ==
  IF tick % 5 < 4 /\ fast # << >> THEN "fast"
  ELSE IF slow # << >> THEN "slow" ELSE IF rare # << >> THEN "rare" ELSE "row 0"

Pick == IF tick % 5 < 4 /\ fast # << >>       THEN "fast"
        ELSE IF tick % 60 = 4 /\ rare # << >> THEN "rare"
        ELSE IF slow # << >>                  THEN "slow"
        ELSE IF fast # << >>                  THEN "fast"
        ELSE "row 0"

Step(i, bucket) == (i + 1) % Len(bucket)

HeaderOf(stat) == RowOf[key][stat].header

(* A question under another header than the last one first sends every     *)
(* set-up line of its addressing entry (pollQuery).                        *)
TripsFor(stat) ==
  IF asked # Built /\ HeaderOf(asked) = HeaderOf(stat) THEN 1
  ELSE 1 + Len(profile.addressing[HeaderOf(stat) + 1])

Since(count, stat, cost) ==
  [s \in DOMAIN count |-> IF s = stat THEN 0 ELSE count[s] + cost]

Ask(stat) ==
  /\ asked' = stat
  /\ tick' = (tick + 1) % 60
  /\ waited' = Since(waited, stat, 1)
  /\ trips' = Since(trips, stat, TripsFor(stat))
  /\ UNCHANGED <<key, fast, slow, rare>>

NextRow ==
  /\ asked # Nobody
  /\ \/ /\ Pick = "fast"
        /\ fi' = Step(fi, fast) /\ UNCHANGED <<si, ri>>
        /\ Ask(fast[fi + 1].stat)
     \/ /\ Pick = "slow"
        /\ si' = Step(si, slow) /\ UNCHANGED <<fi, ri>>
        /\ Ask(slow[si + 1].stat)
     \/ /\ Pick = "rare"
        /\ ri' = Step(ri, rare) /\ UNCHANGED <<fi, si>>
        /\ Ask(rare[ri + 1].stat)

Next == Build \/ NextRow

Spec == Init /\ [][Next]_vars

-----------------------------------------------------------------------------
(* Properties *)

Index(i, bucket) == i \in 0..(IF bucket = << >> THEN 0 ELSE Len(bucket) - 1)

TypeOK ==
  /\ key \in Keys
  /\ tick \in 0..59
  /\ Index(fi, fast) /\ Index(si, slow) /\ Index(ri, rare)
  /\ asked \in DOMAIN waited \cup {Nobody, Built}

(* Rows of one header stand together, each block in the order of the table. *)
Grouped(bucket) ==
  \A i, j \in 1..Len(bucket) : i < j =>
    \/ bucket[i].header < bucket[j].header
    \/ /\ bucket[i].header = bucket[j].header
       /\ \E a, b \in 1..Len(profile.readouts) :
            /\ a < b
            /\ profile.readouts[a] = bucket[i]
            /\ profile.readouts[b] = bucket[j]

(* Every row of the layout that has a command is in the bucket of its own  *)
(* tier, once, and grouped by header: no profile reaches the sixteen rows  *)
(* past which a row is moved to the third bucket or dropped, and none is   *)
(* so empty that next() falls back on row 0 (obd_schedule.cpp:22).         *)
BucketsRight ==
  /\ TypeOK
  /\ asked # Nobody => Pick # "row 0"
  /\ asked = Built =>
    /\ \A b \in {<<fast, 0>>, <<slow, 1>>, <<rare, 2>>} :
         /\ Cardinality(StatsOf(b[1])) = Len(b[1])
         /\ \A r \in ToSet(b[1]) : r.tier = b[2]
         /\ Grouped(b[1])
    /\ StatsOf(fast) \cup StatsOf(slow) \cup StatsOf(rare) = DOMAIN waited

TierOf(stat) == RowOf[key][stat].tier

(* The longest a reply may take before the query is given up, and the age  *)
(* at which a value stops counting (staleMsForTier), in milliseconds.      *)
ReplyMs == 400
StaleMs(tier) == IF tier = 0 THEN 120000 ELSE IF tier = 1 THEN 1800000 ELSE 3600000

(* The most questions from one turn of a row to the next, in a bucket of n *)
(* rows, and the most round trips a question takes.                        *)
Round(tier, n) == IF tier = 0 THEN n + (n \div 4) + 1
                  ELSE IF tier = 1 THEN 5 * (n + n \div 11 + 1)
                  ELSE 60 * n + 5
MaxTrips == 4

(* The tables leave time for a round: no addressing entry has more than    *)
(* three lines, and no bucket more rows than its age allows.               *)
ASSUME BudgetAssumption ==
  \A k \in Keys : LET p == ProfileForKey(k) IN
    /\ \A i \in 1..Len(p.addressing) : Len(p.addressing[i]) \in 0..(MaxTrips - 1)
    /\ \A t \in 0..2 :
         Round(t, Len(BucketOf(ActiveRows(p), t))) * MaxTrips * ReplyMs < StaleMs(t)

(* No row is starved.  A fast row returns after one round of the fast      *)
(* bucket with a slow slot in every five; a slow row after one round of    *)
(* its bucket, which gets eleven or twelve of every sixty ticks; a rare    *)
(* row after sixty ticks for each row of its bucket.  And even when every  *)
(* round trip uses up its whole time limit, a row is asked again before    *)
(* its tier's age makes its last value stale (obd_schedule.cpp:51,         *)
(* obd_source.h:61).                                                       *)
RowsInTime ==
  \A s \in DOMAIN waited :
    /\ waited[s] <= Round(TierOf(s), IF TierOf(s) = 0 THEN Len(fast)
                                     ELSE IF TierOf(s) = 1 THEN Len(slow) ELSE Len(rare))
    /\ trips[s] * ReplyMs < StaleMs(TierOf(s))

(* What a driver can see or be warned of is fed: the buckets are right; a  *)
(* tile is on one page only; a tile that is not polled is computed from    *)
(* rows that are all polled; a row with an alarm bound is polled and       *)
(* shown, for only shown rows can alarm; and every row names an addressing *)
(* entry of its profile.                                                   *)
LayoutSound ==
  /\ BucketsRight
  /\ asked = Nobody =>
     LET p == profile  active == StatsOf(ActiveRows(p)) IN
     /\ \A s \in Displayed(p) : Cardinality(PageOf(p, s)) = 1
     /\ \A s \in Displayed(p) \ active :
          Inputs(s) # {} /\ Inputs(s) \subseteq active
     /\ DOMAIN p.alarms \subseteq Displayed(p) \cap active
     /\ \A r \in ToSet(p.readouts) : r.header < Len(p.addressing)

(* A corrupt reply does not alarm.  A frame of pads, FF or 00, of whatever *)
(* length, decodes to nothing or to a harmless value (only the oil         *)
(* pressure takes a 00, and reads no pressure); and a reply cut short,     *)
(* whose whole reading is in the green, never decodes to one in the red    *)
(* (gm_sierra_lz0.cpp:17).                                                 *)
DropoutSilent ==
  asked = Nobody =>
  \A s \in DOMAIN profile.alarms :
    /\ \A n \in 0..8 : \A pad \in {0, 255} :
         \/ ZonesOf(key, s, [i \in 1..n |-> pad]) \subseteq {"Green"}
         \/ s = "OilP" /\ pad = 0
    /\ \A x, y \in Bytes : \A n \in 1..7 :
         LET whole == <<x, y, x, y, x, y, x>>
         IN  ZonesOf(key, s, whole) = {"Green"} =>
               "Red" \notin ZonesOf(key, s, SubSeq(whole, 1, n))

=============================================================================
