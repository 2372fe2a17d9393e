------------------------ MODULE VehicleChoice_proofs ------------------------
(***************************************************************************)
(* Theorems about VehicleChoice, and about PollSchedule inside it.  First  *)
(* the rotation: no row of the active profile is starved (RowsInTime), and *)
(* next() always has a row (AlwaysARow).  Then the VIN: the tables of the  *)
(* lines, the engines and the gates agree on every VIN, and what the dash  *)
(* saves is the car's (CarIsKnown).  Last the decoders of the rows that    *)
(* alarm: no reply that is cut short and no padding alarms                 *)
(* (DropoutSilent).                                                        *)
(***************************************************************************)
EXTENDS VehicleChoice, FiniteSetTheorems, WellFoundedInduction, TLAPS

-----------------------------------------------------------------------------

(* How many picks from a bucket of n come before place p, with the cursor  *)
(* at i, and how many there have been since its turn.                      *)
Ahead(p, i, n) == IF p > i THEN p - 1 - i ELSE p - 1 - i + n
Gone(p, i, n)  == n - 1 - Ahead(p, i, n)

(* How many of the slow slots of sixty ticks are over.                     *)
Slots(t) == IF t < 5 THEN 11 ELSE (t - 5) \div 5

(* How long a place has waited at most when g picks have been made since   *)
(* its turn.                                                               *)
FastOnTime(w, g, t) == 4 * w <= 5 * g + 4 - (t % 5)
SlowOnTime(w, g, t) == w <= 5 * (g + (g + 11 - Slots(t)) \div 11) + (t % 5)
RareOnTime(w, g, t) == w <= 60 * g + ((t + 55) % 60)

(* Every place of a bucket is on time.                                     *)
FastTurn(w) == \A p \in 1..Len(fast) :
                 FastOnTime(w[fast[p].stat], Gone(p, fi, Len(fast)), tick)
SlowTurn(w) == \A p \in 1..Len(slow) :
                 SlowOnTime(w[slow[p].stat], Gone(p, si, Len(slow)), tick)
RareTurn(w) == \A p \in 1..Len(rare) :
                 RareOnTime(w[rare[p].stat], Gone(p, ri, Len(rare)), tick)

(* Stepping a cursor brings every place but its own one pick nearer.       *)
LEMMA Turned ==
  ASSUME NEW n \in Nat, NEW i \in 0..(n - 1), NEW p \in 1..n
  PROVE  LET j == (i + 1) % n IN
         /\ j \in 0..(n - 1)
         /\ Gone(p, i, n) \in 0..(n - 1)
         /\ p = i + 1 => Gone(p, j, n) = 0
         /\ p # i + 1 => Gone(p, j, n) = Gone(p, i, n) + 1
  <1>1. (i + 1) % n = IF i + 1 < n THEN i + 1 ELSE 0
    OBVIOUS
  <1> DEFINE j == (i + 1) % n
  <1>2. n >= 1 /\ j = IF i + 1 < n THEN i + 1 ELSE 0
    BY <1>1
  <1> HIDE DEF j
  <1> QED
    BY <1>2 DEF Gone, Ahead

(* One more question: a row that is asked starts again, and one that is    *)
(* not has either come a pick nearer or was not in a slot of its bucket. A *)
(* fast row passes a slow slot in every five.                              *)
LEMMA FastOnce ==
  ASSUME NEW g \in Nat, NEW h \in Nat, NEW w \in Nat, NEW v \in Nat, NEW t \in 0..59,
         FastOnTime(w, g, t),
         \/ v = 0
         \/ v = w + 1 /\ h = g + 1
         \/ v = w + 1 /\ h = g /\ (t % 5 = 4)
  PROVE  FastOnTime(v, h, (t + 1) % 60)
  <1>1. CASE v = 0
    BY <1>1 DEF FastOnTime
  <1>2. CASE v = w + 1 /\ h = g + 1
    BY <1>2 DEF FastOnTime
  <1>3. CASE v = w + 1 /\ h = g /\ (t % 5 = 4)
    BY <1>3 DEF FastOnTime
  <1> QED
    BY <1>1, <1>2, <1>3

(* A slow row passes four fast slots, and the rare one of sixty ticks.     *)
LEMMA SlowOnce ==
  ASSUME NEW g \in Nat, NEW h \in Nat, NEW w \in Nat, NEW v \in Nat, NEW t \in 0..59,
         SlowOnTime(w, g, t),
         \/ v = 0
         \/ v = w + 1 /\ h = g + 1
         \/ v = w + 1 /\ h = g /\ (t % 5 # 4 \/ t = 4)
  PROVE  SlowOnTime(v, h, (t + 1) % 60)
  <1>1. CASE v = 0
    BY <1>1 DEF SlowOnTime, Slots
  <1>2. CASE v = w + 1 /\ h = g + 1
    BY <1>2 DEF SlowOnTime, Slots
  <1>3. CASE v = w + 1 /\ h = g /\ (t % 5 # 4 \/ t = 4)
    BY <1>3 DEF SlowOnTime, Slots
  <1> QED
    BY <1>1, <1>2, <1>3

(* A rare row passes every tick but the fifth of sixty.                    *)
LEMMA RareOnce ==
  ASSUME NEW g \in Nat, NEW h \in Nat, NEW w \in Nat, NEW v \in Nat, NEW t \in 0..59,
         RareOnTime(w, g, t),
         \/ v = 0
         \/ v = w + 1 /\ h = g + 1
         \/ v = w + 1 /\ h = g /\ (t # 4)
  PROVE  RareOnTime(v, h, (t + 1) % 60)
  <1>1. CASE v = 0
    BY <1>1 DEF RareOnTime
  <1>2. CASE v = w + 1 /\ h = g + 1
    BY <1>2 DEF RareOnTime
  <1>3. CASE v = w + 1 /\ h = g /\ (t # 4)
    BY <1>3 DEF RareOnTime
  <1> QED
    BY <1>1, <1>2, <1>3

-----------------------------------------------------------------------------

(* The rows a profile is polled for, its buckets, and the tier of a row.   *)
StatsOfKey(k) == StatsOf(ActiveRows(ProfileForKey(k)))
Bucket(k, t)  == BucketOf(ActiveRows(ProfileForKey(k)), t)
Tier(k, s)    == RowOf[k][s].tier

(* A bucket of a profile holds rows of that profile.                       *)
LEMMA Buckets ==
  ASSUME NEW k \in Keys, NEW t \in 0..2
  PROVE  /\ Len(Bucket(k, t)) \in Nat
         /\ Bucket(k, t) = << >> <=> Len(Bucket(k, t)) = 0
         /\ \A p \in 1..Len(Bucket(k, t)) : Bucket(k, t)[p].stat \in StatsOfKey(k)
  <1> DEFINE rows == ActiveRows(ProfileForKey(k))
             b == BucketOf(rows, t)
  <1>1. b \in Seq(ToSet(rows))
    BY TablesAssumption, Zenon
  <1>2. StatsOfKey(k) = {r.stat : r \in ToSet(rows)} /\ Bucket(k, t) = b
    BY DEF StatsOfKey, StatsOf, Bucket
  <1> HIDE DEF b, rows
  <1> QED
    BY <1>1, <1>2

(* No row is taken for the marks of a rotation that has asked nothing.     *)
LEMMA StatsKnown == ASSUME NEW k \in Keys PROVE {Nobody, Built} \cap StatsOfKey(k) = {}
  <1>1. StatsOfKey(k) \subseteq Stats
    BY TablesAssumption, Zenon DEF StatsOfKey
  <1>2. \A i \in 1..33 : StatIds[i] \notin {Nobody, Built}
    BY DEF StatIds, Nobody, Built
  <1>3. Len(StatIds) = 33
    BY DEF StatIds
  <1> QED
    BY <1>1, <1>2, <1>3 DEF Stats

(* A row has a place in the bucket of its tier.                            *)
LEMMA OwnBucket ==
  ASSUME NEW k \in Keys, NEW s \in StatsOfKey(k)
  PROVE  /\ Tier(k, s) \in 0..2
         /\ \E p \in 1..Len(Bucket(k, Tier(k, s))) : Bucket(k, Tier(k, s))[p].stat = s
  <1> DEFINE rows == ActiveRows(ProfileForKey(k))
             t == RowOf[k][s].tier
             b == BucketOf(rows, t)
  <1>1. t \in 0..2 /\ s \in StatsOf(b)
    BY TablesAssumption, Zenon DEF StatsOfKey
  <1>2. b \in Seq(ToSet(rows))
    BY <1>1, TablesAssumption, Zenon
  <1>3. Tier(k, s) = t /\ Bucket(k, t) = b
    BY DEF Tier, Bucket
  <1> HIDE DEF b, rows, t
  <1> QED
    BY <1>1, <1>2, <1>3 DEF StatsOf, ToSet

(* A question costs its own round trip and one for each set-up line.       *)
LEMMA TripsBounded ==
  ASSUME key \in Keys, NEW s \in StatsOfKey(key)
  PROVE  TripsFor(s) \in 1..MaxTrips
  <1> DEFINE n == Len(ProfileForKey(key).addressing[RowOf[key][s].header + 1])
  <1>1. RowOf[key][s].header + 1 \in 1..Len(ProfileForKey(key).addressing)
    BY TablesAssumption, Zenon DEF StatsOfKey
  <1>2. n \in 0..(MaxTrips - 1)
    BY <1>1, BudgetAssumption, Zenon
  <1>3. TripsFor(s) = 1 \/ TripsFor(s) = 1 + n
    BY DEF TripsFor, profile, HeaderOf
  <1> HIDE DEF n
  <1> QED
    BY <1>2, <1>3 DEF MaxTrips
-----------------------------------------------------------------------------

(* Before build() nothing is due; after it the buckets are the tables'.    *)
BucketsBuilt ==
  /\ asked = Nobody => /\ fast = << >> /\ slow = << >> /\ rare = << >>
                       /\ \A s \in DOMAIN waited : waited[s] = 0
  /\ asked # Nobody => /\ fast = Bucket(key, 0) /\ slow = Bucket(key, 1)
                       /\ rare = Bucket(key, 2)

(* The types of the rotation.                                              *)
Counters ==
  /\ key \in Keys /\ tick \in 0..59
  /\ Index(fi, fast) /\ Index(si, slow) /\ Index(ri, rare)
  /\ asked \in StatsOfKey(key) \cup {Nobody, Built}
  /\ waited \in [StatsOfKey(key) -> Nat] /\ trips \in [StatsOfKey(key) -> Nat]

(* A row has cost no more round trips than its wait allows.                *)
TripsPaid == \A s \in DOMAIN waited : trips[s] <= waited[s] * MaxTrips

(* Every row of every bucket is on time.                                   *)
Turns == FastTurn(waited) /\ SlowTurn(waited) /\ RareTurn(waited)

(* The inductive invariant of the rotation: what a row has waited is       *)
(* bounded by the picks made since its turn, not by a round, so that a     *)
(* step is enough to keep it.                                              *)
RotationInv == Counters /\ BucketsBuilt /\ TripsPaid /\ Turns

(* The buckets hold rows of the profile, before build() and after.         *)
LEMMA BucketTypes ==
  ASSUME Counters, BucketsBuilt
  PROVE  /\ Len(fast) \in Nat /\ Len(slow) \in Nat /\ Len(rare) \in Nat
         /\ fast = << >> <=> Len(fast) = 0
         /\ slow = << >> <=> Len(slow) = 0
         /\ rare = << >> <=> Len(rare) = 0
         /\ \A p \in 1..Len(fast) : fast[p].stat \in StatsOfKey(key)
         /\ \A p \in 1..Len(slow) : slow[p].stat \in StatsOfKey(key)
         /\ \A p \in 1..Len(rare) : rare[p].stat \in StatsOfKey(key)
  <1>1. CASE asked = Nobody
    BY <1>1 DEF BucketsBuilt
  <1>2. CASE asked # Nobody
    <2>1. key \in Keys
      BY DEF Counters
    <2>2. fast = Bucket(key, 0) /\ slow = Bucket(key, 1) /\ rare = Bucket(key, 2)
      BY <1>2 DEF BucketsBuilt
    <2> QED
      BY <2>1, <2>2, Buckets
  <1> QED
    BY <1>1, <1>2

(* A rotation at its beginning, before build() or after it.                *)
Beginning ==
  /\ key \in Keys /\ tick = 0 /\ fi = 0 /\ si = 0 /\ ri = 0
  /\ asked \in {Nobody, Built} /\ BucketsBuilt
  /\ waited \in [StatsOfKey(key) -> {0}] /\ trips \in [StatsOfKey(key) -> {0}]

(* A rotation begins on time: the cursors stand before every first place.  *)
LEMMA Begun == Beginning => RotationInv
  <1> SUFFICES ASSUME Beginning PROVE RotationInv
    OBVIOUS
  <1> USE DEF Beginning
  <1>1. Counters
    BY DEF Counters, Index
  <1>2. TripsPaid
    BY DEF TripsPaid, MaxTrips
  <1>3. \A n \in Nat : \A p \in 1..n : Gone(p, 0, n) \in Nat
    BY DEF Gone, Ahead
  <1>4. 0 % 5 = 0 /\ (0 + 55) % 60 = 55 /\ Slots(0) = 11
    BY DEF Slots
  <1>5. \A g \in Nat : g \div 11 \in Nat
    OBVIOUS
  <1>6. /\ Len(fast) \in Nat /\ Len(slow) \in Nat /\ Len(rare) \in Nat
        /\ \A p \in 1..Len(fast) : waited[fast[p].stat] = 0 /\ Gone(p, 0, Len(fast)) \in Nat
        /\ \A p \in 1..Len(slow) : waited[slow[p].stat] = 0 /\ Gone(p, 0, Len(slow)) \in Nat
        /\ \A p \in 1..Len(rare) : waited[rare[p].stat] = 0 /\ Gone(p, 0, Len(rare)) \in Nat
    BY <1>1, <1>3, BucketTypes
  <1>7. FastTurn(waited)
    BY <1>4, <1>6 DEF FastTurn, FastOnTime
  <1>8. SlowTurn(waited)
    BY <1>4, <1>5, <1>6 DEF SlowTurn, SlowOnTime
  <1>9. RareTurn(waited)
    BY <1>4, <1>6 DEF RareTurn, RareOnTime
  <1> QED
    BY <1>1, <1>2, <1>7, <1>8, <1>9 DEF RotationInv, Turns

(* Who may be asked at a tick.                                             *)
LEMMA WhoseTurn ==
  ASSUME tick \in 0..59
  PROVE  /\ Pick # "fast" /\ fast # << >> => tick % 5 = 4
         /\ Pick # "slow" /\ slow # << >> => tick % 5 # 4 \/ tick = 4
         /\ Pick # "rare" /\ rare # << >> => tick # 4
         /\ Pick = "fast" => fast # << >>
         /\ Pick = "slow" => slow # << >>
         /\ Pick = "rare" => rare # << >>
  <1>1. tick % 60 = tick /\ tick % 5 \in 0..4
    OBVIOUS
  <1> QED
    BY <1>1 DEF Pick

(* Asking a row keeps the counts, whichever bucket it came from.           *)
LEMMA AskKeeps ==
  ASSUME RotationInv, asked # Nobody, NEW s \in StatsOfKey(key), Ask(s)
  PROVE  /\ tick' \in 0..59 /\ asked' = s /\ BucketsBuilt'
         /\ waited' = [q \in StatsOfKey(key) |-> IF q = s THEN 0 ELSE waited[q] + 1]
         /\ waited' \in [StatsOfKey(key) -> Nat] /\ trips' \in [StatsOfKey(key) -> Nat]
         /\ TripsPaid'
  <1>1. /\ waited \in [StatsOfKey(key) -> Nat] /\ trips \in [StatsOfKey(key) -> Nat]
        /\ key \in Keys /\ tick \in 0..59
        /\ \A q \in StatsOfKey(key) : trips[q] <= waited[q] * MaxTrips
    BY DEF RotationInv, Counters, TripsPaid
  <1>2. /\ asked' = s /\ tick' = (tick + 1) % 60
        /\ waited' = Since(waited, s, 1) /\ trips' = Since(trips, s, TripsFor(s))
        /\ UNCHANGED <<key, fast, slow, rare>>
    BY DEF Ask
  <1>3. waited' = [q \in StatsOfKey(key) |-> IF q = s THEN 0 ELSE waited[q] + 1]
    BY <1>1, <1>2 DEF Since
  <1>4. PICK m \in 1..MaxTrips : m = TripsFor(s)
    BY <1>1, TripsBounded
  <1>5. trips' = [q \in StatsOfKey(key) |-> IF q = s THEN 0 ELSE trips[q] + m]
    BY <1>1, <1>2, <1>4 DEF Since
  <1>6. waited' \in [StatsOfKey(key) -> Nat] /\ trips' \in [StatsOfKey(key) -> Nat]
    BY <1>1, <1>3, <1>4, <1>5 DEF MaxTrips
  <1>7. TripsPaid'
    BY <1>1, <1>3, <1>4, <1>5, <1>6 DEF TripsPaid, MaxTrips
  <1>8. BucketsBuilt'
    <2>1. s # Nobody
      BY <1>1, StatsKnown
    <2> QED
      BY <1>2, <2>1 DEF RotationInv, BucketsBuilt
  <1> QED
    BY <1>1, <1>2, <1>3, <1>6, <1>7, <1>8

(* The fast rows are still on time when a row is asked.                    *)
LEMMA FastKeeps ==
  ASSUME RotationInv, asked # Nobody, NEW s \in StatsOfKey(key), Ask(s),
         IF Pick = "fast" THEN s = fast[fi + 1].stat /\ fi' = Step(fi, fast) ELSE fi' = fi
  PROVE  FastTurn(waited)' /\ Index(fi', fast')
  <1> DEFINE n == Len(fast)
  <1>1. /\ n \in Nat /\ (fast = << >> <=> n = 0)
        /\ \A p \in 1..n : fast[p].stat \in StatsOfKey(key)
        /\ fast' = fast /\ tick' = (tick + 1) % 60
    BY BucketTypes DEF RotationInv, Ask
  <1>2. /\ tick \in 0..59 /\ Index(fi, fast) /\ waited \in [StatsOfKey(key) -> Nat]
    BY DEF RotationInv, Counters
  <1>3. n # 0 => fi \in 0..(n - 1) /\ fi' = IF Pick = "fast" THEN (fi + 1) % n ELSE fi
    BY <1>1, <1>2 DEF Index, Step
  <1>4. n # 0 => fi' \in 0..(n - 1)
    <2>1. \A m \in Nat : \A i \in 0..(m - 1) : (i + 1) % m \in 0..(m - 1)
      OBVIOUS
    <2> QED
      BY <1>1, <1>3, <2>1
  <1>5. Index(fi', fast')
    <2>1. n = 0 => Pick # "fast"
      BY <1>1, <1>2, WhoseTurn
    <2> QED
      BY <1>1, <1>2, <1>4, <2>1 DEF Index
  <1>6. ASSUME NEW p \in 1..n
        PROVE  FastOnTime(waited'[fast[p].stat], Gone(p, fi', n), (tick + 1) % 60)
    <2> DEFINE q == fast[p].stat
               g == Gone(p, fi, n)
               h == Gone(p, fi', n)
    <2>1. /\ waited'[q] = IF q = s THEN 0 ELSE waited[q] + 1
          /\ q \in StatsOfKey(key) /\ waited[q] \in Nat /\ waited'[q] \in Nat /\ n # 0
      BY <1>1, <1>2, <1>6, AskKeeps
    <2>2. FastOnTime(waited[q], g, tick)
      BY <1>6 DEF RotationInv, Turns, FastTurn
    <2>3. g \in 0..(n - 1) /\ h \in 0..(n - 1)
      BY <1>1, <1>3, <1>4, <1>6, <2>1, Turned
    <2>4. \/ waited'[q] = 0
          \/ waited'[q] = waited[q] + 1 /\ h = g + 1
          \/ waited'[q] = waited[q] + 1 /\ h = g /\ (tick % 5 = 4)
      <3>1. CASE Pick = "fast"
        BY <1>1, <1>3, <1>6, <2>1, <3>1, Turned
      <3>2. CASE Pick # "fast"
        BY <1>1, <1>2, <1>3, <2>1, <3>2, WhoseTurn
      <3> QED
        BY <3>1, <3>2
    <2> DEFINE w == waited[q]
               v == waited'[q]
    <2>5. FastOnTime(v, h, (tick + 1) % 60)
      <3>1. g \in Nat /\ h \in Nat /\ w \in Nat /\ v \in Nat /\ tick \in 0..59
        BY <1>1, <1>2, <2>1, <2>3
      <3>2. FastOnTime(w, g, tick)
        BY <2>2
      <3>3. \/ v = 0
            \/ v = w + 1 /\ h = g + 1
            \/ v = w + 1 /\ h = g /\ (tick % 5 = 4)
        BY <2>4
      <3> HIDE DEF w, v, g, h
      <3> QED
        BY <3>1, <3>2, <3>3, FastOnce
    <2> QED
      BY <2>5
  <1> QED
    BY <1>1, <1>5, <1>6 DEF FastTurn

(* The slow rows are still on time when a row is asked.                    *)
LEMMA SlowKeeps ==
  ASSUME RotationInv, asked # Nobody, NEW s \in StatsOfKey(key), Ask(s),
         IF Pick = "slow" THEN s = slow[si + 1].stat /\ si' = Step(si, slow) ELSE si' = si
  PROVE  SlowTurn(waited)' /\ Index(si', slow')
  <1> DEFINE n == Len(slow)
  <1>1. /\ n \in Nat /\ (slow = << >> <=> n = 0)
        /\ \A p \in 1..n : slow[p].stat \in StatsOfKey(key)
        /\ slow' = slow /\ tick' = (tick + 1) % 60
    BY BucketTypes DEF RotationInv, Ask
  <1>2. /\ tick \in 0..59 /\ Index(si, slow) /\ waited \in [StatsOfKey(key) -> Nat]
    BY DEF RotationInv, Counters
  <1>3. n # 0 => si \in 0..(n - 1) /\ si' = IF Pick = "slow" THEN (si + 1) % n ELSE si
    BY <1>1, <1>2 DEF Index, Step
  <1>4. n # 0 => si' \in 0..(n - 1)
    <2>1. \A m \in Nat : \A i \in 0..(m - 1) : (i + 1) % m \in 0..(m - 1)
      OBVIOUS
    <2> QED
      BY <1>1, <1>3, <2>1
  <1>5. Index(si', slow')
    <2>1. n = 0 => Pick # "slow"
      BY <1>1, <1>2, WhoseTurn
    <2> QED
      BY <1>1, <1>2, <1>4, <2>1 DEF Index
  <1>6. ASSUME NEW p \in 1..n
        PROVE  SlowOnTime(waited'[slow[p].stat], Gone(p, si', n), (tick + 1) % 60)
    <2> DEFINE q == slow[p].stat
               g == Gone(p, si, n)
               h == Gone(p, si', n)
    <2>1. /\ waited'[q] = IF q = s THEN 0 ELSE waited[q] + 1
          /\ q \in StatsOfKey(key) /\ waited[q] \in Nat /\ waited'[q] \in Nat /\ n # 0
      BY <1>1, <1>2, <1>6, AskKeeps
    <2>2. SlowOnTime(waited[q], g, tick)
      BY <1>6 DEF RotationInv, Turns, SlowTurn
    <2>3. g \in 0..(n - 1) /\ h \in 0..(n - 1)
      BY <1>1, <1>3, <1>4, <1>6, <2>1, Turned
    <2>4. \/ waited'[q] = 0
          \/ waited'[q] = waited[q] + 1 /\ h = g + 1
          \/ waited'[q] = waited[q] + 1 /\ h = g /\ (tick % 5 # 4 \/ tick = 4)
      <3>1. CASE Pick = "slow"
        BY <1>1, <1>3, <1>6, <2>1, <3>1, Turned
      <3>2. CASE Pick # "slow"
        BY <1>1, <1>2, <1>3, <2>1, <3>2, WhoseTurn
      <3> QED
        BY <3>1, <3>2
    <2> DEFINE w == waited[q]
               v == waited'[q]
    <2>5. SlowOnTime(v, h, (tick + 1) % 60)
      <3>1. g \in Nat /\ h \in Nat /\ w \in Nat /\ v \in Nat /\ tick \in 0..59
        BY <1>1, <1>2, <2>1, <2>3
      <3>2. SlowOnTime(w, g, tick)
        BY <2>2
      <3>3. \/ v = 0
            \/ v = w + 1 /\ h = g + 1
            \/ v = w + 1 /\ h = g /\ (tick % 5 # 4 \/ tick = 4)
        BY <2>4
      <3> HIDE DEF w, v, g, h
      <3> QED
        BY <3>1, <3>2, <3>3, SlowOnce
    <2> QED
      BY <2>5
  <1> QED
    BY <1>1, <1>5, <1>6 DEF SlowTurn

(* The rare rows are still on time when a row is asked.                    *)
LEMMA RareKeeps ==
  ASSUME RotationInv, asked # Nobody, NEW s \in StatsOfKey(key), Ask(s),
         IF Pick = "rare" THEN s = rare[ri + 1].stat /\ ri' = Step(ri, rare) ELSE ri' = ri
  PROVE  RareTurn(waited)' /\ Index(ri', rare')
  <1> DEFINE n == Len(rare)
  <1>1. /\ n \in Nat /\ (rare = << >> <=> n = 0)
        /\ \A p \in 1..n : rare[p].stat \in StatsOfKey(key)
        /\ rare' = rare /\ tick' = (tick + 1) % 60
    BY BucketTypes DEF RotationInv, Ask
  <1>2. /\ tick \in 0..59 /\ Index(ri, rare) /\ waited \in [StatsOfKey(key) -> Nat]
    BY DEF RotationInv, Counters
  <1>3. n # 0 => ri \in 0..(n - 1) /\ ri' = IF Pick = "rare" THEN (ri + 1) % n ELSE ri
    BY <1>1, <1>2 DEF Index, Step
  <1>4. n # 0 => ri' \in 0..(n - 1)
    <2>1. \A m \in Nat : \A i \in 0..(m - 1) : (i + 1) % m \in 0..(m - 1)
      OBVIOUS
    <2> QED
      BY <1>1, <1>3, <2>1
  <1>5. Index(ri', rare')
    <2>1. n = 0 => Pick # "rare"
      BY <1>1, <1>2, WhoseTurn
    <2> QED
      BY <1>1, <1>2, <1>4, <2>1 DEF Index
  <1>6. ASSUME NEW p \in 1..n
        PROVE  RareOnTime(waited'[rare[p].stat], Gone(p, ri', n), (tick + 1) % 60)
    <2> DEFINE q == rare[p].stat
               g == Gone(p, ri, n)
               h == Gone(p, ri', n)
    <2>1. /\ waited'[q] = IF q = s THEN 0 ELSE waited[q] + 1
          /\ q \in StatsOfKey(key) /\ waited[q] \in Nat /\ waited'[q] \in Nat /\ n # 0
      BY <1>1, <1>2, <1>6, AskKeeps
    <2>2. RareOnTime(waited[q], g, tick)
      BY <1>6 DEF RotationInv, Turns, RareTurn
    <2>3. g \in 0..(n - 1) /\ h \in 0..(n - 1)
      BY <1>1, <1>3, <1>4, <1>6, <2>1, Turned
    <2>4. \/ waited'[q] = 0
          \/ waited'[q] = waited[q] + 1 /\ h = g + 1
          \/ waited'[q] = waited[q] + 1 /\ h = g /\ (tick # 4)
      <3>1. CASE Pick = "rare"
        BY <1>1, <1>3, <1>6, <2>1, <3>1, Turned
      <3>2. CASE Pick # "rare"
        BY <1>1, <1>2, <1>3, <2>1, <3>2, WhoseTurn
      <3> QED
        BY <3>1, <3>2
    <2> DEFINE w == waited[q]
               v == waited'[q]
    <2>5. RareOnTime(v, h, (tick + 1) % 60)
      <3>1. g \in Nat /\ h \in Nat /\ w \in Nat /\ v \in Nat /\ tick \in 0..59
        BY <1>1, <1>2, <2>1, <2>3
      <3>2. RareOnTime(w, g, tick)
        BY <2>2
      <3>3. \/ v = 0
            \/ v = w + 1 /\ h = g + 1
            \/ v = w + 1 /\ h = g /\ (tick # 4)
        BY <2>4
      <3> HIDE DEF w, v, g, h
      <3> QED
        BY <3>1, <3>2, <3>3, RareOnce
    <2> QED
      BY <2>5
  <1> QED
    BY <1>1, <1>5, <1>6 DEF RareTurn
-----------------------------------------------------------------------------

(* One question, whichever bucket it comes from, keeps the rotation.       *)
LEMMA QuestionKeeps ==
  ASSUME RotationInv, NextRow
  PROVE  RotationInv'
  <1>1. /\ asked # Nobody /\ key \in Keys /\ tick \in 0..59
        /\ Index(fi, fast) /\ Index(si, slow) /\ Index(ri, rare)
    BY DEF RotationInv, Counters, NextRow
  <1>2. /\ Len(fast) \in Nat /\ (fast = << >> <=> Len(fast) = 0)
        /\ Len(slow) \in Nat /\ (slow = << >> <=> Len(slow) = 0)
        /\ Len(rare) \in Nat /\ (rare = << >> <=> Len(rare) = 0)
        /\ \A p \in 1..Len(fast) : fast[p].stat \in StatsOfKey(key)
        /\ \A p \in 1..Len(slow) : slow[p].stat \in StatsOfKey(key)
        /\ \A p \in 1..Len(rare) : rare[p].stat \in StatsOfKey(key)
    BY BucketTypes DEF RotationInv
  <1>3. /\ Pick = "fast" => fi + 1 \in 1..Len(fast)
        /\ Pick = "slow" => si + 1 \in 1..Len(slow)
        /\ Pick = "rare" => ri + 1 \in 1..Len(rare)
    BY <1>1, <1>2, WhoseTurn DEF Index
  <1>4. PICK s \in StatsOfKey(key) :
          /\ Ask(s)
          /\ IF Pick = "fast" THEN s = fast[fi + 1].stat /\ fi' = Step(fi, fast) ELSE fi' = fi
          /\ IF Pick = "slow" THEN s = slow[si + 1].stat /\ si' = Step(si, slow) ELSE si' = si
          /\ IF Pick = "rare" THEN s = rare[ri + 1].stat /\ ri' = Step(ri, rare) ELSE ri' = ri
    <2>1. CASE Pick = "fast"
      BY <1>2, <1>3, <2>1 DEF NextRow
    <2>2. CASE Pick = "slow"
      BY <1>2, <1>3, <2>2 DEF NextRow
    <2>3. CASE Pick = "rare"
      BY <1>2, <1>3, <2>3 DEF NextRow
    <2> QED
      BY <2>1, <2>2, <2>3 DEF NextRow
  <1>5. FastTurn(waited)' /\ Index(fi', fast')
    BY <1>1, <1>4, FastKeeps
  <1>6. SlowTurn(waited)' /\ Index(si', slow')
    BY <1>1, <1>4, SlowKeeps
  <1>7. RareTurn(waited)' /\ Index(ri', rare')
    BY <1>1, <1>4, RareKeeps
  <1>8. /\ tick' \in 0..59 /\ asked' = s /\ BucketsBuilt' /\ TripsPaid' /\ key' = key
        /\ waited' \in [StatsOfKey(key) -> Nat] /\ trips' \in [StatsOfKey(key) -> Nat]
    BY <1>1, <1>4, AskKeeps DEF Ask
  <1>9. Counters'
    BY <1>1, <1>4, <1>5, <1>6, <1>7, <1>8 DEF Counters
  <1> QED
    BY <1>5, <1>6, <1>7, <1>8, <1>9 DEF RotationInv, Turns

(* build() and the boot behind loop()'s restart begin a rotation.          *)
LEMMA BootBegins ==
  ASSUME RotationInv, Build \/ Look
  PROVE  Beginning'
  <1>1. CASE Build
    <2>1. /\ asked = Nobody /\ BuildFrom(ActiveRows(profile)) /\ key' = key
          /\ waited' = waited /\ trips' = trips
      BY <1>1 DEF Build
    <2>2. waited \in [StatsOfKey(key) -> {0}] /\ trips \in [StatsOfKey(key) -> {0}]
      BY <2>1 DEF RotationInv, Counters, BucketsBuilt, TripsPaid, MaxTrips
    <2>3. BucketsBuilt'
      BY <2>1 DEF BuildFrom, BucketsBuilt, Bucket, profile, Nobody, Built
    <2> QED
      BY <2>1, <2>2, <2>3 DEF Beginning, BuildFrom, RotationInv, Counters
  <1>2. CASE Look
    <2>1. key' \in Keys
      BY <1>2 DEF Look, Target, RotationInv, Counters
    <2>2. /\ BuildFrom(ActiveRows(ProfileForKey(key')))
          /\ waited' = [s \in StatsOfKey(key') |-> 0] /\ trips' = waited'
      BY <1>2 DEF Look, StatsOfKey
    <2>3. BucketsBuilt'
      BY <2>2 DEF BuildFrom, BucketsBuilt, Bucket, Nobody, Built
    <2> QED
      BY <2>1, <2>2, <2>3 DEF Beginning, BuildFrom
  <1> QED
    BY <1>1, <1>2

(* Every row is on time in every reachable state, through every reboot.    *)
THEOREM RotationHolds == ChoiceSpec => []RotationInv
  <1>1. ChoiceInit => Beginning
    BY TablesAssumption DEF ChoiceInit, Init, Beginning, BucketsBuilt, StatsOfKey, profile
  <1>2. RotationInv /\ [ChoiceNext]_<<vars, choice>> => RotationInv' \/ Beginning'
    <2> SUFFICES ASSUME RotationInv, [ChoiceNext]_<<vars, choice>>
                 PROVE  RotationInv' \/ Beginning'
      OBVIOUS
    <2>1. CASE NextRow
      BY <2>1, QuestionKeeps
    <2>2. CASE Build \/ Look
      BY <2>2, BootBegins
    <2>3. CASE UNCHANGED vars
      BY <2>3 DEF vars, RotationInv, Counters, BucketsBuilt, TripsPaid, Turns,
                  FastTurn, SlowTurn, RareTurn
    <2> QED
      BY <2>1, <2>2, <2>3 DEF ChoiceNext, FirstCar, OtherCar, Next
  <1> QED
    BY <1>1, <1>2, Begun, PTL DEF ChoiceSpec

(* A place that is on time has not waited longer than a round.             *)
LEMMA WithinRound ==
  ASSUME NEW n \in Nat, NEW g \in 0..(n - 1), NEW w \in Nat, NEW t \in 0..59
  PROVE  /\ FastOnTime(w, g, t) => w <= Round(0, n)
         /\ SlowOnTime(w, g, t) => w <= Round(1, n)
         /\ RareOnTime(w, g, t) => w <= Round(2, n)
  <1>1. FastOnTime(w, g, t) => w <= n + (n \div 4) + 1
    BY DEF FastOnTime
  <1>2. SlowOnTime(w, g, t) => w <= 5 * (n + n \div 11 + 1)
    BY DEF SlowOnTime, Slots
  <1>3. RareOnTime(w, g, t) => w <= 60 * n + 5
    BY DEF RareOnTime
  <1> QED
    BY <1>1, <1>2, <1>3 DEF Round

(* The bucket of a tier.                                                   *)
Of(t) == IF t = 0 THEN fast ELSE IF t = 1 THEN slow ELSE rare

(* A row has not waited longer than a round of its bucket.                 *)
LEMMA OnTime ==
  ASSUME RotationInv, NEW s \in StatsOfKey(key)
  PROVE  waited[s] <= Round(Tier(key, s), Len(Of(Tier(key, s))))
  <1> DEFINE t == Tier(key, s)
             b == Of(t)
             n == Len(b)
  <1>1. /\ key \in Keys /\ tick \in 0..59 /\ waited[s] \in Nat
        /\ Index(fi, fast) /\ Index(si, slow) /\ Index(ri, rare)
    BY DEF RotationInv, Counters
  <1>2. t \in 0..2
    BY <1>1, OwnBucket
  <1>3. CASE asked = Nobody
    <2>1. waited[s] = 0 /\ Len(fast) = 0 /\ Len(slow) = 0 /\ Len(rare) = 0
      BY <1>3 DEF RotationInv, BucketsBuilt, Counters
    <2>2. n = 0
      BY <2>1 DEF Of
    <2> HIDE DEF n, t
    <2> QED
      BY <1>2, <2>1, <2>2 DEF Round
  <1>4. CASE asked # Nobody
    <2>1. fast = Bucket(key, 0) /\ slow = Bucket(key, 1) /\ rare = Bucket(key, 2)
      BY <1>4 DEF RotationInv, BucketsBuilt
    <2>2. b = Bucket(key, t)
      BY <1>2, <2>1 DEF Of
    <2>3. PICK p \in 1..n : b[p].stat = s
      BY <1>1, <2>2, OwnBucket
    <2>4. n \in Nat /\ n # 0
      BY <1>1, <1>2, <2>2, <2>3, Buckets
    <2>5. CASE t = 0
      <3>1. b = fast /\ fi \in 0..(n - 1)
        BY <1>1, <2>4, <2>5 DEF Of, Index
      <3>2. FastOnTime(waited[s], Gone(p, fi, n), tick)
        BY <2>3, <3>1 DEF RotationInv, Turns, FastTurn
      <3>3. Gone(p, fi, n) \in 0..(n - 1)
        BY <2>4, <3>1, Turned
      <3> DEFINE g == Gone(p, fi, n)
                 w == waited[s]
      <3>4. w <= Round(t, n)
        <4>1. w \in Nat /\ g \in 0..(n - 1)
          BY <1>1, <3>3
        <4> HIDE DEF n, t, g, w
        <4> QED
          BY <1>1, <2>4, <2>5, <3>2, <4>1, WithinRound DEF g, w
      <3> QED
        BY <3>4
    <2>6. CASE t = 1
      <3>1. b = slow /\ si \in 0..(n - 1)
        BY <1>1, <2>4, <2>6 DEF Of, Index
      <3>2. SlowOnTime(waited[s], Gone(p, si, n), tick)
        BY <2>3, <3>1 DEF RotationInv, Turns, SlowTurn
      <3>3. Gone(p, si, n) \in 0..(n - 1)
        BY <2>4, <3>1, Turned
      <3> DEFINE g == Gone(p, si, n)
                 w == waited[s]
      <3>4. w <= Round(t, n)
        <4>1. w \in Nat /\ g \in 0..(n - 1)
          BY <1>1, <3>3
        <4> HIDE DEF n, t, g, w
        <4> QED
          BY <1>1, <2>4, <2>6, <3>2, <4>1, WithinRound DEF g, w
      <3> QED
        BY <3>4
    <2>7. CASE t = 2
      <3>1. b = rare /\ ri \in 0..(n - 1)
        BY <1>1, <2>4, <2>7 DEF Of, Index
      <3>2. RareOnTime(waited[s], Gone(p, ri, n), tick)
        BY <2>3, <3>1 DEF RotationInv, Turns, RareTurn
      <3>3. Gone(p, ri, n) \in 0..(n - 1)
        BY <2>4, <3>1, Turned
      <3> DEFINE g == Gone(p, ri, n)
                 w == waited[s]
      <3>4. w <= Round(t, n)
        <4>1. w \in Nat /\ g \in 0..(n - 1)
          BY <1>1, <3>3
        <4> HIDE DEF n, t, g, w
        <4> QED
          BY <1>1, <2>4, <2>7, <3>2, <4>1, WithinRound DEF g, w
      <3> QED
        BY <3>4
    <2> QED
      BY <1>2, <2>5, <2>6, <2>7
  <1> QED
    BY <1>3, <1>4

(* No row is starved, whatever profiles the boots select: each is asked    *)
(* again within the round of its bucket, and before its last value is      *)
(* stale even when every round trip uses up its time limit.                *)
THEOREM RowsInTimeHolds == ChoiceSpec => []RowsInTime
  <1>1. RotationInv => RowsInTime
    <2> SUFFICES ASSUME RotationInv, NEW s \in DOMAIN waited
                 PROVE  /\ waited[s] <= Round(TierOf(s), Len(Of(TierOf(s))))
                        /\ trips[s] * ReplyMs < StaleMs(TierOf(s))
      BY DEF RowsInTime, Of
    <2> DEFINE t == TierOf(s)
               n == Len(Of(t))
    <2>1. /\ /\ key \in Keys
          /\ s \in StatsOfKey(key)
          /\ waited[s] \in Nat
          /\ trips[s] \in Nat
          /\ trips[s] <= waited[s] * MaxTrips
      BY DEF RotationInv, Counters, TripsPaid
    <2>2. t = Tier(key, s) /\ t \in 0..2
      BY <2>1, OwnBucket DEF TierOf, Tier
    <2>3. waited[s] <= Round(t, n)
      BY <2>1, <2>2, OnTime
    <2>4. n \in Nat /\ Round(t, n) * MaxTrips * ReplyMs < StaleMs(t)
      <3>1. CASE asked = Nobody
        <4>1. n = 0
          BY <3>1 DEF RotationInv, BucketsBuilt, Of
        <4> HIDE DEF n, t
        <4> QED
          BY <2>2, <4>1 DEF Round, MaxTrips, ReplyMs, StaleMs
      <3>2. CASE asked # Nobody
        <4>1. Of(t) = Bucket(key, t)
          BY <2>2, <3>2 DEF RotationInv, BucketsBuilt, Of
        <4> HIDE DEF t
        <4>2. Round(t, Len(Bucket(key, t))) * MaxTrips * ReplyMs < StaleMs(t)
          BY <2>1, <2>2, BudgetAssumption, Zenon DEF Bucket
        <4> QED
          BY <2>1, <2>2, <4>1, <4>2, Buckets
      <3> QED
        BY <3>1, <3>2
    <2>5. Round(t, n) \in Nat
      <3> HIDE DEF n, t
      <3> QED
        BY <2>2, <2>4 DEF Round
    <2>6. \A w, u, r, z \in Nat :
            u <= w * 4 /\ w <= r /\ r * 4 * 400 < z => u * 400 < z
      OBVIOUS
    <2>7. StaleMs(t) \in Nat
      BY <2>2 DEF StaleMs
    <2> HIDE DEF n, t
    <2>8. trips[s] * ReplyMs < StaleMs(t)
      BY <2>1, <2>3, <2>4, <2>5, <2>6, <2>7 DEF MaxTrips, ReplyMs
    <2> QED
      BY <2>3, <2>8 DEF n, t
  <1> QED
    BY <1>1, RotationHolds, PTL

(* next() always has a row to ask: it never falls back on row 0, which may *)
(* have no command, and never divides by the length of an empty bucket.    *)
THEOREM AlwaysARow == ChoiceSpec => [](TypeOK /\ (asked # Nobody => Pick # "row 0"))
  <1>1. RotationInv => TypeOK /\ (asked # Nobody => Pick # "row 0")
    <2> SUFFICES ASSUME RotationInv PROVE TypeOK /\ (asked # Nobody => Pick # "row 0")
      OBVIOUS
    <2>1. TypeOK
      BY DEF RotationInv, Counters, TypeOK
    <2>2. ASSUME asked # Nobody PROVE Pick # "row 0"
      <3>1. fast = Bucket(key, 0) /\ slow = Bucket(key, 1) /\ key \in Keys
        BY <2>2 DEF RotationInv, BucketsBuilt, Counters
      <3>2. fast # << >> \/ slow # << >>
        BY <3>1, TablesAssumption, Zenon DEF Bucket
      <3> QED
        BY <3>2 DEF Pick
    <2> QED
      BY <2>1, <2>2
  <1> QED
    BY <1>1, RotationHolds, PTL

-----------------------------------------------------------------------------
(* The VIN.                                                                *)

(* A set of numbers that is not empty has a least one.                     *)
LEMMA Minimum ==
  ASSUME NEW I \in SUBSET Nat, I # {}
  PROVE  Min(I) \in I
  <1> DEFINE Less == {xy \in Nat \X Nat : xy[1] < xy[2]}
  <1>1. IsWellFoundedOn(Less, Nat)
    BY NatLessThanWellFounded DEF OpToRel
  <1>2. PICK m \in I : \A k \in I : ~(<<k, m>> \in Less)
    <2> HIDE DEF Less
    <2> QED
      BY <1>1, WFMin
  <1>3. \A k \in I : m <= k
    <2> SUFFICES ASSUME NEW k \in I PROVE m <= k
      OBVIOUS
    <2>1. <<k, m>> \in Nat \X Nat
      OBVIOUS
    <2> QED
      BY <1>2, <2>1
  <1> QED
    BY <1>3 DEF Min

(* What a search through a table of n rows returns, I being the rows that  *)
(* pass the test: the first of them, or zero when there is none.           *)
LEMMA FirstOf ==
  ASSUME NEW n \in Nat, NEW I \in SUBSET (1..n)
  PROVE  LET i == IF I # {} THEN Min(I) ELSE 0 IN
         i \in 0..n /\ (i = 0 <=> I = {}) /\ (i # 0 => i \in I)
  <1>1. I \in SUBSET Nat
    OBVIOUS
  <1>2. CASE I = {}
    BY <1>2
  <1>3. CASE I # {}
    <2>1. Min(I) \in I
      BY <1>1, <1>3, Minimum
    <2>2. Min(I) \in 1..n
      BY <2>1
    <2> QED
      BY <1>3, <2>1, <2>2
  <1> QED
    BY <1>2, <1>3

(* No character stands for two model years of the thirty.                  *)
LEMMA YearCodesDiffer ==
  /\ Len(YearCodes) = 30
  /\ \A i, j \in 1..30 : YearCodes[i] = YearCodes[j] => i = j
  BY DEF YearCodes

(* The model years that have a character.                                  *)
Span == 2001..2030

(* A range of model years, as the tables write it, is a range of years.    *)
LEMMA YearOf ==
  ASSUME NEW v, NEW a \in Span, NEW b \in Span
  PROVE  v.at[9] \in Years(a, b) <=> Year(v) \in a..b
  <1> DEFINE c == v.at[9]
             I == {i \in 1..Len(YearCodes) : YearCodes[i] = c}
             i == Year(v) - 2000
  <1>1. I \in SUBSET (1..30) /\ Len(YearCodes) = 30 /\ 30 \in Nat
    BY YearCodesDiffer
  <1>2. Year(v) = 2000 + (IF I # {} THEN Min(I) ELSE 0)
    BY DEF Year, SelectInSeq
  <1>3. /\ Year(v) = 2000 + i /\ i \in 0..30
        /\ i = 0 <=> I = {}
        /\ i # 0 => i \in I
    <2> HIDE DEF I
    <2>1. LET j == IF I # {} THEN Min(I) ELSE 0 IN
          j \in 0..30 /\ (j = 0 <=> I = {}) /\ (j # 0 => j \in I)
      BY <1>1, FirstOf
    <2> QED
      BY <1>2, <2>1
  <1> HIDE DEF i
  <1>4. CASE i = 0
    <2>1. \A y \in a..b : y - 2000 \in 1..30
      BY DEF Span
    <2>2. ~(c \in Years(a, b))
      BY <1>1, <1>3, <1>4, <2>1 DEF Years
    <2> QED
      BY <1>3, <1>4, <2>2 DEF Span
  <1>5. CASE i # 0
    <2> HIDE DEF c
    <2>1. c = YearCodes[i] /\ i \in 1..30
      BY <1>1, <1>3, <1>5 DEF c
    <2>2. ASSUME c \in Years(a, b) PROVE i + 2000 \in a..b
      <3>1. PICK y \in a..b : c = YearCodes[y - 2000]
        BY <2>2 DEF Years
      <3>2. PICK k \in 1..30 : k = y - 2000
        BY DEF Span
      <3>3. c = YearCodes[k]
        BY <3>1, <3>2
      <3>4. k = i
        <4>1. YearCodes[k] = YearCodes[i]
          BY <2>1, <3>3
        <4>2. k \in 1..30 /\ i \in 1..30
          BY <2>1
        <4> QED
          BY <4>1, <4>2, YearCodesDiffer
      <3> QED
        BY <3>2, <3>4
    <2>3. ASSUME i + 2000 \in a..b PROVE c \in Years(a, b)
      <3>1. c = YearCodes[(i + 2000) - 2000]
        BY <2>1
      <3> QED
        BY <2>3, <3>1 DEF Years
    <2> QED
      BY <1>3, <2>2, <2>3 DEF c
  <1> QED
    BY <1>4, <1>5

(* The series of a line is the row that has the character at position 5.   *)
LEMMA SeriesFound ==
  ASSUME NEW v, NEW line, Len(line.series) \in Nat
  PROVE  /\ SeriesIn(line, v) \in 0..Len(line.series)
         /\ SeriesIn(line, v) # 0 => v.at[5] \in line.series[SeriesIn(line, v)].codes
  <1> DEFINE n == Len(line.series)
             I == {i \in 1..n : v.at[5] \in line.series[i].codes}
  <1>1. I \in SUBSET (1..n)
    OBVIOUS
  <1>2. SeriesIn(line, v) = IF I # {} THEN Min(I) ELSE 0
    BY DEF SeriesIn, SelectInSeq
  <1>3. SeriesIn(line, v) \in 0..n /\ (SeriesIn(line, v) # 0 => SeriesIn(line, v) \in I)
    <2> HIDE DEF I, n
    <2>1. n \in Nat
      BY DEF n
    <2> QED
      BY <1>1, <1>2, <2>1, FirstOf
  <1> QED
    BY <1>3

(* The engine of a line is a row that has the character at position 7, and *)
(* there is none only when no row has it.                                  *)
LEMMA EngineFound ==
  ASSUME NEW v, NEW line, Len(line.engines) \in Nat
  PROVE  \/ /\ EngineIn(line, v) = NoEngine
            /\ \A i \in 1..Len(line.engines) : line.engines[i].code # v.at[7]
         \/ \E i \in 1..Len(line.engines) :
              line.engines[i].code = v.at[7] /\ EngineIn(line, v) = line.engines[i]
  <1> DEFINE n == Len(line.engines)
             I == {i \in 1..n : line.engines[i].code = v.at[7]}
             e == IF I # {} THEN Min(I) ELSE 0
  <1>1. I \in SUBSET (1..n)
    OBVIOUS
  <1>2. EngineIn(line, v) = IF e = 0 THEN NoEngine ELSE line.engines[e]
    BY DEF EngineIn, SelectInSeq
  <1>3. e \in 0..n /\ (e = 0 <=> I = {}) /\ (e # 0 => e \in I)
    <2> HIDE DEF I, n
    <2>1. n \in Nat
      BY DEF n
    <2> QED
      BY <1>1, <2>1, FirstOf
  <1> HIDE DEF e
  <1> QED
    BY <1>2, <1>3

-----------------------------------------------------------------------------
(* No VIN is named by two lines.                                           *)

(* The groups of manufacturers and of weights that tell the lines apart.   *)
Fords == {"1FT", "3FT", "1FD"}
Light == {"N", "P", "R", "U", "V"}
Heavy == {"0", "1", "2", "3", "4", "5"}

(* What a line says of a VIN that it names.                                *)
Says(n, v) ==
  /\ n = 1 => /\ v.wmi \in Fords /\ Year(v) \in 2011..2026
              /\ v.at[5] \in {"2", "3", "4", "5"}
  /\ n = 2 => v.wmi \in Fords /\ Year(v) \in 2003..2009
  /\ n = 3 => v.wmi \in Fords /\ Year(v) \in 2010..2023 /\ v.at[5] = "1"
  /\ n = 4 => v.wmi \in {"1C6", "3C6"}
  /\ n = 5 => v.wmi \in {"1D7", "3D7"} /\ Year(v) \in 2006..2007
  /\ n = 6 => v.wmi \in {"1D7", "3D7"} /\ Year(v) \in 2008..2011
  /\ n \in {7, 10, 11, 12, 14, 16} => v.wmi \in Sierra
  /\ n \in {8, 9, 13, 15, 17} => v.wmi \in Silverado
  /\ n \in {7, 8} => Year(v) \in 2022..2026 /\ v.at[3] \in Light /\ v.at[4] \in {"H", "U"}
  /\ n = 9 => Year(v) \in 2010..2013
  /\ n = 10 => Year(v) \in 2011..2013
  /\ n = 11 => Year(v) \in 2014..2015
  /\ n = 12 => Year(v) \in 2016..2018
  /\ n = 13 => Year(v) \in 2014..2018
  /\ n \in {14, 15} => Year(v) \in 2019..2021 /\ v.at[5] \in GM_TONNAGE_LD
  /\ n \in {16, 17} => /\ Year(v) \in 2020..2024
                       /\ v.at[3] \in Heavy /\ v.at[5] \in GM_TONNAGE_HD

(* The lines, one lemma for each generation.                               *)
LEMMA LineCount == DOMAIN LINES = 1..17
  BY DEF LINES

(* The Ford lines: Super Duty twice, F-150.                                *)
LEMMA FordLines ==
  /\ LINES[1] = Line({"1FT", "3FT", "1FD"}, Years(2011, 2026), NoGate,
                     FORD_SD_SERIES, FORD_SD_ENGINES)
  /\ LINES[2] = Line({"1FT", "3FT", "1FD"}, Years(2003, 2009), NoGate,
                     FORD_SD_SERIES, FORD_SD_ENGINES_PRE2010)
  /\ LINES[3] = Line({"1FT", "3FT"}, Years(2010, 2023), NoGate,
                     FORD_F150_SERIES, << >>)
  BY DEF LINES

(* The Ram lines.                                                          *)
LEMMA RamLines ==
  /\ LINES[4] = Line({"1C6", "3C6"}, Years(2013, 2024), ramBrand,
                     RAM_SERIES, RAM_ENGINES)
  /\ LINES[5] = Line({"1D7", "3D7"}, Years(2006, 2007), ramPre2013,
                     RAM_PRE2013_SERIES, << >>)
  /\ LINES[6] = Line({"1D7", "3D7"}, Years(2008, 2011), ramPre2013,
                     RAM_PRE2013_SERIES_NO35, << >>)
  BY DEF LINES

(* The Sierra lines of the two older generations.                          *)
LEMMA GmPickupLines ==
  /\ LINES[10] = Line(Sierra, Years(2011, 2013), gmPickupSierraK2XX,
                      GM_SIERRA_GMT900, << >>)
  /\ LINES[11] = Line(Sierra, Years(2014, 2015), gmPickupSierraK2XX,
                      GM_SIERRA_K2XX_EARLY, << >>)
  /\ LINES[12] = Line(Sierra, Years(2016, 2018), gmPickupSierraK2XX,
                      GM_SIERRA_K2XX_LATE, << >>)
  BY DEF LINES

(* The Silverado lines of the two older generations.                       *)
LEMMA ChevyPickupLines ==
  /\ LINES[9] = Line(Silverado, Years(2010, 2013), gmPickupSilveradoK2XX,
                     GM_SILVERADO_GMT900, << >>)
  /\ LINES[13] = Line(Silverado, Years(2014, 2018), gmPickupSilveradoK2XX,
                      GM_SILVERADO_K2XX, << >>)
  BY DEF LINES

(* The light trucks from 2022.                                             *)
LEMMA LightLines ==
  /\ LINES[7] = Line(Sierra, Years(2022, 2026), gmLightDuty,
                     Fixed(GMC[1]), GM_LD_ENGINES)
  /\ LINES[8] = Line(Silverado, Years(2022, 2026), gmLightDuty,
                     Fixed(Chevy[1]), GM_LD_ENGINES)
  BY DEF LINES

(* The light trucks of 2019 to 2021.                                       *)
LEMMA LightLinesT1XX ==
  /\ LINES[14] = Line(Sierra, Years(2019, 2021), gmLightDutyT1XX,
                      Fixed(GMC[1]), GM_LD_ENGINES_T1XX)
  /\ LINES[15] = Line(Silverado, Years(2019, 2021), gmLightDutyT1XX,
                      Fixed(Chevy[1]), GM_LD_ENGINES_T1XX)
  BY DEF LINES

(* The heavy trucks.                                                       *)
LEMMA HeavyLines ==
  /\ LINES[16] = Line(Sierra, Years(2020, 2024), gmHeavyDuty,
                      Fixed(GMC[4]), GM_HD_ENGINES)
  /\ LINES[17] = Line(Silverado, Years(2020, 2024), gmHeavyDuty,
                      Fixed(Chevy[4]), GM_HD_ENGINES)
  BY DEF LINES

(* What the gate of the light trucks asks for.                             *)
LEMMA LightDuty ==
  ASSUME NEW v, Passes(v, gmLightDuty)
  PROVE  v.at[3] \in Light /\ v.at[4] \in {"H", "U"}
  <1> DEFINE A == {"H", "U"}
  <1>1. Fits(v, {<<3, Light>>, <<4, A>>})
    BY DEF Passes, gmLightDuty, Light
  <1> HIDE DEF A
  <1>2. v.at[3] \in Light /\ v.at[4] \in A
    BY <1>1 DEF Fits
  <1> QED
    BY <1>2 DEF A

(* What the gate of the light trucks before 2022 asks for.                 *)
LEMMA LightDutyT1XX ==
  ASSUME NEW v, Passes(v, gmLightDutyT1XX)
  PROVE  v.at[5] \in GM_TONNAGE_LD
  <1> DEFINE A == {"8", "9"}
             B == GM_TONNAGE_LD
  <1>1. Fits(v, {<<4, A>>, <<5, B>>})
    BY DEF Passes, gmLightDutyT1XX
  <1> HIDE DEF A, B
  <1>2. v.at[4] \in A /\ v.at[5] \in B
    BY <1>1 DEF Fits
  <1> QED
    BY <1>2 DEF B

(* What the gate of the heavy trucks asks for.                             *)
LEMMA HeavyDuty ==
  ASSUME NEW v, Passes(v, gmHeavyDuty)
  PROVE  v.at[3] \in Heavy /\ v.at[5] \in GM_TONNAGE_HD
  <1> DEFINE A == {"8", "9"}
             B == GM_TONNAGE_HD
  <1>1. Fits(v, {<<3, Heavy>>, <<4, A>>, <<5, B>>})
    BY DEF Passes, gmHeavyDuty, Heavy
  <1> HIDE DEF A, B
  <1>2. v.at[3] \in Heavy /\ v.at[4] \in A /\ v.at[5] \in B
    BY <1>1 DEF Fits
  <1> QED
    BY <1>2 DEF B

(* A Super Duty has one of four series.                                    *)
LEMMA SuperDutySeries ==
  ASSUME NEW v, NEW line, line.series = FORD_SD_SERIES, SeriesIn(line, v) # 0
  PROVE  v.at[5] \in {"2", "3", "4", "5"}
  <1>1. Len(FORD_SD_SERIES) = 4
    BY DEF FORD_SD_SERIES
  <1>2. /\ FORD_SD_SERIES[1].codes = {"2"} /\ FORD_SD_SERIES[2].codes = {"3"}
        /\ FORD_SD_SERIES[3].codes = {"4"} /\ FORD_SD_SERIES[4].codes = {"5"}
    BY DEF FORD_SD_SERIES, Ser
  <1> QED
    BY <1>1, <1>2, SeriesFound

(* An F-150 has the one series.                                            *)
LEMMA F150Series ==
  ASSUME NEW v, NEW line, line.series = FORD_F150_SERIES, SeriesIn(line, v) # 0
  PROVE  v.at[5] = "1"
  <1>1. Len(FORD_F150_SERIES) = 1
    BY DEF FORD_F150_SERIES
  <1>2. FORD_F150_SERIES[1].codes = {"1"}
    BY DEF FORD_F150_SERIES, Ser
  <1> QED
    BY <1>1, <1>2, SeriesFound

(* Every line says what Says claims.                                       *)
LEMMA Named ==
  ASSUME NEW v, NEW n \in DOMAIN LINES, Names(LINES[n], v)
  PROVE  Says(n, v)
  <1>0. n \in 1..17
    BY LineCount
  <1>1. CASE n = 1
    <2>1. /\ v.wmi \in {"1FT", "3FT", "1FD"} /\ v.at[9] \in Years(2011, 2026)
          /\ Passes(v, NoGate)
          /\ SeriesIn(LINES[1], v) # 0 /\ LINES[1].series = FORD_SD_SERIES
      BY <1>1, FordLines DEF Names, Line
    <2>2. Year(v) \in 2011..2026
      BY <2>1, YearOf DEF Span
    <2>3. v.at[5] \in {"2", "3", "4", "5"}
      BY <2>1, SuperDutySeries
    <2> QED
      BY <1>1, <2>1, <2>2, <2>3 DEF Says, Fords
  <1>2. CASE n = 2
    <2>1. /\ v.wmi \in {"1FT", "3FT", "1FD"} /\ v.at[9] \in Years(2003, 2009)
          /\ Passes(v, NoGate)
          /\ SeriesIn(LINES[2], v) # 0 /\ LINES[2].series = FORD_SD_SERIES
      BY <1>2, FordLines DEF Names, Line
    <2>2. Year(v) \in 2003..2009
      BY <2>1, YearOf DEF Span
    <2> QED
      BY <1>2, <2>1, <2>2 DEF Says, Fords
  <1>3. CASE n = 3
    <2>1. /\ v.wmi \in {"1FT", "3FT"} /\ v.at[9] \in Years(2010, 2023)
          /\ Passes(v, NoGate)
          /\ SeriesIn(LINES[3], v) # 0 /\ LINES[3].series = FORD_F150_SERIES
      BY <1>3, FordLines DEF Names, Line
    <2>2. Year(v) \in 2010..2023
      BY <2>1, YearOf DEF Span
    <2>3. v.at[5] = "1"
      BY <2>1, F150Series
    <2> QED
      BY <1>3, <2>1, <2>2, <2>3 DEF Says, Fords
  <1>4. CASE n = 4
    <2>1. /\ v.wmi \in {"1C6", "3C6"} /\ v.at[9] \in Years(2013, 2024)
          /\ Passes(v, ramBrand)
          /\ SeriesIn(LINES[4], v) # 0 /\ LINES[4].series = RAM_SERIES
      BY <1>4, RamLines DEF Names, Line
    <2>2. Year(v) \in 2013..2024
      BY <2>1, YearOf DEF Span
    <2> QED
      BY <1>4, <2>1, <2>2 DEF Says
  <1>5. CASE n = 5
    <2>1. /\ v.wmi \in {"1D7", "3D7"} /\ v.at[9] \in Years(2006, 2007)
          /\ Passes(v, ramPre2013)
          /\ SeriesIn(LINES[5], v) # 0 /\ LINES[5].series = RAM_PRE2013_SERIES
      BY <1>5, RamLines DEF Names, Line
    <2>2. Year(v) \in 2006..2007
      BY <2>1, YearOf DEF Span
    <2> QED
      BY <1>5, <2>1, <2>2 DEF Says
  <1>6. CASE n = 6
    <2>1. /\ v.wmi \in {"1D7", "3D7"} /\ v.at[9] \in Years(2008, 2011)
          /\ Passes(v, ramPre2013)
          /\ SeriesIn(LINES[6], v) # 0 /\ LINES[6].series = RAM_PRE2013_SERIES_NO35
      BY <1>6, RamLines DEF Names, Line
    <2>2. Year(v) \in 2008..2011
      BY <2>1, YearOf DEF Span
    <2> QED
      BY <1>6, <2>1, <2>2 DEF Says
  <1>7. CASE n = 7
    <2>1. /\ v.wmi \in Sierra /\ v.at[9] \in Years(2022, 2026)
          /\ Passes(v, gmLightDuty)
          /\ SeriesIn(LINES[7], v) # 0 /\ LINES[7].series = Fixed(GMC[1])
      BY <1>7, LightLines DEF Names, Line
    <2>2. Year(v) \in 2022..2026
      BY <2>1, YearOf DEF Span
    <2>3. v.at[3] \in Light /\ v.at[4] \in {"H", "U"}
      BY <2>1, LightDuty
    <2> QED
      BY <1>7, <2>1, <2>2, <2>3 DEF Says
  <1>8. CASE n = 8
    <2>1. /\ v.wmi \in Silverado /\ v.at[9] \in Years(2022, 2026)
          /\ Passes(v, gmLightDuty)
          /\ SeriesIn(LINES[8], v) # 0 /\ LINES[8].series = Fixed(Chevy[1])
      BY <1>8, LightLines DEF Names, Line
    <2>2. Year(v) \in 2022..2026
      BY <2>1, YearOf DEF Span
    <2>3. v.at[3] \in Light /\ v.at[4] \in {"H", "U"}
      BY <2>1, LightDuty
    <2> QED
      BY <1>8, <2>1, <2>2, <2>3 DEF Says
  <1>9. CASE n = 9
    <2>1. /\ v.wmi \in Silverado /\ v.at[9] \in Years(2010, 2013)
          /\ Passes(v, gmPickupSilveradoK2XX)
          /\ SeriesIn(LINES[9], v) # 0 /\ LINES[9].series = GM_SILVERADO_GMT900
      BY <1>9, ChevyPickupLines DEF Names, Line
    <2>2. Year(v) \in 2010..2013
      BY <2>1, YearOf DEF Span
    <2> QED
      BY <1>9, <2>1, <2>2 DEF Says
  <1>10. CASE n = 10
    <2>1. /\ v.wmi \in Sierra /\ v.at[9] \in Years(2011, 2013)
          /\ Passes(v, gmPickupSierraK2XX)
          /\ SeriesIn(LINES[10], v) # 0 /\ LINES[10].series = GM_SIERRA_GMT900
      BY <1>10, GmPickupLines DEF Names, Line
    <2>2. Year(v) \in 2011..2013
      BY <2>1, YearOf DEF Span
    <2> QED
      BY <1>10, <2>1, <2>2 DEF Says
  <1>11. CASE n = 11
    <2>1. /\ v.wmi \in Sierra /\ v.at[9] \in Years(2014, 2015)
          /\ Passes(v, gmPickupSierraK2XX)
          /\ SeriesIn(LINES[11], v) # 0 /\ LINES[11].series = GM_SIERRA_K2XX_EARLY
      BY <1>11, GmPickupLines DEF Names, Line
    <2>2. Year(v) \in 2014..2015
      BY <2>1, YearOf DEF Span
    <2> QED
      BY <1>11, <2>1, <2>2 DEF Says
  <1>12. CASE n = 12
    <2>1. /\ v.wmi \in Sierra /\ v.at[9] \in Years(2016, 2018)
          /\ Passes(v, gmPickupSierraK2XX)
          /\ SeriesIn(LINES[12], v) # 0 /\ LINES[12].series = GM_SIERRA_K2XX_LATE
      BY <1>12, GmPickupLines DEF Names, Line
    <2>2. Year(v) \in 2016..2018
      BY <2>1, YearOf DEF Span
    <2> QED
      BY <1>12, <2>1, <2>2 DEF Says
  <1>13. CASE n = 13
    <2>1. /\ v.wmi \in Silverado /\ v.at[9] \in Years(2014, 2018)
          /\ Passes(v, gmPickupSilveradoK2XX)
          /\ SeriesIn(LINES[13], v) # 0 /\ LINES[13].series = GM_SILVERADO_K2XX
      BY <1>13, ChevyPickupLines DEF Names, Line
    <2>2. Year(v) \in 2014..2018
      BY <2>1, YearOf DEF Span
    <2> QED
      BY <1>13, <2>1, <2>2 DEF Says
  <1>14. CASE n = 14
    <2>1. /\ v.wmi \in Sierra /\ v.at[9] \in Years(2019, 2021)
          /\ Passes(v, gmLightDutyT1XX)
          /\ SeriesIn(LINES[14], v) # 0 /\ LINES[14].series = Fixed(GMC[1])
      BY <1>14, LightLinesT1XX DEF Names, Line
    <2>2. Year(v) \in 2019..2021
      BY <2>1, YearOf DEF Span
    <2>3. v.at[5] \in GM_TONNAGE_LD
      BY <2>1, LightDutyT1XX
    <2> QED
      BY <1>14, <2>1, <2>2, <2>3 DEF Says
  <1>15. CASE n = 15
    <2>1. /\ v.wmi \in Silverado /\ v.at[9] \in Years(2019, 2021)
          /\ Passes(v, gmLightDutyT1XX)
          /\ SeriesIn(LINES[15], v) # 0 /\ LINES[15].series = Fixed(Chevy[1])
      BY <1>15, LightLinesT1XX DEF Names, Line
    <2>2. Year(v) \in 2019..2021
      BY <2>1, YearOf DEF Span
    <2>3. v.at[5] \in GM_TONNAGE_LD
      BY <2>1, LightDutyT1XX
    <2> QED
      BY <1>15, <2>1, <2>2, <2>3 DEF Says
  <1>16. CASE n = 16
    <2>1. /\ v.wmi \in Sierra /\ v.at[9] \in Years(2020, 2024)
          /\ Passes(v, gmHeavyDuty)
          /\ SeriesIn(LINES[16], v) # 0 /\ LINES[16].series = Fixed(GMC[4])
      BY <1>16, HeavyLines DEF Names, Line
    <2>2. Year(v) \in 2020..2024
      BY <2>1, YearOf DEF Span
    <2>3. v.at[3] \in Heavy /\ v.at[5] \in GM_TONNAGE_HD
      BY <2>1, HeavyDuty
    <2> QED
      BY <1>16, <2>1, <2>2, <2>3 DEF Says
  <1>17. CASE n = 17
    <2>1. /\ v.wmi \in Silverado /\ v.at[9] \in Years(2020, 2024)
          /\ Passes(v, gmHeavyDuty)
          /\ SeriesIn(LINES[17], v) # 0 /\ LINES[17].series = Fixed(Chevy[4])
      BY <1>17, HeavyLines DEF Names, Line
    <2>2. Year(v) \in 2020..2024
      BY <2>1, YearOf DEF Span
    <2>3. v.at[3] \in Heavy /\ v.at[5] \in GM_TONNAGE_HD
      BY <2>1, HeavyDuty
    <2> QED
      BY <1>17, <2>1, <2>2, <2>3 DEF Says
  <1> QED
    BY <1>0, <1>1, <1>2, <1>3, <1>4, <1>5, <1>6, <1>7, <1>8, <1>9, <1>10, <1>11, <1>12,
       <1>13, <1>14, <1>15, <1>16, <1>17

(* Two lines that name one VIN are one line: lines of different makers     *)
(* share no manufacturer code, and lines of one maker differ in years,     *)
(* weight or series.                                                       *)
LEMMA OneLine ==
  ASSUME NEW v, NEW n \in DOMAIN LINES, NEW m \in DOMAIN LINES,
         Names(LINES[n], v), Names(LINES[m], v)
  PROVE  n = m
  <1>0. n \in 1..17 /\ m \in 1..17 /\ Says(n, v) /\ Says(m, v)
    BY LineCount, Named
  <1> DEFINE OfFord(k) == k \in {1, 2, 3}
             OfRam(k) == k \in {4, 5, 6}
             Gmc(k) == k \in {7, 10, 11, 12, 14, 16}
             Chevrolet(k) == k \in {8, 9, 13, 15, 17}
  <1>1. /\ OfFord(n) => v.wmi \in Fords
        /\ OfFord(m) => v.wmi \in Fords
        /\ OfRam(n) => v.wmi \in {"1C6", "3C6", "1D7", "3D7"}
        /\ OfRam(m) => v.wmi \in {"1C6", "3C6", "1D7", "3D7"}
        /\ Gmc(n) => v.wmi \in Sierra
        /\ Gmc(m) => v.wmi \in Sierra
        /\ Chevrolet(n) => v.wmi \in Silverado
        /\ Chevrolet(m) => v.wmi \in Silverado
    BY <1>0 DEF Says
  <1>2. /\ OfFord(n) <=> OfFord(m)
        /\ OfRam(n) <=> OfRam(m)
        /\ Gmc(n) <=> Gmc(m)
    <2> HIDE DEF OfFord, OfRam, Gmc, Chevrolet
    <2>1. /\ OfFord(n) \/ OfRam(n) \/ Gmc(n) \/ Chevrolet(n)
          /\ OfFord(m) \/ OfRam(m) \/ Gmc(m) \/ Chevrolet(m)
      BY <1>0 DEF OfFord, OfRam, Gmc, Chevrolet
    <2> QED
      BY <1>1, <2>1 DEF Fords, Sierra, Silverado
  <1>3. CASE OfFord(n)
    BY <1>0, <1>2, <1>3 DEF Says
  <1>4. CASE OfRam(n)
    BY <1>0, <1>2, <1>4 DEF Says
  <1>5. CASE Gmc(n)
    BY <1>0, <1>2, <1>5 DEF Says, Light, Heavy, GM_TONNAGE_LD, GM_TONNAGE_HD
  <1>6. CASE Chevrolet(n)
    <2>1. Chevrolet(m)
      BY <1>0, <1>2, <1>6
    <2> QED
      BY <1>0, <1>6, <2>1 DEF Says, Light, Heavy, GM_TONNAGE_LD, GM_TONNAGE_HD
  <1> QED
    BY <1>0, <1>3, <1>4, <1>5, <1>6

(* The first part of CarIsKnown, for every VIN.                            *)
LEMMA NamedOnce ==
  ASSUME NEW v
  PROVE  Cardinality({n \in DOMAIN LINES : Names(LINES[n], v)}) <= 1
  <1> DEFINE N == {n \in DOMAIN LINES : Names(LINES[n], v)}
  <1>1. CASE N = {}
    BY <1>1, FS_EmptySet
  <1>2. CASE N # {}
    <2>1. PICK n \in N : TRUE
      BY <1>2
    <2>2. N = {n}
      BY <2>1, OneLine
    <2> QED
      BY <2>2, FS_Singleton
  <1> QED
    BY <1>1, <1>2

-----------------------------------------------------------------------------
(* The engines.                                                            *)

(* The two engines that the scanned truck profiles were made on.           *)
PowerStroke == "6.7L Power Stroke"
Duramax     == "3.0L Duramax I6"

(* The engine table of each line.                                          *)
LEMMA EnginesAre ==
  /\ LINES[1].engines = FORD_SD_ENGINES
  /\ LINES[2].engines = FORD_SD_ENGINES_PRE2010
  /\ LINES[4].engines = RAM_ENGINES
  /\ \A n \in {3, 5, 6, 9, 10, 11, 12, 13} : LINES[n].engines = << >>
  /\ \A n \in {7, 8} : LINES[n].engines = GM_LD_ENGINES
  /\ \A n \in {14, 15} : LINES[n].engines = GM_LD_ENGINES_T1XX
  /\ \A n \in {16, 17} : LINES[n].engines = GM_HD_ENGINES
  <1>1. LINES[1].engines = FORD_SD_ENGINES /\ LINES[2].engines = FORD_SD_ENGINES_PRE2010
        /\ LINES[3].engines = << >>
    BY FordLines DEF Line
  <1>2. LINES[4].engines = RAM_ENGINES /\ LINES[5].engines = << >>
        /\ LINES[6].engines = << >>
    BY RamLines DEF Line
  <1>3. LINES[9].engines = << >> /\ LINES[13].engines = << >>
    BY ChevyPickupLines DEF Line
  <1>4. LINES[10].engines = << >> /\ LINES[11].engines = << >> /\ LINES[12].engines = << >>
    BY GmPickupLines DEF Line
  <1>5. LINES[7].engines = GM_LD_ENGINES /\ LINES[8].engines = GM_LD_ENGINES
    BY LightLines DEF Line
  <1>6. LINES[14].engines = GM_LD_ENGINES_T1XX /\ LINES[15].engines = GM_LD_ENGINES_T1XX
    BY LightLinesT1XX DEF Line
  <1>7. LINES[16].engines = GM_HD_ENGINES /\ LINES[17].engines = GM_HD_ENGINES
    BY HeavyLines DEF Line
  <1> QED
    BY <1>1, <1>2, <1>3, <1>4, <1>5, <1>6, <1>7

(* The rows of a table with this engine are those with this character, or  *)
(* there are none.                                                         *)
Only(table, engine, code) ==
  \A i \in 1..Len(table) : table[i].engine = engine <=> table[i].code = code
Never(table, engine) == \A i \in 1..Len(table) : table[i].engine # engine

(* Which characters mean one of the two engines, table by table.           *)
LEMMA DieselsAre ==
  /\ Only(FORD_SD_ENGINES, PowerStroke, "T") /\ Never(FORD_SD_ENGINES, Duramax)
  /\ Only(GM_LD_ENGINES, Duramax, "8") /\ Never(GM_LD_ENGINES, PowerStroke)
  /\ Never(GM_LD_ENGINES_T1XX, PowerStroke)
  /\ \A table \in {FORD_SD_ENGINES_PRE2010, RAM_ENGINES, GM_HD_ENGINES, << >>} :
       Never(table, PowerStroke) /\ Never(table, Duramax)
  <1>1. Only(FORD_SD_ENGINES, PowerStroke, "T") /\ Never(FORD_SD_ENGINES, Duramax)
    <2>1. Len(FORD_SD_ENGINES) = 3
      BY DEF FORD_SD_ENGINES
    <2>2. FORD_SD_ENGINES[1].code = "T" /\ FORD_SD_ENGINES[1].engine = "6.7L Power Stroke"
      BY DEF FORD_SD_ENGINES, Eng
    <2>3. FORD_SD_ENGINES[2].code = "6" /\ FORD_SD_ENGINES[2].engine = "6.2L V8"
      BY DEF FORD_SD_ENGINES, Eng
    <2>4. FORD_SD_ENGINES[3].code = "N" /\ FORD_SD_ENGINES[3].engine = "7.3L V8"
      BY DEF FORD_SD_ENGINES, Eng
    <2>5. ASSUME NEW i \in 1..3
          PROVE  /\ (FORD_SD_ENGINES[i].engine = PowerStroke <=> FORD_SD_ENGINES[i].code = "T")
                 /\ FORD_SD_ENGINES[i].engine # Duramax
      <3>1. i = 1 \/ i = 2 \/ i = 3
        OBVIOUS
      <3>2. CASE i = 1
        BY <2>2, <3>2 DEF PowerStroke, Duramax
      <3>3. CASE i = 2
        BY <2>3, <3>3 DEF PowerStroke, Duramax
      <3>4. CASE i = 3
        BY <2>4, <3>4 DEF PowerStroke, Duramax
      <3> QED
        BY <3>1, <3>2, <3>3, <3>4
    <2> QED
      BY <2>1, <2>5 DEF Only, Never
  <1>2. Never(FORD_SD_ENGINES_PRE2010, PowerStroke) /\ Never(FORD_SD_ENGINES_PRE2010, Duramax)
    <2>1. Len(FORD_SD_ENGINES_PRE2010) = 4
      BY DEF FORD_SD_ENGINES_PRE2010
    <2>2. /\ FORD_SD_ENGINES_PRE2010[1].code = "P"
          /\ FORD_SD_ENGINES_PRE2010[1].engine = "6.0L Power Stroke"
      BY DEF FORD_SD_ENGINES_PRE2010, Eng
    <2>3. /\ FORD_SD_ENGINES_PRE2010[2].code = "R"
          /\ FORD_SD_ENGINES_PRE2010[2].engine = "6.4L Power Stroke"
      BY DEF FORD_SD_ENGINES_PRE2010, Eng
    <2>4. /\ FORD_SD_ENGINES_PRE2010[3].code = "5"
          /\ FORD_SD_ENGINES_PRE2010[3].engine = "5.4L V8"
      BY DEF FORD_SD_ENGINES_PRE2010, Eng
    <2>5. /\ FORD_SD_ENGINES_PRE2010[4].code = "Y"
          /\ FORD_SD_ENGINES_PRE2010[4].engine = "6.8L V10"
      BY DEF FORD_SD_ENGINES_PRE2010, Eng
    <2>6. ASSUME NEW i \in 1..4
          PROVE  /\ FORD_SD_ENGINES_PRE2010[i].engine # PowerStroke
                 /\ FORD_SD_ENGINES_PRE2010[i].engine # Duramax
      <3>1. i = 1 \/ i = 2 \/ i = 3 \/ i = 4
        OBVIOUS
      <3>2. CASE i = 1
        BY <2>2, <3>2 DEF PowerStroke, Duramax
      <3>3. CASE i = 2
        BY <2>3, <3>3 DEF PowerStroke, Duramax
      <3>4. CASE i = 3
        BY <2>4, <3>4 DEF PowerStroke, Duramax
      <3>5. CASE i = 4
        BY <2>5, <3>5 DEF PowerStroke, Duramax
      <3> QED
        BY <3>1, <3>2, <3>3, <3>4, <3>5
    <2> QED
      BY <2>1, <2>6 DEF Only, Never
  <1>3. Never(RAM_ENGINES, PowerStroke) /\ Never(RAM_ENGINES, Duramax)
    <2>1. Len(RAM_ENGINES) = 6
      BY DEF RAM_ENGINES
    <2>2. RAM_ENGINES[1].code = "T" /\ RAM_ENGINES[1].engine = "5.7L HEMI V8"
      BY DEF RAM_ENGINES, Eng
    <2>3. RAM_ENGINES[2].code = "L" /\ RAM_ENGINES[2].engine = "6.7L Cummins I6"
      BY DEF RAM_ENGINES, Eng
    <2>4. RAM_ENGINES[3].code = "G" /\ RAM_ENGINES[3].engine = "3.6L V6"
      BY DEF RAM_ENGINES, Eng
    <2>5. RAM_ENGINES[4].code = "J" /\ RAM_ENGINES[4].engine = "6.4L HEMI V8"
      BY DEF RAM_ENGINES, Eng
    <2>6. RAM_ENGINES[5].code = "9" /\ RAM_ENGINES[5].engine = "6.2L HEMI V8"
      BY DEF RAM_ENGINES, Eng
    <2>7. RAM_ENGINES[6].code = "M" /\ RAM_ENGINES[6].engine = "3.0L EcoDiesel V6"
      BY DEF RAM_ENGINES, Eng
    <2>8. ASSUME NEW i \in 1..6
          PROVE  RAM_ENGINES[i].engine # PowerStroke /\ RAM_ENGINES[i].engine # Duramax
      <3>1. i = 1 \/ i = 2 \/ i = 3 \/ i = 4 \/ i = 5 \/ i = 6
        OBVIOUS
      <3>2. CASE i = 1
        BY <2>2, <3>2 DEF PowerStroke, Duramax
      <3>3. CASE i = 2
        BY <2>3, <3>3 DEF PowerStroke, Duramax
      <3>4. CASE i = 3
        BY <2>4, <3>4 DEF PowerStroke, Duramax
      <3>5. CASE i = 4
        BY <2>5, <3>5 DEF PowerStroke, Duramax
      <3>6. CASE i = 5
        BY <2>6, <3>6 DEF PowerStroke, Duramax
      <3>7. CASE i = 6
        BY <2>7, <3>7 DEF PowerStroke, Duramax
      <3> QED
        BY <3>1, <3>2, <3>3, <3>4, <3>5, <3>6, <3>7
    <2> QED
      BY <2>1, <2>8 DEF Only, Never
  <1>4. Only(GM_LD_ENGINES, Duramax, "8") /\ Never(GM_LD_ENGINES, PowerStroke)
    <2>1. Len(GM_LD_ENGINES) = 4
      BY DEF GM_LD_ENGINES
    <2>2. GM_LD_ENGINES[1].code = "8" /\ GM_LD_ENGINES[1].engine = "3.0L Duramax I6"
      BY DEF GM_LD_ENGINES, Eng
    <2>3. GM_LD_ENGINES[2].code = "D" /\ GM_LD_ENGINES[2].engine = "5.3L V8"
      BY DEF GM_LD_ENGINES, Eng
    <2>4. GM_LD_ENGINES[3].code = "K" /\ GM_LD_ENGINES[3].engine = "2.7L I4 Turbo"
      BY DEF GM_LD_ENGINES, Eng
    <2>5. GM_LD_ENGINES[4].code = "L" /\ GM_LD_ENGINES[4].engine = "6.2L V8"
      BY DEF GM_LD_ENGINES, Eng
    <2>6. ASSUME NEW i \in 1..4
          PROVE  /\ (GM_LD_ENGINES[i].engine = Duramax <=> GM_LD_ENGINES[i].code = "8")
                 /\ GM_LD_ENGINES[i].engine # PowerStroke
      <3>1. i = 1 \/ i = 2 \/ i = 3 \/ i = 4
        OBVIOUS
      <3>2. CASE i = 1
        BY <2>2, <3>2 DEF PowerStroke, Duramax
      <3>3. CASE i = 2
        BY <2>3, <3>3 DEF PowerStroke, Duramax
      <3>4. CASE i = 3
        BY <2>4, <3>4 DEF PowerStroke, Duramax
      <3>5. CASE i = 4
        BY <2>5, <3>5 DEF PowerStroke, Duramax
      <3> QED
        BY <3>1, <3>2, <3>3, <3>4, <3>5
    <2> QED
      BY <2>1, <2>6 DEF Only, Never
  <1>5. Never(GM_LD_ENGINES_T1XX, PowerStroke)
    <2>1. Len(GM_LD_ENGINES_T1XX) = 6
      BY DEF GM_LD_ENGINES_T1XX
    <2>2. /\ GM_LD_ENGINES_T1XX[1].code = "T"
          /\ GM_LD_ENGINES_T1XX[1].engine = "3.0L Duramax I6"
      BY DEF GM_LD_ENGINES_T1XX, Eng
    <2>3. GM_LD_ENGINES_T1XX[2].code = "D" /\ GM_LD_ENGINES_T1XX[2].engine = "5.3L V8"
      BY DEF GM_LD_ENGINES_T1XX, Eng
    <2>4. GM_LD_ENGINES_T1XX[3].code = "F" /\ GM_LD_ENGINES_T1XX[3].engine = "5.3L V8"
      BY DEF GM_LD_ENGINES_T1XX, Eng
    <2>5. GM_LD_ENGINES_T1XX[4].code = "H" /\ GM_LD_ENGINES_T1XX[4].engine = "4.3L V6"
      BY DEF GM_LD_ENGINES_T1XX, Eng
    <2>6. /\ GM_LD_ENGINES_T1XX[5].code = "K"
          /\ GM_LD_ENGINES_T1XX[5].engine = "2.7L I4 Turbo"
      BY DEF GM_LD_ENGINES_T1XX, Eng
    <2>7. GM_LD_ENGINES_T1XX[6].code = "L" /\ GM_LD_ENGINES_T1XX[6].engine = "6.2L V8"
      BY DEF GM_LD_ENGINES_T1XX, Eng
    <2>8. ASSUME NEW i \in 1..6
          PROVE  GM_LD_ENGINES_T1XX[i].engine # PowerStroke
      <3>1. i = 1 \/ i = 2 \/ i = 3 \/ i = 4 \/ i = 5 \/ i = 6
        OBVIOUS
      <3>2. CASE i = 1
        BY <2>2, <3>2 DEF PowerStroke, Duramax
      <3>3. CASE i = 2
        BY <2>3, <3>3 DEF PowerStroke, Duramax
      <3>4. CASE i = 3
        BY <2>4, <3>4 DEF PowerStroke, Duramax
      <3>5. CASE i = 4
        BY <2>5, <3>5 DEF PowerStroke, Duramax
      <3>6. CASE i = 5
        BY <2>6, <3>6 DEF PowerStroke, Duramax
      <3>7. CASE i = 6
        BY <2>7, <3>7 DEF PowerStroke, Duramax
      <3> QED
        BY <3>1, <3>2, <3>3, <3>4, <3>5, <3>6, <3>7
    <2> QED
      BY <2>1, <2>8 DEF Only, Never
  <1>6. Never(GM_HD_ENGINES, PowerStroke) /\ Never(GM_HD_ENGINES, Duramax)
    <2>1. Len(GM_HD_ENGINES) = 2
      BY DEF GM_HD_ENGINES
    <2>2. GM_HD_ENGINES[1].code = "Y" /\ GM_HD_ENGINES[1].engine = "6.6L Duramax V8"
      BY DEF GM_HD_ENGINES, Eng
    <2>3. GM_HD_ENGINES[2].code = "7" /\ GM_HD_ENGINES[2].engine = "6.6L V8"
      BY DEF GM_HD_ENGINES, Eng
    <2>4. ASSUME NEW i \in 1..2
          PROVE  GM_HD_ENGINES[i].engine # PowerStroke /\ GM_HD_ENGINES[i].engine # Duramax
      <3>1. i = 1 \/ i = 2
        OBVIOUS
      <3>2. CASE i = 1
        BY <2>2, <3>2 DEF PowerStroke, Duramax
      <3>3. CASE i = 2
        BY <2>3, <3>3 DEF PowerStroke, Duramax
      <3> QED
        BY <3>1, <3>2, <3>3
    <2> QED
      BY <2>1, <2>4 DEF Only, Never
  <1>7. Never(<< >>, PowerStroke) /\ Never(<< >>, Duramax)
    BY DEF Never
  <1> QED
    BY <1>1, <1>2, <1>3, <1>4, <1>5, <1>6, <1>7

(* The engine tables are sequences.                                        *)
LEMMA LengthsAre ==
  ASSUME NEW n \in DOMAIN LINES
  PROVE  LET table == LINES[n].engines IN
         Len(table) \in Nat /\ DOMAIN table = 1..Len(table)
  <1> DEFINE Listed(table) == Len(table) \in Nat /\ DOMAIN table = 1..Len(table)
  <1>1. Listed(FORD_SD_ENGINES)
    BY DEF FORD_SD_ENGINES
  <1>2. Listed(FORD_SD_ENGINES_PRE2010)
    BY DEF FORD_SD_ENGINES_PRE2010
  <1>3. Listed(RAM_ENGINES)
    BY DEF RAM_ENGINES
  <1>4. Listed(GM_LD_ENGINES)
    BY DEF GM_LD_ENGINES
  <1>5. Listed(GM_LD_ENGINES_T1XX)
    BY DEF GM_LD_ENGINES_T1XX
  <1>6. Listed(GM_HD_ENGINES)
    BY DEF GM_HD_ENGINES
  <1>7. Listed(<< >>)
    OBVIOUS
  <1> HIDE DEF Listed
  <1>8. Listed(LINES[n].engines)
    BY <1>1, <1>2, <1>3, <1>4, <1>5, <1>6, <1>7, LineCount, EnginesAre
  <1> QED
    BY <1>8 DEF Listed

(* When the identification names one of the two engines.                   *)
LEMMA DieselOf ==
  ASSUME NEW v, NEW n \in DOMAIN LINES
  PROVE  LET e == EngineIn(LINES[n], v).engine IN
         /\ e = PowerStroke <=> n = 1 /\ v.at[7] = "T"
         /\ n \in {7, 8} => (e = Duramax <=> v.at[7] = "8")
         /\ e = Duramax => n \in {7, 8, 14, 15}
  <1> DEFINE line == LINES[n]
             e == EngineIn(line, v).engine
  <1>1. \/ /\ e = ""
           /\ \A i \in 1..Len(line.engines) : line.engines[i].code # v.at[7]
        \/ \E i \in 1..Len(line.engines) :
             line.engines[i].code = v.at[7] /\ e = line.engines[i].engine
    <2>1. \/ /\ EngineIn(line, v) = NoEngine
             /\ \A i \in 1..Len(line.engines) : line.engines[i].code # v.at[7]
          \/ \E i \in 1..Len(line.engines) :
               line.engines[i].code = v.at[7] /\ EngineIn(line, v) = line.engines[i]
      BY LengthsAre, EngineFound
    <2>2. NoEngine.engine = ""
      BY DEF NoEngine, Eng
    <2> QED
      BY <2>1, <2>2
  <1>2. "" # PowerStroke /\ "" # Duramax
    BY DEF PowerStroke, Duramax
  <1> HIDE DEF e
  <1>3. Never(line.engines, PowerStroke) => e # PowerStroke
    BY <1>1, <1>2 DEF Never
  <1>4. Never(line.engines, Duramax) => e # Duramax
    BY <1>1, <1>2 DEF Never
  <1>5. CASE n = 1
    <2>1. line.engines = FORD_SD_ENGINES
      BY <1>5, EnginesAre
    <2>2. FORD_SD_ENGINES[1].code = "T" /\ Len(FORD_SD_ENGINES) = 3
      BY DEF FORD_SD_ENGINES, Eng
    <2>3. e = PowerStroke <=> v.at[7] = "T"
      <3>1. \A i \in 1..3 : 
               FORD_SD_ENGINES[i].engine = PowerStroke <=> FORD_SD_ENGINES[i].code = "T"
        BY <2>2, DieselsAre DEF Only
      <3>2. 1 \in 1..3
        OBVIOUS
      <3>3. \/ e = "" /\ v.at[7] # "T"
            \/ \E i \in 1..3 :
                 FORD_SD_ENGINES[i].code = v.at[7] /\ e = FORD_SD_ENGINES[i].engine
        BY <1>1, <2>1, <2>2, <3>2
      <3> QED
        BY <1>2, <3>1, <3>3
    <2>4. e # Duramax
      BY <1>4, <2>1, DieselsAre
    <2> QED
      BY <1>5, <2>3, <2>4 DEF e
  <1>6. CASE n \in {7, 8}
    <2>1. line.engines = GM_LD_ENGINES
      BY <1>6, EnginesAre
    <2>2. GM_LD_ENGINES[1].code = "8" /\ Len(GM_LD_ENGINES) = 4
      BY DEF GM_LD_ENGINES, Eng
    <2>3. e = Duramax <=> v.at[7] = "8"
      <3>1. \A i \in 1..4 : 
               GM_LD_ENGINES[i].engine = Duramax <=> GM_LD_ENGINES[i].code = "8"
        BY <2>2, DieselsAre DEF Only
      <3>2. 1 \in 1..4
        OBVIOUS
      <3>3. \/ e = "" /\ v.at[7] # "8"
            \/ \E i \in 1..4 :
                 GM_LD_ENGINES[i].code = v.at[7] /\ e = GM_LD_ENGINES[i].engine
        BY <1>1, <2>1, <2>2, <3>2
      <3> QED
        BY <1>2, <3>1, <3>3
    <2>4. e # PowerStroke
      BY <1>3, <2>1, DieselsAre
    <2> QED
      BY <1>6, <2>3, <2>4 DEF e
  <1>7. CASE n \in {14, 15}
    <2>1. line.engines = GM_LD_ENGINES_T1XX
      BY <1>7, EnginesAre
    <2>2. e # PowerStroke
      BY <1>3, <2>1, DieselsAre
    <2> QED
      BY <1>7, <2>2 DEF e
  <1>8. CASE n \notin {1, 7, 8, 14, 15}
    <2>1. line.engines \in {FORD_SD_ENGINES_PRE2010, RAM_ENGINES, GM_HD_ENGINES, << >>}
      BY <1>8, LineCount, EnginesAre
    <2>2. e # PowerStroke /\ e # Duramax
      BY <1>3, <1>4, <2>1, DieselsAre
    <2> QED
      BY <1>8, <2>2 DEF e
  <1> QED
    BY <1>5, <1>6, <1>7, <1>8

-----------------------------------------------------------------------------
(* The gates.                                                              *)

(* The gate of the Super Duty profile, spelled out.                        *)
LEMMA SuperDutyGate ==
  ASSUME NEW v
  PROVE  Passes(v, fordSuperDuty67_10R140)
           <=> /\ v.at[5] \in {"2", "3", "4", "5"} /\ v.at[7] = "T"
               /\ Year(v) \in 2020..2026
  <1> DEFINE A == {"2", "3", "4", "5"}
             B == {"T"}
             C == Years(2020, 2026)
  <1>1. Passes(v, fordSuperDuty67_10R140) <=> Fits(v, {<<5, A>>, <<7, B>>, <<9, C>>})
    <2>1. fordSuperDuty67_10R140 = {{<<5, A>>, <<7, B>>, <<9, C>>}}
      <3>1. fordSuperDuty67_10R140 = {{<<5, A>>, <<7, B>>} \cup {<<9, C>>}}
        BY DEF fordSuperDuty67_10R140, fordSuperDuty67
      <3> HIDE DEF A, B, C
      <3>2. {<<5, A>>, <<7, B>>} \cup {<<9, C>>} = {<<5, A>>, <<7, B>>, <<9, C>>}
        OBVIOUS
      <3> QED
        BY <3>1, <3>2
    <2> HIDE DEF A, B, C
    <2> QED
      BY <2>1 DEF Passes
  <1>2. Fits(v, {<<5, A>>, <<7, B>>, <<9, C>>})
          <=> v.at[5] \in A /\ v.at[7] \in B /\ v.at[9] \in C
    <2> HIDE DEF A, B, C
    <2> QED
      BY DEF Fits
  <1>3. v.at[9] \in C <=> Year(v) \in 2020..2026
    BY YearOf DEF Span
  <1> HIDE DEF C
  <1> QED
    BY <1>1, <1>2, <1>3

(* The gate of the Sierra profile, spelled out.                            *)
LEMMA SierraGate ==
  ASSUME NEW v
  PROVE  Passes(v, gmSierra1500Diesel)
           <=> /\ v.at[3] \in Light /\ v.at[4] \in {"H", "U"} /\ v.at[7] = "8"
               /\ Year(v) \in 2023..2026
  <1> DEFINE A == Light
             B == {"H", "U"}
             C == {"8"}
             D == Years(2023, 2026)
  <1>1. Passes(v, gmSierra1500Diesel)
          <=> Fits(v, {<<3, A>>, <<4, B>>, <<7, C>>, <<9, D>>})
    <2>1. gmSierra1500Diesel = {{<<3, A>>, <<4, B>>, <<7, C>>, <<9, D>>}}
      BY DEF gmSierra1500Diesel, Light
    <2> HIDE DEF A, B, C, D
    <2> QED
      BY <2>1 DEF Passes
  <1>2. Fits(v, {<<3, A>>, <<4, B>>, <<7, C>>, <<9, D>>})
          <=> v.at[3] \in A /\ v.at[4] \in B /\ v.at[7] \in C /\ v.at[9] \in D
    <2> HIDE DEF A, B, C, D
    <2> QED
      BY DEF Fits
  <1>3. v.at[9] \in D <=> Year(v) \in 2023..2026
    BY YearOf DEF Span
  <1> HIDE DEF D
  <1> QED
    BY <1>1, <1>2, <1>3

(* The keys that a gate can give.                                          *)
Scanned == {"gm_sierra_lz0", "bmw_f10_535i", "audi_q5", "jeep_ws", "ford_sd_67"}

(* The gates, row by row.                                                  *)
LEMMA RowsOfMap ==
  /\ Len(MAP) = 5
  /\ MAP[1].wmi = Sierra \cup Silverado /\ MAP[1].extra = gmSierra1500Diesel
  /\ MAP[1].key = "gm_sierra_lz0"
  /\ MAP[2].wmi = {"WBA", "WBS", "5UX", "4US"} /\ MAP[2].key = "bmw_f10_535i"
  /\ MAP[3].wmi = {"WAU", "WA1", "WUA", "TRU"} /\ MAP[3].key = "audi_q5"
  /\ MAP[4].wmi = {"1C4"} /\ MAP[4].key = "jeep_ws"
  /\ MAP[5].wmi = Fords /\ MAP[5].extra = fordSuperDuty67_10R140
  /\ MAP[5].key = "ford_sd_67"
  <1>1. Len(MAP) = 5
    BY DEF MAP
  <1>2. MAP[1] = Gate(Sierra \cup Silverado, gmSierra1500Diesel, "gm_sierra_lz0")
    BY DEF MAP
  <1>3. MAP[2] = Gate({"WBA", "WBS", "5UX", "4US"}, bmwF10535i, "bmw_f10_535i")
    BY DEF MAP
  <1>4. MAP[3] = Gate({"WAU", "WA1", "WUA", "TRU"}, audiQ5_20T, "audi_q5")
    BY DEF MAP
  <1>5. MAP[4] = Gate({"1C4"}, jeepWagoneer57, "jeep_ws")
    BY DEF MAP
  <1>6. MAP[5] = Gate(Fords, fordSuperDuty67_10R140, "ford_sd_67")
    BY DEF MAP, Fords
  <1>7. MAP[1].wmi = Sierra \cup Silverado /\ MAP[1].extra = gmSierra1500Diesel
        /\ MAP[1].key = "gm_sierra_lz0"
    BY <1>2 DEF Gate
  <1>8. MAP[2].wmi = {"WBA", "WBS", "5UX", "4US"} /\ MAP[2].key = "bmw_f10_535i"
    BY <1>3 DEF Gate
  <1>9. MAP[3].wmi = {"WAU", "WA1", "WUA", "TRU"} /\ MAP[3].key = "audi_q5"
    BY <1>4 DEF Gate
  <1>10. MAP[4].wmi = {"1C4"} /\ MAP[4].key = "jeep_ws"
    BY <1>5 DEF Gate
  <1>11. MAP[5].wmi = Fords /\ MAP[5].extra = fordSuperDuty67_10R140
         /\ MAP[5].key = "ford_sd_67"
    BY <1>6 DEF Gate
  <1> QED
    BY <1>1, <1>7, <1>8, <1>9, <1>10, <1>11

(* A truck has a scanned profile exactly when its gate lets it through: no *)
(* other row of the map has its manufacturer code.                         *)
LEMMA ScannedKey ==
  ASSUME NEW v
  PROVE  /\ profileKeyFor(v) \in Scanned \cup {NoKey}
         /\ profileKeyFor(v) = "ford_sd_67"
              <=> v.wmi \in Fords /\ Passes(v, fordSuperDuty67_10R140)
         /\ profileKeyFor(v) = "gm_sierra_lz0"
              <=> v.wmi \in Sierra \cup Silverado /\ Passes(v, gmSierra1500Diesel)
  <1> DEFINE I == {i \in 1..5 : v.wmi \in MAP[i].wmi /\ Passes(v, MAP[i].extra)}
             r == IF I # {} THEN Min(I) ELSE 0
  <1>1. profileKeyFor(v) = IF r = 0 THEN NoKey ELSE MAP[r].key
    BY RowsOfMap DEF profileKeyFor, SelectInSeq
  <1>2. r \in 0..5 /\ (r = 0 <=> I = {}) /\ (r # 0 => r \in I)
    <2>1. I \in SUBSET (1..5) /\ 5 \in Nat
      OBVIOUS
    <2> HIDE DEF I
    <2> QED
      BY <2>1, FirstOf
  <1>3. /\ 1 \in I <=> v.wmi \in Sierra \cup Silverado /\ Passes(v, gmSierra1500Diesel)
        /\ 5 \in I <=> v.wmi \in Fords /\ Passes(v, fordSuperDuty67_10R140)
    BY RowsOfMap
  <1>4. /\ 1 \in I => r = 1
        /\ 5 \in I => r = 5
    <2>1. 1 \in I => v.wmi \in Sierra \cup Silverado
      BY <1>3
    <2>2. 5 \in I => v.wmi \in Fords
      BY <1>3
    <2>3. 2 \in I => v.wmi \in {"WBA", "WBS", "5UX", "4US"}
      BY RowsOfMap
    <2>4. 3 \in I => v.wmi \in {"WAU", "WA1", "WUA", "TRU"}
      BY RowsOfMap
    <2>5. 4 \in I => v.wmi = "1C4"
      BY RowsOfMap
    <2> HIDE DEF I, r
    <2> QED
      BY <1>2, <2>1, <2>2, <2>3, <2>4, <2>5 DEF Fords, Sierra, Silverado
  <1>5. r \in {0, 1, 2, 3, 4, 5}
    BY <1>2
  <1>6. r # 0 => r \in I
    BY <1>2
  <1>7. (r = 1 <=> 1 \in I) /\ (r = 5 <=> 5 \in I)
    BY <1>4, <1>6
  <1> HIDE DEF I, r
  <1>8. /\ profileKeyFor(v) \in Scanned \cup {NoKey}
        /\ profileKeyFor(v) = "ford_sd_67" <=> r = 5
        /\ profileKeyFor(v) = "gm_sierra_lz0" <=> r = 1
    BY <1>1, <1>5, RowsOfMap DEF NoKey, Scanned
  <1> QED
    BY <1>3, <1>7, <1>8

-----------------------------------------------------------------------------
(* The identification.                                                     *)

(* What vinIdentify() makes of a VIN, by the line it takes.                *)
LEMMA Identified ==
  ASSUME NEW v
  PROVE  LET id == vinIdentify(v)  k == profileKeyFor(v) IN
         \/ id.key = k /\ id.name = "" /\ id.engine = ""
         \/ \E n \in DOMAIN LINES :
              /\ Names(LINES[n], v)
              /\ id.name = LINES[n].series[SeriesIn(LINES[n], v)].name
              /\ id.engine = EngineIn(LINES[n], v).engine
              /\ id.key = k \/ (k = NoKey /\ id.key \in {"std_diesel", "std_gas"})
  <1> DEFINE I == {i \in 1..17 : Names(LINES[i], v)}
             n == IF I # {} THEN Min(I) ELSE 0
             k == profileKeyFor(v)
             s == LINES[n].series[SeriesIn(LINES[n], v)].name
             e == EngineIn(LINES[n], v)
  <1>1. Len(LINES) = 17
    BY DEF LINES
  <1>2. n \in 0..17 /\ (n # 0 => n \in I)
    <2>1. I \in SUBSET (1..17) /\ 17 \in Nat
      OBVIOUS
    <2> HIDE DEF I
    <2> QED
      BY <2>1, FirstOf
  <1>3. vinIdentify(v) =
          IF n = 0 THEN [Nothing EXCEPT !.key = k]
          ELSE [key |-> IF k # NoKey THEN k
                        ELSE IF e.diesel THEN "std_diesel" ELSE "std_gas",
                name |-> s, engine |-> e.engine]
    BY <1>1 DEF vinIdentify, SelectInSeq
  <1>4. n # 0 => n \in DOMAIN LINES /\ Names(LINES[n], v)
    BY <1>2, LineCount
  <1>5. CASE n = 0
    <2> HIDE DEF n, k
    <2>1. vinIdentify(v) = [key |-> k, name |-> "", engine |-> ""]
      BY <1>3, <1>5 DEF Nothing
    <2> DEFINE id == [key |-> k, name |-> "", engine |-> ""]
    <2>2. id.key = k /\ id.name = "" /\ id.engine = ""
      OBVIOUS
    <2>3. vinIdentify(v) = id
      BY <2>1
    <2> QED
      <3> HIDE DEF id
      <3> QED
        BY <2>2, <2>3, Zenon DEF k
  <1>6. CASE n # 0
    <2> HIDE DEF k, s, e
    <2>1. vinIdentify(v) = [key |-> IF k # NoKey THEN k
                                    ELSE IF e.diesel THEN "std_diesel" ELSE "std_gas",
                            name |-> s, engine |-> e.engine]
      BY <1>3, <1>6
    <2>2. /\ vinIdentify(v).name = s /\ vinIdentify(v).engine = e.engine
          /\ \/ vinIdentify(v).key = k
             \/ k = NoKey /\ vinIdentify(v).key \in {"std_diesel", "std_gas"}
      BY <2>1
    <2> QED
      BY <1>4, <1>6, <2>2 DEF k, s, e
  <1> QED
    BY <1>5, <1>6

(* Every car that is identified has a profile in the registry.             *)
LEMMA KeyKnown ==
  ASSUME NEW v
  PROVE  vinIdentify(v).key \in Keys \cup {NoKey}
  <1>1. vinIdentify(v).key \in {profileKeyFor(v), "std_diesel", "std_gas"}
    BY Identified
  <1>2. Scanned \cup {"std_diesel", "std_gas"} \subseteq Keys
    BY DEF Scanned, Keys, Registry
  <1> QED
    BY <1>1, <1>2, ScannedKey

(* A line names the VIN.                                                   *)
HasName(v) == vinIdentify(v).name # ""

(* A named truck has the profile of its engine and years, and no other     *)
(* truck has it.                                                           *)
LEMMA TruckKnown ==
  ASSUME NEW v, HasName(v)
  PROVE  LET id == vinIdentify(v) IN
         /\ id.key = TruckProfile(v) \/ TruckProfile(v) = NoKey
         /\ id.key \in {"ford_sd_67", "gm_sierra_lz0"} => id.key = TruckProfile(v)
  <1> DEFINE id == vinIdentify(v)
             k == profileKeyFor(v)
             InFord == v.wmi \in Fords /\ Passes(v, fordSuperDuty67_10R140)
             InGm == v.wmi \in Sierra \cup Silverado /\ Passes(v, gmSierra1500Diesel)
  <1>1. \E n \in DOMAIN LINES :
          /\ Names(LINES[n], v)
          /\ id.engine = EngineIn(LINES[n], v).engine
          /\ id.key = k \/ (k = NoKey /\ id.key \in {"std_diesel", "std_gas"})
    BY Identified DEF HasName
  <1>2. (k = "ford_sd_67" <=> InFord) /\ (k = "gm_sierra_lz0" <=> InGm)
    BY ScannedKey
  <1>3. TruckProfile(v) =
          IF id.engine = PowerStroke /\ Year(v) \in 2020..2026 THEN "ford_sd_67"
          ELSE IF id.engine = Duramax /\ Year(v) \in 2023..2026 THEN "gm_sierra_lz0"
          ELSE NoKey
    BY DEF TruckProfile, PowerStroke, Duramax
  <1>4. InFord <=>
          /\ v.wmi \in Fords /\ v.at[5] \in {"2", "3", "4", "5"} /\ v.at[7] = "T"
          /\ Year(v) \in 2020..2026
    BY SuperDutyGate
  <1>5. InGm <=>
          /\ v.wmi \in Sierra \cup Silverado
          /\ v.at[3] \in Light /\ v.at[4] \in {"H", "U"} /\ v.at[7] = "8"
          /\ Year(v) \in 2023..2026
    BY SierraGate
  <1> SUFFICES /\ id.key = TruckProfile(v) \/ TruckProfile(v) = NoKey
               /\ id.key \in {"ford_sd_67", "gm_sierra_lz0"} => id.key = TruckProfile(v)
    OBVIOUS
  <1> HIDE DEF id, k, InFord, InGm
  <1>6. PICK n \in DOMAIN LINES :
          /\ Names(LINES[n], v)
          /\ id.engine = EngineIn(LINES[n], v).engine
          /\ id.key = k \/ (k = NoKey /\ id.key \in {"std_diesel", "std_gas"})
    BY <1>1
  <1>7. n \in 1..17 /\ Says(n, v)
    BY <1>6, LineCount, Named
  <1>8. /\ k = "ford_sd_67" <=>
             /\ v.wmi \in Fords /\ v.at[5] \in {"2", "3", "4", "5"} /\ v.at[7] = "T"
             /\ Year(v) \in 2020..2026
        /\ k = "gm_sierra_lz0" <=>
             /\ v.wmi \in Sierra \cup Silverado
             /\ v.at[3] \in Light /\ v.at[4] \in {"H", "U"} /\ v.at[7] = "8"
             /\ Year(v) \in 2023..2026
    BY <1>2, <1>4, <1>5
  <1>9. /\ id.engine = PowerStroke <=> n = 1 /\ v.at[7] = "T"
        /\ n \in {7, 8} => (id.engine = Duramax <=> v.at[7] = "8")
        /\ id.engine = Duramax => n \in {7, 8, 14, 15}
    BY <1>6, DieselOf
  <1>10. id.engine = PowerStroke => id.engine # Duramax
    BY DEF PowerStroke, Duramax
  <1>11. CASE id.engine = PowerStroke /\ Year(v) \in 2020..2026
    <2>1. k = "ford_sd_67"
      BY <1>7, <1>8, <1>9, <1>11 DEF Says
    <2> QED
      BY <1>6, <1>3, <1>11, <2>1 DEF NoKey
  <1>12. CASE id.engine = Duramax /\ Year(v) \in 2023..2026
    <2>1. n \in {7, 8}
      BY <1>7, <1>9, <1>12 DEF Says
    <2>2. k = "gm_sierra_lz0"
      BY <1>7, <1>8, <1>9, <1>12, <2>1 DEF Says
    <2> QED
      BY <1>6, <1>3, <1>10, <1>12, <2>2 DEF NoKey
  <1>13. ASSUME id.key = "ford_sd_67" PROVE TruckProfile(v) = "ford_sd_67"
    <2>1. k = "ford_sd_67"
      BY <1>6, <1>13
    <2>2. v.wmi \in Fords /\ v.at[5] # "1" /\ v.at[7] = "T" /\ Year(v) \in 2020..2026
      BY <1>8, <2>1
    <2>3. n = 1
      BY <1>7, <2>2 DEF Says, Fords, Sierra, Silverado
    <2> QED
      BY <1>9, <1>3, <2>2, <2>3
  <1>14. ASSUME id.key = "gm_sierra_lz0" PROVE TruckProfile(v) = "gm_sierra_lz0"
    <2>1. k = "gm_sierra_lz0"
      BY <1>6, <1>14
    <2>2. v.wmi \in Sierra \cup Silverado /\ v.at[3] \in Light /\ v.at[7] = "8"
          /\ Year(v) \in 2023..2026
      BY <1>8, <2>1
    <2>3. n \in {7, 8}
      BY <1>7, <2>2 DEF Says, Fords, Sierra, Silverado, Light, Heavy
    <2> QED
      BY <1>9, <1>3, <1>10, <2>2, <2>3
  <1> QED
    BY <1>3, <1>11, <1>12, <1>13, <1>14

(* The series tables are sequences.                                        *)
LEMMA SeriesLengths ==
  ASSUME NEW n \in DOMAIN LINES
  PROVE  Len(LINES[n].series) \in Nat
  <1>1. /\ Len(FORD_SD_SERIES) \in Nat /\ Len(FORD_F150_SERIES) \in Nat
        /\ Len(RAM_SERIES) \in Nat /\ Len(RAM_PRE2013_SERIES) \in Nat
        /\ Len(RAM_PRE2013_SERIES_NO35) \in Nat
    BY DEF FORD_SD_SERIES, FORD_F150_SERIES, RAM_SERIES, RAM_PRE2013_SERIES,
           RAM_PRE2013_SERIES_NO35
  <1>2. /\ Len(GM_SIERRA_GMT900) \in Nat /\ Len(GM_SILVERADO_GMT900) \in Nat
        /\ Len(GM_SIERRA_K2XX_EARLY) \in Nat /\ Len(GM_SIERRA_K2XX_LATE) \in Nat
        /\ Len(GM_SILVERADO_K2XX) \in Nat
    BY DEF GM_SIERRA_GMT900, GM_SILVERADO_GMT900, GM_SIERRA_K2XX_EARLY,
           GM_SIERRA_K2XX_LATE, GM_SILVERADO_K2XX, Tons
  <1>3. \A name : Len(Fixed(name)) \in Nat
    BY DEF Fixed
  <1>4. CASE n \in {1, 2, 3}
    BY <1>1, <1>4, FordLines DEF Line
  <1>5. CASE n \in {4, 5, 6}
    BY <1>1, <1>5, RamLines DEF Line
  <1>6. CASE n \in {9, 13}
    BY <1>2, <1>6, ChevyPickupLines DEF Line
  <1>7. CASE n \in {10, 11, 12}
    BY <1>2, <1>7, GmPickupLines DEF Line
  <1>8. CASE n \in {7, 8}
    BY <1>3, <1>8, LightLines DEF Line
  <1>9. CASE n \in {14, 15}
    BY <1>3, <1>9, LightLinesT1XX DEF Line
  <1>10. CASE n \in {16, 17}
    BY <1>3, <1>10, HeavyLines DEF Line
  <1> QED
    BY <1>4, <1>5, <1>6, <1>7, <1>8, <1>9, <1>10, LineCount

(* The name and the engine that are shown together belong together.        *)
LEMMA NameKnown ==
  ASSUME NEW v
  PROVE  LET id == vinDisplayIdentity(v) IN id.engine \in EnginesOf(id.name)
  <1>1. "" \in EnginesOf("")
    BY DEF EnginesOf
  <1>2. Nothing.name = "" /\ Nothing.engine = ""
    BY DEF Nothing
  <1>3. vinIdentify(v).engine \in EnginesOf(vinIdentify(v).name)
    <2>1. CASE vinIdentify(v).name = "" /\ vinIdentify(v).engine = ""
      BY <1>1, <2>1, Zenon
    <2>2. ASSUME NEW n \in DOMAIN LINES, Names(LINES[n], v),
                 vinIdentify(v).name = LINES[n].series[SeriesIn(LINES[n], v)].name,
                 vinIdentify(v).engine = EngineIn(LINES[n], v).engine
          PROVE  vinIdentify(v).engine \in EnginesOf(vinIdentify(v).name)
      <3>1. \E s \in ToSet(LINES[n].series) : s.name = vinIdentify(v).name
        <4>1. SeriesIn(LINES[n], v) \in DOMAIN LINES[n].series
          BY <2>2, SeriesFound, SeriesLengths DEF Names
        <4> QED
          BY <2>2, <4>1 DEF ToSet
      <3>2. \/ vinIdentify(v).engine = ""
            \/ \E c \in DOMAIN LINES[n].engines :
                 vinIdentify(v).engine = LINES[n].engines[c].engine
        <4>1. \/ EngineIn(LINES[n], v) = NoEngine
              \/ \E c \in 1..Len(LINES[n].engines) : EngineIn(LINES[n], v) = LINES[n].engines[c]
          BY EngineFound, LengthsAre
        <4>2. NoEngine.engine = ""
          BY DEF NoEngine, Eng
        <4>3. 1..Len(LINES[n].engines) = DOMAIN LINES[n].engines
          BY LengthsAre
        <4> QED
          BY <2>2, <4>1, <4>2, <4>3
      <3> DEFINE name == vinIdentify(v).name
                 engine == vinIdentify(v).engine
                 On(m) == {LINES[m].engines[c].engine : c \in DOMAIN LINES[m].engines}
                 M == {m \in DOMAIN LINES : \E s \in ToSet(LINES[m].series) : s.name = name}
      <3>3. EnginesOf(name) = {""} \cup UNION {On(m) : m \in M}
        BY DEF EnginesOf
      <3>4. n \in M
        BY <3>1
      <3>5. engine = "" \/ engine \in On(n)
        BY <3>2
      <3> HIDE DEF name, engine, On, M
      <3>6. engine \in EnginesOf(name)
        BY <3>3, <3>4, <3>5
      <3> QED
        BY <3>6 DEF name, engine
    <2> QED
      BY <2>1, <2>2, Identified
  <1> QED
    BY <1>1, <1>2, <1>3 DEF vinDisplayIdentity

-----------------------------------------------------------------------------
(* What loop() does with it.                                               *)

(* What loop() has saved is what the published VIN says. A name that is    *)
(* not replaced keeps its engine.                                          *)
CarInv ==
  /\ detected.engine \in EnginesOf(detected.name)
  /\ looked =>
       /\ vin # NoVin
       /\ detected.name = vinDisplayIdentity(vin).name
       /\ vinIdentify(vin).key # NoKey => key = vinIdentify(vin).key

(* CarInv holds in every reachable state, whatever the VINs.               *)
THEOREM CarHolds == ChoiceSpec => []CarInv
  <1>1. ChoiceInit => CarInv
    <2>1. /\ Label(Nothing).name = "" /\ Label(Nothing).engine = ""
          /\ "" \in EnginesOf("")
      BY DEF Label, Nothing, EnginesOf
    <2> QED
      BY <2>1, Zenon DEF ChoiceInit, CarInv
  <1>2. CarInv /\ [ChoiceNext]_<<vars, choice>> => CarInv'
    <2> SUFFICES ASSUME CarInv, [ChoiceNext]_<<vars, choice>>
                 PROVE  CarInv'
      OBVIOUS
    <2>1. CASE FirstCar
      <3>1. looked' = FALSE /\ detected' = detected
        BY <2>1 DEF FirstCar, CarInv
      <3> QED
        BY <3>1 DEF CarInv
    <2>2. CASE Look
      <3>1. /\ vin # NoVin /\ vin' = vin
            /\ detected' = Remember(Label(vinDisplayIdentity(vin)))
            /\ key' = Target
        BY <2>2 DEF Look
      <3>2. vinIdentify(vin).key # NoKey => key' = vinIdentify(vin).key
        BY <3>1, KeyKnown DEF Target
      <3>3. /\ Label(vinDisplayIdentity(vin)).name = vinDisplayIdentity(vin).name
            /\ Label(vinDisplayIdentity(vin)).engine = vinDisplayIdentity(vin).engine
        BY DEF Label
      <3>4. /\ detected'.name = vinDisplayIdentity(vin).name
            /\ detected'.engine \in EnginesOf(detected'.name)
        BY <3>1, <3>3, NameKnown DEF Remember, CarInv
      <3> QED
        BY <3>1, <3>2, <3>4 DEF CarInv
    <2>3. CASE OtherCar
      <3>1. looked' = FALSE /\ detected' = detected
        BY <2>3 DEF OtherCar
      <3> QED
        BY <3>1 DEF CarInv
    <2>4. CASE vin = NoVin /\ Next /\ UNCHANGED choice
      BY <2>4 DEF CarInv, choice
    <2>5. CASE UNCHANGED <<vars, choice>>
      BY <2>5 DEF CarInv, vars, choice
    <2> QED
      BY <2>1, <2>2, <2>3, <2>4, <2>5 DEF ChoiceNext
  <1> QED
    BY <1>1, <1>2, PTL DEF ChoiceSpec

(* No VIN whatever is named by two lines; the gates and the lines agree on *)
(* the two scanned trucks; the profile that runs and the name that is      *)
(* saved are those of the car that was looked at. The proof assumes        *)
(* nothing of the VINs: positions may hold characters that no table has.   *)
THEOREM CarIsKnownHolds == ChoiceSpec => []CarIsKnown
  <1>1. CarInv => CarIsKnown
    <2> SUFFICES ASSUME CarInv PROVE CarIsKnown
      OBVIOUS
    <2>1. vinIdentify(vin).name # "" =>
            LET id == vinIdentify(vin) IN
            /\ id.key = TruckProfile(vin) \/ TruckProfile(vin) = NoKey
            /\ id.key \in {"ford_sd_67", "gm_sierra_lz0"} => id.key = TruckProfile(vin)
      <3>1. vinIdentify(vin).name # "" => HasName(vin)
        BY DEF HasName
      <3> QED
        BY <3>1, TruckKnown, Zenon
    <2> QED
      BY <2>1, NamedOnce DEF CarIsKnown, CarInv
  <1> QED
    BY <1>1, CarHolds, PTL

-----------------------------------------------------------------------------

(* The eight profiles, by their keys.                                      *)
LEMMA ProfilesAre ==
  /\ Keys = {Registry[i].key : i \in 1..8}
  /\ \A i \in 1..8 : ProfileForKey(Registry[i].key) = Registry[i].profile
  <1>1. Len(Registry) = 8
    BY DEF Registry
  <1>2. \A i, j \in 1..8 : Registry[i].key = Registry[j].key => i = j
    BY DEF Registry
  <1>3. ASSUME NEW i \in 1..8 PROVE ProfileForKey(Registry[i].key) = Registry[i].profile
    <2>1. (CHOOSE j \in 1..8 : Registry[j].key = Registry[i].key) = i
      BY <1>2, <1>3
    <2> QED
      BY <1>1, <2>1 DEF ProfileForKey
  <1> QED
    BY <1>1, <1>3 DEF Keys

(* The bounds of the rows that alarm: of each stat, whatever the profile.  *)
Bounds(s, a) ==
  \/ s = "Volts" /\ (a = LowVolts \/ a = T(158, 162, 110, 102))
  \/ s = "Egt"   /\ a = T(13000, 14500, NA, NA)
  \/ s = "DpfDp" /\ a = T(500, 600, NA, NA)
  \/ s = "Def"   /\ a = T(NA, NA, 100, 50)
  \/ s = "OilP"  /\ a = T(NA, NA, 120, 80)
  \/ s \in {"Coolant", "Trans", "Oil"} /\ \E w, c \in Nat \ {0} : a = T(w, c, NA, NA)

(* No profile has an alarm with other bounds.                              *)
LEMMA AlarmsAre ==
  ASSUME NEW k \in Keys, NEW s \in DOMAIN ProfileForKey(k).alarms
  PROVE  Bounds(s, AlarmOf(ProfileForKey(k), s))
  <1>1. PICK i \in 1..8 : k = Registry[i].key /\ ProfileForKey(k) = Registry[i].profile
    BY ProfilesAre
  <1> DEFINE p == Registry[i].profile
  <1>2. s \in DOMAIN p.alarms /\ AlarmOf(ProfileForKey(k), s) = p.alarms[s]
    BY <1>1 DEF AlarmOf
  <1> DEFINE two(w, c) == [Coolant |-> T(w, c, NA, NA), Volts |-> LowVolts]
             volts == [Volts |-> LowVolts]
  <1>3. \/ p.alarms = two(2420, 2550) \/ p.alarms = two(2390, 2480)
        \/ p.alarms = volts \/ p.alarms = GmAlarms
    BY DEF Registry, Generic, GmSierra, Bmw, Audi, Jeep, Ford, StandardPlus
  <1> HIDE DEF p
  <1>4. ASSUME NEW w \in Nat \ {0}, NEW c \in Nat \ {0}, p.alarms = two(w, c) PROVE Bounds(s, p.alarms[s])
    <2>1. s \in {"Coolant", "Volts"}
      BY <1>2, <1>4
    <2> QED
      BY <1>4, <2>1 DEF Bounds
  <1>5. CASE p.alarms = volts
    BY <1>2, <1>5 DEF Bounds
  <1>6. CASE p.alarms = GmAlarms
    <2>1. s \in {"Trans", "Oil", "Coolant", "Volts", "Egt", "DpfDp", "Def", "OilP"}
      BY <1>2, <1>6 DEF GmAlarms
    <2>2. CASE s \in {"Trans", "Oil", "Coolant"}
      <3>1. \E w, c \in Nat \ {0} : GmAlarms[s] = T(w, c, NA, NA)
        <4>1. /\ GmAlarms.Trans = T(2400, 2600, NA, NA)
              /\ GmAlarms.Oil = T(2500, 2650, NA, NA)
              /\ GmAlarms.Coolant = T(2350, 2450, NA, NA)
          BY DEF GmAlarms
        <4> QED
          BY <2>2, <4>1
      <3>2. Bounds(s, GmAlarms[s])
        <4> DEFINE a == GmAlarms[s]
        <4> HIDE DEF a
        <4>1. Bounds(s, a)
          BY <2>2, <3>1 DEF Bounds, a
        <4> QED
          BY <4>1 DEF a
      <3> QED
        BY <1>2, <1>6, <3>2
    <2>3. CASE s \in {"Volts", "Egt", "DpfDp", "Def", "OilP"}
      <3>1. /\ GmAlarms.Volts = T(158, 162, 110, 102)
            /\ GmAlarms.Egt = T(13000, 14500, NA, NA)
            /\ GmAlarms.DpfDp = T(500, 600, NA, NA)
            /\ GmAlarms.Def = T(NA, NA, 100, 50)
            /\ GmAlarms.OilP = T(NA, NA, 120, 80)
        BY DEF GmAlarms
      <3>2. Bounds(s, GmAlarms[s])
        <4> DEFINE a == GmAlarms[s]
        <4> HIDE DEF a
        <4>1. Bounds(s, a)
          BY <2>3, <3>1 DEF Bounds, a
        <4> QED
          BY <4>1 DEF a
      <3> QED
        BY <1>2, <1>6, <3>2
    <2> QED
      BY <2>1, <2>2, <2>3
  <1> QED
    BY <1>2, <1>3, <1>4, <1>5, <1>6

(* What a reply is made of.                                                *)
Byte == 0..255

(* A sensor reads a number.                                                *)
LEMMA HeatInt ==
  ASSUME NEW d, NEW s, d[2 * s + 2] \in Byte, d[2 * s + 3] \in Byte
  PROVE  Heat(d, s) \in Int
  <1> DEFINE x == d[2 * s + 2]
             y == d[2 * s + 3]
  <1>1. Heat(d, s) = (256 * x + y) * 180 - 40000
    BY DEF Heat, Word
  <1> HIDE DEF x, y
  <1>2. x \in Byte /\ y \in Byte
    BY DEF x, y
  <1>3. (256 * x + y) * 180 - 40000 \in Int
    BY <1>2 DEF Byte
  <1> QED
    BY <1>1, <1>3

(* The hottest sensor of a frame is one of its sensors.                    *)
LEMMA Hottest ==
  ASSUME NEW d \in Seq(Byte), Sensors(d) # {}
  PROVE  /\ \E s \in Sensors(d) : decodeEgtMaxF(d) = Heat(d, s)
         /\ \A s \in Sensors(d) : Heat(d, s) <= decodeEgtMaxF(d)
  <1> DEFINE S == Sensors(d)
             M == {Heat(d, s) : s \in S}
  <1>1. \A s \in S : Heat(d, s) \in Int
    <2> SUFFICES ASSUME NEW s \in S PROVE Heat(d, s) \in Int
      OBVIOUS
    <2>1. s \in 0..2 /\ 2 * s + 2 \in 1..Len(d) /\ 2 * s + 3 \in 1..Len(d)
      BY DEF Sensors
    <2>2. d[2 * s + 2] \in Byte /\ d[2 * s + 3] \in Byte
      BY <2>1
    <2> QED
      BY <2>2, HeatInt
  <1>3. \E t \in M : \A s \in S : Heat(d, s) <= t
    <2>1. S \subseteq {0, 1, 2}
      BY DEF Sensors
    <2>2. 0 \in S
      BY DEF Sensors
    <2>3. \E m \in S : \A s \in S : Heat(d, s) <= Heat(d, m)
      <3>1. CASE 1 \notin S
        <4>1. CASE 2 \in S /\ Heat(d, 0) <= Heat(d, 2)
          BY <1>1, <2>1, <3>1, <4>1
        <4>2. CASE 2 \in S /\ ~(Heat(d, 0) <= Heat(d, 2))
          <5>1. Heat(d, 2) <= Heat(d, 0) /\ Heat(d, 0) <= Heat(d, 0)
            BY <1>1, <2>2, <4>2
          <5> QED
            BY <2>1, <2>2, <3>1, <5>1
        <4>3. CASE 2 \notin S
          <5>1. Heat(d, 0) <= Heat(d, 0)
            BY <1>1, <2>2
          <5> QED
            BY <2>1, <2>2, <3>1, <4>3, <5>1
        <4> QED
          BY <4>1, <4>2, <4>3
      <3>2. CASE 1 \in S
        <4>1. PICK m \in {0, 1} : Heat(d, 0) <= Heat(d, m) /\ Heat(d, 1) <= Heat(d, m)
          BY <1>1, <2>2, <3>2
        <4>2. CASE 2 \in S /\ Heat(d, m) <= Heat(d, 2)
          <5>1. /\ Heat(d, 0) <= Heat(d, 2) /\ Heat(d, 1) <= Heat(d, 2)
                /\ Heat(d, 2) <= Heat(d, 2)
            <6>1. Heat(d, 0) \in Int /\ Heat(d, 1) \in Int /\ Heat(d, 2) \in Int
              BY <1>1, <2>2, <3>2, <4>2
            <6> QED
              BY <4>1, <4>2, <6>1
          <5> QED
            BY <2>1, <4>2, <5>1
        <4>3. CASE 2 \in S /\ ~(Heat(d, m) <= Heat(d, 2))
          <5>1. Heat(d, 2) <= Heat(d, m)
            BY <1>1, <2>2, <3>2, <4>1, <4>3
          <5> QED
            BY <2>1, <2>2, <3>2, <4>1, <5>1
        <4>4. CASE 2 \notin S
          BY <1>1, <2>1, <2>2, <3>2, <4>1, <4>4
        <4> QED
          BY <4>2, <4>3, <4>4
      <3> QED
        BY <3>1, <3>2
    <2> HIDE DEF S
    <2> QED
      BY <2>3
  <1>4. decodeEgtMaxF(d) = Max(M) /\ \A s \in S : Heat(d, s) \in M
    BY DEF decodeEgtMaxF, M
  <1>5. \E t \in M : \A u \in M : t >= u
    <2>1. PICK t \in M : \A s \in S : Heat(d, s) <= t
      BY <1>3
    <2>2. \A u \in M : u <= t
      BY <2>1 DEF M
    <2>3. \A u \in M : u \in Int
      BY <1>1 DEF M
    <2>4. \A u \in M : t >= u
      BY <2>2, <2>3
    <2> QED
      BY <2>4
  <1>6. Max(M) \in M /\ \A u \in M : Max(M) >= u
    BY <1>5 DEF Max
  <1>7. \A u \in M : u <= Max(M)
    BY <1>1, <1>6 DEF M
  <1>8. \E s \in S : decodeEgtMaxF(d) = Heat(d, s)
    BY <1>4, <1>6 DEF M
  <1> QED
    BY <1>4, <1>7, <1>8

(* The bytes of a reply that is cut short.                                 *)
LEMMA CutBytes ==
  ASSUME NEW whole \in Seq(Byte), NEW n \in 1..Len(whole)
  PROVE  LET cut == SubSeq(whole, 1, n) IN
         /\ cut \in Seq(Byte) /\ Len(cut) = n /\ n >= 1 /\ Len(whole) >= n
         /\ Len(whole) \in Nat /\ whole[1] \in Byte /\ cut[1] = whole[1]
         /\ \A i \in 1..n : cut[i] = whole[i]
  OBVIOUS

(* A reply that is cut short decodes to nothing, or to what the whole one  *)
(* does; but the volts may lose their low byte, and the hottest sensor may *)
(* be in the part that is lost.                                            *)
LEMMA CutDecodes ==
  ASSUME NEW k, NEW s, s \notin {"Volts", "Egt"},
         NEW whole \in Seq(Byte), NEW n \in 1..Len(whole)
  PROVE  Decode(k, s, SubSeq(whole, 1, n)) \in {{}, Decode(k, s, whole)}
  <1> DEFINE cut == SubSeq(whole, 1, n)
  <1>1. /\ Len(whole) \in Nat /\ Len(cut) = n /\ n >= 1 /\ Len(whole) >= n
        /\ whole[1] \in Byte /\ cut[1] = whole[1] /\ \A i \in 1..n : cut[i] = whole[i]
    BY CutBytes
  <1> HIDE DEF cut
  <1>2. decTempF(k, cut) = decTempF(k, whole)
    BY <1>1 DEF decTempF
  <1>3. decOilPsi(cut) = decOilPsi(whole)
    BY <1>1 DEF decOilPsi
  <1>4. decDpfDp(cut) \in {{}, decDpfDp(whole)}
    BY <1>1 DEF decDpfDp
  <1>5. decDef(cut) \in {{}, decDef(whole)}
    BY <1>1 DEF decDef
  <1>6. Decode(k, s, cut) \in {{}, Decode(k, s, whole)}
    BY <1>2, <1>3, <1>4, <1>5 DEF Decode
  <1> QED
    BY <1>6 DEF cut

(* The volts lose at most a quarter of a volt, which is less than the gap  *)
(* between the two low bounds.                                             *)
LEMMA CutVolts ==
  ASSUME NEW a, a = LowVolts \/ a = T(158, 162, 110, 102),
         NEW whole \in Seq(Byte), NEW n \in 1..Len(whole),
         \A v \in decVolts(whole) : zoneFor(v, a) = "Green"
  PROVE  \A v \in decVolts(SubSeq(whole, 1, n)) : decVolts(whole) = {} \/ zoneFor(v, a) # "Red"
  <1> DEFINE cut == SubSeq(whole, 1, n)
             V(d) == Word(d[1], IF Len(d) > 1 THEN d[2] ELSE 0)
  <1>1. /\ Len(whole) \in Nat /\ Len(cut) = n /\ n >= 1 /\ Len(whole) >= n
        /\ whole[1] \in Byte /\ cut[1] = whole[1] /\ \A i \in 1..n : cut[i] = whole[i]
    BY CutBytes
  <1> HIDE DEF cut
  <1>2. /\ V(whole) \in Nat /\ V(cut) \in Nat
        /\ V(cut) <= V(whole) /\ V(whole) <= V(cut) + 255
    <2>1. whole[1] \in 0..255 /\ (Len(whole) > 1 => whole[2] \in 0..255)
      <3>1. Len(whole) > 1 => whole[2] \in Byte
        BY <1>1
      <3> QED
        BY <1>1, <3>1 DEF Byte
    <2>2. cut[1] = whole[1] /\ (Len(cut) > 1 => Len(whole) > 1 /\ cut[2] = whole[2])
      BY <1>1
    <2>3. /\ V(cut) = 256 * whole[1] + (IF n > 1 THEN whole[2] ELSE 0)
          /\ V(whole) = 256 * whole[1] + (IF Len(whole) > 1 THEN whole[2] ELSE 0)
      BY <1>1, <2>2 DEF Word
    <2> DEFINE x == whole[1]
               y == IF Len(whole) > 1 THEN whole[2] ELSE 0
               z == IF n > 1 THEN whole[2] ELSE 0
    <2>4. x \in 0..255 /\ y \in 0..255 /\ z \in {0, y}
      BY <1>1, <2>1
    <2> HIDE DEF V, x, y, z
    <2>5. V(cut) = 256 * x + z /\ V(whole) = 256 * x + y
      BY <2>3 DEF x, y, z
    <2> QED
      BY <2>4, <2>5
  <1>3. /\ decVolts(whole) = Between(V(whole), 6000, 18000)
        /\ decVolts(cut) = Between(V(cut), 6000, 18000)
    BY <1>1 DEF decVolts
  <1> HIDE DEF V
  <1>4. ASSUME NEW x \in Nat, NEW y \in Nat, y <= x, x <= y + 255, zoneFor(x, a) = "Green"
        PROVE  zoneFor(y, a) # "Red"
    <2>1. CASE a = LowVolts
      BY <1>4, <2>1 DEF zoneFor, LowVolts, T, NA
    <2>2. CASE a = T(158, 162, 110, 102)
      BY <1>4, <2>2 DEF zoneFor, T, NA
    <2> QED
      BY <2>1, <2>2
  <1>5. \A v \in decVolts(cut) : decVolts(whole) = {} \/ zoneFor(v, a) # "Red"
    BY <1>2, <1>3, <1>4 DEF Between
  <1> QED
    BY <1>5 DEF cut

(* Losing sensors never makes the exhaust hotter.                          *)
LEMMA CutEgt ==
  ASSUME NEW a, a = T(13000, 14500, NA, NA),
         NEW whole \in Seq(Byte), NEW n \in 1..Len(whole),
         \A v \in decEgt(whole) : zoneFor(v, a) = "Green"
  PROVE  \A v \in decEgt(SubSeq(whole, 1, n)) : decEgt(whole) = {} \/ zoneFor(v, a) # "Red"
  <1> DEFINE cut == SubSeq(whole, 1, n)
  <1>1. /\ Len(whole) \in Nat /\ Len(cut) = n /\ n >= 1 /\ Len(whole) >= n
        /\ whole[1] \in Byte /\ cut[1] = whole[1] /\ \A i \in 1..n : cut[i] = whole[i]
    BY CutBytes
  <1>2. cut \in Seq(Byte)
    BY CutBytes
  <1> HIDE DEF cut
  <1>3. zoneFor(0, a) # "Red"
    BY DEF zoneFor, T, NA
  <1>4. Sensors(cut) = {} => decodeEgtMaxF(cut) = 0
    BY DEF Sensors, decodeEgtMaxF
  <1>5. ASSUME NEW s \in Sensors(cut)
        PROVE  s \in Sensors(whole) /\ Heat(cut, s) = Heat(whole, s) /\ Heat(cut, s) \in Int
    <2>1. s \in 0..2 /\ 2 * s + 2 \in 1..n /\ 2 * s + 3 \in 1..n
      BY <1>1 DEF Sensors
    <2>2. cut[2 * s + 2] = whole[2 * s + 2] /\ cut[2 * s + 3] = whole[2 * s + 3]
      BY <1>1, <2>1
    <2>3. cut[2 * s + 2] \in Byte /\ cut[2 * s + 3] \in Byte
      BY <1>1, <1>2, <2>1
    <2>4. s \in Sensors(whole)
      BY <1>1, <2>1 DEF Sensors
    <2>5. Heat(cut, s) = Heat(whole, s) /\ Heat(cut, s) \in Int
      BY <2>2, <2>3, HeatInt DEF Heat
    <2> QED
      BY <2>4, <2>5
  <1>6. ASSUME Sensors(cut) # {}
        PROVE  \A v \in decEgt(cut) : decEgt(whole) = {} \/ zoneFor(v, a) # "Red"
    <2>1. PICK s \in Sensors(cut) : decodeEgtMaxF(cut) = Heat(whole, s)
      BY <1>2, <1>5, <1>6, Hottest
    <2>2. /\ decodeEgtMaxF(cut) <= decodeEgtMaxF(whole) /\ decodeEgtMaxF(cut) \in Int
          /\ decodeEgtMaxF(whole) \in Int
      <3>1. PICK m \in Sensors(whole) : decodeEgtMaxF(whole) = Heat(whole, m)
        BY <1>5, Hottest
      <3>2. Heat(whole, m) \in Int
        <4>1. m \in 0..2 /\ 2 * m + 2 \in 1..Len(whole) /\ 2 * m + 3 \in 1..Len(whole)
          BY DEF Sensors
        <4>2. whole[2 * m + 2] \in Byte /\ whole[2 * m + 3] \in Byte
          BY <4>1
        <4> QED
          BY <4>2, HeatInt
      <3> QED
        BY <1>5, <2>1, <3>1, <3>2, Hottest
    <2> QED
      BY <1>1, <2>2 DEF decEgt, Between, zoneFor, T, NA
  <1>7. ASSUME Sensors(cut) = {}
        PROVE  \A v \in decEgt(cut) : decEgt(whole) = {} \/ zoneFor(v, a) # "Red"
    BY <1>3, <1>4, <1>7 DEF decEgt, Between
  <1>8. \A v \in decEgt(cut) : decEgt(whole) = {} \/ zoneFor(v, a) # "Red"
    BY <1>6, <1>7
  <1> QED
    BY <1>8 DEF cut

(* A reply of any length that is in the green as a whole is not in the red *)
(* when it is cut short anywhere.                                          *)
THEOREM CutSilent ==
  ASSUME NEW k \in Keys, NEW s \in DOMAIN ProfileForKey(k).alarms,
         NEW whole \in Seq(Byte), NEW n \in 1..Len(whole),
         ZonesOf(k, s, whole) = {"Green"}
  PROVE  "Red" \notin ZonesOf(k, s, SubSeq(whole, 1, n))
  <1> DEFINE cut == SubSeq(whole, 1, n)
             a == AlarmOf(ProfileForKey(k), s)
  <1>1. Bounds(s, a)
    BY AlarmsAre
  <1>2. /\ \A v \in Decode(k, s, whole) : zoneFor(v, a) = "Green"
        /\ Decode(k, s, whole) # {}
    BY DEF ZonesOf
  <1>3. SUFFICES \A v \in Decode(k, s, cut) : zoneFor(v, a) # "Red"
    BY DEF ZonesOf
  <1> HIDE DEF a
  <1>4. CASE s \notin {"Volts", "Egt"}
    BY <1>2, <1>4, CutDecodes
  <1>5. CASE s = "Volts"
    <2>1. Decode(k, s, whole) = decVolts(whole) /\ Decode(k, s, cut) = decVolts(cut)
      BY <1>5 DEF Decode
    <2>2. a = LowVolts \/ a = T(158, 162, 110, 102)
      BY <1>1, <1>5 DEF Bounds
    <2> HIDE DEF cut
    <2> QED
      BY <1>2, <2>1, <2>2, CutVolts DEF cut
  <1>6. CASE s = "Egt"
    <2>1. Decode(k, s, whole) = decEgt(whole) /\ Decode(k, s, cut) = decEgt(cut)
      BY <1>6 DEF Decode
    <2>2. a = T(13000, 14500, NA, NA)
      BY <1>1, <1>6 DEF Bounds
    <2> HIDE DEF cut
    <2> QED
      BY <1>2, <2>1, <2>2, CutEgt DEF cut
  <1> QED
    BY <1>4, <1>5, <1>6

(* A frame of n pads.                                                      *)
Pads(n, pad) == [i \in 1..n |-> pad]

(* A frame of nothing but pads decodes to nothing or into the green.       *)
LEMMA PadSilent ==
  ASSUME NEW k \in Keys, NEW s \in DOMAIN ProfileForKey(k).alarms,
         NEW n \in 0..8, NEW pad \in {0, 255}, s # "OilP" \/ pad # 0
  PROVE  ZonesOf(k, s, Pads(n, pad)) \subseteq {"Green"}
  <1> DEFINE d == Pads(n, pad)
             a == AlarmOf(ProfileForKey(k), s)
  <1>1. Bounds(s, a)
    BY AlarmsAre
  <1>2. d \in Seq(Byte) /\ Len(d) = n /\ \A i \in 1..n : d[i] = pad
    <2>1. pad \in Byte
      BY DEF Byte
    <2> QED
      BY <2>1 DEF Pads
  <1>3. SUFFICES \A v \in Decode(k, s, d) : zoneFor(v, a) = "Green"
    BY DEF ZonesOf
  <1> HIDE DEF a, d
  <1>4. CASE s = "Volts"
    <2>1. decVolts(d) = {}
      BY <1>2 DEF decVolts, Between, Word
    <2> QED
      BY <1>4, <2>1 DEF Decode
  <1>5. CASE s = "Egt"
    <2>1. \A i \in Sensors(d) : Heat(d, i) = (Word(pad, pad) * 180 - 40000)
      BY <1>2 DEF Sensors, Heat
    <2>2. decodeEgtMaxF(d) \in {0, Word(pad, pad) * 180 - 40000}
      <3>1. CASE Sensors(d) = {}
        BY <3>1 DEF Sensors, decodeEgtMaxF
      <3>2. CASE Sensors(d) # {}
        BY <1>2, <2>1, <3>2, Hottest
      <3> QED
        BY <3>1, <3>2
    <2>3. decEgt(d) \subseteq {0, -40000}
      BY <2>2 DEF decEgt, Between, Word
    <2>4. zoneFor(0, a) = "Green" /\ zoneFor(-40000, a) = "Green"
      BY <1>1, <1>5 DEF Bounds, zoneFor, T, NA
    <2> QED
      BY <1>5, <2>3, <2>4 DEF Decode
  <1>6. CASE s = "DpfDp"
    <2>1. decDpfDp(d) \subseteq {0, -10}
      BY <1>2 DEF decDpfDp, Signed, Word
    <2>2. zoneFor(0, a) = "Green" /\ zoneFor(-10, a) = "Green"
      BY <1>1, <1>6 DEF Bounds, zoneFor, T, NA
    <2> QED
      BY <1>6, <2>1, <2>2 DEF Decode
  <1>7. CASE s = "Def"
    <2>1. decDef(d) \subseteq {100000}
      BY <1>2 DEF decDef
    <2>2. zoneFor(100000, a) = "Green"
      BY <1>1, <1>7 DEF Bounds, zoneFor, T, NA
    <2> QED
      BY <1>7, <2>1, <2>2 DEF Decode
  <1>8. CASE s = "OilP"
    <2>1. decOilPsi(d) = {}
      BY <1>2, <1>8 DEF decOilPsi
    <2> QED
      BY <1>8, <2>1 DEF Decode
  <1>9. CASE s \in {"Coolant", "Trans", "Oil"}
    <2>1. decTempF(k, d) \subseteq {-40000}
      BY <1>2 DEF decTempF
    <2>2. zoneFor(-40000, a) = "Green"
      BY <1>1, <1>9 DEF Bounds, zoneFor, T, NA
    <2> QED
      BY <1>9, <2>1, <2>2 DEF Decode
  <1> QED
    BY <1>1, <1>4, <1>5, <1>6, <1>7, <1>8, <1>9 DEF Bounds

(* Neither padding nor a lost end of a reply alarms, whatever its bytes    *)
(* (gm_sierra_lz0.cpp:17).                                                 *)
THEOREM DropoutSilentHolds == ChoiceSpec => []DropoutSilent
  <1>1. key \in Keys => DropoutSilent
    <2> SUFFICES ASSUME key \in Keys, NEW s \in DOMAIN profile.alarms
                 PROVE  /\ \A n \in 0..8 : \A pad \in {0, 255} :
                             \/ ZonesOf(key, s, [i \in 1..n |-> pad]) \subseteq {"Green"}
                             \/ s = "OilP" /\ pad = 0
                        /\ \A x, y \in Bytes : \A n \in 1..7 :
                             LET whole == <<x, y, x, y, x, y, x>>
                             IN  ZonesOf(key, s, whole) = {"Green"} =>
                                   "Red" \notin ZonesOf(key, s, SubSeq(whole, 1, n))
      BY DEF DropoutSilent
    <2>1. s \in DOMAIN ProfileForKey(key).alarms
      BY DEF profile
    <2>2. \A n \in 0..8 : \A pad \in {0, 255} :
            \/ ZonesOf(key, s, [i \in 1..n |-> pad]) \subseteq {"Green"}
            \/ s = "OilP" /\ pad = 0
      <3>1. \A n \in 0..8 : \A pad \in {0, 255} :
              ZonesOf(key, s, Pads(n, pad)) \subseteq {"Green"} \/ (s = "OilP" /\ pad = 0)
        BY <2>1, PadSilent
      <3> QED
        BY <3>1, Zenon DEF Pads
    <2>3. ASSUME NEW x \in Bytes, NEW y \in Bytes, NEW n \in 1..7,
                 ZonesOf(key, s, <<x, y, x, y, x, y, x>>) = {"Green"}
          PROVE  "Red" \notin ZonesOf(key, s, SubSeq(<<x, y, x, y, x, y, x>>, 1, n))
      <3> DEFINE whole == <<x, y, x, y, x, y, x>>
      <3>1. x \in Byte /\ y \in Byte
        BY BytesAssumption DEF Byte
      <3>2. whole \in Seq(Byte) /\ Len(whole) = 7
        BY <3>1
      <3>3. ZonesOf(key, s, whole) = {"Green"}
        BY <2>3
      <3> HIDE DEF whole
      <3>4. "Red" \notin ZonesOf(key, s, SubSeq(whole, 1, n))
        BY <2>1, <3>2, <3>3, CutSilent
      <3> QED
        BY <3>4 DEF whole
    <2> QED
      BY <2>2, <2>3
  <1>2. TypeOK => key \in Keys
    BY DEF TypeOK
  <1> QED
    BY <1>1, <1>2, AlwaysARow, PTL
=============================================================================
