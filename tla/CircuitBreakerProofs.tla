------------------------ MODULE CircuitBreakerProofs ------------------------
(***************************************************************************)
(* A circuit opens for the first time only when its burst is used up, and  *)
(* is blamed on a recent source, for any number of goroutines, targets and *)
(* sources, any configuration of the bucket and any bound on how far       *)
(* goroutines overtake each other between RecordEvent's locks.             *)
(***************************************************************************)
EXTENDS CircuitBreaker, FiniteSetTheorems, WellFoundedInduction, TLAPS

-----------------------------------------------------------------------------
(* The inductive invariant.                                                *)

\* What is refilled in time x.
Refill(x) == Rate * x

\* How much of an age may be due to overtaking goroutines.
Lag(age) == IF age < MaxLag THEN age ELSE MaxLag

\* A closed circuit of a bucket that never was empty had all of its burst.
BurstInv(s) ==
    /\ s.tokens >= -Refill(Lag(s.lastRefill))
    /\ ~s.isOpen /\ ~s.closed => s.tokens >= Capacity - s.seen - Refill(Lag(s.lastRefill))
    /\ s.isOpen /\ ~s.closed => s.seen > Capacity - Refill(MaxLag)

\* The ring buffer holds sources since the circuit was last closed, and so does the
\* blame, which a circuit keeps that closes and opens again at once.
RingInv(s) ==
    /\ \A i \in 0 .. RingSize - 1 : s.recentSources[i] \in s.causes \cup {None}
    /\ s.isOpen => s.triggerSource \in s.causes

\* Everything the invariant says of one target's state.
Good(s) == s \in State /\ BurstInv(s) /\ RingInv(s)

StatesInv ==
    /\ state \in [Targets -> {None} \cup State]
    /\ \A t \in Targets : Known(t) => Good(state[t])

\* A worker's pointer is to the state that is in b.targets, unless it lost it.
CallsInv ==
    /\ pc \in [Workers -> {"idle", "decide", "record"}]
    /\ call \in [Workers -> {None} \cup Call]
    /\ \A w \in Workers :
           IF pc[w] = "idle" THEN call[w] = None
           ELSE /\ call[w] # None
                /\ call[w].held => pc[w] = "record" /\ Known(call[w].target)

IndInv == StatesInv /\ CallsInv

-----------------------------------------------------------------------------
(* Arithmetic.                                                             *)

LEMMA Constants ==
    /\ Capacity \in Nat /\ Rate \in Nat /\ Cooldown \in Nat /\ HalfOpenInterval \in Nat
    /\ Token \in Nat \ {0} /\ RingSize \in Nat \ {0}
    /\ MaxLag \in Nat /\ ExpireAfter \in Nat /\ AgeCap \in Nat
    /\ AgeCap > MaxLag
  BY BreakerAssumption

LEMMA RefillFacts ==
    ASSUME NEW x \in Int, NEW y \in Int
    PROVE  /\ Refill(x) \in Int
           /\ Refill(x - y) = Refill(x) - Refill(y)
           /\ x <= y => Refill(x) <= Refill(y)
           /\ Refill(0) = 0
<1>1. Rate \in Int /\ Rate >= 0
  BY Constants
<1>2. ASSUME NEW a \in Int, NEW b \in Int, a >= 0, b >= 0 PROVE a * b >= 0
  BY <1>2
<1>3. Rate * (y - x) = Rate * y - Rate * x /\ Rate * (x - y) = Rate * x - Rate * y
  BY <1>1
<1>4. x <= y => Rate * (y - x) >= 0
  BY <1>1, <1>2
<1>5. Rate * x \in Int /\ Rate * y \in Int /\ Rate * 0 = 0
  BY <1>1
<1>6. QED
  BY <1>1, <1>3, <1>4, <1>5 DEF Refill

LEMMA LagFacts ==
    ASSUME NEW age \in Age
    PROVE  /\ age \in Int /\ Lag(age) \in Int
           /\ 0 <= Lag(age) /\ Lag(age) <= age /\ Lag(age) <= MaxLag
           /\ Refill(Lag(age)) \in Int /\ Refill(MaxLag) \in Int /\ Refill(age) \in Int
           /\ 0 <= Refill(Lag(age)) /\ Refill(Lag(age)) <= Refill(age)
           /\ Refill(Lag(age)) <= Refill(MaxLag)
           /\ age <= MaxLag => Lag(age) = age
<1>1. /\ age \in Int /\ Lag(age) \in Int
      /\ 0 <= Lag(age) /\ Lag(age) <= age /\ Lag(age) <= MaxLag
      /\ MaxLag \in Int
      /\ age <= MaxLag => Lag(age) = age
  BY Constants DEF Lag, Age
<1> HIDE DEF Lag
<1>2. QED
  BY <1>1, RefillFacts, SMTT(30)

LEMMA MinOfTwo ==
    ASSUME NEW a \in Int, NEW b \in Int
    PROVE  Min({a, b}) = IF a <= b THEN a ELSE b
<1> DEFINE m == IF a <= b THEN a ELSE b
<1>1. m \in {a, b} /\ \A y \in {a, b} : m <= y
  OBVIOUS
<1>2. \A x \in {a, b} : (\A y \in {a, b} : x <= y) => x = m
  OBVIOUS
<1>3. Min({a, b}) \in {a, b} /\ \A y \in {a, b} : Min({a, b}) <= y
  BY <1>1 DEF Min
<1>4. QED
  BY <1>2, <1>3

\* A set of numbers up to n has a greatest one: the least of the intervals from one
\* of them to n begins with it.
LEMMA GreatestExists ==
    ASSUME NEW n \in Nat, NEW S \in SUBSET (0 .. n), S # {}
    PROVE  \E x \in S : \A y \in S : x >= y
<1> DEFINE U == 0 .. n
           T == {x .. n : x \in S}
<1>1. IsWellFoundedOn(StrictSubsetOrdering(U), SUBSET U)
  <2>1. IsFiniteSet(U)
    BY FS_Interval
  <2> HIDE DEF U
  <2>2. FiniteSubsetsOf(U) = SUBSET U
    BY <2>1, FS_FiniteSubsetsOfFinite
  <2>3. QED
    BY <2>2, FS_StrictSubsetOrderingWellFounded
<1>2. T \subseteq SUBSET U /\ T # {}
  <2>1. \A x \in S : x .. n \subseteq U
    OBVIOUS
  <2>2. PICK x \in S : TRUE
    OBVIOUS
  <2>3. x .. n \in T
    OBVIOUS
  <2>4. QED
    BY <2>1, <2>3
<1>3. \E m \in T : \A k \in T : <<k, m>> \notin StrictSubsetOrdering(U)
  <2> HIDE DEF T, U
  <2> QED BY <1>1, <1>2, WFMin
<1>4. PICK x \in S : \A k \in T : <<k, x .. n>> \notin StrictSubsetOrdering(U)
  BY <1>3
<1>5. ASSUME NEW y \in S, y > x PROVE FALSE
  <2>1. y .. n \in T /\ y .. n \in SUBSET U /\ x .. n \in SUBSET U
    BY <1>2
  <2>2. x \in x .. n /\ x \notin y .. n /\ y .. n \subseteq x .. n
    BY <1>5
  <2>3. <<y .. n, x .. n>> \in StrictSubsetOrdering(U)
    BY <2>1, <2>2 DEF StrictSubsetOrdering
  <2>4. QED BY <1>4, <2>1, <2>3
<1>6. QED
  BY <1>5

-----------------------------------------------------------------------------
(* The operators on a target's state.                                      *)

\* What the refill of RecordEvent leaves in the bucket.
LEMMA RefilledTokens ==
    ASSUME NEW tokens \in Int, NEW age \in Age, NEW now \in 0 .. MaxLag, NEW low \in Int,
           low <= Capacity, tokens <= Capacity, tokens >= low - Refill(Lag(age))
    PROVE  /\ Min({Capacity, tokens + Rate * (age - now)}) \in Int
           /\ Min({Capacity, tokens + Rate * (age - now)}) <= Capacity
           /\ Min({Capacity, tokens + Rate * (age - now)}) >= low - Refill(now)
<1> DEFINE new == tokens + Rate * (age - now)
<1>1. age \in Int /\ now \in Int /\ Lag(age) \in Int /\ Lag(age) <= age /\ Capacity \in Int /\ 0 <= now
  BY Constants DEF Age, Lag
<1>2. Refill(age - now) = Refill(age) - Refill(now) /\ Refill(age) \in Int /\ Refill(now) \in Int
  BY <1>1, RefillFacts
<1>3. Refill(Lag(age)) <= Refill(age) /\ Refill(Lag(age)) \in Int
  BY <1>1, RefillFacts
<1>4. Refill(now) >= 0
  BY <1>1, RefillFacts
<1>5. new \in Int /\ new = tokens + Refill(age) - Refill(now)
  BY <1>1, <1>2 DEF Refill
<1>6. Min({Capacity, new}) = IF Capacity <= new THEN Capacity ELSE new
  BY <1>1, <1>5, MinOfTwo
<1>7. /\ Min({Capacity, new}) \in Int /\ Min({Capacity, new}) <= Capacity
      /\ Min({Capacity, new}) >= low - Refill(now)
  <2> HIDE DEF new
  <2> QED BY <1>1, <1>2, <1>3, <1>4, <1>5, <1>6
<1>8. QED
  BY <1>7

\* The state after the refill and the probe.
Topped(s, c) == Probed(Refilled(s, c), c)

LEMMA RefilledFields ==
    ASSUME NEW s \in State, NEW c \in Call, s.tokens >= -Refill(Lag(s.lastRefill))
    PROVE  LET r == Topped(s, c) IN
           /\ r \in State
           /\ r.tokens = Min({Capacity, s.tokens + Rate * (s.lastRefill - c.now)})
           /\ r.tokens >= -Refill(c.now)
           /\ r.lastRefill = c.now
           /\ r.recentSources = [s.recentSources EXCEPT ![s.recentIdx] = c.source]
           /\ r.isOpen = s.isOpen /\ r.closed = s.closed /\ r.openedAt = s.openedAt
           /\ r.triggerSource = s.triggerSource
           /\ r.seen = Min({Capacity + 1, s.seen + Token})
           /\ r.causes = s.causes \cup {c.source}
<1> DEFINE r == Topped(s, c)
           tk == Min({Capacity, s.tokens + Rate * (s.lastRefill - c.now)})
           rs == [s.recentSources EXCEPT ![s.recentIdx] = c.source]
           ix == (s.recentIdx + 1) % RingSize
           sn == Min({Capacity + 1, s.seen + Token})
<1>1. /\ s.tokens \in -(Rate * MaxLag) .. Capacity /\ s.lastRefill \in Age /\ c.now \in 0 .. MaxLag
      /\ s.recentIdx \in 0 .. RingSize - 1 /\ s.seen \in 0 .. Capacity + 1
      /\ s.recentSources \in [0 .. RingSize - 1 -> Sources \cup {None}] /\ c.source \in Sources
      /\ s.causes \in SUBSET Sources /\ s.isOpen \in BOOLEAN /\ s.closed \in BOOLEAN
      /\ s.openedAt \in Age /\ s.lastAllowed \in Age /\ s.triggerSource \in Sources \cup {None}
  BY DEF State, Call
<1>2. Rate * MaxLag = Refill(MaxLag) /\ Refill(MaxLag) \in Int /\ Refill(c.now) \in Int
      /\ Refill(c.now) <= Refill(MaxLag)
  BY <1>1, Constants, RefillFacts DEF Refill
<1>3. tk \in -(Rate * MaxLag) .. Capacity /\ tk >= -Refill(c.now)
  <2>1. s.tokens \in Int /\ s.tokens <= Capacity /\ s.tokens >= 0 - Refill(Lag(s.lastRefill)) /\ 0 <= Capacity
    <3>1. Refill(Lag(s.lastRefill)) \in Int
      BY <1>1, LagFacts
    <3>2. s.tokens \in Int /\ s.tokens <= Capacity
      BY <1>1, <1>2, Constants
    <3>3. s.tokens >= 0 - Refill(Lag(s.lastRefill))
      BY <3>1, <3>2
    <3>4. QED
      BY <3>2, <3>3, Constants
  <2>2. tk \in Int /\ tk <= Capacity /\ tk >= 0 - Refill(c.now)
    BY <1>1, <2>1, RefilledTokens
  <2> HIDE DEF tk
  <2>3. QED
    BY <1>2, <2>2, Constants
<1>4. sn \in 0 .. Capacity + 1
  <2>1. sn = IF Capacity + 1 <= s.seen + Token THEN Capacity + 1 ELSE s.seen + Token
    BY <1>1, Constants, MinOfTwo
  <2>2. QED
    BY <1>1, <2>1, Constants
<1>5. ix \in 0 .. RingSize - 1
  BY <1>1, Constants, SMTT(30)
<1>6. rs \in [0 .. RingSize - 1 -> Sources \cup {None}]
  BY <1>1
<1>7. c.now \in Age
  BY <1>1, Constants DEF Age
<1>8. Refilled(s, c) = [s EXCEPT !.tokens = tk, !.lastRefill = c.now, !.recentSources = rs,
                                 !.recentIdx = ix, !.seen = sn, !.causes = s.causes \cup {c.source}]
  BY DEF Refilled
<1>9. /\ r \in State
      /\ r.tokens = tk /\ r.lastRefill = c.now /\ r.recentSources = rs
      /\ r.isOpen = s.isOpen /\ r.closed = s.closed /\ r.openedAt = s.openedAt
      /\ r.triggerSource = s.triggerSource
      /\ r.seen = sn /\ r.causes = s.causes \cup {c.source}
  <2> HIDE DEF tk, rs, ix, sn
  <2>1. s.causes \cup {c.source} \in SUBSET Sources
    BY <1>1
  <2>2. QED
    BY <1>1, <1>3, <1>4, <1>5, <1>6, <1>7, <1>8, <2>1, ZenonT(40) DEF Topped, Probed, State
<1>10. QED
  BY <1>3, <1>9

\* The source a circuit is blamed on is in the ring buffer, unless that is empty.
LEMMA MostFrequentIsRecent ==
    ASSUME NEW ring \in [0 .. RingSize - 1 -> Sources \cup {None}], NEW old,
           NEW i \in 0 .. RingSize - 1, ring[i] # None
    PROVE  \E j \in 0 .. RingSize - 1 : ring[j] = MostFrequent(ring, old) /\ ring[j] # None
<1> DEFINE D == 0 .. RingSize - 1
           seen == {ring[j] : j \in D} \ {None}
           n(src) == Cardinality(Occurrences(ring, src))
           top == {src \in seen : \A other \in seen : n(src) >= n(other)}
           last(src) == Max(Occurrences(ring, src))
<1>1. DOMAIN ring = D /\ ring[i] \in seen
  OBVIOUS
<1>2. IsFiniteSet(D) /\ Cardinality(D) = RingSize /\ RingSize \in Nat
  BY Constants, FS_Interval
<1>3. \A src : Occurrences(ring, src) \subseteq D
  BY <1>1 DEF Occurrences
<1>4. \A src : n(src) \in 0 .. RingSize
  <2>1. SUFFICES ASSUME NEW src PROVE n(src) \in 0 .. RingSize
    OBVIOUS
  <2> DEFINE O == Occurrences(ring, src)
  <2>2. O \in SUBSET D
    BY <1>3
  <2> HIDE DEF O, D
  <2>3. IsFiniteSet(O) /\ Cardinality(O) <= Cardinality(D)
    BY <1>2, <2>2, FS_Subset
  <2>4. Cardinality(O) \in Nat
    BY <2>3, FS_CardinalityType
  <2>5. QED
    BY <1>2, <2>3, <2>4 DEF O
<1>5. top # {}
  <2> DEFINE N == {n(src) : src \in seen}
  <2> HIDE DEF n, seen
  <2>1. N \in SUBSET (0 .. RingSize) /\ N # {}
    BY <1>1, <1>4
  <2>2. \E x \in N : \A y \in N : x >= y
    BY <1>2, <2>1, GreatestExists
  <2>3. PICK src \in seen : \A y \in N : n(src) >= y
    BY <2>2
  <2>4. \A other \in seen : n(src) >= n(other)
    BY <2>3
  <2>5. QED
    BY <2>4
<1>6. \E src \in top : \A other \in top : last(src) >= last(other)
  <2>1. \A src \in seen : last(src) \in D
    <3>1. SUFFICES ASSUME NEW src \in seen PROVE last(src) \in D
      OBVIOUS
    <3> DEFINE O == Occurrences(ring, src)
    <3>2. PICK j \in D : ring[j] = src
      OBVIOUS
    <3>3. O # {} /\ O \subseteq D
      BY <1>1, <1>3, <3>2 DEF Occurrences
    <3>4. \E x \in O : \A y \in O : x >= y
      <4>1. RingSize - 1 \in Nat
        BY Constants
      <4> HIDE DEF O
      <4>2. QED BY <3>3, <4>1, GreatestExists
    <3> HIDE DEF O
    <3>5. Max(O) \in O
      BY <3>4 DEF Max
    <3>6. QED
      BY <3>3, <3>5 DEF O
  <2> DEFINE L == {last(src) : src \in top}
  <2>2. top \subseteq seen
    OBVIOUS
  <2> HIDE DEF last, top, seen
  <2>3. L \in SUBSET (0 .. RingSize - 1) /\ L # {}
    BY <1>5, <2>1, <2>2
  <2>4. \E x \in L : \A y \in L : x >= y
    <3>1. RingSize - 1 \in Nat
      BY Constants
    <3> HIDE DEF L
    <3>2. QED BY <2>3, <3>1, GreatestExists
  <2>5. QED
    BY <2>4
<1>7. MostFrequent(ring, old) = CHOOSE src \in top : \A other \in top : last(src) >= last(other)
  BY <1>1 DEF MostFrequent
<1>8. MostFrequent(ring, old) \in top
  <2> HIDE DEF top, last
  <2> QED BY <1>6, <1>7
<1>9. QED
  BY <1>8

LEMMA NewIsGood == Good(NewState)
<1>1. /\ Capacity \in Nat /\ Rate * MaxLag = Refill(MaxLag) /\ Refill(MaxLag) \in Int
      /\ Refill(MaxLag) >= 0 /\ 0 \in Age /\ 0 \in 0 .. RingSize - 1
  BY Constants, RefillFacts DEF Refill, Age
<1>2. NewState \in State
  <2>1. Capacity \in -(Rate * MaxLag) .. Capacity
    BY <1>1
  <2>2. 0 \in 0 .. Capacity + 1
    BY <1>1
  <2>3. [j \in 0 .. RingSize - 1 |-> None] \in [0 .. RingSize - 1 -> Sources \cup {None}]
    OBVIOUS
  <2>4. QED
    BY <1>1, <2>1, <2>2, <2>3 DEF NewState, State
<1>3. Lag(0) = 0 /\ Refill(0) = 0
  BY <1>1, Constants, LagFacts, RefillFacts
<1>4. BurstInv(NewState)
  BY <1>1, <1>3 DEF NewState, BurstInv
<1>5. QED
  BY <1>2, <1>4 DEF Good, RingInv, NewState

LEMMA RecordedIsGood ==
    ASSUME NEW s \in State, NEW c \in Call, Good(s)
    PROVE  Good(Recorded(s, c))
<1> DEFINE r == Topped(s, c)
           L == s.lastRefill
           n == c.now
<1> USE DEF Good
<1>1. /\ s.tokens \in Int /\ s.tokens <= Capacity /\ L \in Age /\ n \in 0 .. MaxLag /\ n \in Age
      /\ s.openedAt \in Age /\ s.seen \in 0 .. Capacity + 1
      /\ s.recentSources \in [0 .. RingSize - 1 -> Sources \cup {None}] /\ c.source \in Sources
      /\ s.recentIdx \in 0 .. RingSize - 1 /\ s.isOpen \in BOOLEAN /\ s.closed \in BOOLEAN
      /\ s.causes \in SUBSET Sources
  <2>1. Rate * MaxLag \in Int /\ Capacity \in Int
    BY Constants
  <2>2. QED
    BY <2>1, Constants DEF State, Call, Age
<1>2. /\ r \in State
      /\ r.tokens = Min({Capacity, s.tokens + Rate * (L - n)})
      /\ r.tokens >= -Refill(n)
      /\ r.lastRefill = n
      /\ r.recentSources = [s.recentSources EXCEPT ![s.recentIdx] = c.source]
      /\ r.isOpen = s.isOpen /\ r.closed = s.closed /\ r.openedAt = s.openedAt
      /\ r.triggerSource = s.triggerSource
      /\ r.seen = Min({Capacity + 1, s.seen + Token})
      /\ r.causes = s.causes \cup {c.source}
  <2>1. s.tokens >= -Refill(Lag(L))
    BY DEF BurstInv
  <2>2. QED
    BY <2>1, RefilledFields
<1> HIDE DEF r
<1>3. /\ r.tokens \in Int /\ r.tokens <= Capacity
      /\ r.seen = IF Capacity + 1 <= s.seen + Token THEN Capacity + 1 ELSE s.seen + Token
  <2>1. Rate * MaxLag \in Int
    BY Constants
  <2>2. QED
    BY <1>1, <1>2, <2>1, Constants, MinOfTwo, SMTT(30) DEF State
<1>4. /\ L \in Int /\ n \in Int /\ s.openedAt \in Int /\ n >= 0 /\ n <= MaxLag
      /\ Lag(n) = n /\ Refill(n) \in Int /\ 0 <= Refill(n) /\ Refill(n) <= Refill(MaxLag)
      /\ Refill(MaxLag) \in Int /\ Refill(Lag(L)) \in Int
  <2>1. L \in Age /\ n \in Age /\ s.openedAt \in Age /\ n <= MaxLag
    BY <1>1
  <2> HIDE DEF L, n
  <2>2. L \in Int /\ Refill(Lag(L)) \in Int
    BY <2>1, LagFacts
  <2>3. /\ n \in Int /\ Lag(n) = n /\ 0 <= Lag(n) /\ Refill(Lag(n)) \in Int
        /\ 0 <= Refill(Lag(n)) /\ Refill(Lag(n)) <= Refill(MaxLag) /\ Refill(MaxLag) \in Int
    BY <2>1, LagFacts
  <2>4. s.openedAt \in Int
    BY <2>1, LagFacts
  <2>5. QED
    BY <2>1, <2>2, <2>3, <2>4
<1>4a. s.tokens \in Int /\ s.seen \in Int /\ s.seen >= 0 /\ s.seen <= Capacity + 1 /\ Capacity \in Int
  BY <1>1, Constants
<1>5. ~s.isOpen /\ ~s.closed => r.tokens >= Capacity - s.seen - Refill(n)
  <2>1. SUFFICES ASSUME ~s.isOpen, ~s.closed PROVE r.tokens >= Capacity - s.seen - Refill(n)
    OBVIOUS
  <2> DEFINE low == Capacity - s.seen
  <2>2. low \in Int /\ low <= Capacity
    BY <1>1, Constants
  <2>3. s.tokens >= low - Refill(Lag(L))
    BY <2>1 DEF BurstInv
  <2> HIDE DEF low
  <2>4. r.tokens >= low - Refill(n)
    BY <1>1, <1>2, <2>2, <2>3, RefilledTokens
  <2>5. QED
    BY <2>4 DEF low
<1>6. /\ \A i \in 0 .. RingSize - 1 : r.recentSources[i] \in r.causes \cup {None}
      /\ r.recentSources[s.recentIdx] = c.source /\ c.source # None
      /\ r.isOpen => r.triggerSource \in r.causes
      /\ r.recentSources \in [0 .. RingSize - 1 -> Sources \cup {None}]
  BY <1>1, <1>2, BreakerAssumption DEF RingInv
<1>8. CASE ~r.isOpen
  <2>1. Recorded(s, c) = Consumed(r, c)
    BY <1>8 DEF Recorded, Topped, r
  <2> DEFINE q == Consumed(r, c)
  <2>2. CASE r.tokens >= Token
    <3>1. q = [r EXCEPT !.tokens = r.tokens - Token]
      BY <2>2 DEF Consumed
    <3> HIDE DEF q
    <3>2. q \in State /\ q.tokens = r.tokens - Token
      <4>1. r.tokens - Token \in -(Rate * MaxLag) .. Capacity
        <5>1. -(Rate * MaxLag) \in Int /\ -(Rate * MaxLag) <= 0
          BY Constants, RefillFacts, <1>4 DEF Refill
        <5>2. QED BY <1>3, <2>2, <5>1, Constants
      <4>2. QED
        BY <1>2, <3>1, <4>1 DEF State
    <3>3. /\ q.lastRefill = r.lastRefill /\ q.isOpen = r.isOpen /\ q.closed = r.closed /\ q.seen = r.seen
          /\ q.recentSources = r.recentSources /\ q.causes = r.causes
      BY <1>2, <3>1 DEF State
    <3>4. BurstInv(q)
      <4>1. q.tokens >= -Refill(Lag(q.lastRefill))
        BY <1>2, <1>3, <1>4, <2>2, <3>2, <3>3, Constants
      <4>2. ~s.closed => q.tokens >= Capacity - r.seen - Refill(n)
        BY <1>4a, <1>2, <1>3, <1>4, <1>5, <1>8, <2>2, <3>2, Constants
      <4>3. QED
        BY <1>2, <1>4, <1>8, <3>3, <4>1, <4>2 DEF BurstInv
    <3>5. RingInv(q)
      BY <1>6, <1>8, <3>3 DEF RingInv
    <3>6. QED
      BY <2>1, <3>2, <3>4, <3>5 DEF q
  <2>3. CASE ~(r.tokens >= Token)
    <3> DEFINE src == MostFrequent(r.recentSources, r.triggerSource)
    <3>1. q = [r EXCEPT !.isOpen = TRUE, !.openedAt = n, !.lastAllowed = n, !.triggerSource = src]
      BY <2>3 DEF Consumed
    <3>2. src \in r.causes
      BY <1>1, <1>6, MostFrequentIsRecent
    <3> HIDE DEF q, src
    <3>3. q \in State
      <4>1. r.causes \subseteq Sources
        BY <1>2 DEF State
      <4>2. QED
        BY <1>1, <1>2, <3>1, <3>2, <4>1 DEF State
    <3>4. /\ q.lastRefill = r.lastRefill /\ q.isOpen = TRUE /\ q.closed = r.closed /\ q.seen = r.seen
          /\ q.recentSources = r.recentSources /\ q.causes = r.causes /\ q.tokens = r.tokens
          /\ q.openedAt = n /\ q.triggerSource = src
      BY <1>2, <3>1 DEF State
    <3>5. BurstInv(q)
      <4>1. q.tokens >= -Refill(Lag(q.lastRefill))
        BY <1>2, <1>4, <3>4
      <4>2. ~s.closed => r.seen > Capacity - Refill(MaxLag)
        BY <1>4a, <1>3, <1>4, <1>5, <1>8, <1>2, <2>3, Constants
      <4>3. QED
        BY <1>2, <3>4, <4>1, <4>2 DEF BurstInv
    <3>6. RingInv(q)
      BY <1>6, <3>2, <3>4 DEF RingInv
    <3>7. QED
      BY <2>1, <3>3, <3>5, <3>6 DEF q
  <2>4. QED
    BY <2>2, <2>3
<1>9. CASE r.isOpen /\ CooledDown(r, c)
  <2> DEFINE k == Closed(r)
             empty == [i \in 0 .. RingSize - 1 |-> None]
  <2>1. Recorded(s, c) = Reclosed(r, c)
    BY <1>9 DEF Recorded, Topped, r
  <2>2. 0 \in 0 .. RingSize - 1
    BY Constants
  <2>3. /\ k \in State /\ k.tokens = r.tokens /\ k.lastRefill = n /\ k.isOpen = FALSE /\ k.closed = TRUE
        /\ k.recentSources = empty /\ k.triggerSource = r.triggerSource /\ k.causes = r.causes
    BY <1>2, <2>2 DEF Closed, State
  <2> HIDE DEF k
  <2>4. CASE r.tokens >= Token
    <3> DEFINE q == [k EXCEPT !.tokens = r.tokens - Token]
               e == [q EXCEPT !.causes = {}]
    <3>1. Consumed(k, c) = q
      BY <2>3, <2>4 DEF Consumed
    <3>2. r.tokens - Token \in -(Rate * MaxLag) .. Capacity
      <4>1. -(Rate * MaxLag) \in Int /\ -(Rate * MaxLag) <= 0
        BY Constants, RefillFacts, <1>4 DEF Refill
      <4>2. QED BY <1>3, <2>4, <4>1, Constants
    <3>3. q.isOpen = FALSE
      BY <2>3 DEF State
    <3>4. Recorded(s, c) = e
      BY <2>1, <3>1, <3>3 DEF Reclosed, k
    <3>5. /\ e \in State /\ e.tokens = r.tokens - Token /\ e.lastRefill = n /\ e.isOpen = FALSE /\ e.closed = TRUE
          /\ e.recentSources = empty
      BY <2>3, <3>2 DEF State
    <3> HIDE DEF e
    <3>6. BurstInv(e)
      BY <1>3, <1>4, <2>4, <3>5, Constants DEF BurstInv
    <3>7. RingInv(e)
      BY <3>5 DEF RingInv
    <3>8. QED
      BY <3>4, <3>5, <3>6, <3>7
  <2>5. CASE ~(r.tokens >= Token)
    <3> DEFINE q == [k EXCEPT !.isOpen = TRUE, !.openedAt = n, !.lastAllowed = n,
                              !.triggerSource = r.triggerSource]
    <3>1. MostFrequent(k.recentSources, k.triggerSource) = r.triggerSource
      <4>1. DOMAIN empty = 0 .. RingSize - 1 /\ \A i \in 0 .. RingSize - 1 : empty[i] = None
        OBVIOUS
      <4> HIDE DEF empty
      <4>2. {empty[i] : i \in DOMAIN empty} \ {None} = {}
        BY <4>1
      <4>3. QED BY <2>3, <4>2 DEF MostFrequent
    <3>2. Consumed(k, c) = q
      BY <2>3, <2>5, <3>1 DEF Consumed
    <3>3. /\ q \in State /\ q.isOpen = TRUE /\ q.tokens = r.tokens /\ q.lastRefill = n /\ q.closed = TRUE
          /\ q.recentSources = empty /\ q.triggerSource = r.triggerSource /\ q.causes = r.causes
      BY <1>1, <1>2, <2>3 DEF State
    <3>4. Recorded(s, c) = q
      BY <2>1, <3>2, <3>3 DEF Reclosed, k
    <3> HIDE DEF q
    <3>5. BurstInv(q)
      BY <1>2, <1>3, <1>4, <3>3 DEF BurstInv
    <3>6. RingInv(q)
      BY <1>6, <1>9, <3>3 DEF RingInv
    <3>7. QED
      BY <3>3, <3>4, <3>5, <3>6
  <2>6. QED
    BY <2>4, <2>5
<1>10. CASE r.isOpen /\ ~CooledDown(r, c)
  <2>1. Recorded(s, c) = r
    BY <1>10 DEF Recorded, Topped, r
  <2>2. BurstInv(r)
    <3>1. s.isOpen
      BY <1>2, <1>10
    <3>2. ~s.closed => s.seen > Capacity - Refill(MaxLag)
      BY <3>1 DEF BurstInv
    <3>3. QED
      BY <1>1, <1>2, <1>3, <1>4, <3>1, <3>2, Constants, SMTT(30) DEF BurstInv
  <2>3. QED
    BY <1>2, <1>6, <2>1, <2>2 DEF RingInv
<1>11. QED
  BY <1>8, <1>9, <1>10

\* A state when time goes on.
Aged(s) == [s EXCEPT !.lastRefill = Older(@), !.openedAt = Older(@), !.lastAllowed = Older(@)]

LEMMA OlderFacts ==
    ASSUME NEW age \in Age
    PROVE  Older(age) \in Age /\ Lag(age) <= Lag(Older(age))
  BY Constants DEF Age, Older, Lag

LEMMA AgedIsGood ==
    ASSUME NEW s \in State, Good(s)
    PROVE  Good(Aged(s))
<1> DEFINE o == Aged(s)
<1>1. /\ s.tokens \in Int /\ s.tokens >= -Refill(MaxLag) /\ s.lastRefill \in Age /\ s.openedAt \in Age
      /\ s.lastAllowed \in Age /\ s.seen \in Int /\ Capacity \in Int
  <2>1. Rate * MaxLag \in Int /\ Capacity \in Int
    BY Constants
  <2>2. QED
    BY <2>1, Constants DEF State, Refill
<1>2. /\ o \in State /\ o.tokens = s.tokens /\ o.seen = s.seen /\ o.isOpen = s.isOpen /\ o.closed = s.closed
      /\ o.recentSources = s.recentSources /\ o.causes = s.causes /\ o.triggerSource = s.triggerSource
      /\ o.lastRefill = Older(s.lastRefill) /\ o.openedAt = Older(s.openedAt)
  BY <1>1, OlderFacts DEF Aged, State
<1> HIDE DEF o
<1>3. BurstInv(o)
  <2> DEFINE a == Refill(Lag(s.lastRefill))
             b == Refill(Lag(o.lastRefill))
  <2>1. a \in Int /\ b \in Int /\ a <= b
    <3>1. o.lastRefill \in Age /\ Lag(s.lastRefill) <= Lag(o.lastRefill)
      BY <1>1, <1>2, OlderFacts
    <3>2. Lag(s.lastRefill) \in Int /\ Lag(o.lastRefill) \in Int
      BY <1>1, <3>1, LagFacts
    <3>3. QED
      BY <3>1, <3>2, RefillFacts
  <2>2. /\ s.tokens >= -a
        /\ ~s.isOpen /\ ~s.closed => s.tokens >= Capacity - s.seen - a
        /\ s.isOpen /\ ~s.closed => s.seen > Capacity - Refill(MaxLag)
    BY DEF Good, BurstInv
  <2> HIDE DEF a, b
  <2>3. o.tokens >= -b
    BY <1>1, <1>2, <2>1, <2>2
  <2>4. ~o.isOpen /\ ~o.closed => o.tokens >= Capacity - o.seen - b
    BY <1>1, <1>2, <2>1, <2>2
  <2>5. QED
    BY <1>2, <2>2, <2>3, <2>4 DEF BurstInv, b
<1>4. RingInv(o)
  BY <1>2 DEF Good, RingInv
<1>5. QED
  BY <1>2, <1>3, <1>4 DEF Good, o

-----------------------------------------------------------------------------
(* The invariant holds.                                                    *)

LEMMA NoneIsNot ==
    /\ \A s : Good(s) => s # None /\ s \in State
    /\ \A c \in Call : c # None
  BY NoneAssumption DEF Good

LEMMA InitIndInv == Init => IndInv
  BY DEF Init, IndInv, StatesInv, CallsInv, Known

LEMMA GetStateIndInv ==
    ASSUME IndInv, NEW w \in Workers, NEW t \in Targets, NEW src \in Sources, GetState(w, t, src)
    PROVE  IndInv'
<1> DEFINE c == [target |-> t, source |-> src, open |-> Open(t),
                 lastAllowed |-> IF Open(t) THEN state[t].lastAllowed ELSE AgeCap,
                 et |-> "None", now |-> 0, held |-> FALSE]
<1>1. StatesInv'
  BY DEF GetState, IndInv, StatesInv, Known
<1>2. c \in Call
  <2>1. Open(t) \in BOOLEAN
    BY DEF Open
  <2>2. (IF Open(t) THEN state[t].lastAllowed ELSE AgeCap) \in Age
    BY Constants DEF Open, IndInv, StatesInv, Good, State, Age
  <2>3. 0 \in 0 .. MaxLag
    BY Constants
  <2>4. QED
    BY <2>1, <2>2, <2>3 DEF Call
<1>3. call' = [call EXCEPT ![w] = c] /\ pc' = [pc EXCEPT ![w] = "decide"] /\ state' = state /\ c.held = FALSE
  BY DEF GetState
<1> HIDE DEF c
<1>4. CallsInv'
  BY <1>2, <1>3, NoneIsNot DEF IndInv, CallsInv, Known
<1>5. QED
  BY <1>1, <1>4 DEF IndInv

LEMMA OrphanedFacts ==
    ASSUME NEW c \in {None} \cup Call, NEW ts
    PROVE  /\ Orphaned(c, ts) \in {None} \cup Call
           /\ Orphaned(c, ts) = None <=> c = None
           /\ c # None => /\ Orphaned(c, ts).target = c.target
                          /\ Orphaned(c, ts).held => c.held /\ c.target \notin ts
  BY NoneIsNot DEF Orphaned, Call

LEMMA RecordLookupIndInv ==
    ASSUME IndInv, NEW w \in Workers, RecordLookup(w)
    PROVE  IndInv'
<1> DEFINE t == call[w].target
           gone == IF Known(t) THEN {} ELSE Expired
           own == [call[w] EXCEPT !.et = Decision(call[w]), !.now = 0, !.held = TRUE,
                                  !.open = FALSE, !.lastAllowed = AgeCap]
<1>1. call[w] \in Call /\ t \in Targets /\ ~call[w].held
  BY DEF IndInv, CallsInv, RecordLookup, Call
<1>2. own \in Call /\ own.target = t
  <2>1. Decision(call[w]) \in {"Allowed", "Dropped", "HalfOpenAllowed", "None"}
    <3>1. call[w].open \in BOOLEAN /\ call[w].lastAllowed \in Int
      BY <1>1, Constants DEF Call, Age
    <3>2. QED
      BY <3>1, Constants DEF Decision
  <2>2. 0 \in 0 .. MaxLag /\ AgeCap \in Age
    BY Constants DEF Age
  <2>3. QED
    BY <1>1, <2>1, <2>2 DEF Call
<1>3. /\ pc[w] = "decide" /\ pc' = [pc EXCEPT ![w] = "record"]
      /\ state' = [u \in Targets |-> CASE u = t /\ ~Known(t) -> NewState
                                       [] u \in gone         -> None
                                       [] OTHER              -> state[u]]
      /\ call' = [v \in Workers |-> IF v = w THEN own ELSE Orphaned(call[v], gone)]
  BY DEF RecordLookup
<1>4. t \notin gone
  BY DEF Expired
<1>5. /\ \A u \in Targets \ gone : Known(u) => state'[u] # None
      /\ state'[t] # None
      /\ \A u \in Targets : state'[u] \in {NewState, None, state[u]}
  BY <1>1, <1>3, <1>4, NewIsGood, NoneIsNot DEF Known
<1> HIDE DEF own, gone, t
<1>6. StatesInv'
  BY <1>3, <1>5, NewIsGood DEF StatesInv, IndInv, Known, Good
<1>7. CallsInv'
  <2>1. call' \in [Workers -> {None} \cup Call]
    BY <1>2, <1>3, OrphanedFacts DEF IndInv, CallsInv
  <2>2. pc' \in [Workers -> {"idle", "decide", "record"}]
    BY <1>3 DEF IndInv, CallsInv
  <2>3. ASSUME NEW v \in Workers
        PROVE  (IF pc[v] = "idle" THEN call[v] = None
                ELSE /\ call[v] # None
                     /\ call[v].held => pc[v] = "record" /\ Known(call[v].target))'
    <3>1. CASE v = w
      <4>1. pc'[v] = "record" /\ call'[v] = own
        BY <1>3, <3>1 DEF IndInv, CallsInv
      <4>2. QED
        BY <1>2, <1>5, <4>1, NoneIsNot DEF Known
    <3>2. CASE v # w
      <4>1. pc'[v] = pc[v] /\ call'[v] = Orphaned(call[v], gone) /\ call[v] \in {None} \cup Call
        BY <1>3, <3>2 DEF IndInv, CallsInv
      <4>2. call[v] # None => call[v].target \in Targets
        BY <4>1 DEF Call
      <4>3. /\ call'[v] = None <=> call[v] = None
            /\ call[v] # None => /\ call'[v].target = call[v].target
                                 /\ call'[v].held => call[v].held /\ call[v].target \notin gone
        BY <4>1, OrphanedFacts
      <4>4. /\ pc[v] = "idle" => call[v] = None
            /\ pc[v] # "idle" => /\ call[v] # None
                                 /\ call[v].held => pc[v] = "record" /\ Known(call[v].target)
        BY DEF IndInv, CallsInv
      <4>5. ASSUME call[v] # None, call'[v].held, pc[v] # "idle" PROVE state'[call'[v].target] # None
        BY <1>5, <4>2, <4>3, <4>4, <4>5
      <4>6. QED
        BY <4>1, <4>3, <4>4, <4>5 DEF Known
    <3>3. QED
      BY <3>1, <3>2
  <2>4. QED
    BY <2>1, <2>2, <2>3 DEF CallsInv
<1>8. QED
  BY <1>6, <1>7 DEF IndInv

LEMMA RecordEventIndInv ==
    ASSUME IndInv, NEW w \in Workers, RecordEvent(w)
    PROVE  IndInv'
<1> DEFINE c == call[w]
           t == c.target
<1>1. c \in Call /\ t \in Targets
  BY DEF IndInv, CallsInv, RecordEvent, Call
<1>2. c.held => state[t] \in State /\ Good(state[t])
  BY <1>1 DEF IndInv, StatesInv, CallsInv, RecordEvent, Known
<1>3. c.held => Good(Recorded(state[t], c))
  BY <1>1, <1>2, RecordedIsGood
<1>4. /\ state' = IF c.held THEN [state EXCEPT ![t] = Recorded(state[t], c)] ELSE state
      /\ pc' = [pc EXCEPT ![w] = "idle"] /\ call' = [call EXCEPT ![w] = None]
  BY DEF RecordEvent
<1> HIDE DEF c, t
<1>5. /\ state' \in [Targets -> {None} \cup State]
      /\ \A u \in Targets : (Known(u) => Good(state[u])) => state'[u] = None \/ Good(state'[u])
      /\ \A u \in Targets : Known(u) => state'[u] # None
  BY <1>1, <1>3, <1>4, NoneIsNot DEF IndInv, StatesInv, Known
<1>6. StatesInv'
  BY <1>5 DEF StatesInv, IndInv, Known
<1>7. \A v \in Workers : call[v] # None => call[v].target \in Targets
  BY DEF IndInv, CallsInv, Call
<1>8. CallsInv'
  <2>1. /\ call' \in [Workers -> {None} \cup Call] /\ pc' \in [Workers -> {"idle", "decide", "record"}]
        /\ \A v \in Workers : v # w => pc'[v] = pc[v] /\ call'[v] = call[v]
        /\ pc'[w] = "idle" /\ call'[w] = None
    BY <1>4 DEF IndInv, CallsInv
  <2>2. ASSUME NEW v \in Workers, v # w
        PROVE  /\ pc[v] = "idle" => call[v] = None
               /\ pc[v] # "idle" => /\ call[v] # None
                                    /\ call[v].held => pc[v] = "record" /\ state'[call[v].target] # None
    BY <1>5, <1>7, <2>2 DEF IndInv, CallsInv
  <2>3. QED
    BY <2>1, <2>2 DEF CallsInv, Known
<1>9. QED
  BY <1>6, <1>8 DEF IndInv

LEMMA ResetTargetIndInv ==
    ASSUME IndInv, NEW t \in Targets, ResetTarget(t)
    PROVE  IndInv'
<1>1. StatesInv'
  BY DEF ResetTarget, IndInv, StatesInv, Known
<1>2. /\ call' = [v \in Workers |-> Orphaned(call[v], {t})] /\ pc' = pc
      /\ \A u \in Targets : u # t => state'[u] = state[u]
  BY DEF ResetTarget, IndInv, StatesInv
<1>3. call' \in [Workers -> {None} \cup Call]
  BY <1>2, OrphanedFacts DEF IndInv, CallsInv
<1>4. ASSUME NEW v \in Workers
      PROVE  /\ pc[v] = "idle" => call'[v] = None
             /\ pc[v] # "idle" => /\ call'[v] # None
                                  /\ call'[v].held => pc[v] = "record" /\ state'[call'[v].target] # None
  <2>1. call'[v] = Orphaned(call[v], {t}) /\ call[v] \in {None} \cup Call
    BY <1>2 DEF IndInv, CallsInv
  <2>2. call[v] # None => call[v].target \in Targets
    BY <2>1 DEF Call
  <2>3. /\ call'[v] = None <=> call[v] = None
        /\ call[v] # None => /\ call'[v].target = call[v].target
                             /\ call'[v].held => call[v].held /\ call[v].target # t
    BY <2>1, OrphanedFacts
  <2>4. QED
    BY <1>2, <2>2, <2>3 DEF IndInv, CallsInv, Known
<1>5. QED
  BY <1>1, <1>2, <1>3, <1>4 DEF IndInv, CallsInv, Known

LEMMA TickIndInv ==
    ASSUME IndInv, Tick
    PROVE  IndInv'
<1>1. /\ state' = [t \in Targets |-> IF ~Known(t) THEN None ELSE Aged(state[t])]
      /\ pc' = pc
      /\ call' = [w \in Workers |->
                     CASE pc[w] = "idle"   -> call[w]
                       [] pc[w] = "decide" -> [call[w] EXCEPT !.lastAllowed = Older(@)]
                       [] pc[w] = "record" -> [call[w] EXCEPT !.now = @ + 1]]
  BY DEF Tick, Aged
<1>2. \A t \in Targets : Known(t) => Good(Aged(state[t]))
  BY AgedIsGood DEF IndInv, StatesInv, Known
<1>3. StatesInv' /\ \A t \in Targets : Known(t) => state'[t] # None
  BY <1>1, <1>2, NoneIsNot DEF StatesInv, Known
<1>4. ASSUME NEW w \in Workers
      PROVE  /\ call'[w] \in {None} \cup Call
             /\ pc[w] = "idle" => call'[w] = None
             /\ pc[w] # "idle" => /\ call'[w] # None
                                  /\ call'[w].held => pc[w] = "record" /\ state'[call'[w].target] # None
  <2>1. call[w] \in {None} \cup Call /\ pc[w] \in {"idle", "decide", "record"}
    BY DEF IndInv, CallsInv
  <2>2. CASE pc[w] = "idle"
    BY <1>1, <2>2 DEF IndInv, CallsInv
  <2>3. CASE pc[w] \in {"decide", "record"}
    <3>1. call[w] \in Call /\ call[w].target \in Targets /\ call[w].lastAllowed \in Age
      BY <2>1, <2>3 DEF IndInv, CallsInv, Call
    <3>2. pc[w] = "record" => call[w].now + 1 \in 0 .. MaxLag
      <4>1. call[w].now \in 0 .. MaxLag
        BY <3>1 DEF Call
      <4>2. pc[w] = "record" => call[w].now < MaxLag
        BY DEF Tick
      <4>3. QED
        BY <4>1, <4>2, Constants
    <3>3. Older(call[w].lastAllowed) \in Age
      BY <3>1, OlderFacts
    <3>4. call'[w] \in Call /\ call'[w].held = call[w].held /\ call'[w].target = call[w].target
      <4>1. CASE pc[w] = "decide"
        <5>1. call'[w] = [call[w] EXCEPT !.lastAllowed = Older(call[w].lastAllowed)]
          BY <1>1, <4>1
        <5>2. QED
          BY <3>1, <3>3, <5>1 DEF Call
      <4>2. CASE pc[w] = "record"
        <5>1. call'[w] = [call[w] EXCEPT !.now = call[w].now + 1]
          BY <1>1, <4>2
        <5>2. QED
          BY <3>1, <3>2, <4>2, <5>1 DEF Call
      <4>3. QED
        BY <2>3, <4>1, <4>2
    <3>5. QED
      BY <1>3, <2>3, <3>1, <3>4, NoneIsNot DEF IndInv, CallsInv
  <2>4. QED
    BY <2>1, <2>2, <2>3
<1>5. call' \in [Workers -> {None} \cup Call]
  BY <1>1, <1>4
<1>6. QED
  BY <1>1, <1>3, <1>4, <1>5 DEF IndInv, CallsInv, Known

LEMMA NextIndInv ==
    ASSUME IndInv, [Next]_vars
    PROVE  IndInv'
<1>1. CASE UNCHANGED vars
  BY <1>1 DEF vars, IndInv, StatesInv, CallsInv, Known
<1>2. CASE Next
  BY <1>2, GetStateIndInv, RecordLookupIndInv, RecordEventIndInv, ResetTargetIndInv, TickIndInv
     DEF Next, Event
<1>3. QED
  BY <1>1, <1>2

LEMMA IndInvImplies == IndInv => TypeOK /\ FirstOpenAfterBurst /\ TriggerIsRecent
<1>1. SUFFICES ASSUME IndInv PROVE TypeOK /\ FirstOpenAfterBurst /\ TriggerIsRecent
  OBVIOUS
<1>2. TypeOK
  BY <1>1 DEF IndInv, StatesInv, CallsInv, TypeOK
<1>3. FirstOpenAfterBurst
  BY <1>1 DEF IndInv, StatesInv, Good, BurstInv, FirstOpenAfterBurst, Open, Refill
<1>4. TriggerIsRecent
  BY <1>1 DEF IndInv, StatesInv, Good, RingInv, TriggerIsRecent, Open
<1>5. QED
  BY <1>2, <1>3, <1>4

\* The inductive invariant holds in every reachable state of the circuit breaker.
THEOREM IndInvariance == Spec => []IndInv
<1>1. IndInv /\ [Next]_vars => IndInv'
  BY NextIndInv
<1>2. QED
  BY InitIndInv, <1>1, PTL DEF Spec

\* The bucket, the ring buffer and the pending calls keep their types: an overtaking
\* goroutine takes at most what is refilled in MaxLag from the bucket (RecordEvent).
THEOREM TypeCorrectness == Spec => []TypeOK
  BY IndInvariance, IndInvImplies, PTL

\* A target's circuit opens for the first time only after more events than its burst
\* allowance, less what overtaking goroutines may take (RecordEvent, ResetTarget and the
\* garbage collection in RecordEvent).
THEOREM OpensAfterBurst == Spec => []FirstOpenAfterBurst
  BY IndInvariance, IndInvImplies, PTL

\* An open circuit is blamed on a source recorded since it was last closed
\* (RecordEvent), also where a cooldown refills less than a token, so that the circuit
\* closes and opens again in one call, with its ring buffer emptied.
THEOREM BlamedOnRecent == Spec => []TriggerIsRecent
  BY IndInvariance, IndInvImplies, PTL
=============================================================================
