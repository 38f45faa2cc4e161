------------------------ MODULE PackageManagerProofs ------------------------
(***************************************************************************)
(* Proofs that a package whose manager is at rest has one active revision, *)
(* of the highest number and within the history limit, for any digests,    *)
(* generations, limit and number of changes, failures and crashes.         *)
(*                                                                         *)
(* The argument: nothing can change unseen. Every write of a revision that *)
(* changes it makes an event, and seeing an event enqueues the package. If *)
(* the queue and the events are empty now, they have been since the last   *)
(* reconcile began; that reconcile saw the revisions as they are and wrote *)
(* nothing, so that they already were as it wants them to be.              *)
(***************************************************************************)
EXTENDS PackageManager, FiniteSetTheorems, FunctionTheorems, SequenceTheorems,
        WellFoundedInduction, TLAPS

\* The events of a revision that the cache has yet to see.
Pending(r) == {i \in DOMAIN events : events[i].revision = r}

\* The cache is what the revisions were before the events: the last event of each
\* revision has it as it is.
CacheFollows ==
    \A r \in Names :
        \/ Pending(r) = {} /\ cache[r] = revs[r]
        \/ \E i \in Pending(r) : events[i].as = revs[r] /\ \A j \in Pending(r) : j <= i

\* What the cache or the reconcile takes to be current is.
CopiesAreCurrent ==
    /\ pkgSeen => pkgCache = pkg
    /\ pFresh => p = pkg
    /\ pc \in {"deactivate", "apply"} => \A r \in fresh : list[r] = revs[r]

\* No change was seen since the last reconcile began, and none is to be seen.
Calm == ~queued /\ events = <<>>

\* Then the reconcile has all revisions, and the package, as they are.
NothingMissed ==
    /\ pc # "idle" => name \in Names
    /\ pc # "idle" /\ Calm => list = revs /\ fresh = Names
    /\ pc # "idle" /\ ~queued /\ pkgSeen => pFresh

\* What the first half of a reconcile establishes, unless it makes a change,
Trimmed ==
    /\ \A r \in Existing : revs[r].active => r = name
    /\ HistoryLimit # 0 /\ (\A r \in Names : revs[r].state # "deleting")
          => Cardinality(Existing) <= HistoryLimit + 1

\* and what the second half does, for activation policy automatic.
OnTop(automatic) ==
    /\ name \in Names /\ Exists(revs[name])
    /\ \A r \in Existing : revs[r].number <= revs[name].number
    /\ automatic => revs[name].active

Established ==
    /\ pc \in {"apply", "status"} /\ Calm => Trimmed
    /\ pc = "status" /\ Calm => OnTop(p.automatic)
    /\ pc = "idle" /\ Calm /\ pkgSeen =>
          Trimmed /\ OnTop(pkg.automatic) /\ pkg.currentRevision = name

\* The name that the next reconcile will have.
Due == <<digest, pkgCache.generation>>

\* How many changes of the name, failures and so on there were: changes of the package
\* count when they are seen.
Spent == trouble - (pkg.generation - pkgCache.generation)

\* A bound on the number of revision r in a copy that a reconcile reads now.
Bound(r) == HistoryLimit + Spent + (IF r = Due THEN 1 ELSE 0)

\* A bound on what a reconcile of name has read. It began before the name changed.
ReadBound(r) ==
    HistoryLimit + Spent + (IF r = name THEN 1 ELSE 0) - (IF name = Due THEN 0 ELSE 1)

\* A revision gets a higher number only when it follows another one, and the name
\* changes only with trouble.
NumbersBounded ==
    /\ pkgCache.generation <= pkg.generation
    /\ Spent >= 0
    /\ \A r \in Names : revs[r].number <= Bound(r) /\ cache[r].number <= Bound(r)
    /\ \A i \in DOMAIN events : events[i].as.number <= Bound(events[i].revision)
    /\ pc \in {"deactivate", "apply"} =>
          /\ name = Due \/ Spent >= 1
          /\ \A r \in Names : list[r].number <= ReadBound(r)

\* The inductive invariant.
PackageInv ==
    TypeOK /\ CacheFollows /\ CopiesAreCurrent /\ NothingMissed /\ Established /\ NumbersBounded

-----------------------------------------------------------------------------
(* The events and the cache.                                               *)

LEMMA Constants ==
    /\ MaxGeneration \in Nat \ {0}
    /\ HistoryLimit \in Nat /\ MaxLag \in Nat /\ MaxTrouble \in Nat
    /\ IsFiniteSet(Digests) /\ Cardinality(Digests) > HistoryLimit
BY PackageManagerAssumption

Event == [revision : Names, as : Revision]

\* An event of r, with r as it is from now on, is the last one of r.
LEMMA EventFollows ==
    ASSUME TypeOK, CacheFollows, NEW r \in Names, NEW o \in Revision,
           events' = Append(events, [revision |-> r, as |-> o]),
           revs' = [revs EXCEPT ![r] = o], cache' = cache
    PROVE  CacheFollows' /\ events' \in Seq(Event) /\ events' # <<>>
<1> DEFINE e == [revision |-> r, as |-> o]
           n == Len(events) + 1
<1>1. e \in Event /\ e.revision = r /\ e.as = o
  BY DEF Event
<1>2. events \in Seq(Event) /\ revs \in [Names -> Revision]
  BY DEF TypeOK, Event
<1>3. /\ events' \in Seq(Event) /\ events' # <<>>
      /\ Len(events) \in Nat /\ Len(events') = n
      /\ \A i \in 1 .. Len(events) : events'[i] = events[i]
      /\ events'[n] = e
      /\ DOMAIN events = 1 .. Len(events) /\ DOMAIN events' = 1 .. n
  <2>1. Append(events, e) \in Seq(Event) /\ Append(events, e) # <<>>
        /\ Len(Append(events, e)) = n
        /\ (\A i \in 1 .. Len(events) : Append(events, e)[i] = events[i])
        /\ Append(events, e)[n] = e
    <3> HIDE DEF e
    <3> QED BY <1>1, <1>2, AppendProperties
  <2>2. QED BY <1>2, <2>1, LenProperties
<1>4. ASSUME NEW s \in Names
      PROVE  \/ Pending(s)' = {} /\ cache'[s] = revs'[s]
             \/ \E i \in Pending(s)' : events'[i].as = revs'[s] /\ \A j \in Pending(s)' : j <= i
  <2>1. CASE s = r
    <3>1. n \in Pending(s)' /\ \A j \in Pending(s)' : j <= n
      BY <1>1, <1>3, <2>1 DEF Pending
    <3>2. events'[n].as = revs'[s]
      BY <1>1, <1>2, <1>3, <2>1
    <3>3. QED BY <3>1, <3>2
  <2>2. CASE s # r
    <3>1. Pending(s)' = Pending(s)
      BY <1>1, <1>3, <2>2 DEF Pending
    <3>2. \A i \in Pending(s) : events'[i] = events[i]
      BY <1>3 DEF Pending
    <3>3. revs'[s] = revs[s] /\ cache'[s] = cache[s]
      BY <1>2, <2>2
    <3>4. QED BY <3>1, <3>2, <3>3 DEF CacheFollows
  <2>3. QED BY <2>1, <2>2
<1>5. QED BY <1>3, <1>4 DEF CacheFollows

\* What a write does. One that changes the revision makes an event.
LEMMA WriteFollows ==
    ASSUME TypeOK, CacheFollows, NEW r \in Names, NEW o \in Revision, NEW own \in BOOLEAN,
           Write(r, o, own), cache' = cache
    PROVE  /\ CacheFollows'
           /\ revs' \in [Names -> Revision] /\ revs'[r] = o
           /\ \A s \in Names : s # r => revs'[s] = revs[s]
           /\ events' \in Seq(Event) /\ fresh' \in SUBSET fresh
           /\ own => fresh' = fresh
           /\ ~own /\ o # revs[r] => r \notin fresh'
           /\ IF o = revs[r] THEN revs' = revs /\ events' = events /\ fresh' = fresh
                             ELSE events' = Append(events, [revision |-> r, as |-> o]) /\ events' # <<>>
<1>1. revs \in [Names -> Revision] /\ events \in Seq(Event)
  BY DEF TypeOK, Event
<1>2. revs' = [revs EXCEPT ![r] = o]
  BY DEF Write
<1>3. /\ revs' \in [Names -> Revision] /\ revs'[r] = o
      /\ \A s \in Names : s # r => revs'[s] = revs[s]
      /\ o = revs[r] => revs' = revs
  BY <1>1, <1>2
<1>4. CASE o = revs[r]
  <2>1. revs' = revs /\ events' = events /\ fresh' = fresh
    BY <1>3, <1>4 DEF Write
  <2>2. CacheFollows'
    BY <2>1 DEF CacheFollows, Pending
  <2>3. QED BY <1>1, <1>3, <1>4, <2>1, <2>2
<1>5. CASE o # revs[r]
  <2>1. /\ events' = Append(events, [revision |-> r, as |-> o])
        /\ fresh' = IF own THEN fresh ELSE fresh \ {r}
    BY <1>5 DEF Write
  <2>2. CacheFollows' /\ events' \in Seq(Event) /\ events' # <<>>
    BY <1>2, <2>1, EventFollows
  <2>3. QED BY <1>3, <1>5, <2>1, <2>2
<1>6. QED BY <1>4, <1>5

\* The first event is the next state of its revision in the cache.
LEMMA SeeingFollows ==
    ASSUME TypeOK, CacheFollows, SeeRevision
    PROVE  /\ CacheFollows'
           /\ cache' \in [Names -> Revision] /\ events' \in Seq(Event)
           /\ DOMAIN events = 1 .. Len(events) /\ Len(events) \in Nat
           /\ DOMAIN events' = 1 .. Len(events) - 1
           /\ 1 \in DOMAIN events
           /\ \A i \in 1 .. Len(events) - 1 : events'[i] = events[i + 1]
           /\ \A i \in DOMAIN events : events[i] \in Event
           /\ cache'[events[1].revision] = events[1].as
           /\ \A s \in Names : s # events[1].revision => cache'[s] = cache[s]
<1> DEFINE n == Len(events) - 1
           r == events[1].revision
<1>1. events \in Seq(Event) /\ events # <<>> /\ cache \in [Names -> Revision]
      /\ revs' = revs /\ events' = Tail(events)
      /\ cache' = [cache EXCEPT ![Head(events).revision] = Head(events).as]
  BY DEF TypeOK, Event, SeeRevision
<1>2. /\ Len(events) \in Nat \ {0} /\ DOMAIN events = 1 .. Len(events)
      /\ \A i \in DOMAIN events : events[i] \in Event
  BY <1>1, LenProperties, EmptySeq, ElementOfSeq
<1>3. events' \in Seq(Event) /\ Len(events') = n /\ DOMAIN events' = 1 .. n
      /\ \A i \in 1 .. n : events'[i] = events[i + 1]
  BY <1>1, HeadTailProperties, LenProperties
<1>4. Head(events) = events[1] /\ 1 \in DOMAIN events /\ events[1] \in Event
  BY <1>1, <1>2
<1>5. r \in Names /\ events[1].as \in Revision
  BY <1>4 DEF Event
<1>6. /\ cache' \in [Names -> Revision] /\ cache'[r] = events[1].as
      /\ \A s \in Names : s # r => cache'[s] = cache[s]
  BY <1>1, <1>4, <1>5
<1>7. ASSUME NEW s \in Names
      PROVE  \/ Pending(s)' = {} /\ cache'[s] = revs'[s]
             \/ \E i \in Pending(s)' : events'[i].as = revs'[s] /\ \A j \in Pending(s)' : j <= i
  <2>1. /\ \A j : j \in Pending(s)' <=> j \in 1 .. n /\ j + 1 \in Pending(s)
        /\ Pending(s) \subseteq 1 .. n + 1
        /\ 1 \in Pending(s) <=> s = r
    BY <1>2, <1>3, <1>4 DEF Pending
  <2>2. CASE Pending(s) = {}
    <3>1. Pending(s)' = {} /\ s # r
      BY <2>1, <2>2
    <3>2. cache[s] = revs[s]
      BY <2>2 DEF CacheFollows
    <3>3. QED BY <1>1, <1>6, <3>1, <3>2
  <2>3. CASE Pending(s) # {}
    <3>1. PICK i \in Pending(s) : events[i].as = revs[s] /\ \A j \in Pending(s) : j <= i
      BY <2>3 DEF CacheFollows
    <3>2. CASE i = 1
      <4>1. s = r /\ Pending(s)' = {}
        BY <2>1, <3>1, <3>2
      <4>2. QED BY <1>1, <1>6, <3>1, <3>2, <4>1
    <3>3. CASE i # 1
      <4>1. i - 1 \in 1 .. n /\ (i - 1) + 1 = i
        BY <1>2, <2>1, <3>3
      <4>2. i - 1 \in Pending(s)' /\ events'[i - 1] = events[i]
        BY <1>3, <2>1, <4>1
      <4>3. \A j \in Pending(s)' : j <= i - 1
        <5>1. TAKE j \in Pending(s)'
        <5>2. j \in 1 .. n /\ j + 1 <= i
          BY <2>1, <3>1, <5>1
        <5>3. QED BY <1>2, <4>1, <5>2
      <4>4. QED BY <1>1, <3>1, <4>2, <4>3
    <3>4. QED BY <3>2, <3>3
  <2>4. QED BY <2>2, <2>3
<1>8. CacheFollows'
  BY <1>7 DEF CacheFollows
<1>9. QED BY <1>2, <1>3, <1>4, <1>6, <1>8

-----------------------------------------------------------------------------
(* The numbers.                                                            *)

\* A set of numbers up to n has a greatest one: of the intervals from one of them
\* to n, a smallest one begins with it.
LEMMA HighestExists ==
    ASSUME NEW n \in Nat, NEW S \in SUBSET (0 .. n), S # {}
    PROVE  Max(S) \in S /\ \A y \in S : Max(S) >= y
<1> DEFINE U == 0 .. n
           T == {x .. n : x \in S}
<1>1. IsWellFoundedOn(StrictSubsetOrdering(U), SUBSET U)
  <2>1. IsFiniteSet(U)
    BY FS_Interval
  <2> HIDE DEF U
  <2>2. QED BY <2>1, FS_FiniteSubsetsOfFinite, FS_StrictSubsetOrderingWellFounded
<1>2. T \subseteq SUBSET U /\ T # {}
  <2>1. \A x \in S : x .. n \subseteq U
    OBVIOUS
  <2>2. \E x \in S : x .. n \in T
    OBVIOUS
  <2>3. QED BY <2>1, <2>2
<1>3. \E m \in T : \A k \in T : <<k, m>> \notin StrictSubsetOrdering(U)
  <2> HIDE DEF T, U
  <2> QED BY <1>1, <1>2, WFMin
<1>4. PICK x \in S : \A k \in T : <<k, x .. n>> \notin StrictSubsetOrdering(U)
  BY <1>3
<1>5. ASSUME NEW y \in S PROVE x >= y
  <2>1. SUFFICES ASSUME y > x PROVE FALSE
    OBVIOUS
  <2>2. y .. n \in T /\ y .. n \in SUBSET U /\ x .. n \in SUBSET U
    BY <1>2
  <2>3. x \in x .. n /\ x \notin y .. n /\ y .. n \subseteq x .. n
    BY <2>1
  <2>4. <<y .. n, x .. n>> \in StrictSubsetOrdering(U)
    BY <2>2, <2>3 DEF StrictSubsetOrdering
  <2>5. QED BY <1>4, <2>2, <2>4
<1>6. QED
  BY <1>5 DEF Max

\* The highest number of a listed revision, and the number of the current one.
LEMMA NumberFacts ==
    ASSUME TypeOK, name \in Names
    PROVE  /\ maxRevision \in Nat /\ Number \in Nat
           /\ \A r \in Listed : list[r].number <= maxRevision
           /\ maxRevision # 0 => \E r \in Listed : list[r].number = maxRevision
           /\ \A r \in Names : list[r].number \in Nat
<1> DEFINE n == HistoryLimit + 1 + MaxTrouble
           S == {0} \cup {list[r].number : r \in Listed}
<1>1. n \in Nat
  BY Constants
<1>2. \A r \in Names : list[r].number \in 0 .. n
  BY DEF TypeOK, Revision
<1>3. S \in SUBSET (0 .. n) /\ S # {}
  BY <1>1, <1>2 DEF Listed
<1>4. maxRevision \in S /\ \A y \in S : maxRevision >= y
  <2>1. Max(S) \in S /\ \A y \in S : Max(S) >= y
    <3> HIDE DEF n, S
    <3> QED BY <1>1, <1>3, HighestExists
  <2>2. QED BY <2>1 DEF maxRevision
<1>5. maxRevision \in Nat
  BY <1>1, <1>3, <1>4
<1>6. /\ \A r \in Listed : list[r].number <= maxRevision
      /\ maxRevision # 0 => \E r \in Listed : list[r].number = maxRevision
  <2>1. \A r \in Listed : list[r].number \in S
    OBVIOUS
  <2>2. \A r \in Listed : list[r].number \in Nat
    BY <1>1, <1>2 DEF Listed
  <2>3. QED BY <1>4, <1>5, <2>1, <2>2
<1>7. Number \in Nat
  BY <1>1, <1>2, <1>5 DEF Number
<1>8. QED BY <1>1, <1>2, <1>5, <1>6, <1>7

LEMMA BoundTypes ==
    ASSUME TypeOK
    PROVE  /\ Spent \in Int /\ pkg.generation \in Int /\ pkgCache.generation \in Int
           /\ trouble \in Int /\ trouble <= MaxTrouble
           /\ Due \in Names
           /\ \A r \in Names :
                 /\ Bound(r) \in Int /\ ReadBound(r) \in Int
                 /\ revs[r].number \in Int /\ cache[r].number \in Int /\ list[r].number \in Int
           /\ \A i \in DOMAIN events :
                 events[i].revision \in Names /\ events[i].as.number \in Int
<1>1. /\ pkg.generation \in 1 .. MaxGeneration /\ pkgCache.generation \in 1 .. MaxGeneration
      /\ trouble \in 0 .. MaxTrouble /\ digest \in Digests
  BY DEF TypeOK, Package
<1>2. Spent \in Int /\ Due \in Names
  BY <1>1, Constants DEF Spent, Due, Names
<1>3. \A r \in Names :
         /\ Bound(r) \in Int /\ ReadBound(r) \in Int
         /\ revs[r].number \in Int /\ cache[r].number \in Int /\ list[r].number \in Int
  <2>1. \A r \in Names : Bound(r) \in Int /\ ReadBound(r) \in Int
    BY <1>2, Constants DEF Bound, ReadBound
  <2>2. \A r \in Names :
           revs[r].number \in Int /\ cache[r].number \in Int /\ list[r].number \in Int
    BY Constants DEF TypeOK, Revision
  <2>3. QED BY <2>1, <2>2
<1>4. \A i \in DOMAIN events : events[i].revision \in Names /\ events[i].as.number \in Int
  <2>1. \A i \in DOMAIN events : events[i] \in Event
    BY LenProperties, ElementOfSeq DEF TypeOK, Event
  <2>2. QED BY <2>1, Constants DEF Event, Revision
<1>5. QED BY <1>1, <1>2, <1>3, <1>4, Constants

\* The number that a reconcile gives to the current revision is within the bound:
\* the revision it follows has another name.
LEMMA NumberBounded ==
    ASSUME TypeOK, NumbersBounded, name \in Names, pc = "apply"
    PROVE  /\ Number <= Bound(name) /\ Number <= ReadBound(name)
           /\ Number \in 0 .. HistoryLimit + 1 + MaxTrouble
<1>1. /\ name = Due \/ Spent >= 1
      /\ \A r \in Names : list[r].number <= ReadBound(r)
      /\ Spent >= 0 /\ pkgCache.generation <= pkg.generation
  BY DEF NumbersBounded
<1>2. /\ Spent \in Int /\ Spent <= MaxTrouble
      /\ \A r \in Names : ReadBound(r) \in Int
      /\ HistoryLimit \in Nat /\ MaxTrouble \in Nat
  BY <1>1, BoundTypes, Constants DEF Spent
<1>3. ReadBound(name) <= Bound(name) /\ ReadBound(name) >= 1
      /\ ReadBound(name) <= HistoryLimit + 1 + MaxTrouble
  BY <1>1, <1>2 DEF Bound, ReadBound
<1>4. Number <= ReadBound(name)
  <2>1. CASE maxRevision = 0
    <3>1. list[name].number <= ReadBound(name)
      BY <1>1
    <3>2. QED BY <1>2, <1>3, <2>1, <3>1 DEF Number
  <2>2. CASE maxRevision # 0 /\ list[name].number < maxRevision
    <3>1. PICK r \in Listed : list[r].number = maxRevision
      BY <2>2, NumberFacts
    <3>2. r \in Names /\ r # name
      BY <2>2, <3>1, NumberFacts DEF Listed
    <3>3. ReadBound(r) = ReadBound(name) - 1
      BY <1>2, <3>2 DEF ReadBound
    <3>4. maxRevision <= ReadBound(r)
      BY <1>1, <3>1, <3>2
    <3>5. Number = maxRevision + 1
      BY <2>2 DEF Number
    <3>6. QED BY <1>2, <3>3, <3>4, <3>5, NumberFacts
  <2>3. CASE maxRevision # 0 /\ ~(list[name].number < maxRevision)
    BY <1>1, <2>3 DEF Number
  <2>4. QED BY <2>1, <2>2, <2>3
<1>5. Bound(name) \in Int
  BY BoundTypes
<1>6. QED BY <1>2, <1>3, <1>4, <1>5, NumberFacts

\* The bounds only rise.
Rising ==
    \/ Due' = Due /\ Spent' >= Spent
    \/ Spent' >= Spent + 1

LEMMA BoundsRise ==
    ASSUME TypeOK, Spent' \in Int, Rising
    PROVE  /\ Spent' >= Spent
           /\ \A r \in Names : Bound(r)' \in Int /\ Bound(r) <= Bound(r)'
           /\ name' = name /\ (name = Due \/ Spent >= 1) /\ Spent >= 0 =>
                 /\ name' = Due' \/ Spent' >= 1
                 /\ \A r \in Names : ReadBound(r)' \in Int /\ ReadBound(r) <= ReadBound(r)'
<1>1. Spent \in Int /\ HistoryLimit \in Nat
  BY BoundTypes, Constants
<1>2. PICK a \in Int, b \in Int : a = Spent /\ b = Spent'
  BY <1>1
<1>3. a <= b /\ (Due' = Due \/ b >= a + 1)
  BY <1>2 DEF Rising
<1>4. ASSUME NEW r \in Names PROVE Bound(r)' \in Int /\ Bound(r) <= Bound(r)'
  <2>1. /\ r = Due => Bound(r) = HistoryLimit + a + 1
        /\ r # Due => Bound(r) = HistoryLimit + a + 0
        /\ r = Due' => Bound(r)' = HistoryLimit + b + 1
        /\ r # Due' => Bound(r)' = HistoryLimit + b + 0
    BY <1>2 DEF Bound
  <2>2. PICK k \in Int, l \in Int : Bound(r) = k /\ Bound(r)' = l /\ k <= l
    BY <1>1, <1>3, <2>1
  <2>3. QED BY <2>2
<1>5. ASSUME name' = name, name = Due \/ Spent >= 1, Spent >= 0
      PROVE  /\ name' = Due' \/ Spent' >= 1
             /\ \A r \in Names : ReadBound(r)' \in Int /\ ReadBound(r) <= ReadBound(r)'
  <2>1. name = Due' \/ b >= 1
    BY <1>2, <1>3, <1>5
  <2>2. ASSUME NEW r \in Names PROVE ReadBound(r)' \in Int /\ ReadBound(r) <= ReadBound(r)'
    <3>1. PICK c \in {0, 1} : c = IF r = name THEN 1 ELSE 0
      OBVIOUS
    <3>2. /\ name = Due => ReadBound(r) = HistoryLimit + a + c - 0
          /\ name # Due => ReadBound(r) = HistoryLimit + a + c - 1
          /\ name = Due' => ReadBound(r)' = HistoryLimit + b + c - 0
          /\ name # Due' => ReadBound(r)' = HistoryLimit + b + c - 1
      BY <1>2, <1>5, <3>1 DEF ReadBound
    <3>3. PICK k \in Int, l \in Int : ReadBound(r) = k /\ ReadBound(r)' = l /\ k <= l
      BY <1>1, <1>3, <3>2
    <3>4. QED BY <3>3
  <2>3. QED BY <1>2, <1>5, <2>1, <2>2
<1>6. QED BY <1>2, <1>3, <1>4, <1>5

\* Numbers within the old bounds are within the new ones.
LEMMA BoundsKept ==
    ASSUME TypeOK, NumbersBounded, Spent' \in Int, Rising,
           pkgCache'.generation <= pkg'.generation,
           \A r \in Names : revs'[r].number \in Int /\ revs'[r].number <= Bound(r),
           \A r \in Names : cache'[r].number \in Int /\ cache'[r].number <= Bound(r),
           \A i \in DOMAIN events' :
              /\ events'[i].revision \in Names
              /\ events'[i].as.number \in Int
              /\ events'[i].as.number <= Bound(events'[i].revision),
           pc' \in {"deactivate", "apply"} =>
              /\ pc \in {"deactivate", "apply"} /\ name' = name
              /\ \A r \in Names : list'[r].number \in Int /\ list'[r].number <= ReadBound(r)
    PROVE  NumbersBounded'
<1>1. /\ Spent >= 0 /\ Spent \in Int
      /\ \A r \in Names : Bound(r) \in Int /\ ReadBound(r) \in Int
  BY BoundTypes DEF NumbersBounded
<1>2. /\ Spent' >= Spent
      /\ \A r \in Names : Bound(r)' \in Int /\ Bound(r) <= Bound(r)'
      /\ name' = name /\ (name = Due \/ Spent >= 1) =>
            /\ name' = Due' \/ Spent' >= 1
            /\ \A r \in Names : ReadBound(r)' \in Int /\ ReadBound(r) <= ReadBound(r)'
  BY <1>1, BoundsRise
<1> HIDE DEF Spent, Due, Bound, ReadBound
<1>3. Spent' >= 0
  BY <1>1, <1>2
<1>4. \A r \in Names : revs'[r].number <= Bound(r)' /\ cache'[r].number <= Bound(r)'
  BY <1>1, <1>2
<1>5. \A i \in DOMAIN events' : events'[i].as.number <= Bound(events[i].revision)'
  <2>1. \A s \in Names, k \in Int : k <= Bound(s) => k <= Bound(s)'
    BY <1>1, <1>2
  <2>2. QED BY <2>1 DEF Bound
<1>6. pc' \in {"deactivate", "apply"} =>
         /\ name' = Due' \/ Spent' >= 1
         /\ \A r \in Names : list'[r].number <= ReadBound(r)'
  <2>1. SUFFICES ASSUME pc' \in {"deactivate", "apply"}
                 PROVE  /\ name' = Due' \/ Spent' >= 1
                        /\ \A r \in Names : list'[r].number <= ReadBound(r)'
    OBVIOUS
  <2>2. name = Due \/ Spent >= 1
    BY <2>1 DEF NumbersBounded
  <2>3. QED BY <1>1, <1>2, <2>1, <2>2
<1>7. QED
  BY <1>3, <1>4, <1>5, <1>6 DEF NumbersBounded

\* A step that leaves package and source alone keeps the bounds.
LEMMA SpentKept ==
    ASSUME TypeOK, NumbersBounded, trouble' \in {trouble, trouble + 1},
           pkg'.generation = pkg.generation, pkgCache' = pkgCache, digest' = digest
    PROVE  Spent' \in Int /\ Rising /\ pkgCache'.generation <= pkg'.generation
<1>1. /\ trouble \in Int /\ pkg.generation \in Int /\ pkgCache.generation \in Int
      /\ pkgCache.generation <= pkg.generation
  BY BoundTypes DEF NumbersBounded
<1>2. PICK g \in Int, h \in Int, t \in Int :
         g = pkg.generation /\ h = pkgCache.generation /\ t = trouble
  BY <1>1
<1>3. Spent = t - (g - h) /\ (Spent' = t - (g - h) \/ Spent' = (t + 1) - (g - h))
  BY <1>2 DEF Spent
<1>4. PICK a \in Int, b \in Int : a = Spent /\ b = Spent' /\ a <= b
  BY <1>2, <1>3
<1>5. Due' = Due
  BY DEF Due
<1>6. QED BY <1>1, <1>4, <1>5 DEF Rising

\* So does an event of a revision whose number is within the bound.
LEMMA EventBounded ==
    ASSUME TypeOK, NumbersBounded, NEW r \in Names, NEW o \in Revision, o.number <= Bound(r),
           events' = events \/ events' = Append(events, [revision |-> r, as |-> o])
    PROVE  \A i \in DOMAIN events' :
              /\ events'[i].revision \in Names
              /\ events'[i].as.number \in Int
              /\ events'[i].as.number <= Bound(events'[i].revision)
<1> DEFINE e == [revision |-> r, as |-> o]
<1>1. /\ events \in Seq(Event) /\ e \in Event /\ e.revision = r /\ e.as = o
      /\ o.number \in Int
  BY Constants DEF TypeOK, Event, Revision
<1>2. \A i \in DOMAIN events :
         /\ events[i].revision \in Names /\ events[i].as.number \in Int
         /\ events[i].as.number <= Bound(events[i].revision)
  BY BoundTypes DEF NumbersBounded
<1>3. CASE events' = events
  BY <1>2, <1>3
<1>4. CASE events' = Append(events, e)
  <2>1. /\ DOMAIN events = 1 .. Len(events) /\ Len(events) \in Nat
        /\ DOMAIN events' = 1 .. Len(events) + 1
        /\ \A i \in 1 .. Len(events) : events'[i] = events[i]
        /\ events'[Len(events) + 1] = e
    <3> HIDE DEF e
    <3> QED BY <1>1, <1>4, AppendProperties, LenProperties
  <2>2. TAKE i \in DOMAIN events'
  <2>3. CASE i \in DOMAIN events
    BY <1>2, <2>1, <2>3
  <2>4. CASE i = Len(events) + 1
    <3>1. events'[i] = e
      BY <2>1, <2>4
    <3>2. QED BY <1>1, <3>1
  <2>5. QED BY <2>1, <2>3, <2>4
<1>5. QED BY <1>3, <1>4

\* The bounds hold after a write of a number within them.
LEMMA WriteBounded ==
    ASSUME TypeOK, CacheFollows, NumbersBounded,
           NEW r \in Names, NEW o \in Revision, NEW own \in BOOLEAN,
           Write(r, o, own), cache' = cache, o.number <= Bound(r),
           pkg' = pkg, pkgCache' = pkgCache, digest' = digest,
           trouble' \in {trouble, trouble + 1},
           pc' \in {"deactivate", "apply"} =>
              /\ pc \in {"deactivate", "apply"} /\ name' = name
              /\ \A s \in Names : list'[s].number = list[s].number
    PROVE  NumbersBounded'
<1>1. Spent' \in Int /\ Rising /\ pkgCache'.generation <= pkg'.generation
  BY SpentKept
<1>2. /\ revs'[r] = o
      /\ \A s \in Names : s # r => revs'[s] = revs[s]
      /\ events' = events \/ events' = Append(events, [revision |-> r, as |-> o])
  BY WriteFollows
<1>3. \A s \in Names :
         /\ revs[s].number \in Int /\ cache[s].number \in Int /\ list[s].number \in Int
         /\ revs[s].number <= Bound(s) /\ cache[s].number <= Bound(s)
  BY BoundTypes DEF NumbersBounded
<1>4. o.number \in Int
  BY Constants DEF Revision
<1>5. \A s \in Names : revs'[s].number \in Int /\ revs'[s].number <= Bound(s)
  BY <1>2, <1>3, <1>4
<1>6. \A s \in Names : cache'[s].number \in Int /\ cache'[s].number <= Bound(s)
  BY <1>3
<1>7. pc' \in {"deactivate", "apply"} =>
         /\ pc \in {"deactivate", "apply"} /\ name' = name
         /\ \A s \in Names : list'[s].number \in Int /\ list'[s].number <= ReadBound(s)
  BY <1>3 DEF NumbersBounded
<1>8. \A i \in DOMAIN events' :
         /\ events'[i].revision \in Names
         /\ events'[i].as.number \in Int
         /\ events'[i].as.number <= Bound(events'[i].revision)
  BY <1>2, EventBounded
<1>9. QED BY <1>1, <1>5, <1>6, <1>7, <1>8, BoundsKept

\* The bounds hold after a step that writes no revision.
LEMMA UnwrittenBounded ==
    ASSUME TypeOK, NumbersBounded, UNCHANGED revisions,
           Spent' \in Int, Rising, pkgCache'.generation <= pkg'.generation,
           pc' \in {"deactivate", "apply"} =>
              pc \in {"deactivate", "apply"} /\ name' = name /\ list' = list
    PROVE  NumbersBounded'
<1>1. revs' = revs /\ cache' = cache /\ events' = events
  BY DEF revisions
<1>2. \A s \in Names :
         /\ revs[s].number \in Int /\ cache[s].number \in Int /\ list[s].number \in Int
         /\ revs[s].number <= Bound(s) /\ cache[s].number <= Bound(s)
  BY BoundTypes DEF NumbersBounded
<1>3. \A i \in DOMAIN events :
         /\ events[i].revision \in Names /\ events[i].as.number \in Int
         /\ events[i].as.number <= Bound(events[i].revision)
  BY BoundTypes DEF NumbersBounded
<1>4. pc' \in {"deactivate", "apply"} =>
         /\ pc \in {"deactivate", "apply"} /\ name' = name
         /\ \A s \in Names : list'[s].number \in Int /\ list'[s].number <= ReadBound(s)
  BY <1>2 DEF NumbersBounded
<1>5. QED BY <1>1, <1>2, <1>3, <1>4, BoundsKept

-----------------------------------------------------------------------------
(* What others do.                                                         *)

\* Something that is to be seen, or was, leaves nothing to show.
LEMMA Stirred ==
    ASSUME queued' = TRUE \/ events' # <<>>
    PROVE  ~Calm' /\ Established'
<1>1. ~Calm'
  BY DEF Calm
<1>2. QED BY <1>1 DEF Established

LEMMA TroubleFacts ==
    ASSUME TypeOK, Trouble
    PROVE  trouble' = trouble + 1 /\ trouble' \in 0 .. MaxTrouble
BY Constants DEF TypeOK, Trouble

\* Somebody else changes revision r.
LEMMA OtherWrite ==
    ASSUME PackageInv, NEW r \in Names, NEW o \in Revision, o # revs[r], o.number <= Bound(r),
           Write(r, o, FALSE), UNCHANGED <<package, cache, queued, pc, p, pFresh, list, name>>,
           trouble' \in {trouble, trouble + 1}, trouble' \in 0 .. MaxTrouble
    PROVE  PackageInv'
<1>1. TypeOK /\ CacheFollows /\ CopiesAreCurrent /\ NothingMissed /\ NumbersBounded
  BY DEF PackageInv
<1>2. /\ CacheFollows' /\ revs' \in [Names -> Revision]
      /\ \A s \in Names : s # r => revs'[s] = revs[s]
      /\ events' \in Seq(Event) /\ events' # <<>>
      /\ fresh' \in SUBSET fresh /\ r \notin fresh'
  BY <1>1, WriteFollows
<1>3. TypeOK'
  BY <1>1, <1>2 DEF TypeOK, package, Event
<1>4. CopiesAreCurrent'
  <2>1. fresh \subseteq Names
    BY <1>1 DEF TypeOK
  <2>2. QED BY <1>1, <1>2, <2>1 DEF CopiesAreCurrent, package
<1>5. ~Calm' /\ Established'
  BY <1>2, Stirred
<1>6. NothingMissed'
  BY <1>1, <1>5 DEF NothingMissed, package
<1>7. NumbersBounded'
  BY <1>1, WriteBounded DEF package
<1>8. QED BY <1>2, <1>3, <1>4, <1>5, <1>6, <1>7 DEF PackageInv

LEMMA RevisionActions ==
    ASSUME PackageInv, NEW r \in Names, EditRevision(r) \/ DeleteRevision(r) \/ RemoveRevision(r)
    PROVE  PackageInv'
<1>1. TypeOK /\ NumbersBounded
  BY DEF PackageInv
<1>2. /\ revs[r] \in Revision /\ revs[r].number <= Bound(r)
      /\ trouble \in 0 .. MaxTrouble /\ trouble \in {trouble, trouble + 1}
  BY <1>1 DEF TypeOK, NumbersBounded
<1>3. CASE EditRevision(r)
  <2> DEFINE o == [revs[r] EXCEPT !.active = ~@]
  <2>1. o \in Revision /\ o.number = revs[r].number /\ o.active = ~revs[r].active
    BY <1>2 DEF Revision
  <2>2. o # revs[r]
    <3>1. revs[r].active \in BOOLEAN
      BY <1>2 DEF Revision
    <3>2. QED BY <2>1, <3>1
  <2>3. /\ Write(r, o, FALSE)
        /\ UNCHANGED <<package, cache, queued, pc, p, pFresh, list, name>>
        /\ trouble' = trouble + 1 /\ trouble' \in 0 .. MaxTrouble
    BY <1>1, <1>3, TroubleFacts DEF EditRevision
  <2> HIDE DEF o
  <2>4. QED BY <1>2, <2>1, <2>2, <2>3, OtherWrite
<1>4. CASE DeleteRevision(r)
  <2> DEFINE o == [revs[r] EXCEPT !.state = "deleting"]
  <2>1. o \in Revision /\ o.number = revs[r].number /\ o.state = "deleting"
    BY <1>2 DEF Revision
  <2>2. o # revs[r]
    BY <1>4, <2>1 DEF DeleteRevision
  <2>3. /\ Write(r, o, FALSE)
        /\ UNCHANGED <<package, cache, queued, pc, p, pFresh, list, name>>
        /\ trouble' = trouble + 1 /\ trouble' \in 0 .. MaxTrouble
    BY <1>1, <1>4, TroubleFacts DEF DeleteRevision
  <2> HIDE DEF o
  <2>4. QED BY <1>2, <2>1, <2>2, <2>3, OtherWrite
<1>5. CASE RemoveRevision(r)
  <2>1. NoRevision \in Revision /\ NoRevision.number = 0 /\ NoRevision.state = "none"
    BY Constants DEF NoRevision, Revision
  <2>2. NoRevision # revs[r]
    BY <1>5, <2>1 DEF RemoveRevision
  <2>3. 0 <= Bound(r)
    <3>1. revs[r].number \in Nat
      BY <1>2, Constants DEF Revision
    <3>2. QED BY <1>1, <1>2, <3>1, BoundTypes
  <2>4. /\ Write(r, NoRevision, FALSE)
        /\ UNCHANGED <<package, cache, queued, pc, p, pFresh, list, name>>
        /\ trouble' = trouble
    BY <1>5 DEF RemoveRevision
  <2>5. NoRevision.number <= Bound(r)
    BY <2>1, <2>3
  <2>6. QED BY <1>2, <2>1, <2>2, <2>4, <2>5, OtherWrite
<1>6. QED BY <1>3, <1>4, <1>5

LEMMA TouchAction ==
    ASSUME PackageInv, NEW r \in Names, TouchRevision(r)
    PROVE  PackageInv'
<1>1. TypeOK /\ CacheFollows /\ CopiesAreCurrent /\ NothingMissed /\ NumbersBounded
  BY DEF PackageInv
<1>2. /\ revs \in [Names -> Revision] /\ revs[r] \in Revision
      /\ revs' = revs /\ cache' = cache /\ UNCHANGED package
      /\ events' = Append(events, [revision |-> r, as |-> revs[r]])
      /\ UNCHANGED <<queued, pc, p, pFresh, list, name>> /\ fresh' = fresh \ {r}
  BY <1>1 DEF TypeOK, TouchRevision
<1>3. CacheFollows' /\ events' \in Seq(Event) /\ events' # <<>>
  <2>1. revs' = [revs EXCEPT ![r] = revs[r]]
    BY <1>2
  <2>2. QED BY <1>1, <1>2, <2>1, EventFollows
<1>4. trouble' = trouble + 1 /\ trouble' \in 0 .. MaxTrouble
  BY <1>1, TroubleFacts DEF TouchRevision
<1>5. TypeOK'
  BY <1>1, <1>2, <1>3, <1>4 DEF TypeOK, package, Event
<1>6. CopiesAreCurrent'
  BY <1>1, <1>2 DEF CopiesAreCurrent, package
<1>7. ~Calm' /\ Established'
  BY <1>3, Stirred
<1>8. NothingMissed'
  BY <1>1, <1>2, <1>7 DEF NothingMissed, package
<1>9. NumbersBounded'
  <2>1. \A s \in Names :
           /\ revs[s].number \in Int /\ cache[s].number \in Int /\ list[s].number \in Int
           /\ revs[s].number <= Bound(s) /\ cache[s].number <= Bound(s)
    BY <1>1, BoundTypes DEF NumbersBounded
  <2>2. \A i \in DOMAIN events' :
           /\ events'[i].revision \in Names
           /\ events'[i].as.number \in Int
           /\ events'[i].as.number <= Bound(events'[i].revision)
    BY <1>1, <1>2, <2>1, EventBounded
  <2>3. pc' \in {"deactivate", "apply"} =>
           /\ pc \in {"deactivate", "apply"} /\ name' = name
           /\ \A s \in Names : list'[s].number \in Int /\ list'[s].number <= ReadBound(s)
    BY <1>1, <1>2, <2>1 DEF NumbersBounded
  <2>4. Spent' \in Int /\ Rising /\ pkgCache'.generation <= pkg'.generation
    BY <1>1, <1>2, <1>4, SpentKept DEF package
  <2>5. QED BY <1>1, <1>2, <2>1, <2>2, <2>3, <2>4, BoundsKept
<1>10. QED BY <1>3, <1>5, <1>6, <1>7, <1>8, <1>9 DEF PackageInv

\* What was established stays so while nothing of it changes.
LEMMA EstablishedKept ==
    ASSUME Established, UNCHANGED <<revs, events, queued, pc, p, name>>,
           pkgSeen' => pkgSeen /\ pkg' = pkg
    PROVE  Established'
<1>1. Calm' = Calm /\ Trimmed' = Trimmed /\ OnTop(p.automatic)' = OnTop(p.automatic)
  BY DEF Calm, Trimmed, OnTop, Existing
<1>2. pkg' = pkg => OnTop(pkg.automatic)' = OnTop(pkg.automatic)
  BY DEF OnTop, Existing
<1>3. QED BY <1>1, <1>2 DEF Established

LEMMA EditPackageAction ==
    ASSUME PackageInv, NEW a \in BOOLEAN, EditPackage(a)
    PROVE  PackageInv'
<1>1. TypeOK /\ CacheFollows /\ CopiesAreCurrent /\ NothingMissed /\ Established /\ NumbersBounded
  BY DEF PackageInv
<1>2. /\ pkg' = [pkg EXCEPT !.generation = @ + 1, !.automatic = a]
      /\ pkg.generation < MaxGeneration
      /\ pkgSeen' = FALSE /\ pFresh' = FALSE
      /\ UNCHANGED <<pkgCache, digest, queued, pc, p, list, fresh, name>>
      /\ UNCHANGED revisions
      /\ revs' = revs /\ cache' = cache /\ events' = events
  BY DEF EditPackage, WritePackage, revisions
<1>3. trouble' = trouble + 1 /\ trouble' \in 0 .. MaxTrouble
  BY <1>1, TroubleFacts DEF EditPackage
<1>4. pkg' \in Package /\ pkg'.generation = pkg.generation + 1
  <2>1. pkg \in Package
    BY <1>1 DEF TypeOK
  <2>2. pkg.generation + 1 \in 1 .. MaxGeneration
    BY <1>2, <2>1, Constants DEF Package
  <2>3. QED BY <1>2, <2>1, <2>2 DEF Package
<1>5. TypeOK'
  BY <1>1, <1>2, <1>3, <1>4 DEF TypeOK
<1>6. CacheFollows'
  BY <1>1, <1>2 DEF CacheFollows, Pending
<1>7. CopiesAreCurrent' /\ NothingMissed'
  BY <1>1, <1>2 DEF CopiesAreCurrent, NothingMissed, Calm
<1>8. Established'
  BY <1>1, <1>2, EstablishedKept
<1>9. NumbersBounded'
  <2>1. PICK g \in Int, h \in Int, t \in Int :
           g = pkg.generation /\ h = pkgCache.generation /\ t = trouble /\ h <= g
    BY <1>1, BoundTypes DEF NumbersBounded
  <2>2. Spent = t - (g - h) /\ Spent' = (t + 1) - ((g + 1) - h)
    BY <1>2, <1>3, <1>4, <2>1 DEF Spent
  <2>3. PICK b \in Int : b = Spent /\ b = Spent' /\ b >= b
    BY <2>1, <2>2
  <2>4. Due' = Due
    BY <1>2 DEF Due
  <2>5. Spent' \in Int /\ Rising
    BY <2>3, <2>4 DEF Rising
  <2>6. pkgCache'.generation <= pkg'.generation
    BY <1>2, <1>4, <2>1
  <2>7. QED BY <1>1, <1>2, <2>5, <2>6, UnwrittenBounded
<1>10. QED BY <1>5, <1>6, <1>7, <1>8, <1>9 DEF PackageInv

LEMMA MoveTagAction ==
    ASSUME PackageInv, NEW d \in Digests, MoveTag(d)
    PROVE  PackageInv'
<1>1. TypeOK /\ CacheFollows /\ CopiesAreCurrent /\ NothingMissed /\ Established /\ NumbersBounded
  BY DEF PackageInv
<1>2. /\ UNCHANGED <<pkg, pkgCache, pkgSeen, queued, pc, p, pFresh, list, fresh, name>>
      /\ UNCHANGED revisions
      /\ revs' = revs /\ cache' = cache /\ events' = events /\ digest' = d
  BY DEF MoveTag, revisions, locals
<1>3. trouble' = trouble + 1 /\ trouble' \in 0 .. MaxTrouble
  BY <1>1, TroubleFacts DEF MoveTag
<1>4. TypeOK'
  BY <1>1, <1>2, <1>3 DEF TypeOK
<1>5. CacheFollows'
  BY <1>1, <1>2 DEF CacheFollows, Pending
<1>6. CopiesAreCurrent' /\ NothingMissed'
  BY <1>1, <1>2 DEF CopiesAreCurrent, NothingMissed, Calm
<1>7. Established'
  BY <1>1, <1>2, EstablishedKept
<1>8. NumbersBounded'
  <2>1. PICK g \in Int, h \in Int, t \in Int :
           g = pkg.generation /\ h = pkgCache.generation /\ t = trouble /\ h <= g
    BY <1>1, BoundTypes DEF NumbersBounded
  <2>2. Spent = t - (g - h) /\ Spent' = (t + 1) - (g - h)
    BY <1>2, <1>3, <2>1 DEF Spent
  <2>3. PICK a \in Int, b \in Int : a = Spent /\ b = Spent' /\ b >= a + 1
    BY <2>1, <2>2
  <2>4. Spent' \in Int /\ Rising
    BY <2>3 DEF Rising
  <2>5. QED BY <1>1, <1>2, <2>1, <2>4, UnwrittenBounded
<1>9. QED BY <1>4, <1>5, <1>6, <1>7, <1>8 DEF PackageInv

LEMMA SeePackageAction ==
    ASSUME PackageInv, SeePackage
    PROVE  PackageInv'
<1>1. TypeOK /\ CacheFollows /\ CopiesAreCurrent /\ NothingMissed /\ NumbersBounded
  BY DEF PackageInv
<1>2. /\ UNCHANGED <<pkg, digest, pc, p, pFresh, list, fresh, name, trouble>>
      /\ UNCHANGED revisions
      /\ revs' = revs /\ cache' = cache /\ events' = events
      /\ pkgSeen' = TRUE /\ pkgCache' = pkg /\ queued' = TRUE
  BY DEF SeePackage, revisions, locals
<1>3. TypeOK'
  BY <1>1, <1>2 DEF TypeOK
<1>4. CacheFollows'
  BY <1>1, <1>2 DEF CacheFollows, Pending
<1>5. ~Calm' /\ Established'
  BY <1>2, Stirred
<1>6. CopiesAreCurrent' /\ NothingMissed'
  BY <1>1, <1>2, <1>5 DEF CopiesAreCurrent, NothingMissed
<1>7. NumbersBounded'
  <2>1. PICK g \in Int, h \in Int, t \in Int :
           g = pkg.generation /\ h = pkgCache.generation /\ t = trouble /\ h <= g
    BY <1>1, BoundTypes DEF NumbersBounded
  <2>2. Spent = t - (g - h) /\ Spent' = t - (g - g)
    BY <1>2, <2>1 DEF Spent
  <2>3. PICK a \in Int, b \in Int : a = Spent /\ b = Spent' /\ b >= a /\ (h = g \/ b >= a + 1)
    BY <2>1, <2>2
  <2>4. h = g => Due' = Due
    BY <1>2, <2>1 DEF Due
  <2>5. Spent' \in Int /\ Rising
    BY <2>3, <2>4 DEF Rising
  <2>6. pkgCache'.generation <= pkg'.generation
    BY <1>2, <2>1
  <2>7. QED BY <1>1, <1>2, <2>5, <2>6, UnwrittenBounded
<1>8. QED BY <1>3, <1>4, <1>5, <1>6, <1>7 DEF PackageInv

LEMMA SeeRevisionAction ==
    ASSUME PackageInv, SeeRevision
    PROVE  PackageInv'
<1>1. TypeOK /\ CacheFollows /\ CopiesAreCurrent /\ NothingMissed /\ NumbersBounded
  BY DEF PackageInv
<1>2. /\ UNCHANGED <<pkg, pkgCache, pkgSeen, digest, revs, pc, p, pFresh, list, fresh, name, trouble>>
      /\ queued' = TRUE
  BY DEF SeeRevision, package, locals
<1>3. /\ CacheFollows'
      /\ cache' \in [Names -> Revision] /\ events' \in Seq(Event)
      /\ DOMAIN events' = 1 .. Len(events) - 1 /\ Len(events) \in Nat
      /\ DOMAIN events = 1 .. Len(events) /\ 1 \in DOMAIN events
      /\ \A i \in 1 .. Len(events) - 1 : events'[i] = events[i + 1]
      /\ cache'[events[1].revision] = events[1].as
      /\ \A s \in Names : s # events[1].revision => cache'[s] = cache[s]
  BY <1>1, SeeingFollows
<1>4. TypeOK'
  BY <1>1, <1>2, <1>3 DEF TypeOK, Event
<1>5. ~Calm' /\ Established'
  BY <1>2, Stirred
<1>6. CopiesAreCurrent' /\ NothingMissed'
  BY <1>1, <1>2, <1>5 DEF CopiesAreCurrent, NothingMissed
<1>7. NumbersBounded'
  <2>1. \A s \in Names :
           /\ revs[s].number \in Int /\ cache[s].number \in Int /\ list[s].number \in Int
           /\ revs[s].number <= Bound(s) /\ cache[s].number <= Bound(s)
    BY <1>1, BoundTypes DEF NumbersBounded
  <2>2. \A i \in DOMAIN events :
           /\ events[i].revision \in Names /\ events[i].as.number \in Int
           /\ events[i].as.number <= Bound(events[i].revision)
    BY <1>1, BoundTypes DEF NumbersBounded
  <2>3. \A s \in Names : cache'[s].number \in Int /\ cache'[s].number <= Bound(s)
    BY <1>3, <2>1, <2>2
  <2>4. \A i \in DOMAIN events' :
           /\ events'[i].revision \in Names /\ events'[i].as.number \in Int
           /\ events'[i].as.number <= Bound(events'[i].revision)
    <3>1. TAKE i \in DOMAIN events'
    <3>2. i + 1 \in DOMAIN events /\ events'[i] = events[i + 1]
      BY <1>3
    <3>3. QED BY <2>2, <3>2
  <2>5. pc' \in {"deactivate", "apply"} =>
           /\ pc \in {"deactivate", "apply"} /\ name' = name
           /\ \A s \in Names : list'[s].number \in Int /\ list'[s].number <= ReadBound(s)
    BY <1>1, <1>2, <2>1 DEF NumbersBounded
  <2>6. Spent' \in Int /\ Rising /\ pkgCache'.generation <= pkg'.generation
    BY <1>1, <1>2, SpentKept
  <2>7. QED BY <1>1, <1>2, <2>1, <2>3, <2>4, <2>5, <2>6, BoundsKept
<1>8. QED BY <1>3, <1>4, <1>5, <1>6, <1>7 DEF PackageInv

LEMMA PollAction ==
    ASSUME PackageInv, Poll
    PROVE  PackageInv'
<1>1. TypeOK /\ CacheFollows /\ CopiesAreCurrent /\ NothingMissed /\ NumbersBounded
  BY DEF PackageInv
<1>2. /\ UNCHANGED <<pkg, pkgCache, pkgSeen, digest, revs, cache, events>>
      /\ UNCHANGED <<pc, p, pFresh, list, fresh, name, trouble>>
      /\ UNCHANGED revisions /\ queued' = TRUE
  BY DEF Poll, package, revisions, locals
<1>3. TypeOK'
  BY <1>1, <1>2 DEF TypeOK
<1>4. CacheFollows'
  BY <1>1, <1>2 DEF CacheFollows, Pending
<1>5. ~Calm' /\ Established'
  BY <1>2, Stirred
<1>6. CopiesAreCurrent' /\ NothingMissed'
  BY <1>1, <1>2, <1>5 DEF CopiesAreCurrent, NothingMissed
<1>7. NumbersBounded'
  BY <1>1, <1>2, SpentKept, UnwrittenBounded
<1>8. QED BY <1>3, <1>4, <1>5, <1>6, <1>7 DEF PackageInv

-----------------------------------------------------------------------------
(* The reconcile.                                                          *)

\* It gives up.
LEMMA RequeueStep ==
    ASSUME PackageInv, Requeue, UNCHANGED <<pkg, pkgCache, pkgSeen, digest, p, name>>,
           UNCHANGED <<revs, cache, events>>,
           trouble' \in {trouble, trouble + 1}, trouble' \in 0 .. MaxTrouble
    PROVE  PackageInv'
<1>1. TypeOK /\ CacheFollows /\ CopiesAreCurrent /\ NumbersBounded
  BY DEF PackageInv
<1>2. /\ pc' = "idle" /\ list' = [r \in Names |-> NoRevision]
      /\ fresh' = {} /\ pFresh' = FALSE /\ queued' = TRUE
  BY DEF Requeue, Forget
<1>3. NoRevision \in Revision
  BY Constants DEF NoRevision, Revision
<1>4. TypeOK'
  BY <1>1, <1>2, <1>3 DEF TypeOK
<1>5. CacheFollows'
  BY <1>1 DEF CacheFollows, Pending
<1>6. ~Calm' /\ Established'
  BY <1>2, Stirred
<1>7. CopiesAreCurrent' /\ NothingMissed'
  BY <1>1, <1>2, <1>6 DEF CopiesAreCurrent, NothingMissed
<1>8. NumbersBounded'
  BY <1>1, <1>2, SpentKept, UnwrittenBounded DEF revisions
<1>9. QED BY <1>4, <1>5, <1>6, <1>7, <1>8 DEF PackageInv

\* A reconcile that begins has what the cache has.
LEMMA BeginAction ==
    ASSUME PackageInv, Begin
    PROVE  PackageInv'
<1>1. TypeOK /\ CacheFollows /\ CopiesAreCurrent /\ NumbersBounded
  BY DEF PackageInv
<1>2. /\ UNCHANGED <<pkg, pkgCache, pkgSeen, digest, revs, cache, events, trouble>>
      /\ queued' = FALSE /\ p' = pkgCache /\ pFresh' = pkgSeen
      /\ list' = cache /\ fresh' = Seen /\ name' = Due /\ pc' = "deactivate"
  BY DEF Begin, package, revisions, Due
<1>3. Due \in Names
  BY <1>1, BoundTypes
<1>4. TypeOK'
  BY <1>1, <1>2, <1>3 DEF TypeOK, Seen
<1>5. CacheFollows'
  BY <1>1, <1>2 DEF CacheFollows, Pending
<1>6. \A r \in Seen : r \in Names /\ cache[r] = revs[r]
  <2>1. TAKE r \in Seen
  <2>2. r \in Names /\ Pending(r) = {}
    BY DEF Seen, Pending, Range
  <2>3. QED BY <1>1, <2>2 DEF CacheFollows
<1>7. CopiesAreCurrent'
  BY <1>1, <1>2, <1>6 DEF CopiesAreCurrent
<1>8. NothingMissed'
  <2>1. ASSUME events = <<>> PROVE cache = revs /\ Seen = Names
    <3>1. Seen = Names
      BY <2>1 DEF Seen, Range
    <3>2. cache \in [Names -> Revision] /\ revs \in [Names -> Revision]
      BY <1>1 DEF TypeOK
    <3>3. cache = revs
      BY <1>6, <3>1, <3>2
    <3>4. QED BY <3>1, <3>3
  <2>2. QED BY <1>2, <1>3, <2>1 DEF NothingMissed, Calm
<1>9. Established'
  BY <1>2 DEF Established
<1>10. NumbersBounded'
  <2>1. Spent' = Spent /\ Due' = Due
    BY <1>2 DEF Spent, Due
  <2>2. \A r : Bound(r)' = Bound(r)
    BY <2>1 DEF Bound
  <2>3. Spent \in Int /\ HistoryLimit \in Nat
    BY <1>1, BoundTypes, Constants
  <2>4. \A r \in Names : ReadBound(r)' = Bound(r)
    <3>1. TAKE r \in Names
    <3>2. ReadBound(r)' = HistoryLimit + Spent + (IF r = Due THEN 1 ELSE 0) - 0
      BY <1>2, <2>1 DEF ReadBound
    <3>3. CASE r = Due
      <4>1. ReadBound(r)' = HistoryLimit + Spent + 1 - 0 /\ Bound(r) = HistoryLimit + Spent + 1
        BY <3>2, <3>3 DEF Bound
      <4>2. QED BY <2>3, <4>1
    <3>4. CASE r # Due
      <4>1. ReadBound(r)' = HistoryLimit + Spent + 0 - 0 /\ Bound(r) = HistoryLimit + Spent + 0
        BY <3>2, <3>4 DEF Bound
      <4>2. QED BY <2>3, <4>1
    <3>5. QED BY <3>3, <3>4
  <2>5. \A r \in Names : list'[r].number <= ReadBound(r)'
    BY <1>1, <1>2, <2>4 DEF NumbersBounded
  <2>6. \A i \in DOMAIN events' : events'[i].as.number <= Bound(events[i].revision)'
    BY <1>1, <1>2, <2>2 DEF NumbersBounded
  <2>7. QED BY <1>1, <1>2, <2>1, <2>2, <2>5, <2>6 DEF NumbersBounded
<1>11. QED BY <1>4, <1>5, <1>7, <1>8, <1>9, <1>10 DEF PackageInv

\* It deactivates a revision that is active: that is a change.
LEMMA DeactivateAction ==
    ASSUME PackageInv, NEW r \in Names, Deactivate(r)
    PROVE  PackageInv'
<1>1. TypeOK /\ CacheFollows /\ CopiesAreCurrent /\ NothingMissed /\ NumbersBounded
  BY DEF PackageInv
<1>2. /\ pc = "deactivate" /\ list[r].active
      /\ UNCHANGED <<pkg, pkgCache, pkgSeen, digest, cache, p, name, trouble>>
  BY DEF Deactivate, package, Others
<1>3. trouble \in 0 .. MaxTrouble /\ revs[r] \in Revision /\ list[r] \in Revision
  BY <1>1 DEF TypeOK
<1>4. CASE Writable(r)
  <2> DEFINE o == [revs[r] EXCEPT !.active = FALSE]
  <2>1. /\ Write(r, o, TRUE)
        /\ list' = [list EXCEPT ![r].active = FALSE]
        /\ UNCHANGED <<pc, queued, pFresh>>
    BY <1>4 DEF Deactivate
  <2>2. o \in Revision /\ o.number = revs[r].number /\ o.active = FALSE
    BY <1>3 DEF Revision
  <2>3. r \in fresh /\ list[r] = revs[r]
    BY <1>1, <1>2, <1>4 DEF Writable, CopiesAreCurrent
  <2>4. o # revs[r]
    BY <1>2, <2>2, <2>3
  <2>5. /\ list' \in [Names -> Revision] /\ list'[r] = o
        /\ \A s \in Names : s # r => list'[s] = list[s]
    BY <1>1, <2>1, <2>2, <2>3 DEF TypeOK
  <2>6. \A s \in Names : list'[s].number = list[s].number
    BY <2>2, <2>3, <2>5
  <2>7. o.number <= Bound(r)
    BY <1>1, <2>2 DEF NumbersBounded
  <2> HIDE DEF o
  <2>8. /\ CacheFollows' /\ revs' \in [Names -> Revision] /\ revs'[r] = o
        /\ \A s \in Names : s # r => revs'[s] = revs[s]
        /\ events' \in Seq(Event) /\ events' # <<>> /\ fresh' = fresh
    BY <1>1, <1>2, <2>1, <2>2, <2>4, WriteFollows
  <2>9. TypeOK'
    BY <1>1, <1>2, <2>1, <2>5, <2>8 DEF TypeOK, Event
  <2>10. CopiesAreCurrent'
    <3>1. fresh \subseteq Names
      BY <1>1 DEF TypeOK
    <3>2. \A s \in fresh : list'[s] = revs'[s]
      BY <1>1, <1>2, <2>5, <2>8, <3>1 DEF CopiesAreCurrent
    <3>3. QED BY <1>1, <1>2, <2>1, <2>8, <3>2 DEF CopiesAreCurrent
  <2>11. ~Calm' /\ Established'
    BY <2>8, Stirred
  <2>12. NothingMissed'
    BY <1>1, <1>2, <2>1, <2>11 DEF NothingMissed
  <2>13. NumbersBounded'
    BY <1>1, <1>2, <2>1, <2>2, <2>6, <2>7, WriteBounded
  <2>14. QED BY <2>8, <2>9, <2>10, <2>11, <2>12, <2>13 DEF PackageInv
<1>5. CASE ~Writable(r)
  <2>1. Requeue /\ UNCHANGED <<revs, events>>
    BY <1>5 DEF Deactivate
  <2>2. QED BY <1>2, <1>3, <2>1, RequeueStep
<1>6. QED BY <1>4, <1>5

\* If it deletes nothing, and knows the revisions as they are, no more than one of
\* them is active, and they are not too many.
LEMMA TrimmedByCollect ==
    ASSUME TypeOK, Others = {}, list = revs,
           OverLimit => \E r \in Names : revs[r].state = "deleting"
    PROVE  Trimmed
<1>1. Listed = Existing
  BY DEF Listed, Existing
<1>2. \A r \in Existing : revs[r].active => r = name
  BY <1>1 DEF Others
<1>3. ASSUME HistoryLimit # 0, \A r \in Names : revs[r].state # "deleting"
      PROVE  Cardinality(Existing) <= HistoryLimit + 1
  <2>1. ~(Cardinality(Existing) > HistoryLimit + 1)
    BY <1>1, <1>3 DEF OverLimit
  <2>2. IsFiniteSet(Names)
    <3>1. IsFiniteSet(1 .. MaxGeneration)
      BY Constants, FS_Interval
    <3>2. QED BY <3>1, Constants, FS_Product DEF Names
  <2>3. Cardinality(Existing) \in Nat
    <3>1. Existing \subseteq Names
      BY DEF Existing
    <3>2. QED BY <2>2, <3>1, FS_Subset, FS_CardinalityType
  <2>4. QED BY <2>1, <2>3, Constants
<1>4. QED BY <1>2, <1>3 DEF Trimmed

LEMMA CollectAction ==
    ASSUME PackageInv, Collect
    PROVE  PackageInv'
<1>1. TypeOK /\ CacheFollows /\ CopiesAreCurrent /\ NothingMissed /\ NumbersBounded
  BY DEF PackageInv
<1>2. /\ pc = "deactivate" /\ Others = {}
      /\ UNCHANGED <<pkg, pkgCache, pkgSeen, digest, cache, p, name, trouble>>
  BY DEF Collect, package
<1>3. trouble \in 0 .. MaxTrouble
  BY <1>1 DEF TypeOK
<1>4. CASE OverLimit
  <2>1. PICK r \in Oldest : Delete(r)
    BY <1>4 DEF Collect
  <2>2. r \in Names
    BY DEF Oldest, Listed
  <2>3. CASE Exists(revs[r])
    <3> DEFINE o == [revs[r] EXCEPT !.state = "deleting"]
    <3>1. Write(r, o, FALSE) /\ pc' = "apply" /\ UNCHANGED <<queued, list, pFresh>>
      BY <2>1, <2>3 DEF Delete
    <3>2. o \in Revision /\ o.number = revs[r].number /\ o.state = "deleting"
      BY <1>1, <2>2 DEF TypeOK, Revision
    <3>3. o.number <= Bound(r)
      BY <1>1, <2>2, <3>2 DEF NumbersBounded
    <3> HIDE DEF o
    <3>4. /\ CacheFollows' /\ revs' \in [Names -> Revision] /\ revs'[r] = o
          /\ \A s \in Names : s # r => revs'[s] = revs[s]
          /\ events' \in Seq(Event) /\ fresh' \in SUBSET fresh
          /\ o # revs[r] => r \notin fresh' /\ events' # <<>>
          /\ o = revs[r] => revs' = revs /\ events' = events /\ fresh' = fresh
      BY <1>1, <1>2, <2>2, <3>1, <3>2, WriteFollows
    <3>5. TypeOK'
      BY <1>1, <1>2, <3>1, <3>4 DEF TypeOK, Event
    <3>6. CopiesAreCurrent'
      <4>1. fresh \subseteq Names
        BY <1>1 DEF TypeOK
      <4>2. \A s \in fresh' : list[s] = revs'[s]
        BY <1>1, <1>2, <3>4, <4>1 DEF CopiesAreCurrent
      <4>3. QED BY <1>1, <1>2, <3>1, <4>2 DEF CopiesAreCurrent
    <3>7. NumbersBounded'
      BY <1>1, <1>2, <2>2, <3>1, <3>2, <3>3, WriteBounded
    <3>8. NothingMissed' /\ Established'
      <4>1. CASE o # revs[r]
        <5>1. ~Calm' /\ Established'
          BY <3>4, <4>1, Stirred
        <5>2. QED BY <1>1, <1>2, <3>1, <5>1 DEF NothingMissed
      <4>2. CASE o = revs[r]
        <5>1. revs' = revs /\ events' = events /\ fresh' = fresh
          BY <3>4, <4>2
        <5>2. NothingMissed'
          BY <1>1, <1>2, <3>1, <5>1 DEF NothingMissed, Calm
        <5>3. Calm' => Trimmed
          <6>1. Calm' => list = revs
            BY <1>1, <1>2, <3>1, <5>1 DEF NothingMissed, Calm
          <6>2. \E s \in Names : revs[s].state = "deleting"
            BY <2>2, <3>2, <4>2
          <6>3. QED BY <1>1, <1>2, <6>1, <6>2, TrimmedByCollect
        <5>4. Trimmed' = Trimmed
          BY <1>2, <5>1 DEF Trimmed, Existing
        <5>5. QED BY <3>1, <5>2, <5>3, <5>4 DEF Established
      <4>3. QED BY <4>1, <4>2
    <3>9. QED BY <3>4, <3>5, <3>6, <3>7, <3>8 DEF PackageInv
  <2>4. CASE ~Exists(revs[r])
    <3>1. Requeue /\ UNCHANGED <<revs, events>>
      BY <2>1, <2>4 DEF Delete
    <3>2. QED BY <1>2, <1>3, <3>1, RequeueStep
  <2>5. QED BY <2>3, <2>4
<1>5. CASE ~OverLimit
  <2>1. pc' = "apply" /\ UNCHANGED <<queued, revs, events, list, fresh, pFresh>>
    BY <1>5 DEF Collect
  <2>2. TypeOK'
    BY <1>1, <1>2, <2>1 DEF TypeOK
  <2>3. CacheFollows'
    BY <1>1, <1>2, <2>1 DEF CacheFollows, Pending
  <2>4. CopiesAreCurrent' /\ NothingMissed'
    BY <1>1, <1>2, <2>1 DEF CopiesAreCurrent, NothingMissed, Calm
  <2>5. Established'
    <3>1. Calm' => list = revs
      BY <1>1, <1>2, <2>1 DEF NothingMissed, Calm
    <3>2. Calm' => Trimmed
      BY <1>1, <1>2, <1>5, <3>1, TrimmedByCollect
    <3>3. Trimmed' = Trimmed
      BY <1>2, <2>1 DEF Trimmed, Existing
    <3>4. QED BY <2>1, <3>2, <3>3 DEF Established
  <2>6. NumbersBounded'
    BY <1>1, <1>2, <2>1, SpentKept, UnwrittenBounded DEF revisions
  <2>7. QED BY <2>2, <2>3, <2>4, <2>5, <2>6 DEF PackageInv
<1>6. QED BY <1>4, <1>5

\* If it knows the revisions as they are, and what it applies is what is there, the
\* current one is on top.
LEMMA OnTopByApply ==
    ASSUME TypeOK, name \in Names, list = revs, Applied(revs[name]) = revs[name]
    PROVE  OnTop(p.automatic)
<1>1. /\ revs[name].state = IF Exists(revs[name]) THEN revs[name].state ELSE "live"
      /\ revs[name].number = Number
      /\ revs[name].active = (p.automatic \/ list[name].active)
  <2>1. /\ Applied(revs[name]).state = IF Exists(revs[name]) THEN revs[name].state ELSE "live"
        /\ Applied(revs[name]).number = Number
        /\ Applied(revs[name]).active = (p.automatic \/ list[name].active)
    BY DEF Applied
  <2>2. QED BY <2>1
<1>2. Exists(revs[name])
  BY <1>1 DEF Exists
<1>3. p.automatic => revs[name].active
  BY <1>1
<1>4. name \in Listed
  BY <1>2 DEF Listed
<1>5. /\ maxRevision \in Nat /\ list[name].number \in Nat
      /\ \A r \in Listed : list[r].number <= maxRevision
  BY NumberFacts
<1>6. list[name].number = maxRevision
  <2>1. list[name].number <= maxRevision
    BY <1>4, <1>5
  <2>2. list[name].number = Number
    BY <1>1
  <2>3. QED BY <1>5, <2>1, <2>2 DEF Number
<1>7. \A r \in Existing : revs[r].number <= revs[name].number
  BY <1>5, <1>6 DEF Existing, Listed
<1>8. QED BY <1>2, <1>3, <1>7 DEF OnTop

LEMMA ApplyAction ==
    ASSUME PackageInv, Apply
    PROVE  PackageInv'
<1>1. TypeOK /\ CacheFollows /\ CopiesAreCurrent /\ NothingMissed /\ Established /\ NumbersBounded
  BY DEF PackageInv
<1>2. /\ pc = "apply" /\ name \in Names
      /\ UNCHANGED <<pkg, pkgCache, pkgSeen, digest, cache, p, name, trouble>>
  BY <1>1 DEF Apply, package, NothingMissed
<1>3. trouble \in 0 .. MaxTrouble
  BY <1>1 DEF TypeOK
<1>4. CASE Appliable
  <2> DEFINE o == Applied(revs[name])
  <2>1. Write(name, o, TRUE) /\ pc' = "status" /\ UNCHANGED <<queued, list, pFresh>>
    BY <1>4 DEF Apply
  <2>2. Number <= Bound(name) /\ Number \in 0 .. HistoryLimit + 1 + MaxTrouble
    BY <1>1, <1>2, NumberBounded
  <2>3. o \in Revision /\ o.number = Number
    <3>1. revs[name].state \in {"none", "live", "deleting"}
      BY <1>1, <1>2 DEF TypeOK, Revision
    <3>2. p.automatic \in BOOLEAN /\ list[name].active \in BOOLEAN
      BY <1>1, <1>2 DEF TypeOK, Revision, Package
    <3>3. (p.automatic \/ list[name].active) \in BOOLEAN
      BY <3>2
    <3>4. QED BY <2>2, <3>1, <3>3 DEF Applied, Revision
  <2>4. /\ CacheFollows' /\ revs' \in [Names -> Revision]
        /\ events' \in Seq(Event) /\ fresh' = fresh
        /\ o # revs[name] => events' # <<>>
        /\ o = revs[name] => revs' = revs /\ events' = events
    <3> HIDE DEF o
    <3> QED BY <1>1, <1>2, <2>1, <2>3, WriteFollows
  <2>5. TypeOK'
    BY <1>1, <1>2, <2>1, <2>4 DEF TypeOK, Event
  <2>6. CopiesAreCurrent'
    BY <1>1, <1>2, <2>1 DEF CopiesAreCurrent
  <2>7. NumbersBounded'
    <3>1. o.number <= Bound(name)
      BY <2>2, <2>3
    <3>2. pc' \notin {"deactivate", "apply"}
      BY <2>1
    <3> HIDE DEF o
    <3>3. QED BY <1>1, <1>2, <2>1, <2>3, <3>1, <3>2, WriteBounded
  <2>8. NothingMissed' /\ Established'
    <3>1. CASE o # revs[name]
      <4>1. ~Calm' /\ Established'
        BY <2>4, <3>1, Stirred
      <4>2. QED BY <1>1, <1>2, <2>1, <4>1 DEF NothingMissed
    <3>2. CASE o = revs[name]
      <4>1. revs' = revs /\ events' = events /\ fresh' = fresh
        BY <2>4, <3>2
      <4>2. Calm' = Calm
        BY <2>1, <4>1 DEF Calm
      <4>3. NothingMissed'
        BY <1>1, <1>2, <2>1, <4>1, <4>2 DEF NothingMissed
      <4>4. Calm => Trimmed
        BY <1>1, <1>2 DEF Established
      <4>5. Calm => OnTop(p.automatic)
        <5>1. Calm => list = revs
          BY <1>1, <1>2 DEF NothingMissed
        <5>2. QED BY <1>1, <1>2, <3>2, <5>1, OnTopByApply
      <4>6. Trimmed' = Trimmed /\ OnTop(p.automatic)' = OnTop(p.automatic)
        BY <1>2, <4>1 DEF Trimmed, OnTop, Existing
      <4>7. QED BY <2>1, <4>2, <4>3, <4>4, <4>5, <4>6 DEF Established
    <3>3. QED BY <3>1, <3>2
  <2>9. QED BY <2>4, <2>5, <2>6, <2>7, <2>8 DEF PackageInv
<1>5. CASE ~Appliable
  <2>1. Requeue /\ UNCHANGED <<revs, events>>
    BY <1>5 DEF Apply
  <2>2. QED BY <1>2, <1>3, <2>1, RequeueStep
<1>6. QED BY <1>4, <1>5

\* The status is written on top of the package as it is.
LEMMA UpdateStatusAction ==
    ASSUME PackageInv, UpdateStatus
    PROVE  PackageInv'
<1>1. TypeOK /\ CacheFollows /\ CopiesAreCurrent /\ NothingMissed /\ Established /\ NumbersBounded
  BY DEF PackageInv
<1>2. /\ pc = "status" /\ pc' = "idle" /\ fresh' = {} /\ pFresh' = FALSE
      /\ list' = [r \in Names |-> NoRevision]
      /\ UNCHANGED <<pkgCache, digest, p, name, trouble>>
      /\ UNCHANGED <<revs, cache, events>>
  BY DEF UpdateStatus, Forget, revisions
<1>3. NoRevision \in Revision
  BY Constants DEF NoRevision, Revision
<1>4. CASE pFresh
  <2>1. /\ pkg' = [p EXCEPT !.currentRevision = name] /\ queued' = queued
        /\ pkgSeen' = (pkgSeen /\ pkg' = pkg)
    BY <1>4 DEF UpdateStatus
  <2>2. p = pkg /\ name \in Names
    BY <1>1, <1>2, <1>4 DEF CopiesAreCurrent, NothingMissed
  <2>3. /\ pkg' \in Package /\ pkg'.generation = pkg.generation
        /\ pkg'.automatic = p.automatic /\ pkg'.currentRevision = name
    BY <1>1, <2>1, <2>2 DEF TypeOK, Package
  <2>4. pkgSeen' \in BOOLEAN /\ (pkgSeen' => pkgSeen /\ pkg' = pkg)
    BY <2>1
  <2>5. TypeOK'
    BY <1>1, <1>2, <1>3, <2>1, <2>3, <2>4 DEF TypeOK
  <2>6. CacheFollows'
    BY <1>1, <1>2 DEF CacheFollows, Pending
  <2>7. CopiesAreCurrent' /\ NothingMissed'
    BY <1>1, <1>2, <2>4 DEF CopiesAreCurrent, NothingMissed
  <2>8. Established'
    <3>1. Calm' = Calm
      BY <1>2, <2>1 DEF Calm
    <3>2. Calm => Trimmed /\ OnTop(p.automatic)
      BY <1>1, <1>2 DEF Established
    <3>3. Trimmed' = Trimmed /\ OnTop(pkg.automatic)' = OnTop(p.automatic)
      BY <1>2, <2>3 DEF Trimmed, OnTop, Existing
    <3>4. QED BY <1>2, <2>3, <3>1, <3>2, <3>3 DEF Established
  <2>9. NumbersBounded'
    BY <1>1, <1>2, <2>3, SpentKept, UnwrittenBounded DEF revisions
  <2>10. QED BY <2>5, <2>6, <2>7, <2>8, <2>9 DEF PackageInv
<1>5. CASE ~pFresh
  <2>1. queued' = TRUE /\ UNCHANGED <<pkg, pkgSeen>>
    BY <1>5 DEF UpdateStatus
  <2>2. trouble \in 0 .. MaxTrouble
    BY <1>1 DEF TypeOK
  <2>3. Requeue
    BY <1>2, <2>1 DEF Requeue, Forget
  <2>4. QED BY <1>2, <2>1, <2>2, <2>3, RequeueStep
<1>6. QED BY <1>4, <1>5

LEMMA AbortAction ==
    ASSUME PackageInv, Abort
    PROVE  PackageInv'
<1>1. TypeOK
  BY DEF PackageInv
<1>2. trouble' = trouble + 1 /\ trouble' \in 0 .. MaxTrouble
  BY <1>1, TroubleFacts DEF Abort
<1>3. QED BY <1>2, RequeueStep DEF Abort, package, revisions

-----------------------------------------------------------------------------
(* The initial states.                                                     *)

\* The digests have an order, in which every place is taken once.
LEMMA OrderFacts ==
    /\ Cardinality(Digests) \in Nat
    /\ Order \in [Digests -> 1 .. Cardinality(Digests)]
    /\ \A d, e \in Digests : Order[d] = Order[e] => d = e
    /\ \A k \in 1 .. Cardinality(Digests) : \E d \in Digests : Order[d] = k
<1> DEFINE n == Cardinality(Digests)
<1>1. n \in Nat /\ ExistsBijection(1 .. n, Digests)
  BY Constants, FS_CardinalityType
<1>2. IsFiniteSet(1 .. n) /\ Cardinality(1 .. n) = n
  BY <1>1, FS_Interval
<1> HIDE DEF n
<1>3. \E f \in [Digests -> 1 .. n] : IsInjective(f)
  <2>1. ExistsBijection(Digests, 1 .. n)
    BY <1>1, Fun_ExistsBijSymmetric
  <2>2. QED BY <2>1 DEF ExistsBijection, Bijection, Injection
<1>4. Order \in [Digests -> 1 .. n] /\ IsInjective(Order)
  BY <1>3 DEF Order, n
<1>5. Order \in Injection(Digests, 1 .. n)
  BY <1>4 DEF Injection
<1>6. Order \in Surjection(Digests, 1 .. n)
  BY <1>2, <1>5, FS_Injection DEF n
<1>7. QED
  <2>1. \A d, e \in Digests : Order[d] = Order[e] => d = e
    BY <1>4 DEF IsInjective
  <2>2. \A k \in 1 .. n : \E d \in Digests : Order[d] = k
    BY <1>6 DEF Surjection
  <2>3. QED BY <1>1, <1>4, <2>1, <2>2 DEF n

LEMMA InitInv ==
    ASSUME Init
    PROVE  PackageInv
<1> DEFINE N == Cardinality(Digests)
<1>1. PICK n \in {0, HistoryLimit + 1} : Past(n)
  BY DEF Init
<1>2. /\ pkgCache = pkg /\ p = pkg /\ pkgSeen = TRUE /\ pFresh = FALSE
      /\ cache = revs /\ list = [r \in Names |-> NoRevision]
      /\ events = <<>> /\ fresh = {} /\ queued = TRUE /\ pc = "idle" /\ trouble = 0
  BY DEF Init
<1>3. /\ N \in Nat /\ HistoryLimit \in Nat /\ HistoryLimit < N /\ MaxTrouble \in Nat
      /\ MaxGeneration \in Nat \ {0}
      /\ n \in Nat /\ n <= N /\ n <= HistoryLimit + 1 /\ N >= 1
  BY OrderFacts, Constants
<1>4. PICK m \in 1 .. N : m = Max({1, n}) /\ (n # 0 => m = n)
  <2>1. {1, n} \in SUBSET (0 .. N)
    BY <1>3
  <2>2. Max({1, n}) \in {1, n} /\ \A y \in {1, n} : Max({1, n}) >= y
    BY <1>3, <2>1, HighestExists
  <2>3. QED BY <1>3, <2>2
<1> HIDE DEF N
<1>5. digest \in Digests /\ Order[digest] = m
  <2>1. \E d \in Digests : Order[d] = m
    BY OrderFacts DEF N
  <2>2. digest = CHOOSE d \in Digests : Order[d] = m
    BY <1>1, <1>4 DEF Past
  <2>3. QED BY <2>1, <2>2
<1>6. \A d \in Digests : Order[d] \in 1 .. N
  BY OrderFacts DEF N
<1>7. name \in Names \cup {None}
  <2>1. name = IF n = 0 THEN None ELSE <<digest, 1>>
    BY <1>1 DEF Past
  <2>2. <<digest, 1>> \in Names
    BY <1>3, <1>5 DEF Names
  <2>3. QED BY <2>1, <2>2
<1>8. pkg \in Package /\ pkg.generation = 1
  <2>1. pkg = [generation |-> 1, automatic |-> TRUE, currentRevision |-> name]
    BY <1>1 DEF Past
  <2>2. 1 \in 1 .. MaxGeneration
    BY <1>3
  <2>3. QED BY <1>7, <2>1, <2>2 DEF Package
<1>9. NoRevision \in Revision /\ NoRevision.number = 0
  BY <1>3 DEF NoRevision, Revision
<1>10. ASSUME NEW r \in Names
       PROVE  /\ revs[r] \in Revision
              /\ \/ revs[r].number = 0
                 \/ n # 0 /\ r[2] = 1 /\ revs[r].number = Order[r[1]] /\ Order[r[1]] <= n
  <2>1. r[1] \in Digests
    BY DEF Names
  <2>2. Order[r[1]] \in 1 .. N
    BY <1>6, <2>1
  <2>3. revs[r] = IF r[2] = 1 /\ Order[r[1]] <= n
                      THEN [state |-> "live", number |-> Order[r[1]], active |-> Order[r[1]] = n]
                      ELSE NoRevision
    BY <1>1 DEF Past
  <2>4. CASE r[2] = 1 /\ Order[r[1]] <= n
    <3>1. Order[r[1]] \in 0 .. HistoryLimit + 1 + MaxTrouble /\ n # 0
      BY <1>3, <2>2, <2>4
    <3>2. (Order[r[1]] = n) \in BOOLEAN
      OBVIOUS
    <3>3. QED BY <2>3, <2>4, <3>1, <3>2 DEF Revision
  <2>5. CASE ~(r[2] = 1 /\ Order[r[1]] <= n)
    <3>1. revs[r] = NoRevision
      BY <2>3, <2>5
    <3>2. QED BY <1>9, <3>1
  <2>6. QED BY <2>4, <2>5
<1>11. TypeOK
  <2>1. revs \in [Names -> Revision]
    <3>1. revs = [r \in Names |-> revs[r]]
      BY <1>1 DEF Past
    <3>2. QED BY <1>10, <3>1
  <2>2. trouble \in 0 .. MaxTrouble
    BY <1>2, <1>3
  <2>3. events \in Seq([revision : Names, as : Revision])
    BY <1>2
  <2>4. QED BY <1>2, <1>5, <1>7, <1>8, <1>9, <2>1, <2>2, <2>3 DEF TypeOK
<1>12. CacheFollows
  BY <1>2 DEF CacheFollows, Pending
<1>13. CopiesAreCurrent /\ NothingMissed /\ Established
  BY <1>2 DEF CopiesAreCurrent, NothingMissed, Established, Calm
<1>14. NumbersBounded
  <2>1. Spent = 0 /\ Due = <<digest, 1>>
    BY <1>2, <1>8 DEF Spent, Due
  <2>2. ASSUME NEW r \in Names PROVE revs[r].number <= Bound(r)
    <3>1. (r = Due => Bound(r) = HistoryLimit + 0 + 1) /\ (r # Due => Bound(r) = HistoryLimit + 0 + 0)
      BY <2>1 DEF Bound
    <3>2. CASE revs[r].number = 0
      BY <1>3, <3>1, <3>2
    <3>3. CASE n # 0 /\ r[2] = 1 /\ revs[r].number = Order[r[1]] /\ Order[r[1]] <= n
      <4>1. r[1] \in Digests /\ r = <<r[1], r[2]>>
        BY DEF Names
      <4>2. Order[r[1]] = n => r = Due
        BY <1>4, <1>5, <2>1, <3>3, <4>1, OrderFacts
      <4>3. Order[r[1]] \in Nat
        BY <1>3, <1>6, <4>1
      <4>4. QED BY <1>3, <3>1, <3>3, <4>2, <4>3
    <3>4. QED BY <1>10, <3>2, <3>3
  <2>3. QED BY <1>2, <1>8, <2>1, <2>2 DEF NumbersBounded
<1>15. QED BY <1>11, <1>12, <1>13, <1>14 DEF PackageInv

-----------------------------------------------------------------------------
(* The theorems.                                                           *)

LEMMA StutterInv ==
    ASSUME PackageInv, UNCHANGED vars
    PROVE  PackageInv'
<1>1. /\ UNCHANGED <<pkg, pkgCache, pkgSeen, digest, revs, cache, events, queued>>
      /\ UNCHANGED <<pc, p, pFresh, list, fresh, name, trouble>>
  BY DEF vars, package, revisions, locals
<1>2. TypeOK' /\ CacheFollows'
  BY <1>1 DEF PackageInv, TypeOK, CacheFollows, Pending
<1>3. CopiesAreCurrent' /\ NothingMissed' /\ Established'
  BY <1>1 DEF PackageInv, CopiesAreCurrent, NothingMissed, Established, Calm, Trimmed, OnTop, Existing
<1>4. NumbersBounded'
  BY <1>1 DEF PackageInv, NumbersBounded, Bound, ReadBound, Spent, Due
<1>5. QED BY <1>2, <1>3, <1>4 DEF PackageInv

\* Every step preserves the invariant.
LEMMA NextInv ==
    ASSUME PackageInv, [Next]_vars
    PROVE  PackageInv'
<1>1. CASE Users
  BY <1>1, EditPackageAction, MoveTagAction, RevisionActions DEF Users
<1>2. CASE \E r \in Names : TouchRevision(r) \/ RemoveRevision(r)
  BY <1>2, TouchAction, RevisionActions
<1>3. CASE SeePackage \/ SeeRevision \/ Poll \/ Abort
  BY <1>3, SeePackageAction, SeeRevisionAction, PollAction, AbortAction
<1>4. CASE Reconcile
  BY <1>4, BeginAction, DeactivateAction, CollectAction, ApplyAction, UpdateStatusAction DEF Reconcile
<1>5. CASE UNCHANGED vars
  BY <1>5, StutterInv
<1>6. QED BY <1>1, <1>2, <1>3, <1>4, <1>5 DEF Next

\* The inductive invariant holds in every reachable state, for any digests,
\* generations, history limit and number of changes, failures and crashes.
THEOREM PackageInvariance == Spec => []PackageInv
<1>1. Init => PackageInv
  BY InitInv
<1>2. PackageInv /\ [Next]_vars => PackageInv'
  BY NextInv
<1>3. QED BY <1>1, <1>2, PTL DEF Spec

\* The variables have their types. That bounds the revisions' numbers: a revision
\* gets a new one at most once for each change of the package or of its source.
THEOREM TypeCorrectness == Spec => []TypeOK
<1>1. PackageInv => TypeOK
  BY DEF PackageInv
<1>2. QED BY <1>1, PackageInvariance, PTL

\* At rest the current revision is the only one that is active, and it is active
\* unless activation is manual.
THEOREM OnlyCurrentIsActiveAlways == Spec => []OnlyCurrentIsActive
<1>1. PackageInv => OnlyCurrentIsActive
  <2>1. SUFFICES ASSUME PackageInv, AtRest
                 PROVE  /\ pkg.currentRevision = name
                        /\ Exists(revs[name])
                        /\ \A r \in Existing : revs[r].active => r = name
                        /\ pkg.automatic => revs[name].active
    BY DEF OnlyCurrentIsActive
  <2>2. Trimmed /\ OnTop(pkg.automatic) /\ pkg.currentRevision = name
    BY <2>1 DEF PackageInv, Established, AtRest, Calm
  <2>3. QED BY <2>2 DEF Trimmed, OnTop
<1>2. QED BY <1>1, PackageInvariance, PTL

\* At rest no revision has a higher number than the current one, and there are no
\* more of them than the history limit allows.
THEOREM HistoryIsOrderedAlways == Spec => []HistoryIsOrdered
<1>1. PackageInv => HistoryIsOrdered
  <2>1. SUFFICES ASSUME PackageInv, AtRest
                 PROVE  /\ \A r \in Existing : revs[r].number <= revs[name].number
                        /\ HistoryLimit # 0 => Cardinality(Existing) <= HistoryLimit + 1
    BY DEF HistoryIsOrdered
  <2>2. Trimmed /\ OnTop(pkg.automatic)
    BY <2>1 DEF PackageInv, Established, AtRest, Calm
  <2>3. \A r \in Names : revs[r].state # "deleting"
    BY <2>1 DEF AtRest
  <2>4. QED BY <2>2, <2>3 DEF Trimmed, OnTop
<1>2. QED BY <1>1, PackageInvariance, PTL
=============================================================================
