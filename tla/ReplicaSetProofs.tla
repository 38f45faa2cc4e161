-------------------------- MODULE ReplicaSetProofs --------------------------
(***************************************************************************)
(* The replica set controller waits only for deletions that will be        *)
(* reported, scales only on a list in which its own calls are seen, and    *)
(* creates no more VMIs than the replica set asks for, unless calls were   *)
(* forgotten or miscounted: for any number of VMIs, replicas and events    *)
(* that the informer is behind.                                            *)
(***************************************************************************)
EXTENDS ReplicaSet, FiniteSetTheorems, SequenceTheorems, TLAPS

-----------------------------------------------------------------------------
(* The inductive invariant.                                                *)

Has(seq, e) == \E i \in DOMAIN seq : seq[i] = e

\* The states a VMI may have after state s, and those it may have when s was seen.
Later(s) == {u \in States : \/ s = "live" /\ u # "live"
                            \/ s = "final" /\ u \in {"deleting", "none"}
                            \/ s = "deleting" /\ u = "none"}
Since(s) == {s} \cup Later(s)

Fresh == {"live", "final"}
Present == {"live", "final", "deleting"}

\* The watch delivers a VMI's states in order, and its last one is the API server's;
\* a VMI's name isn't used again before everything has forgotten the VMI.
WatchOrder ==
    \A i, j \in DOMAIN watch :
        i < j /\ watch[i][1] = watch[j][1] => watch[j][2] \in Later(watch[i][2])

WatchStates ==
    \A v \in VMIs, s \in States : Has(watch, <<v, s>>) =>
        api[v] \in Since(s) /\ (cache[v] # "none" => s \in Later(cache[v]))

CacheStates ==
    \A v \in VMIs :
        /\ \/ Has(watch, <<v, api[v]>>)
           \/ api[v] = cache[v] /\ \A s \in States : ~Has(watch, <<v, s>>)
        /\ cache[v] # "none" => api[v] \in Since(cache[v])

WatchInv == WatchOrder /\ WatchStates /\ CacheStates

\* A VMI that the cache doesn't have yet.
Unseen(v) == cache[v] = "none" /\ (api[v] # "none" \/ \E s \in Present : Has(watch, <<v, s>>))

\* A VMI that the controller deleted, and that the cache shows, or will show, undeleted.
Stale(v) == v \in ours /\ (cache[v] \in Fresh \/ \E s \in Fresh : Has(watch, <<v, s>>))

\* The VMIs whose creation has yet to be seen or heard of.
Pending == {v \in VMIs : Unseen(v) \/ Has(notices, <<v, "add">>)}

NoticeInv ==
    /\ \A v \in VMIs : Has(notices, <<v, "delete">>) =>
           /\ api[v] \notin Fresh /\ cache[v] \notin Fresh
           /\ \A s \in Fresh : ~Has(watch, <<v, s>>)
    /\ \A v \in VMIs : Has(notices, <<v, "add">>) => ~Unseen(v)
    /\ \A i, j \in DOMAIN notices : notices[i] = notices[j] /\ notices[i][2] = "add" => i = j

\* VMIs that the controller knows of are in the cache, or gone.
KnownInv ==
    /\ \A v \in VMIs : v \in exp.uids \cup deletes \/ list[v] # "none" =>
           api[v] = "none" \/ cache[v] # "none"
    /\ \A v \in VMIs : list[v] # "none" => api[v] \in Since(list[v])
    /\ \A v \in ours : api[v] \notin Fresh

WorkerInv ==
    /\ creates > 0 => pc = "scaling"
    /\ deletes # {} => pc \in {"scaling", "cleaning"}
    /\ pc = "scale" => needsSync
    /\ pc = "scaling" => \A v \in deletes : list[v] = "live"
    /\ ~exp.set => exp = NoExpectation

\* A deletion that is waited for is still to be called, to be completed, or to be reported.
Due(v) ==
    \/ v \in deletes
    \/ api[v] = "deleting"
    \/ /\ api[v] = "none"
       /\ \/ cache[v] # "none" /\ Has(watch, <<v, "none">>)
          \/ Has(notices, <<v, "delete">>)

DeletionInv ==
    exp.del > 0 =>
        /\ exp.del = Cardinality(exp.uids)
        /\ rs.state # "gone" => \A v \in exp.uids : Due(v)

\* Everything that the controller's calls changed is seen.
AllSeen == creates = 0 /\ Pending = {} /\ \A v \in VMIs : ~Stale(v)

\* The expectations cover all calls that are not seen yet.
Counted ==
    /\ creates + Cardinality(Pending) <= exp.add \/ (creates = 0 /\ Pending = {})
    /\ exp.expired => AllSeen /\ deletes = {}
    /\ \A v \in VMIs : Stale(v) => v \in exp.uids /\ exp.del > 0
    /\ \A v \in deletes : (v \in exp.uids /\ exp.del > 0) \/ api[v] \notin Fresh

\* What the sync knows.
SyncInv ==
    /\ pc = "list" /\ needsSync => AllSeen
    /\ pc = "scale" => /\ \A v \in VMIs : api[v] # "none" => list[v] # "none"
                       /\ \A v \in ours : list[v] \notin Fresh
    /\ pc = "scaling" => \A v \in ours : list[v] # "final"
    /\ \A v \in deletes : v \notin ours
    /\ creates > 0 => Cardinality(In(api, "live")) + creates <= spec.replicas

TrustInv == ~doubt /\ (rs.state # "gone" \/ pc # "idle") => Counted /\ SyncInv

IndInv ==
    /\ TypeOK /\ WatchInv /\ NoticeInv /\ KnownInv /\ WorkerInv /\ DeletionInv /\ TrustInv

-----------------------------------------------------------------------------
(* Sequences, states, expectations and cardinalities.                      *)

LEMMA HasAppend ==
    ASSUME NEW T, NEW seq \in Seq(T), NEW e \in T
    PROVE  /\ Append(seq, e) \in Seq(T)
           /\ \A x : Has(Append(seq, e), x) <=> Has(seq, x) \/ x = e
<1>1. /\ Append(seq, e) \in Seq(T) /\ Len(seq) \in Nat
      /\ DOMAIN seq = 1 .. Len(seq) /\ DOMAIN Append(seq, e) = 1 .. Len(seq) + 1
      /\ \A i \in 1 .. Len(seq) : Append(seq, e)[i] = seq[i]
      /\ Append(seq, e)[Len(seq) + 1] = e
  BY AppendProperties, LenProperties
<1>2. \A i \in 1 .. Len(seq) + 1 : i \in 1 .. Len(seq) \/ i = Len(seq) + 1
  BY <1>1
<1>3. \A i \in 1 .. Len(seq) : i \in 1 .. Len(seq) + 1
  BY <1>1
<1>4. Len(seq) + 1 \in 1 .. Len(seq) + 1
  BY <1>1
<1>5. QED
  BY <1>1, <1>2, <1>3, <1>4 DEF Has

LEMMA TailIndex ==
    ASSUME NEW T, NEW seq \in Seq(T), seq # << >>
    PROVE  /\ Tail(seq) \in Seq(T) /\ Head(seq) \in T /\ Head(seq) = seq[1] /\ 1 \in DOMAIN seq
           /\ DOMAIN seq \subseteq Nat \ {0}
           /\ \A i \in DOMAIN Tail(seq) : i \in Nat \ {0} /\ i + 1 \in DOMAIN seq /\ Tail(seq)[i] = seq[i + 1]
           /\ \A i \in DOMAIN seq : i # 1 => i - 1 \in DOMAIN Tail(seq) /\ Tail(seq)[i - 1] = seq[i]
<1>1. /\ Tail(seq) \in Seq(T) /\ Head(seq) \in T /\ Head(seq) = seq[1] /\ Len(seq) \in Nat \ {0}
      /\ DOMAIN seq = 1 .. Len(seq) /\ DOMAIN Tail(seq) = 1 .. Len(seq) - 1
      /\ \A i \in 1 .. Len(seq) - 1 : Tail(seq)[i] = seq[i + 1]
  BY HeadTailProperties, LenProperties, EmptySeq
<1> DEFINE n == Len(seq)
<1> HIDE DEF n
<1>2. n \in Nat \ {0} /\ DOMAIN seq = 1 .. n /\ DOMAIN Tail(seq) = 1 .. n - 1
  BY <1>1 DEF n
<1>3. 1 \in DOMAIN seq /\ DOMAIN seq \subseteq Nat \ {0}
  BY <1>2
<1>4. ASSUME NEW i \in DOMAIN Tail(seq)
      PROVE  i \in Nat \ {0} /\ i + 1 \in DOMAIN seq /\ Tail(seq)[i] = seq[i + 1]
  BY <1>1, <1>2 DEF n
<1>5. ASSUME NEW i \in DOMAIN seq, i # 1
      PROVE  i - 1 \in DOMAIN Tail(seq) /\ Tail(seq)[i - 1] = seq[i]
  <2>1. i - 1 \in DOMAIN Tail(seq) /\ i \in Int /\ (i - 1) + 1 = i
    BY <1>2, <1>5
  <2>2. QED
    BY <1>4, <2>1
<1>6. QED
  BY <1>1, <1>3, <1>4, <1>5

LEMMA HasTail ==
    ASSUME NEW T, NEW seq \in Seq(T), seq # << >>
    PROVE  \A x : Has(seq, x) <=> x = Head(seq) \/ Has(Tail(seq), x)
<1>1. \A x : Has(Tail(seq), x) => Has(seq, x)
  BY TailIndex DEF Has
<1>2. \A x : Has(seq, x) => x = Head(seq) \/ Has(Tail(seq), x)
  <2>1. SUFFICES ASSUME NEW x, NEW i \in DOMAIN seq, seq[i] = x, x # Head(seq) PROVE Has(Tail(seq), x)
    BY DEF Has
  <2>2. i - 1 \in DOMAIN Tail(seq) /\ Tail(seq)[i - 1] = seq[i]
    BY <2>1, TailIndex
  <2>3. QED
    BY <2>1, <2>2 DEF Has
<1>3. Has(seq, Head(seq))
  BY TailIndex DEF Has
<1>4. QED
  BY <1>1, <1>2, <1>3

LEMMA LaterFacts ==
    /\ \A s \in States : Later(s) \subseteq States /\ s \notin Later(s)
    /\ \A s \in States : \A t \in Later(s) : Later(t) \subseteq Later(s)
    /\ Later("none") = {} /\ "none" \in Later("deleting")
    /\ \A s \in Fresh : "deleting" \in Later(s) /\ "none" \in Later(s)
    /\ "final" \in Later("live") /\ \A s \in States : "live" \notin Later(s)
    /\ \A s \in States \ Fresh : Later(s) \cap Fresh = {}
    /\ Fresh \subseteq Present /\ Present \subseteq States /\ States = Present \cup {"none"}
    /\ "none" \notin Present
  BY DEF Later, States, Fresh, Present

LEMMA Consts ==
    /\ MaxVMIs \in Nat /\ MaxReplicas \in Nat /\ MaxLag \in Nat /\ MaxTrouble \in Nat
    /\ Burst \in Nat \ {0}
  BY ReplicaSetAssumption

LEMMA VMICardinality ==
    ASSUME NEW S \in SUBSET VMIs
    PROVE  /\ IsFiniteSet(S) /\ Cardinality(S) \in 0 .. MaxVMIs /\ Cardinality(S) \in Nat
           /\ Cardinality(S) = 0 <=> S = {}
<1>1. IsFiniteSet(VMIs) /\ Cardinality(VMIs) = MaxVMIs
  BY Consts, FS_Interval DEF VMIs
<1>2. IsFiniteSet(S) /\ Cardinality(S) <= Cardinality(VMIs)
  BY <1>1, FS_Subset
<1>3. Cardinality(S) \in Nat
  BY <1>2, FS_CardinalityType
<1>4. Cardinality(S) = 0 <=> S = {}
  BY <1>2, FS_EmptySet
<1>5. QED
  BY <1>1, <1>2, <1>3, <1>4, Consts

LEMMA OrdersFacts ==
    ASSUME NEW S \in SUBSET VMIs, NEW o \in Orders(S)
    PROVE  /\ Cardinality(S) \in Nat /\ DOMAIN o = 1 .. Cardinality(S)
           /\ \A i \in DOMAIN o : o[i] \in S
           /\ \A x \in S : \E i \in DOMAIN o : o[i] = x
           /\ \A i, j \in DOMAIN o : o[i] = o[j] => i = j
<1>1. Cardinality(S) \in Nat
  BY VMICardinality
<1>2. QED
  BY <1>1 DEF Orders, Bijection, Injection, Surjection, IsInjective

LEMMA FunctionIsSeq ==
    ASSUME NEW n \in Nat, NEW T, NEW f \in [1 .. n -> T]
    PROVE  f \in Seq(T)
  OBVIOUS

LEMMA ExpectationFacts ==
    ASSUME NEW e \in Expectation(VMIs)
    PROVE  /\ e.set \in BOOLEAN /\ e.add \in Int /\ e.del \in Int /\ e.expired \in BOOLEAN /\ e.uids \in SUBSET VMIs
           /\ CreationObserved(e) \in Expectation(VMIs)
           /\ \A n \in Int : ExpectCreations(e, n) \in Expectation(VMIs)
           /\ \A S \in SUBSET VMIs : ExpectDeletions(e, S) \in Expectation(VMIs)
           /\ \A v \in VMIs : DeletionObserved(e, v) \in Expectation(VMIs)
           /\ [e EXCEPT !.expired = TRUE] \in Expectation(VMIs)
           /\ NoExpectation \in Expectation(VMIs)
<1>1. e.set \in BOOLEAN /\ e.add \in Int /\ e.del \in Int /\ e.expired \in BOOLEAN /\ e.uids \in SUBSET VMIs
  BY DEF Expectation
<1>2. \A S \in SUBSET VMIs : Cardinality(S) \in Int
  BY VMICardinality
<1>3. CreationObserved(e) \in Expectation(VMIs)
  BY <1>1 DEF Expectation, CreationObserved
<1>4. \A n \in Int : ExpectCreations(e, n) \in Expectation(VMIs)
  BY <1>1 DEF Expectation, ExpectCreations, SetExpectations
<1>5. \A S \in SUBSET VMIs : ExpectDeletions(e, S) \in Expectation(VMIs)
  <2>1. SUFFICES ASSUME NEW S \in SUBSET VMIs PROVE ExpectDeletions(e, S) \in Expectation(VMIs)
    OBVIOUS
  <2> DEFINE r == SetExpectations(e, 0, Cardinality(S))
  <2>2. r \in Expectation(VMIs)
    BY <1>1, <1>2 DEF SetExpectations, Expectation
  <2>3. ExpectDeletions(e, S) = [r EXCEPT !.uids = S]
    BY DEF ExpectDeletions
  <2> HIDE DEF r
  <2>4. QED
    BY <2>2, <2>3 DEF Expectation
<1>6. \A v \in VMIs : DeletionObserved(e, v) \in Expectation(VMIs)
  <2>1. SUFFICES ASSUME NEW v \in VMIs PROVE DeletionObserved(e, v) \in Expectation(VMIs)
    OBVIOUS
  <2>2. e.uids \ {v} \in SUBSET VMIs /\ e.del - 1 \in Int
    BY <1>1
  <2>3. QED
    BY <1>1, <2>2 DEF Expectation, DeletionObserved
<1>7. [e EXCEPT !.expired = TRUE] \in Expectation(VMIs)
  BY <1>1 DEF Expectation
<1>8. NoExpectation \in Expectation(VMIs)
  BY DEF Expectation, NoExpectation
<1>9. QED
  BY <1>1, <1>3, <1>4, <1>5, <1>6, <1>7, <1>8

\* What the methods do to the fields.
LEMMA ExpectationFields ==
    ASSUME NEW e \in Expectation(VMIs)
    PROVE  /\ NoExpectation.add = 0 /\ NoExpectation.del = 0 /\ ~NoExpectation.set
           /\ ~NoExpectation.expired /\ NoExpectation.uids = {}
           /\ \A n \in Int : LET f == ExpectCreations(e, n)
                             IN  f.set /\ f.add = n /\ f.del = 0 /\ ~f.expired /\ f.uids = e.uids
           /\ \A S \in SUBSET VMIs : LET f == ExpectDeletions(e, S)
                                     IN  /\ f.set /\ f.add = 0 /\ f.del = Cardinality(S)
                                         /\ ~f.expired /\ f.uids = S
           /\ LET f == CreationObserved(e)
              IN  /\ f.set = e.set /\ f.del = e.del /\ f.expired = e.expired /\ f.uids = e.uids
                  /\ f.add = IF e.set THEN e.add - 1 ELSE e.add
                  /\ ~e.set => f = e
           /\ \A v \in VMIs : LET f == DeletionObserved(e, v)
                              IN  /\ f.set = e.set /\ f.add = e.add /\ f.expired = e.expired
                                  /\ f.uids = e.uids \ {v}
                                  /\ f.del = IF v \in e.uids THEN e.del - 1 ELSE e.del
                                  /\ v \notin e.uids => f = e
<1>1. e.set \in BOOLEAN /\ e.add \in Int /\ e.del \in Int /\ e.expired \in BOOLEAN /\ e.uids \in SUBSET VMIs
  BY DEF Expectation
<1>2. \A n \in Int : LET f == ExpectCreations(e, n)
                     IN  f.set /\ f.add = n /\ f.del = 0 /\ ~f.expired /\ f.uids = e.uids
  BY DEF ExpectCreations, SetExpectations
<1>3. ASSUME NEW S \in SUBSET VMIs
      PROVE  LET f == ExpectDeletions(e, S)
             IN  f.set /\ f.add = 0 /\ f.del = Cardinality(S) /\ ~f.expired /\ f.uids = S
  <2> DEFINE r == SetExpectations(e, 0, Cardinality(S))
  <2>1. r \in Expectation(VMIs) /\ r.set /\ r.add = 0 /\ r.del = Cardinality(S) /\ ~r.expired
    BY <1>1, VMICardinality DEF SetExpectations, Expectation
  <2>2. ExpectDeletions(e, S) = [r EXCEPT !.uids = S]
    BY DEF ExpectDeletions
  <2> HIDE DEF r
  <2>3. QED
    BY <2>1, <2>2 DEF Expectation
<1>4. LET f == CreationObserved(e)
      IN  /\ f.set = e.set /\ f.del = e.del /\ f.expired = e.expired /\ f.uids = e.uids
          /\ f.add = IF e.set THEN e.add - 1 ELSE e.add
          /\ ~e.set => f = e
  BY <1>1 DEF CreationObserved, Expectation
<1>5. ASSUME NEW v \in VMIs
      PROVE  LET f == DeletionObserved(e, v)
             IN  /\ f.set = e.set /\ f.add = e.add /\ f.expired = e.expired
                 /\ f.uids = e.uids \ {v}
                 /\ f.del = IF v \in e.uids THEN e.del - 1 ELSE e.del
                 /\ v \notin e.uids => f = e
  BY <1>1 DEF DeletionObserved, Expectation
<1>6. /\ NoExpectation.add = 0 /\ NoExpectation.del = 0 /\ ~NoExpectation.set
      /\ ~NoExpectation.expired /\ NoExpectation.uids = {}
  BY DEF NoExpectation
<1>7. QED
  BY <1>2, <1>3, <1>4, <1>5, <1>6

-----------------------------------------------------------------------------
(* Types.                                                                  *)

LEMMA BecomesType ==
    ASSUME TypeOK, NEW v \in VMIs, NEW s \in States, Becomes(v, s)
    PROVE  api' \in [VMIs -> States] /\ watch' \in Seq(VMIs \X States)
<1>1. <<v, s>> \in VMIs \X States
  OBVIOUS
<1>2. watch' \in Seq(VMIs \X States)
  BY <1>1, HasAppend DEF Becomes, TypeOK
<1>3. QED
  BY <1>2 DEF Becomes, TypeOK

LEMMA TroubleType ==
    ASSUME TypeOK, Trouble
    PROVE  trouble' \in 0 .. MaxTrouble
  BY Consts DEF TypeOK, Trouble

LEMMA NoticeType ==
    ASSUME NEW old \in States, NEW new \in States
    PROVE  /\ Notice(old, new) \in {"add", "update", "delete"}
           /\ Notice(old, new) = "delete" <=> new \notin Fresh
           /\ Notice(old, new) = "add" <=> new \in Fresh /\ old = "none"
<1>1. CASE new \in {"deleting", "none"}
  BY <1>1 DEF Notice, Fresh
<1>2. CASE new \in {"live", "final"} /\ old = "none"
  BY <1>2 DEF Notice, Fresh
<1>3. CASE new \in {"live", "final"} /\ old # "none"
  BY <1>3 DEF Notice, Fresh
<1>4. QED
  BY <1>1, <1>2, <1>3 DEF States

LEMMA FreeFacts ==
    ASSUME TypeOK, Free # {}
    PROVE  New \in Free /\ New \in VMIs
<1>1. Free \subseteq VMIs /\ VMIs \subseteq Nat /\ VMIs = 1 .. MaxVMIs
  BY DEF Free, VMIs
<1>2. \E v \in Free : \A w \in Free : v <= w
  <2> DEFINE U == 1 .. MaxVMIs
             T == {1 .. x : x \in Free}
  <2>1. IsWellFoundedOn(StrictSubsetOrdering(U), SUBSET U)
    <3>1. IsFiniteSet(U)
      BY Consts, FS_Interval
    <3> HIDE DEF U
    <3>2. FiniteSubsetsOf(U) = SUBSET U
      BY <3>1, FS_FiniteSubsetsOfFinite
    <3>3. QED
      BY <3>2, FS_StrictSubsetOrderingWellFounded
  <2>2. T \subseteq SUBSET U /\ T # {}
    <3>1. \A x \in Free : 1 .. x \subseteq U
      BY <1>1, Consts
    <3>2. PICK x \in Free : TRUE
      OBVIOUS
    <3>3. 1 .. x \in T
      OBVIOUS
    <3>4. QED
      BY <3>1, <3>3
  <2>3. \E m \in T : \A k \in T : <<k, m>> \notin StrictSubsetOrdering(U)
    <3> HIDE DEF T, U
    <3> QED BY <2>1, <2>2, WFMin
  <2>4. PICK x \in Free : \A k \in T : <<k, 1 .. x>> \notin StrictSubsetOrdering(U)
    BY <2>3
  <2>5. ASSUME NEW y \in Free, y < x PROVE FALSE
    <3>1. 1 .. y \in T /\ 1 .. y \in SUBSET U /\ 1 .. x \in SUBSET U
      BY <2>2
    <3>2. x \in 1 .. x /\ x \notin 1 .. y /\ 1 .. y \subseteq 1 .. x
      BY <1>1, <2>5
    <3>3. <<1 .. y, 1 .. x>> \in StrictSubsetOrdering(U)
      BY <3>1, <3>2 DEF StrictSubsetOrdering
    <3>4. QED BY <2>4, <3>1, <3>3
  <2>6. QED
    BY <1>1, <2>5
<1>3. New \in Free
  <2> HIDE DEF Free
  <2> QED BY <1>2 DEF New
<1>4. QED
  BY <1>1, <1>3

LEMMA InitType == Init => TypeOK
<1>1. << >> \in Seq(VMIs \X States) /\ << >> \in Seq(VMIs \X {"add", "update", "delete"})
  BY EmptySeq
<1>2. 0 \in 0 .. MaxVMIs /\ 0 \in 0 .. MaxReplicas /\ 0 \in 0 .. MaxTrouble
  BY Consts
<1>3. NoExpectation \in Expectation(VMIs)
  BY DEF NoExpectation, Expectation
<1>4. NoVMIs \in [VMIs -> States]
  BY DEF NoVMIs, States
<1>5. ASSUME Init PROVE rs \in Specs /\ spec \in Specs /\ status \in [replicas : 0 .. MaxVMIs, failure : BOOLEAN]
  BY <1>2, <1>5 DEF Init, Specs
<1>6. QED
  BY <1>1, <1>2, <1>3, <1>4, <1>5 DEF Init, TypeOK

LEMMA CallsType ==
    ASSUME TypeOK, Scale
    PROVE  creates' \in 0 .. MaxReplicas /\ deletes' \in SUBSET VMIs /\ exp' \in Expectation(VMIs) /\ doubt' \in BOOLEAN
<1>1. activeVmis \in SUBSET VMIs /\ Cardinality(activeVmis) \in Nat /\ exp \in Expectation(VMIs)
  BY VMICardinality DEF activeVmis, In, TypeOK
<1>2. spec.replicas \in 0 .. MaxReplicas
  BY DEF TypeOK, Specs
<1>3. Missing \in Int /\ Missing <= MaxReplicas
  BY <1>1, <1>2, Consts DEF Missing, Least
<1>4. CASE /\ Missing > 0 /\ Expect(ExpectCreations(exp, Missing)) /\ creates' = Missing /\ UNCHANGED deletes
  <2>1. Missing \in 0 .. MaxReplicas
    BY <1>3, <1>4, Consts
  <2>2. ExpectCreations(exp, Missing) \in Expectation(VMIs)
    BY <1>1, <1>3, ExpectationFacts
  <2> HIDE DEF Missing
  <2>3. QED
    BY <1>4, <2>1, <2>2 DEF Expect, TypeOK
<1>5. CASE \E S \in SUBSET activeVmis :
               Excess > 0 /\ Cardinality(S) = Excess /\ Expect(ExpectDeletions(exp, S)) /\ deletes' = S /\ UNCHANGED creates
  <2>1. PICK S \in SUBSET activeVmis : Expect(ExpectDeletions(exp, S)) /\ deletes' = S /\ UNCHANGED creates
    BY <1>5
  <2>2. S \in SUBSET VMIs
    BY <1>1
  <2>3. QED
    BY <1>1, <2>1, <2>2, ExpectationFacts DEF Expect, TypeOK
<1>6. CASE UNCHANGED <<exp, doubt, creates, deletes>>
  BY <1>6 DEF TypeOK
<1>7. QED
  BY <1>4, <1>5, <1>6 DEF Scale

LEMMA NextType ==
    ASSUME TypeOK, [Next]_vars
    PROVE  TypeOK'
<1> USE DEF informer, queue, worker, history
<1>1. ASSUME NEW v \in VMIs, Finish(v) \/ UserDelete(v) PROVE TypeOK'
  BY <1>1, BecomesType, TroubleType DEF Finish, UserDelete, TypeOK, Fault, States
<1>2. ASSUME NEW v \in VMIs, Remove(v) PROVE TypeOK'
  BY <1>2, BecomesType DEF Remove, TypeOK, States
<1>3. CASE ChangeSpec
  <2>1. rs' \in Specs
    BY <1>3 DEF ChangeSpec, TypeOK, Specs
  <2>2. QED
    BY <1>3, <2>1, TroubleType DEF ChangeSpec, TypeOK
<1>4. CASE Resync \/ Retry
  BY <1>4, TroubleType DEF Resync, Retry, TypeOK
<1>5. CASE Apply
  <2> DEFINE v == Head(watch)[1]
             s == Head(watch)[2]
  <2>1. Head(watch) \in VMIs \X States /\ watch' \in Seq(VMIs \X States)
    BY <1>5, TailIndex DEF Apply, TypeOK
  <2>2. v \in VMIs /\ s \in States /\ cache[v] \in States
    BY <2>1 DEF TypeOK
  <2>3. <<v, Notice(cache[v], s)>> \in VMIs \X {"add", "update", "delete"}
    BY <2>2, NoticeType
  <2>4. notices' \in Seq(VMIs \X {"add", "update", "delete"})
    BY <1>5, <2>3, HasAppend DEF Apply, TypeOK
  <2>5. cache' \in [VMIs -> States]
    BY <1>5, <2>2 DEF Apply, TypeOK
  <2>6. QED
    BY <1>5, <2>1, <2>4, <2>5 DEF Apply, TypeOK
<1>6. CASE Handle
  <2>1. Head(notices) \in VMIs \X {"add", "update", "delete"} /\ Tail(notices) \in Seq(VMIs \X {"add", "update", "delete"})
    BY <1>6, TailIndex DEF Handle, TypeOK
  <2>2. Observed(Head(notices)[2], Head(notices)[1]) \in Expectation(VMIs)
    BY <2>1, ExpectationFacts DEF Observed, TypeOK
  <2>3. QED
    BY <1>6, <2>1, <2>2 DEF Handle, TypeOK
<1>7. CASE Expire
  <2>1. exp' \in Expectation(VMIs)
    BY <1>7, ExpectationFacts DEF Expire, TypeOK
  <2>2. trouble' \in 0 .. MaxTrouble
    BY <1>7, ReplicaSetAssumption DEF Expire, Trouble, TypeOK
  <2>3. doubt' \in BOOLEAN
    <3>1. UnderWay \in BOOLEAN
      BY DEF UnderWay, Lagging
    <3>2. QED
      BY <1>7, <3>1 DEF Expire, TypeOK
  <2>4. QED
    BY <1>7, <2>1, <2>2, <2>3 DEF Expire, TypeOK
<1>8. CASE Begin
  BY <1>8, ExpectationFacts DEF Begin, TypeOK, SatisfiedExpectations
<1>9. CASE List
  BY <1>9 DEF List, TypeOK
<1>10. CASE Scale
  BY <1>10, CallsType DEF Scale, TypeOK
<1>11. CASE Create
  <2>1. New \in VMIs /\ ours' \in SUBSET VMIs
    BY <1>11, FreeFacts DEF Create, TypeOK
  <2>2. creates' \in 0 .. MaxReplicas
    BY <1>11, Consts DEF Create, TypeOK
  <2>3. QED
    BY <1>11, <2>1, <2>2, BecomesType DEF Create, TypeOK, States
<1>12. CASE CreateFails
  <2>1. creates' \in 0 .. MaxReplicas
    BY <1>12, Consts DEF CreateFails, TypeOK
  <2>2. QED
    BY <1>12, <2>1, ExpectationFacts, TroubleType DEF CreateFails, Fault, TypeOK
<1>13. CASE CreateTimesOut
  <2>1. New \in VMIs /\ ours' \in SUBSET VMIs
    BY <1>13, FreeFacts DEF CreateTimesOut, TypeOK
  <2>2. creates' \in 0 .. MaxReplicas
    BY <1>13, Consts DEF CreateTimesOut, TypeOK
  <2>3. QED
    BY <1>13, <2>1, <2>2, BecomesType, TroubleType, ExpectationFacts DEF CreateTimesOut, Fault, TypeOK, States
<1>14. ASSUME NEW v \in VMIs, Delete(v) PROVE TypeOK'
  <2>1. deletes' \in SUBSET VMIs
    BY <1>14 DEF Delete, TypeOK
  <2>2. api' \in [VMIs -> States] /\ watch' \in Seq(VMIs \X States) /\ ours' \in SUBSET VMIs
    BY <1>14, BecomesType DEF Delete, TypeOK, States
  <2>3. QED
    BY <1>14, <2>1, <2>2 DEF Delete, TypeOK
<1>15. ASSUME NEW v \in VMIs, DeleteFails(v) PROVE TypeOK'
  <2>1. deletes' \in SUBSET VMIs
    BY <1>15 DEF DeleteFails, TypeOK
  <2>2. QED
    BY <1>15, <2>1, TroubleType, ExpectationFacts DEF DeleteFails, Fault, TypeOK
<1>16. ASSUME NEW v \in VMIs, DeleteTimesOut(v) PROVE TypeOK'
  <2>1. deletes' \in SUBSET VMIs /\ ours' \in SUBSET VMIs
    BY <1>16 DEF DeleteTimesOut, TypeOK
  <2>2. api' \in [VMIs -> States] /\ watch' \in Seq(VMIs \X States)
    BY <1>16, BecomesType DEF DeleteTimesOut, States
  <2>3. QED
    BY <1>16, <2>1, <2>2, TroubleType, ExpectationFacts DEF DeleteTimesOut, Fault, TypeOK
<1>17. CASE Clean
  <2>1. CASE UNCHANGED <<exp, doubt, deletes>>
    BY <1>17, <2>1 DEF Clean, TypeOK
  <2>2. CASE \E S \in SUBSET finishedVmis : Expect(ExpectDeletions(exp, S)) /\ deletes' = S
    <3>1. PICK S \in SUBSET finishedVmis : Expect(ExpectDeletions(exp, S)) /\ deletes' = S
      BY <2>2
    <3>2. S \in SUBSET VMIs
      BY DEF finishedVmis, In
    <3>3. exp' \in Expectation(VMIs) /\ doubt' \in BOOLEAN
      BY <3>1, <3>2, ExpectationFacts DEF Expect, TypeOK
    <3>4. QED
      BY <1>17, <3>1, <3>2, <3>3 DEF Clean, TypeOK
  <2>3. QED
    BY <1>17, <2>1, <2>2 DEF Clean
<1>18. CASE UpdateStatus
  <2>1. Cardinality(activeVmis) \in 0 .. MaxVMIs
    BY VMICardinality DEF activeVmis, In
  <2>2. NewStatus \in [replicas : 0 .. MaxVMIs, failure : BOOLEAN]
    BY <2>1 DEF NewStatus, TypeOK
  <2>3. NoVMIs \in [VMIs -> States]
    BY DEF NoVMIs, States
  <2>4. QED
    BY <1>18, <2>2, <2>3, TroubleType DEF UpdateStatus, Fault, TypeOK
<1>19. CASE Relist
  <2> DEFINE S == {v \in VMIs : api[v] # cache[v]}
  <2>1. PICK o \in Orders(S) : watch' = [i \in DOMAIN o |-> <<o[i], api[o[i]]>>]
    BY <1>19 DEF Relist
  <2>2. \A v \in S : <<v, api[v]>> \in VMIs \X States
    BY DEF TypeOK
  <2>3. S \in SUBSET VMIs
    OBVIOUS
  <2> HIDE DEF S
  <2>4. Cardinality(S) \in Nat /\ DOMAIN o = 1 .. Cardinality(S) /\ \A i \in DOMAIN o : o[i] \in S
    BY <2>3, OrdersFacts
  <2>5. watch' \in [1 .. Cardinality(S) -> VMIs \X States]
    BY <2>1, <2>2, <2>4
  <2>6. watch' \in Seq(VMIs \X States)
    BY <2>4, <2>5, FunctionIsSeq
  <2>7. QED
    BY <1>19, <2>6, TroubleType DEF Relist, Fault, TypeOK
<1>20. CASE Restart
  <2> DEFINE S == {v \in VMIs : api[v] # "none"}
             N == VMIs \X {"add", "update", "delete"}
  <2>1. PICK o \in Orders(S) : notices' = [i \in DOMAIN o |-> <<o[i], Notice("none", api[o[i]])>>]
    BY <1>20 DEF Restart
  <2>2. \A v \in S : <<v, Notice("none", api[v])>> \in N
    BY NoticeType DEF TypeOK, States
  <2>3. S \in SUBSET VMIs
    OBVIOUS
  <2>4. notices' \in Seq(N)
    <3> HIDE DEF S, N
    <3>1. Cardinality(S) \in Nat /\ DOMAIN o = 1 .. Cardinality(S) /\ \A i \in DOMAIN o : o[i] \in S
      BY <2>3, OrdersFacts
    <3>2. notices' \in [1 .. Cardinality(S) -> N]
      BY <2>1, <2>2, <3>1
    <3>3. QED
      BY <3>1, <3>2, FunctionIsSeq
  <2>5. << >> \in Seq(VMIs \X States) /\ 0 \in 0 .. MaxReplicas /\ NoVMIs \in [VMIs -> States]
    BY EmptySeq, Consts DEF NoVMIs, States
  <2>6. QED
    BY <1>20, <2>4, <2>5, TroubleType, ExpectationFacts DEF Restart, Fault, TypeOK
<1>21. CASE UNCHANGED vars
  BY <1>21 DEF vars, TypeOK
<1>22. QED
  BY <1>1, <1>2, <1>3, <1>4, <1>5, <1>6, <1>7, <1>8, <1>9, <1>10, <1>11, <1>12, <1>13, <1>14, <1>15,
     <1>16, <1>17, <1>18, <1>19, <1>20, <1>21 DEF Next, Sync, Outside, Failure

-----------------------------------------------------------------------------
(* The informer.                                                           *)

LEMMA AppendIndex ==
    ASSUME NEW T, NEW seq \in Seq(T), NEW e \in T
    PROVE  /\ \A i \in DOMAIN Append(seq, e) :
                  \/ i \in DOMAIN seq /\ Append(seq, e)[i] = seq[i]
                  \/ i = Len(seq) + 1 /\ Append(seq, e)[i] = e
           /\ DOMAIN seq = 1 .. Len(seq) /\ Len(seq) \in Nat
<1>1. /\ Len(seq) \in Nat
      /\ DOMAIN seq = 1 .. Len(seq) /\ DOMAIN Append(seq, e) = 1 .. Len(seq) + 1
      /\ \A i \in 1 .. Len(seq) : Append(seq, e)[i] = seq[i]
      /\ Append(seq, e)[Len(seq) + 1] = e
  BY AppendProperties, LenProperties
<1>2. \A i \in 1 .. Len(seq) + 1 : i \in 1 .. Len(seq) \/ i = Len(seq) + 1
  BY <1>1
<1>3. QED
  BY <1>1, <1>2

\* Entries of the watch are pairs.
LEMMA WatchPairs ==
    ASSUME TypeOK
    PROVE  \A i \in DOMAIN watch :
               watch[i][1] \in VMIs /\ watch[i][2] \in States /\ Has(watch, <<watch[i][1], watch[i][2]>>)
<1>1. SUFFICES ASSUME NEW i \in DOMAIN watch
               PROVE  watch[i][1] \in VMIs /\ watch[i][2] \in States /\ Has(watch, <<watch[i][1], watch[i][2]>>)
  OBVIOUS
<1>2. watch[i] \in VMIs \X States
  BY LenProperties, ElementOfSeq DEF TypeOK
<1>3. watch[i] = <<watch[i][1], watch[i][2]>>
  BY <1>2
<1>4. QED
  BY <1>2, <1>3 DEF Has

\* A VMI changes: its watchers will see a later state.
LEMMA ChangeInformer ==
    ASSUME TypeOK, WatchInv, NoticeInv, NEW v \in VMIs, NEW s \in Later(api[v]),
           Becomes(v, s), UNCHANGED <<cache, notices>>
    PROVE  /\ WatchInv' /\ NoticeInv' /\ Pending' \subseteq Pending
           /\ \A x : Has(watch', x) <=> Has(watch, x) \/ x = <<v, s>>
           /\ api'[v] = s /\ \A u \in VMIs : u # v => api'[u] = api[u]
<1>1. api[v] \in States /\ s \in States /\ <<v, s>> \in VMIs \X States /\ api[v] # "none"
  BY LaterFacts DEF TypeOK
<1>2. /\ watch' = Append(watch, <<v, s>>) /\ api'[v] = s /\ \A u \in VMIs : u # v => api'[u] = api[u]
      /\ cache' = cache /\ notices' = notices
  BY DEF Becomes, TypeOK
<1>3. \A x : Has(watch', x) <=> Has(watch, x) \/ x = <<v, s>>
  <2>1. watch \in Seq(VMIs \X States)
    BY DEF TypeOK
  <2>2. QED
    BY <1>1, <1>2, <2>1, HasAppend
<1>4. WatchOrder'
  <2>1. SUFFICES ASSUME NEW i \in DOMAIN watch', NEW j \in DOMAIN watch', i < j, watch'[i][1] = watch'[j][1]
                 PROVE  watch'[j][2] \in Later(watch'[i][2])
    BY DEF WatchOrder
  <2>2. /\ \A k \in DOMAIN watch' : \/ k \in DOMAIN watch /\ watch'[k] = watch[k]
                                    \/ k = Len(watch) + 1 /\ watch'[k] = <<v, s>>
        /\ DOMAIN watch = 1 .. Len(watch) /\ Len(watch) \in Nat
    BY <1>1, <1>2, AppendIndex DEF TypeOK
  <2>3. i \in DOMAIN watch /\ watch'[i] = watch[i]
    BY <2>1, <2>2
  <2>4. CASE j \in DOMAIN watch /\ watch'[j] = watch[j]
    BY <2>1, <2>3, <2>4 DEF WatchInv, WatchOrder
  <2>5. CASE j = Len(watch) + 1 /\ watch'[j] = <<v, s>>
    <3>1. watch[i][1] = v /\ watch[i][2] \in States /\ Has(watch, <<v, watch[i][2]>>)
      BY <2>1, <2>3, <2>5, WatchPairs
    <3>2. api[v] \in Since(watch[i][2])
      BY <3>1 DEF WatchInv, WatchStates
    <3>3. s \in Later(watch[i][2])
      BY <3>1, <3>2, LaterFacts DEF Since
    <3>4. QED
      BY <2>3, <2>5, <3>3
  <2>6. QED
    BY <2>2, <2>4, <2>5
<1>5. WatchStates'
  <2>1. SUFFICES ASSUME NEW u \in VMIs, NEW t \in States, Has(watch', <<u, t>>)
                 PROVE  api'[u] \in Since(t) /\ (cache[u] # "none" => t \in Later(cache[u]))
    BY <1>2 DEF WatchStates
  <2>2. CASE u = v /\ t = s
    BY <1>1, <1>2, <2>2, LaterFacts DEF WatchInv, CacheStates, Since, TypeOK
  <2>3. CASE Has(watch, <<u, t>>)
    <3>1. api[u] \in Since(t) /\ (cache[u] # "none" => t \in Later(cache[u]))
      BY <2>3 DEF WatchInv, WatchStates
    <3>2. u = v => s \in Since(t)
      BY <3>1, LaterFacts DEF Since
    <3>3. QED
      BY <1>2, <3>1, <3>2
  <2>4. QED
    BY <1>3, <2>1, <2>2, <2>3
<1>6. CacheStates'
  <2>1. SUFFICES ASSUME NEW u \in VMIs
                 PROVE  /\ \/ Has(watch', <<u, api'[u]>>)
                           \/ api'[u] = cache[u] /\ \A t \in States : ~Has(watch', <<u, t>>)
                        /\ cache[u] # "none" => api'[u] \in Since(cache[u])
    BY <1>2 DEF CacheStates
  <2>2. CASE u = v
    <3>1. cache[v] # "none" => api[v] \in Since(cache[v])
      BY DEF WatchInv, CacheStates
    <3>2. cache[v] # "none" => s \in Since(cache[v])
      BY <3>1, LaterFacts DEF Since, TypeOK
    <3>3. QED
      BY <1>2, <1>3, <2>2, <3>2
  <2>3. CASE u # v
    BY <1>2, <1>3, <2>3 DEF WatchInv, CacheStates
  <2>4. QED
    BY <2>2, <2>3
<1>7. \A u \in VMIs : Unseen(u)' => Unseen(u)
  BY <1>1, <1>2, <1>3 DEF Unseen
<1>8. NoticeInv'
  <2>1. ASSUME NEW u \in VMIs, Has(notices, <<u, "delete">>)
        PROVE  /\ api'[u] \notin Fresh /\ cache[u] \notin Fresh
               /\ \A t \in Fresh : ~Has(watch', <<u, t>>)
    <3>1. api[u] \notin Fresh /\ cache[u] \notin Fresh /\ \A t \in Fresh : ~Has(watch, <<u, t>>)
      BY <2>1 DEF NoticeInv
    <3>2. u = v => s \notin Fresh
      BY <1>1, <3>1, LaterFacts
    <3>3. QED
      BY <1>2, <1>3, <3>1, <3>2
  <2>2. \A u \in VMIs : Has(notices, <<u, "add">>) => ~Unseen(u)'
    BY <1>7 DEF NoticeInv
  <2>3. QED
    BY <1>2, <2>1, <2>2 DEF NoticeInv
<1>9. QED
  BY <1>2, <1>3, <1>4, <1>5, <1>6, <1>7, <1>8 DEF WatchInv, Pending

\* What a free name stands for is forgotten.
LEMMA FreeName ==
    ASSUME TypeOK, NEW v \in Free
    PROVE  /\ v \in VMIs /\ v \notin exp.uids /\ v \notin deletes
           /\ api[v] = "none" /\ cache[v] = "none" /\ list[v] = "none"
           /\ \A s : ~Has(watch, <<v, s>>) /\ ~Has(notices, <<v, s>>)
           /\ \A i \in DOMAIN watch : watch[i][1] # v
<1>1. \A s : <<v, s>>[1] = v
  OBVIOUS
<1>2. QED
  BY <1>1 DEF Free, Has

\* A VMI is created under a free name.
LEMMA NewInformer ==
    ASSUME TypeOK, WatchInv, NoticeInv, NEW v \in Free,
           Becomes(v, "live"), UNCHANGED <<cache, notices>>
    PROVE  /\ WatchInv' /\ NoticeInv' /\ Pending' \subseteq Pending \cup {v}
           /\ \A x : Has(watch', x) <=> Has(watch, x) \/ x = <<v, "live">>
           /\ api'[v] = "live" /\ \A u \in VMIs : u # v => api'[u] = api[u]
<1>1. "live" \in States /\ <<v, "live">> \in VMIs \X States /\ v \in VMIs /\ "live" # "none"
  BY FreeName DEF States
<1>2. /\ watch' = Append(watch, <<v, "live">>) /\ api'[v] = "live" /\ \A u \in VMIs : u # v => api'[u] = api[u]
      /\ cache' = cache /\ notices' = notices
  BY <1>1 DEF Becomes, TypeOK
<1>3. \A x : Has(watch', x) <=> Has(watch, x) \/ x = <<v, "live">>
  <2>1. watch \in Seq(VMIs \X States)
    BY DEF TypeOK
  <2>2. QED
    BY <1>1, <1>2, <2>1, HasAppend
<1>4. WatchOrder'
  <2>1. SUFFICES ASSUME NEW i \in DOMAIN watch', NEW j \in DOMAIN watch', i < j, watch'[i][1] = watch'[j][1]
                 PROVE  watch'[j][2] \in Later(watch'[i][2])
    BY DEF WatchOrder
  <2>2. /\ \A k \in DOMAIN watch' : \/ k \in DOMAIN watch /\ watch'[k] = watch[k]
                                    \/ k = Len(watch) + 1 /\ watch'[k] = <<v, "live">>
        /\ DOMAIN watch = 1 .. Len(watch) /\ Len(watch) \in Nat
    BY <1>1, <1>2, AppendIndex DEF TypeOK
  <2>3. i \in DOMAIN watch /\ watch'[i] = watch[i]
    BY <2>1, <2>2
  <2>4. j \in DOMAIN watch /\ watch'[j] = watch[j]
    BY <2>1, <2>2, <2>3, FreeName
  <2>5. QED
    BY <2>1, <2>3, <2>4 DEF WatchInv, WatchOrder
<1>5. WatchStates'
  <2>1. SUFFICES ASSUME NEW u \in VMIs, NEW t \in States, Has(watch', <<u, t>>)
                 PROVE  api'[u] \in Since(t) /\ (cache[u] # "none" => t \in Later(cache[u]))
    BY <1>2 DEF WatchStates
  <2>2. CASE u = v /\ t = "live"
    BY <1>2, <2>2, FreeName DEF Since
  <2>3. CASE Has(watch, <<u, t>>)
    <3>1. u # v
      BY <2>3, FreeName
    <3>2. QED
      BY <1>2, <2>3, <3>1 DEF WatchInv, WatchStates
  <2>4. QED
    BY <1>3, <2>1, <2>2, <2>3
<1>6. CacheStates'
  <2>1. SUFFICES ASSUME NEW u \in VMIs
                 PROVE  /\ \/ Has(watch', <<u, api'[u]>>)
                           \/ api'[u] = cache[u] /\ \A t \in States : ~Has(watch', <<u, t>>)
                        /\ cache[u] # "none" => api'[u] \in Since(cache[u])
    BY <1>2 DEF CacheStates
  <2>2. CASE u = v
    BY <1>2, <1>3, <2>2, FreeName
  <2>3. CASE u # v
    BY <1>2, <1>3, <2>3 DEF WatchInv, CacheStates
  <2>4. QED
    BY <2>2, <2>3
<1>7. \A u \in VMIs : u # v /\ Unseen(u)' => Unseen(u)
  BY <1>1, <1>2, <1>3 DEF Unseen
<1>8. NoticeInv'
  <2>1. ASSUME NEW u \in VMIs, Has(notices, <<u, "delete">>)
        PROVE  /\ api'[u] \notin Fresh /\ cache[u] \notin Fresh
               /\ \A t \in Fresh : ~Has(watch', <<u, t>>)
    <3>1. u # v
      BY <2>1, FreeName
    <3>2. QED
      BY <1>2, <1>3, <2>1, <3>1 DEF NoticeInv
  <2>2. \A u \in VMIs : Has(notices, <<u, "add">>) => ~Unseen(u)'
    BY <1>7, FreeName DEF NoticeInv
  <2>3. QED
    BY <1>2, <2>1, <2>2 DEF NoticeInv
<1>9. QED
  BY <1>2, <1>3, <1>4, <1>5, <1>6, <1>7, <1>8 DEF WatchInv, Pending

\* The cache takes the next change, and the handlers will be told.
LEMMA ApplyInformer ==
    ASSUME TypeOK, WatchInv, NoticeInv, Apply, NEW v, NEW s, Head(watch) = <<v, s>>
    PROVE  /\ WatchInv' /\ NoticeInv' /\ Pending' \subseteq Pending
           /\ v \in VMIs /\ s \in States /\ cache'[v] = s /\ api[v] \in Since(s)
           /\ \A u \in VMIs : u # v => cache'[u] = cache[u]
           /\ \A x : Has(watch, x) <=> Has(watch', x) \/ x = <<v, s>>
           /\ \A t \in States : Has(watch', <<v, t>>) => t \in Later(s)
           /\ \A x : Has(notices', x) <=> Has(notices, x) \/ x = <<v, Notice(cache[v], s)>>
           /\ api' = api
<1>1. watch \in Seq(VMIs \X States) /\ watch # << >> /\ watch' = Tail(watch) /\ api' = api
      /\ notices \in Seq(VMIs \X {"add", "update", "delete"})
  BY DEF Apply, TypeOK
<1>2. Head(watch) \in VMIs \X States
  BY <1>1, TailIndex
<1>3. v \in VMIs /\ s \in States /\ cache[v] \in States
  BY <1>2 DEF TypeOK
<1>4. /\ cache' = [cache EXCEPT ![v] = s] /\ notices' = Append(notices, <<v, Notice(cache[v], s)>>)
      /\ cache'[v] = s /\ \A u \in VMIs : u # v => cache'[u] = cache[u]
  <2>1. Head(watch)[1] = v /\ Head(watch)[2] = s
    OBVIOUS
  <2>2. cache' = [cache EXCEPT ![v] = s] /\ notices' = Append(notices, <<v, Notice(cache[v], s)>>)
    BY <2>1 DEF Apply
  <2>3. QED
    BY <1>3, <2>2 DEF TypeOK
<1>5. \A x : Has(watch, x) <=> Has(watch', x) \/ x = <<v, s>>
  BY <1>1, HasTail
<1>6. <<v, Notice(cache[v], s)>> \in VMIs \X {"add", "update", "delete"}
  BY <1>3, NoticeType
<1>7. \A x : Has(notices', x) <=> Has(notices, x) \/ x = <<v, Notice(cache[v], s)>>
  <2> DEFINE N == VMIs \X {"add", "update", "delete"}
             e == <<v, Notice(cache[v], s)>>
  <2>1. notices \in Seq(N) /\ e \in N /\ notices' = Append(notices, e)
    BY <1>1, <1>4, <1>6
  <2> HIDE DEF N, e
  <2>2. \A x : Has(notices', x) <=> Has(notices, x) \/ x = e
    BY <2>1, HasAppend
  <2>3. QED
    BY <2>2 DEF e
<1>8. /\ \A i \in DOMAIN watch' : i \in Nat \ {0} /\ i + 1 \in DOMAIN watch /\ watch'[i] = watch[i + 1]
      /\ 1 \in DOMAIN watch /\ watch[1] = <<v, s>>
  BY <1>1, TailIndex
<1>9. \A t \in States : Has(watch', <<v, t>>) => t \in Later(s)
  <2>1. SUFFICES ASSUME NEW t \in States, NEW i \in DOMAIN watch', watch'[i] = <<v, t>> PROVE t \in Later(s)
    BY DEF Has
  <2>2. watch[i + 1] = <<v, t>> /\ i + 1 \in DOMAIN watch /\ 1 < i + 1
    BY <1>8, <2>1
  <2>3. QED
    BY <1>8, <2>2 DEF WatchInv, WatchOrder
<1>10. Has(watch, <<v, s>>)
  BY <1>5
<1>11. api[v] \in Since(s) /\ (cache[v] # "none" => s \in Later(cache[v]))
  BY <1>3, <1>10 DEF WatchInv, WatchStates
<1>12. WatchOrder'
  <2>1. SUFFICES ASSUME NEW i \in DOMAIN watch', NEW j \in DOMAIN watch', i < j, watch'[i][1] = watch'[j][1]
                 PROVE  watch'[j][2] \in Later(watch'[i][2])
    BY DEF WatchOrder
  <2>2. /\ i + 1 \in DOMAIN watch /\ j + 1 \in DOMAIN watch /\ i + 1 < j + 1
        /\ watch'[i] = watch[i + 1] /\ watch'[j] = watch[j + 1]
    BY <1>8, <2>1
  <2>3. QED
    BY <2>1, <2>2 DEF WatchInv, WatchOrder
<1>13. WatchStates'
  <2>1. SUFFICES ASSUME NEW u \in VMIs, NEW t \in States, Has(watch', <<u, t>>)
                 PROVE  api[u] \in Since(t) /\ (cache'[u] # "none" => t \in Later(cache'[u]))
    BY <1>1 DEF WatchStates
  <2>2. api[u] \in Since(t) /\ (cache[u] # "none" => t \in Later(cache[u]))
    BY <1>5, <2>1 DEF WatchInv, WatchStates
  <2>3. QED
    BY <1>4, <1>9, <2>1, <2>2
<1>14. CacheStates'
  <2>1. SUFFICES ASSUME NEW u \in VMIs
                 PROVE  /\ \/ Has(watch', <<u, api[u]>>)
                           \/ api[u] = cache'[u] /\ \A t \in States : ~Has(watch', <<u, t>>)
                        /\ cache'[u] # "none" => api[u] \in Since(cache'[u])
    BY <1>1 DEF CacheStates
  <2>2. CASE u = v
    <3>1. Has(watch, <<v, api[v]>>)
      BY <1>3, <1>10 DEF WatchInv, CacheStates
    <3>2. CASE api[v] = s
      <4>1. ASSUME NEW t \in States, Has(watch', <<v, t>>) PROVE FALSE
        <5>1. t \in Later(s) /\ s \in Since(t)
          BY <1>3, <1>5, <1>9, <3>2, <4>1 DEF WatchInv, WatchStates
        <5>2. QED
          BY <1>3, <5>1, LaterFacts DEF Since
      <4>2. QED
        BY <1>4, <1>11, <2>2, <3>2, <4>1
    <3>3. CASE api[v] # s
      BY <1>4, <1>5, <1>11, <2>2, <3>1, <3>3
    <3>4. QED
      BY <3>2, <3>3
  <2>3. CASE u # v
    BY <1>4, <1>5, <2>3 DEF WatchInv, CacheStates
  <2>4. QED
    BY <2>2, <2>3
<1>15. \A u \in VMIs : Unseen(u)' => Unseen(u)
  <2>1. SUFFICES ASSUME NEW u \in VMIs, Unseen(u)' PROVE Unseen(u)
    OBVIOUS
  <2>2. CASE u # v
    BY <1>1, <1>4, <1>5, <2>1, <2>2 DEF Unseen
  <2>3. CASE u = v
    <3>1. s = "none" /\ api[v] = "none"
      BY <1>1, <1>3, <1>4, <1>11, <2>1, <2>3, LaterFacts DEF Unseen, Since
    <3>2. \E t \in Present : Has(watch', <<v, t>>)
      BY <1>1, <2>1, <2>3, <3>1 DEF Unseen
    <3>3. QED
      BY <1>9, <3>1, <3>2, LaterFacts
  <2>4. QED
    BY <2>2, <2>3
<1>16. Notice(cache[v], s) = "add" => Unseen(v) /\ ~Unseen(v)'
  <2>1. SUFFICES ASSUME Notice(cache[v], s) = "add" PROVE Unseen(v) /\ ~Unseen(v)'
    OBVIOUS
  <2>2. s \in Fresh /\ cache[v] = "none" /\ s \in Present /\ s # "none"
    BY <1>3, <2>1, NoticeType, LaterFacts
  <2>3. Unseen(v)
    BY <1>10, <2>2 DEF Unseen
  <2>4. ~Unseen(v)'
    BY <1>4, <2>2 DEF Unseen
  <2>5. QED
    BY <2>3, <2>4
<1>17. Pending' \subseteq Pending
  <2>1. SUFFICES ASSUME NEW u \in VMIs, Unseen(u)' \/ Has(notices', <<u, "add">>)
                 PROVE  Unseen(u) \/ Has(notices, <<u, "add">>)
    BY DEF Pending
  <2>2. CASE Unseen(u)'
    BY <1>15, <2>2
  <2>3. CASE Has(notices', <<u, "add">>)
    BY <1>7, <1>16, <2>3
  <2>4. QED
    BY <2>1, <2>2, <2>3
<1>18. NoticeInv'
  <2>1. ASSUME NEW u \in VMIs, Has(notices', <<u, "delete">>)
        PROVE  /\ api[u] \notin Fresh /\ cache'[u] \notin Fresh
               /\ \A t \in Fresh : ~Has(watch', <<u, t>>)
    <3>1. CASE Has(notices, <<u, "delete">>)
      <4>1. api[u] \notin Fresh /\ cache[u] \notin Fresh /\ \A t \in Fresh : ~Has(watch, <<u, t>>)
        BY <3>1 DEF NoticeInv
      <4>2. u = v => s \notin Fresh
        BY <1>10, <4>1
      <4>3. QED
        BY <1>4, <1>5, <4>1, <4>2
    <3>2. CASE u = v /\ Notice(cache[v], s) = "delete"
      <4>1. s \notin Fresh
        BY <1>3, <3>2, NoticeType
      <4>2. api[v] \notin Fresh /\ \A t \in Fresh : ~Has(watch', <<v, t>>)
        BY <1>3, <1>9, <1>11, <4>1, LaterFacts DEF Since
      <4>3. QED
        BY <1>4, <3>2, <4>1, <4>2
    <3>3. QED
      BY <1>7, <2>1, <3>1, <3>2
  <2>2. ASSUME NEW u \in VMIs, Has(notices', <<u, "add">>) PROVE ~Unseen(u)'
    <3>1. CASE Has(notices, <<u, "add">>)
      BY <1>15, <3>1 DEF NoticeInv
    <3>2. CASE u = v /\ Notice(cache[v], s) = "add"
      BY <1>16, <3>2
    <3>3. QED
      BY <1>7, <2>2, <3>1, <3>2
  <2>3. ASSUME NEW i \in DOMAIN notices', NEW j \in DOMAIN notices', notices'[i] = notices'[j], notices'[i][2] = "add"
        PROVE  i = j
    <3> DEFINE e == <<v, Notice(cache[v], s)>>
    <3>1. /\ \A k \in DOMAIN notices' : \/ k \in DOMAIN notices /\ notices'[k] = notices[k]
                                        \/ k = Len(notices) + 1 /\ notices'[k] = e
      BY <1>1, <1>4, <1>6, AppendIndex
    <3>2. e[2] = "add" => ~Has(notices, e)
      BY <1>3, <1>16 DEF NoticeInv
    <3>3. \A k \in DOMAIN notices : Has(notices, notices[k])
      BY DEF Has
    <3> HIDE DEF e
    <3>4. QED
      BY <2>3, <3>1, <3>2, <3>3 DEF NoticeInv
  <2>4. QED
    BY <1>1, <2>1, <2>2, <2>3 DEF NoticeInv
<1>19. QED
  BY <1>1, <1>3, <1>4, <1>5, <1>7, <1>9, <1>11, <1>12, <1>13, <1>14, <1>17, <1>18 DEF WatchInv

\* The watch is replaced by what a list shows to be different from the cache.
LEMMA RelistInformer ==
    ASSUME TypeOK, WatchInv, NoticeInv, Relist
    PROVE  /\ WatchInv' /\ NoticeInv' /\ Pending' \subseteq Pending
           /\ \A v \in VMIs, s \in States : Has(watch', <<v, s>>) <=> api[v] # cache[v] /\ s = api[v]
<1> DEFINE S == {v \in VMIs : api[v] # cache[v]}
<1>1. PICK o \in Orders(S) : watch' = [i \in DOMAIN o |-> <<o[i], api[o[i]]>>]
  BY DEF Relist
<1>2. api' = api /\ cache' = cache /\ notices' = notices
  BY DEF Relist
<1>3. /\ \A i \in DOMAIN o : o[i] \in S
      /\ \A x \in S : \E i \in DOMAIN o : o[i] = x
      /\ \A i, j \in DOMAIN o : o[i] = o[j] => i = j
      /\ DOMAIN o \subseteq Nat
  <2>1. S \in SUBSET VMIs
    OBVIOUS
  <2> HIDE DEF S
  <2>2. Cardinality(S) \in Nat /\ DOMAIN o = 1 .. Cardinality(S)
    BY <2>1, OrdersFacts
  <2>3. QED
    BY <2>1, <2>2, OrdersFacts
<1>4. DOMAIN watch' = DOMAIN o /\ \A i \in DOMAIN o : watch'[i] = <<o[i], api[o[i]]>>
  BY <1>1
<1>5. \A v \in VMIs, s \in States : Has(watch', <<v, s>>) <=> api[v] # cache[v] /\ s = api[v]
  <2>1. ASSUME NEW v \in VMIs, NEW s \in States, Has(watch', <<v, s>>) PROVE api[v] # cache[v] /\ s = api[v]
    <3>1. PICK i \in DOMAIN o : <<o[i], api[o[i]]>> = <<v, s>>
      BY <1>4, <2>1 DEF Has
    <3>2. QED
      BY <1>3, <3>1
  <2>2. ASSUME NEW v \in VMIs, api[v] # cache[v] PROVE Has(watch', <<v, api[v]>>)
    <3>1. PICK i \in DOMAIN o : o[i] = v
      BY <1>3, <2>2
    <3>2. QED
      BY <1>4, <3>1 DEF Has
  <2>3. QED
    BY <2>1, <2>2
<1>6. \A v \in VMIs : api[v] \in States
  BY DEF TypeOK
<1>7. WatchOrder'
  <2>1. SUFFICES ASSUME NEW i \in DOMAIN watch', NEW j \in DOMAIN watch', i < j, watch'[i][1] = watch'[j][1]
                 PROVE  FALSE
    BY DEF WatchOrder
  <2>2. o[i] = o[j] /\ i \in Nat
    BY <1>3, <1>4, <2>1
  <2>3. QED
    BY <1>3, <1>4, <2>1, <2>2
<1>8. WatchStates'
  <2>1. SUFFICES ASSUME NEW v \in VMIs, api[v] # cache[v]
                 PROVE  api[v] \in Since(api[v]) /\ (cache[v] # "none" => api[v] \in Later(cache[v]))
    BY <1>2, <1>5 DEF WatchStates
  <2>2. QED
    BY <2>1 DEF WatchInv, CacheStates, Since
<1>9. CacheStates'
  <2>1. SUFFICES ASSUME NEW u \in VMIs
                 PROVE  /\ \/ Has(watch', <<u, api[u]>>)
                           \/ api[u] = cache[u] /\ \A t \in States : ~Has(watch', <<u, t>>)
                        /\ cache[u] # "none" => api[u] \in Since(cache[u])
    BY <1>2 DEF CacheStates
  <2>2. QED
    BY <1>5, <1>6 DEF WatchInv, CacheStates
<1>10. \A u \in VMIs : Unseen(u)' => Unseen(u)
  BY <1>2, <1>5, LaterFacts DEF Unseen
<1>11. NoticeInv'
  <2>1. ASSUME NEW u \in VMIs, Has(notices, <<u, "delete">>)
        PROVE  /\ api[u] \notin Fresh /\ cache[u] \notin Fresh
               /\ \A t \in Fresh : ~Has(watch', <<u, t>>)
    <3>1. \A t \in Fresh : t \in States
      BY LaterFacts
    <3>2. QED
      BY <1>5, <2>1, <3>1 DEF NoticeInv
  <2>2. \A u \in VMIs : Has(notices, <<u, "add">>) => ~Unseen(u)'
    BY <1>10 DEF NoticeInv
  <2>3. QED
    BY <1>2, <2>1, <2>2 DEF NoticeInv
<1>12. QED
  BY <1>2, <1>5, <1>7, <1>8, <1>9, <1>10, <1>11 DEF WatchInv, Pending

\* After a restart the cache is the API server's state.
LEMMA RestartInformer ==
    ASSUME TypeOK, Restart
    PROVE  WatchInv' /\ NoticeInv'
<1> DEFINE S == {v \in VMIs : api[v] # "none"}
<1>1. PICK o \in Orders(S) : notices' = [i \in DOMAIN o |-> <<o[i], Notice("none", api[o[i]])>>]
  BY DEF Restart
<1>2. api' = api /\ cache' = api /\ watch' = << >> /\ DOMAIN watch' = {} /\ \A x : ~Has(watch', x)
  BY DEF Restart, Has
<1>3. /\ \A i \in DOMAIN o : o[i] \in S
      /\ \A i, j \in DOMAIN o : o[i] = o[j] => i = j
  <2>1. S \in SUBSET VMIs
    OBVIOUS
  <2> HIDE DEF S
  <2>2. QED
    BY <2>1, OrdersFacts
<1>4. DOMAIN notices' = DOMAIN o /\ \A i \in DOMAIN o : notices'[i] = <<o[i], Notice("none", api[o[i]])>>
  BY <1>1
<1>5. WatchInv'
  BY <1>2 DEF WatchInv, WatchOrder, WatchStates, CacheStates, Since
<1>6. \A u \in VMIs : ~Unseen(u)'
  BY <1>2 DEF Unseen
<1>7. ASSUME NEW u \in VMIs, Has(notices', <<u, "delete">>) PROVE api[u] \notin Fresh
  <2>1. PICK i \in DOMAIN o : o[i] = u /\ Notice("none", api[u]) = "delete"
    BY <1>4, <1>7 DEF Has
  <2>2. "none" \in States /\ api[u] \in States
    BY DEF States, TypeOK
  <2>3. QED
    BY <2>1, <2>2, NoticeType
<1>8. \A i, j \in DOMAIN notices' : notices'[i] = notices'[j] => i = j
  BY <1>3, <1>4
<1>9. QED
  BY <1>2, <1>5, <1>6, <1>7, <1>8 DEF NoticeInv

\* A handler takes a notice.
LEMMA HandleInformer ==
    ASSUME TypeOK, WatchInv, NoticeInv, Handle, NEW v, NEW k, Head(notices) = <<v, k>>
    PROVE  /\ WatchInv' /\ NoticeInv'
           /\ Pending' = Pending \ (IF k = "add" THEN {v} ELSE {}) /\ (k = "add" => v \in Pending)
           /\ v \in VMIs /\ k \in {"add", "update", "delete"} /\ Has(notices, <<v, k>>)
           /\ \A x : Has(notices, x) <=> Has(notices', x) \/ x = <<v, k>>
<1>1. /\ api' = api /\ cache' = cache /\ watch' = watch /\ notices' = Tail(notices) /\ notices # << >>
      /\ notices \in Seq(VMIs \X {"add", "update", "delete"})
  BY DEF Handle, TypeOK
<1>2. Head(notices) \in VMIs \X {"add", "update", "delete"}
  BY <1>1, TailIndex
<1>3. v \in VMIs /\ k \in {"add", "update", "delete"}
  BY <1>2
<1>4. \A x : Has(notices, x) <=> Has(notices', x) \/ x = <<v, k>>
  BY <1>1, HasTail
<1>5. /\ \A i \in DOMAIN notices' : i \in Nat \ {0} /\ i + 1 \in DOMAIN notices /\ notices'[i] = notices[i + 1]
      /\ 1 \in DOMAIN notices /\ notices[1] = <<v, k>>
  BY <1>1, TailIndex
<1>6. k = "add" => ~Has(notices', <<v, k>>)
  <2>1. SUFFICES ASSUME k = "add", NEW i \in DOMAIN notices', notices'[i] = <<v, k>> PROVE FALSE
    BY DEF Has
  <2>2. notices[i + 1] = notices[1] /\ notices[1][2] = "add" /\ i + 1 \in DOMAIN notices /\ i + 1 # 1
    BY <1>5, <2>1
  <2>3. QED
    BY <1>5, <2>2 DEF NoticeInv
<1>7. \A u \in VMIs : Unseen(u)' <=> Unseen(u)
  BY <1>1 DEF Unseen
<1>8. WatchInv'
  BY <1>1 DEF WatchInv, WatchOrder, WatchStates, CacheStates
<1>9. NoticeInv'
  <2>1. ASSUME NEW i \in DOMAIN notices', NEW j \in DOMAIN notices', notices'[i] = notices'[j], notices'[i][2] = "add"
        PROVE  i = j
    <3>1. i + 1 = j + 1
      BY <1>5, <2>1 DEF NoticeInv
    <3>2. QED
      BY <1>5, <3>1
  <2>2. QED
    BY <1>1, <1>4, <1>7, <2>1 DEF NoticeInv
<1>10. k = "add" => ~Unseen(v)
  BY <1>3, <1>4 DEF NoticeInv
<1>11. Pending' = Pending \ (IF k = "add" THEN {v} ELSE {})
  <2>1. CASE k = "add"
    BY <1>3, <1>4, <1>6, <1>7, <1>10, <2>1 DEF Pending
  <2>2. CASE k # "add"
    BY <1>3, <1>4, <1>7, <2>2 DEF Pending
  <2>3. QED
    BY <2>1, <2>2
<1>12. QED
  BY <1>3, <1>4, <1>8, <1>9, <1>11 DEF Pending

\* Without lag, the cache is the API server's state.
LEMMA WithoutLag ==
    ASSUME TypeOK, WatchInv, KnownInv, ~Lagging
    PROVE  Pending = {} /\ (\A v \in VMIs : ~Stale(v) /\ cache[v] = api[v])
<1>1. (\A x : ~Has(watch, x)) /\ (\A x : ~Has(notices, x))
  BY DEF Lagging, Has
<1>2. \A v \in VMIs : cache[v] = api[v]
  BY <1>1 DEF WatchInv, CacheStates
<1>3. \A v \in VMIs : ~Stale(v) /\ ~Unseen(v)
  BY <1>1, <1>2 DEF Stale, Unseen, KnownInv
<1>4. QED
  BY <1>1, <1>2, <1>3 DEF Pending

LEMMA PendingCardinality ==
    ASSUME NEW S \in SUBSET VMIs, NEW T \in SUBSET S
    PROVE  Cardinality(T) \in Nat /\ Cardinality(S) \in Nat /\ Cardinality(T) <= Cardinality(S)
<1>1. IsFiniteSet(S) /\ Cardinality(S) \in Nat
  BY VMICardinality
<1>2. T \in SUBSET VMIs
  OBVIOUS
<1>3. Cardinality(T) \in Nat
  BY <1>2, VMICardinality
<1>4. Cardinality(T) <= Cardinality(S)
  BY <1>1, FS_Subset
<1>5. QED
  BY <1>1, <1>3, <1>4

LEMMA SinceFacts ==
    ASSUME NEW s \in States, NEW t \in Since(s)
    PROVE  /\ t \in States /\ (t # "none" => s # "none") /\ (t \in Fresh => s \in Fresh)
           /\ (t = "live" => s = "live") /\ \A r \in States : s \in Since(r) => t \in Since(r)
  BY LaterFacts DEF Since

LEMMA Numbers ==
    ASSUME TypeOK
    PROVE  /\ exp \in Expectation(VMIs)
           /\ exp.add \in Int /\ exp.del \in Int /\ exp.uids \subseteq VMIs
           /\ creates \in Int /\ creates >= 0 /\ deletes \subseteq VMIs /\ ours \subseteq VMIs
           /\ spec.replicas \in Int
<1>1. exp \in Expectation(VMIs) /\ creates \in 0 .. MaxReplicas /\ deletes \subseteq VMIs /\ ours \subseteq VMIs
  BY DEF TypeOK
<1>2. exp.add \in Int /\ exp.del \in Int /\ exp.uids \subseteq VMIs
  BY <1>1 DEF Expectation
<1>3. spec.replicas \in 0 .. MaxReplicas
  BY DEF TypeOK, Specs
<1>4. QED
  BY <1>1, <1>2, <1>3, Consts

\* A step of the users, the API server or the informer that the controller takes no part in.
LEMMA QuietStep ==
    ASSUME IndInv, TypeOK', WatchInv', NoticeInv', Pending' \subseteq Pending,
           UNCHANGED <<exp, worker, ours, doubt>>, rs.state = "gone" => rs'.state = "gone",
           \A v \in VMIs : /\ api'[v] \in Since(api[v])
                           /\ api[v] = "none" \/ cache[v] # "none" => api'[v] = "none" \/ cache'[v] # "none"
                           /\ Stale(v)' => Stale(v)
                           /\ v \in exp.uids /\ rs'.state # "gone" /\ Due(v) => Due(v)'
    PROVE  IndInv'
<1> USE DEF worker
<1>1. TypeOK /\ KnownInv /\ WorkerInv /\ DeletionInv /\ TrustInv
  BY DEF IndInv
<1>2. \A v \in VMIs : /\ api'[v] # "none" => api[v] # "none"
                      /\ api'[v] \in Fresh => api[v] \in Fresh
                      /\ api'[v] = "live" => api[v] = "live"
                      /\ \A r \in States : api[v] \in Since(r) => api'[v] \in Since(r)
  BY <1>1, SinceFacts DEF TypeOK
<1>3. KnownInv'
  <2>1. ours \subseteq VMIs /\ \A v \in VMIs : list[v] \in States
    BY <1>1 DEF TypeOK
  <2>2. QED
    BY <1>1, <1>2, <2>1 DEF KnownInv
<1>4. WorkerInv'
  BY <1>1 DEF WorkerInv
<1>5. DeletionInv'
  <2>1. exp.uids \subseteq VMIs
    BY <1>1, ExpectationFacts DEF TypeOK
  <2>2. QED
    BY <1>1, <2>1 DEF DeletionInv
<1>6. TrustInv'
  <2>1. SUFFICES ASSUME ~doubt, rs'.state # "gone" \/ pc # "idle" PROVE Counted' /\ SyncInv'
    BY DEF TrustInv
  <2>2. Counted /\ SyncInv
    BY <1>1, <2>1 DEF TrustInv
  <2>3. /\ Cardinality(Pending') \in Nat /\ Cardinality(Pending) \in Nat /\ Cardinality(Pending') <= Cardinality(Pending)
        /\ Pending = {} => Pending' = {}
    <3>1. Pending \in SUBSET VMIs
      BY DEF Pending
    <3> HIDE DEF Pending
    <3>2. QED
      BY <3>1, PendingCardinality
  <2>4. creates \in Int /\ exp.add \in Int /\ deletes \subseteq VMIs /\ ours \subseteq VMIs
    BY <1>1, Numbers
  <2>5. AllSeen => AllSeen'
    BY <2>3 DEF AllSeen
  <2>6. Counted'
    BY <1>2, <2>2, <2>3, <2>4, <2>5 DEF Counted
  <2>7. creates > 0 => Cardinality(In(api', "live")) + creates <= spec.replicas
    <3>1. In(api, "live") \in SUBSET VMIs /\ In(api', "live") \in SUBSET In(api, "live")
      BY <1>2 DEF In
    <3>2. /\ Cardinality(In(api', "live")) \in Nat /\ Cardinality(In(api, "live")) \in Nat
          /\ Cardinality(In(api', "live")) <= Cardinality(In(api, "live"))
      BY <3>1, PendingCardinality
    <3>3. spec.replicas \in Int
      BY <1>1 DEF TypeOK, Specs
    <3>4. QED
      BY <2>2, <2>4, <3>2, <3>3 DEF SyncInv
  <2>8. SyncInv'
    BY <1>2, <2>2, <2>5, <2>7 DEF SyncInv
  <2>9. QED
    BY <2>6, <2>8
<1>7. QED
  BY <1>3, <1>4, <1>5, <1>6 DEF IndInv

\* A VMI of which the controller doesn't wait for the deletion changes by itself, or
\* one that is deleted is removed.
LEMMA ChangeIndInv ==
    ASSUME IndInv, TypeOK', NEW v \in VMIs, NEW s \in Later(api[v]), Becomes(v, s),
           UNCHANGED <<rs, exp, worker, ours, doubt, cache, notices>>,
           s \in Fresh => api[v] = "live", api[v] = "deleting" => s = "none",
           api[v] # "deleting" => s # "none"
    PROVE  IndInv'
<1>1. TypeOK /\ WatchInv /\ NoticeInv /\ KnownInv
  BY DEF IndInv
<1>2. /\ WatchInv' /\ NoticeInv' /\ Pending' \subseteq Pending
      /\ \A x : Has(watch', x) <=> Has(watch, x) \/ x = <<v, s>>
      /\ api'[v] = s /\ \A u \in VMIs : u # v => api'[u] = api[u]
  BY <1>1, ChangeInformer
<1>3. api[v] # "none" /\ api[v] \in States
  BY <1>1, LaterFacts DEF TypeOK
<1>4. ASSUME NEW u \in VMIs
      PROVE  /\ api'[u] \in Since(api[u])
             /\ api[u] = "none" \/ cache[u] # "none" => api'[u] = "none" \/ cache'[u] # "none"
  BY <1>2, <1>3 DEF Since
<1>5. ASSUME NEW u \in VMIs, Stale(u)' PROVE Stale(u)
  <2>1. u = v => s \notin Fresh
    BY <1>1, <1>5, LaterFacts DEF KnownInv, Stale, Fresh
  <2>2. QED
    BY <1>2, <1>5, <2>1 DEF Stale
<1>6. ASSUME NEW u \in VMIs, u \in exp.uids, Due(u) PROVE Due(u)'
  <2>1. CASE u # v
    BY <1>2, <1>6, <2>1 DEF Due, worker
  <2>2. CASE u = v /\ api[v] = "deleting"
    <3>1. cache[v] # "none"
      BY <1>1, <1>3, <1>6, <2>2 DEF KnownInv
    <3>2. QED
      BY <1>2, <2>2, <3>1 DEF Due
  <2>3. CASE u = v /\ api[v] # "deleting"
    BY <1>3, <1>6, <2>3 DEF Due, worker
  <2>4. QED
    BY <2>1, <2>2, <2>3
<1>7. QED
  BY <1>2, <1>4, <1>5, <1>6, QuietStep

LEMMA OutsideIndInv ==
    ASSUME IndInv, TypeOK', NEW v \in VMIs, Finish(v) \/ UserDelete(v) \/ Remove(v)
    PROVE  IndInv'
<1> USE DEF history, queue
<1>1. CASE Finish(v)
  BY <1>1, LaterFacts, ChangeIndInv DEF Finish, Fresh
<1>2. CASE UserDelete(v)
  BY <1>2, LaterFacts, ChangeIndInv DEF UserDelete, Fresh
<1>3. CASE Remove(v)
  BY <1>3, LaterFacts, ChangeIndInv DEF Remove, Fresh
<1>4. QED
  BY <1>1, <1>2, <1>3

LEMMA ApplyIndInv ==
    ASSUME IndInv, TypeOK', Apply
    PROVE  IndInv'
<1>1. TypeOK /\ WatchInv /\ NoticeInv /\ KnownInv
  BY DEF IndInv
<1>2. PICK v \in VMIs, s \in States : Head(watch) = <<v, s>>
  <2>1. Head(watch) \in VMIs \X States
    BY <1>1, TailIndex DEF Apply, TypeOK
  <2>2. QED
    BY <2>1
<1>3. /\ WatchInv' /\ NoticeInv' /\ Pending' \subseteq Pending
      /\ cache'[v] = s /\ api[v] \in Since(s)
      /\ \A u \in VMIs : u # v => cache'[u] = cache[u]
      /\ \A x : Has(watch, x) <=> Has(watch', x) \/ x = <<v, s>>
      /\ \A t \in States : Has(watch', <<v, t>>) => t \in Later(s)
      /\ \A x : Has(notices', x) <=> Has(notices, x) \/ x = <<v, Notice(cache[v], s)>>
      /\ api' = api
  BY <1>1, <1>2, ApplyInformer
<1>4. UNCHANGED <<rs, exp, worker, ours, doubt>>
  BY DEF Apply, history, worker
<1>5. ASSUME NEW u \in VMIs
      PROVE  /\ api'[u] \in Since(api[u])
             /\ api[u] = "none" \/ cache[u] # "none" => api'[u] = "none" \/ cache'[u] # "none"
  <2>1. s = "none" => api[v] = "none"
    BY <1>3, LaterFacts DEF Since
  <2>2. QED
    BY <1>3, <2>1 DEF Since
<1>6. ASSUME NEW u \in VMIs, Stale(u)' PROVE Stale(u)
  BY <1>3, <1>4, <1>6 DEF Stale
<1>7. ASSUME NEW u \in VMIs, u \in exp.uids, Due(u) PROVE Due(u)'
  <2>1. CASE u # v
    BY <1>3, <1>4, <1>7, <2>1 DEF Due, worker
  <2>2. CASE u = v /\ (u \in deletes \/ api[u] = "deleting" \/ Has(notices, <<u, "delete">>))
    BY <1>3, <1>4, <1>7, <2>2 DEF Due, worker
  <2>3. CASE u = v /\ api[u] = "none" /\ Has(watch, <<u, "none">>) /\ s = "none"
    <3>1. Notice(cache[v], s) = "delete"
      BY <1>1, <2>3, NoticeType DEF TypeOK, Fresh
    <3>2. QED
      BY <1>3, <2>3, <3>1 DEF Due
  <2>4. CASE u = v /\ api[u] = "none" /\ Has(watch, <<u, "none">>) /\ s # "none"
    BY <1>3, <2>4 DEF Due
  <2>5. QED
    BY <1>7, <2>1, <2>2, <2>3, <2>4 DEF Due
<1>8. QED
  BY <1>3, <1>4, <1>5, <1>6, <1>7, QuietStep

LEMMA RelistIndInv ==
    ASSUME IndInv, TypeOK', Relist
    PROVE  IndInv'
<1>1. TypeOK /\ WatchInv /\ NoticeInv /\ KnownInv
  BY DEF IndInv
<1>2. /\ WatchInv' /\ NoticeInv' /\ Pending' \subseteq Pending
      /\ \A v \in VMIs, s \in States : Has(watch', <<v, s>>) <=> api[v] # cache[v] /\ s = api[v]
  BY <1>1, RelistInformer
<1>3. UNCHANGED <<rs, exp, worker, ours, doubt>> /\ api' = api /\ cache' = cache /\ notices' = notices
  BY DEF Relist, history, worker
<1>4. ASSUME NEW u \in VMIs
      PROVE  /\ api'[u] \in Since(api[u])
             /\ api[u] = "none" \/ cache[u] # "none" => api'[u] = "none" \/ cache'[u] # "none"
  BY <1>3 DEF Since
<1>5. ASSUME NEW u \in VMIs, Stale(u)' PROVE Stale(u)
  <2>1. \A t \in Fresh : t \in States
    BY LaterFacts
  <2>2. QED
    BY <1>1, <1>2, <1>3, <1>5, <2>1 DEF Stale, KnownInv
<1>6. ASSUME NEW u \in VMIs, u \in exp.uids, Due(u) PROVE Due(u)'
  <2>1. "none" \in States
    BY DEF States
  <2>2. QED
    BY <1>2, <1>3, <1>6, <2>1 DEF Due, worker
<1>7. QED
  BY <1>2, <1>3, <1>4, <1>5, <1>6, QuietStep

LEMMA SameInformer ==
    ASSUME WatchInv, NoticeInv, UNCHANGED <<api, watch, cache, notices>>
    PROVE  /\ WatchInv' /\ NoticeInv' /\ Pending' = Pending
           /\ \A v : ours' = ours => (Stale(v)' <=> Stale(v))
           /\ \A v : deletes' = deletes => (Due(v)' <=> Due(v))
<1>1. WatchInv'
  BY DEF WatchInv, WatchOrder, WatchStates, CacheStates
<1>2. \A v : Unseen(v)' <=> Unseen(v)
  BY DEF Unseen
<1>3. NoticeInv' /\ Pending' = Pending
  BY <1>2 DEF NoticeInv, Pending
<1>4. QED
  BY <1>1, <1>3 DEF Stale, Due

\* Steps that change nothing the invariant is about, but the spec.
LEMMA SpecIndInv ==
    ASSUME IndInv, TypeOK', UNCHANGED <<api, informer, exp, worker, ours, doubt>>,
           rs.state = "gone" => rs'.state = "gone"
    PROVE  IndInv'
<1>1. /\ WatchInv' /\ NoticeInv' /\ Pending' = Pending
      /\ \A v : (Stale(v)' <=> Stale(v)) /\ (Due(v)' <=> Due(v))
  BY SameInformer DEF IndInv, informer, worker
<1>2. ASSUME NEW u \in VMIs
      PROVE  /\ api'[u] \in Since(api[u])
             /\ api[u] = "none" \/ cache[u] # "none" => api'[u] = "none" \/ cache'[u] # "none"
  BY DEF Since, informer
<1>3. QED
  BY <1>1, <1>2, QuietStep

\* The deletion of v is observed: the other ones are waited for as before.
LEMMA StruckOff ==
    ASSUME TypeOK, DeletionInv, NEW v \in VMIs, NEW f, f = DeletionObserved(exp, v)
    PROVE  /\ f.uids = exp.uids \ {v} /\ f.add = exp.add /\ f.set = exp.set /\ f.expired = exp.expired
           /\ f.del > 0 => exp.del > 0 /\ f.del = Cardinality(f.uids)
           /\ \A u \in exp.uids : u # v /\ exp.del > 0 => f.del > 0
<1>1. exp \in Expectation(VMIs) /\ exp.del \in Int /\ exp.uids \in SUBSET VMIs /\ IsFiniteSet(exp.uids)
  BY Numbers, VMICardinality
<1>2. /\ f.uids = exp.uids \ {v} /\ f.add = exp.add /\ f.set = exp.set /\ f.expired = exp.expired
      /\ f.del = IF v \in exp.uids THEN exp.del - 1 ELSE exp.del
  BY <1>1, ExpectationFields
<1>3. v \in exp.uids => Cardinality(exp.uids \ {v}) = Cardinality(exp.uids) - 1
  BY <1>1, FS_RemoveElement
<1>4. v \notin exp.uids => exp.uids \ {v} = exp.uids
  OBVIOUS
<1>5. Cardinality(exp.uids) \in Nat /\ Cardinality(exp.uids \ {v}) \in Nat
      /\ \A u \in exp.uids : u # v => Cardinality(exp.uids \ {v}) # 0
  <2>1. exp.uids \ {v} \in SUBSET VMIs
    BY <1>1
  <2>2. QED
    BY <1>1, <2>1, VMICardinality
<1>6. exp.del > 0 => exp.del = Cardinality(exp.uids)
  BY DEF DeletionInv
<1>7. f.del > 0 => exp.del > 0 /\ f.del = Cardinality(f.uids)
  <2>1. CASE v \in exp.uids
    <3>1. f.del = exp.del - 1 /\ Cardinality(f.uids) = Cardinality(exp.uids) - 1
      BY <1>2, <1>3, <2>1
    <3>2. QED
      BY <1>1, <1>5, <1>6, <3>1
  <2>2. CASE v \notin exp.uids
    BY <1>2, <1>4, <1>6, <2>2
  <2>3. QED
    BY <2>1, <2>2
<1>8. ASSUME NEW u \in exp.uids, u # v, exp.del > 0 PROVE f.del > 0
  <2>1. CASE v \in exp.uids
    <3>1. f.del = Cardinality(exp.uids \ {v})
      BY <1>2, <1>3, <1>6, <1>8, <2>1
    <3>2. QED
      BY <1>5, <1>8, <3>1
  <2>2. CASE v \notin exp.uids
    BY <1>2, <1>8, <2>2
  <2>3. QED
    BY <2>1, <2>2
<1>9. QED
  BY <1>2, <1>7, <1>8

LEMMA HandleIndInv ==
    ASSUME IndInv, TypeOK', Handle
    PROVE  IndInv'
<1>1. TypeOK /\ WatchInv /\ NoticeInv /\ KnownInv /\ WorkerInv /\ DeletionInv /\ TrustInv
  BY DEF IndInv
<1>2. PICK v \in VMIs, k \in {"add", "update", "delete"} : Head(notices) = <<v, k>>
  <2>1. Head(notices) \in VMIs \X {"add", "update", "delete"}
    BY <1>1, TailIndex DEF Handle, TypeOK
  <2>2. QED
    BY <2>1
<1>3. /\ WatchInv' /\ NoticeInv'
      /\ Pending' = Pending \ (IF k = "add" THEN {v} ELSE {}) /\ (k = "add" => v \in Pending)
      /\ Has(notices, <<v, k>>)
      /\ \A x : Has(notices, x) <=> Has(notices', x) \/ x = <<v, k>>
  BY <1>1, <1>2, HandleInformer
<1>4. UNCHANGED <<rs, api, watch, cache, worker, ours, doubt>>
  BY DEF Handle, history
<1>5. /\ \A u \in VMIs : Stale(u)' <=> Stale(u)
      /\ \A u \in VMIs : Due(u) => Due(u)' \/ (u = v /\ k = "delete")
      /\ Pending' \subseteq Pending
  BY <1>3, <1>4 DEF Stale, Due, worker
<1>6. ASSUME NEW u \in VMIs
      PROVE  /\ api'[u] \in Since(api[u])
             /\ api[u] = "none" \/ cache[u] # "none" => api'[u] = "none" \/ cache'[u] # "none"
  BY <1>4 DEF Since
<1>7. CASE exp' = exp /\ (rs.state = "gone" \/ k # "delete" \/ v \notin exp.uids)
  BY <1>3, <1>4, <1>5, <1>6, <1>7, QuietStep
<1>8. CASE rs.state # "gone" /\ k = "add" /\ exp' = CreationObserved(exp)
  <2>1. /\ exp'.set = exp.set /\ exp'.del = exp.del /\ exp'.expired = exp.expired /\ exp'.uids = exp.uids
        /\ exp'.add = IF exp.set THEN exp.add - 1 ELSE exp.add
        /\ ~exp.set => exp' = exp
    BY <1>1, <1>8, Numbers, ExpectationFields
  <2>2. KnownInv' /\ WorkerInv'
    BY <1>1, <1>4, <2>1 DEF KnownInv, WorkerInv, worker
  <2>3. DeletionInv'
    <3>1. exp.uids \subseteq VMIs
      BY <1>1, Numbers
    <3>2. QED
      BY <1>1, <1>4, <1>5, <1>8, <2>1, <3>1 DEF DeletionInv
  <2>4. TrustInv'
    <3>1. SUFFICES ASSUME ~doubt PROVE Counted' /\ SyncInv'
      BY <1>4 DEF TrustInv
    <3>2. Counted /\ SyncInv
      BY <1>1, <1>8, <3>1 DEF TrustInv
    <3>3. /\ Cardinality(Pending) \in Nat /\ Cardinality(Pending \ {v}) = Cardinality(Pending) - 1
          /\ Pending # {} /\ creates \in Int /\ creates >= 0 /\ exp.add \in Int
      <4>1. Pending \in SUBSET VMIs
        BY DEF Pending
      <4>2. IsFiniteSet(Pending) /\ Cardinality(Pending) \in Nat
        BY <4>1, VMICardinality
      <4>3. Cardinality(Pending \ {v}) = Cardinality(Pending) - 1 /\ Pending # {}
        BY <1>3, <1>8, <4>2, FS_RemoveElement
      <4>4. QED
        BY <1>1, <4>2, <4>3, Numbers
    <3>4. creates + Cardinality(Pending) <= exp.add /\ ~exp.expired
      BY <3>2, <3>3 DEF Counted, AllSeen
    <3>5. exp.set
      <4>1. exp.add # 0
        <5>1. Cardinality(Pending) # 0
          <6>1. Pending \in SUBSET VMIs
            BY DEF Pending
          <6>2. QED BY <3>3, <6>1, VMICardinality
        <5>2. QED BY <3>3, <3>4, <5>1
      <4>2. QED
        BY <1>1, <4>1, Numbers, ExpectationFields DEF WorkerInv
    <3>6. creates' + Cardinality(Pending') <= exp'.add
      BY <1>3, <1>4, <1>8, <2>1, <3>3, <3>4, <3>5 DEF worker
    <3>7. Counted'
      BY <1>1, <1>4, <1>5, <2>1, <3>2, <3>4, <3>6 DEF Counted, worker
    <3>8. SyncInv'
      <4>1. AllSeen => AllSeen'
        BY <1>4, <1>5 DEF AllSeen, worker
      <4>2. QED
        BY <1>4, <3>2, <4>1 DEF SyncInv, worker
    <3>9. QED
      BY <3>7, <3>8
  <2>5. QED
    BY <1>3, <2>2, <2>3, <2>4 DEF IndInv
<1>9. CASE rs.state # "gone" /\ k = "delete" /\ exp' = DeletionObserved(exp, v) /\ v \in exp.uids
  <2>1. /\ exp'.uids = exp.uids \ {v} /\ exp'.add = exp.add /\ exp'.set = exp.set /\ exp'.expired = exp.expired
        /\ exp'.del > 0 => exp.del > 0 /\ exp'.del = Cardinality(exp'.uids)
        /\ \A u \in exp.uids : u # v /\ exp.del > 0 => exp'.del > 0
    BY <1>1, <1>9, StruckOff
  <2>2. exp.uids \subseteq VMIs
    BY <1>1, Numbers
  <2>3. exp.set
    BY <1>1, <1>9, Numbers, ExpectationFields DEF WorkerInv
  <2>4. KnownInv' /\ WorkerInv'
    BY <1>1, <1>4, <2>1, <2>3 DEF KnownInv, WorkerInv, worker
  <2>5. DeletionInv'
    BY <1>1, <1>4, <1>5, <1>9, <2>1, <2>2 DEF DeletionInv
  <2>6. api[v] \notin Fresh /\ ~Stale(v)
    BY <1>1, <1>3, <1>9 DEF NoticeInv, Stale
  <2>7. TrustInv'
    <3>1. SUFFICES ASSUME ~doubt PROVE Counted' /\ SyncInv'
      BY <1>4 DEF TrustInv
    <3>2. Counted /\ SyncInv
      BY <1>1, <1>9, <3>1 DEF TrustInv
    <3>3. Pending' = Pending /\ (AllSeen => AllSeen')
      BY <1>3, <1>4, <1>5, <1>9 DEF AllSeen, worker
    <3>4. Counted'
      BY <1>4, <1>5, <2>1, <2>6, <3>2, <3>3 DEF Counted, worker
    <3>5. SyncInv'
      BY <1>4, <3>2, <3>3 DEF SyncInv, worker
    <3>6. QED
      BY <3>4, <3>5
  <2>8. QED
    BY <1>3, <2>4, <2>5, <2>7 DEF IndInv
<1>10. QED
  <2>1. CASE rs.state = "gone"
    BY <1>7, <2>1 DEF Handle
  <2>2. CASE rs.state # "gone"
    <3>1. exp' = Observed(k, v)
      BY <1>2, <2>2 DEF Handle
    <3>2. CASE k = "add"
      BY <1>8, <2>2, <3>1, <3>2 DEF Observed
    <3>3. CASE k = "update"
      BY <1>7, <2>2, <3>1, <3>3 DEF Observed
    <3>4. CASE k = "delete"
      <4>1. exp' = DeletionObserved(exp, v)
        BY <3>1, <3>4 DEF Observed
      <4>2. v \notin exp.uids => exp' = exp
        BY <1>1, <4>1, Numbers, ExpectationFields
      <4>3. QED
        BY <1>7, <1>9, <2>2, <3>4, <4>1, <4>2
    <3>5. QED
      BY <3>2, <3>3, <3>4
  <2>3. QED
    BY <2>1, <2>2

LEMMA ExpireIndInv ==
    ASSUME IndInv, TypeOK', Expire
    PROVE  IndInv'
<1>1. TypeOK /\ WatchInv /\ NoticeInv /\ KnownInv /\ WorkerInv /\ DeletionInv /\ TrustInv
  BY DEF IndInv
<1>2. UNCHANGED <<rs, api, watch, cache, notices, worker, ours>>
  BY DEF Expire, informer
<1>3. /\ WatchInv' /\ NoticeInv' /\ Pending' = Pending
      /\ \A v : (Stale(v)' <=> Stale(v)) /\ (Due(v)' <=> Due(v))
  BY <1>1, <1>2, SameInformer DEF worker
<1>4. /\ exp'.set = exp.set /\ exp'.add = exp.add /\ exp'.del = exp.del /\ exp'.uids = exp.uids
      /\ exp.set
  BY <1>1, Numbers DEF Expire, Expectation
<1>5. KnownInv' /\ WorkerInv' /\ DeletionInv'
  BY <1>1, <1>2, <1>3, <1>4 DEF KnownInv, WorkerInv, DeletionInv, worker
<1>6. TrustInv'
  <2>1. SUFFICES ASSUME ~doubt', rs.state # "gone" \/ pc # "idle" PROVE Counted' /\ SyncInv'
    BY <1>2 DEF TrustInv, worker
  <2>2. ~doubt /\ ~Lagging /\ ~(creates > 0) /\ deletes = {}
    BY <2>1 DEF Expire, UnderWay
  <2>3. creates = 0
    BY <1>1, <2>2, Numbers
  <2>4. AllSeen
    BY <1>1, <2>2, <2>3, WithoutLag DEF AllSeen
  <2>5. AllSeen'
    BY <1>2, <1>3, <2>4 DEF AllSeen, worker
  <2>6. Counted'
    BY <1>2, <2>2, <2>5 DEF Counted, AllSeen, worker
  <2>7. SyncInv
    BY <1>1, <2>1, <2>2 DEF TrustInv
  <2>8. SyncInv'
    BY <1>2, <2>5, <2>7 DEF SyncInv, worker
  <2>9. QED
    BY <2>6, <2>8
<1>7. QED
  BY <1>3, <1>5, <1>6 DEF IndInv

\* When the expectations are met, everything is seen.
LEMMA SatisfiedMeansSeen ==
    ASSUME TypeOK, WorkerInv, Counted, SatisfiedExpectations(exp), creates = 0
    PROVE  AllSeen
<1>1. exp.add \in Int /\ exp.del \in Int /\ Cardinality(Pending) \in Nat /\ (Cardinality(Pending) = 0 <=> Pending = {})
  <2>1. Pending \in SUBSET VMIs
    BY DEF Pending
  <2>2. QED
    BY <2>1, VMICardinality, Numbers
<1>2. CASE Fulfilled(exp)
  <2>1. exp.add <= 0 /\ exp.del <= 0
    BY <1>2 DEF Fulfilled
  <2>2. Pending = {}
    BY <1>1, <2>1 DEF Counted
  <2>3. \A v \in VMIs : ~Stale(v)
    BY <1>1, <2>1 DEF Counted
  <2>4. QED
    BY <2>2, <2>3 DEF AllSeen
<1>3. CASE exp.expired
  BY <1>3 DEF Counted
<1>4. CASE ~exp.set
  <2>1. exp.add = 0 /\ exp.del = 0
    BY <1>4, Numbers, ExpectationFields DEF WorkerInv
  <2>2. QED
    BY <1>2, <2>1 DEF Fulfilled
<1>5. QED
  BY <1>2, <1>3, <1>4 DEF SatisfiedExpectations

LEMMA BeginIndInv ==
    ASSUME IndInv, TypeOK', Begin
    PROVE  IndInv'
<1>1. TypeOK /\ WatchInv /\ NoticeInv /\ KnownInv /\ WorkerInv /\ DeletionInv /\ TrustInv
  BY DEF IndInv
<1>2. UNCHANGED <<rs, api, watch, cache, notices, list, creates, deletes, ours>>
  BY DEF Begin, informer
<1>3. /\ WatchInv' /\ NoticeInv' /\ Pending' = Pending
      /\ \A v : (Stale(v)' <=> Stale(v)) /\ (Due(v)' <=> Due(v))
  BY <1>1, <1>2, SameInformer
<1>4. creates = 0 /\ deletes = {}
  BY <1>1, Numbers DEF Begin, WorkerInv
<1>5. exp' = exp \/ (rs.state = "gone" /\ exp' = NoExpectation)
  BY DEF Begin
<1>6. exp'.uids \subseteq exp.uids /\ (exp'.del > 0 => exp' = exp)
  BY <1>1, <1>5, Numbers, ExpectationFields
<1>7. KnownInv'
  BY <1>1, <1>2, <1>6 DEF KnownInv
<1>8. WorkerInv'
  BY <1>1, <1>2, <1>4, <1>5 DEF WorkerInv, Begin
<1>9. DeletionInv'
  BY <1>1, <1>2, <1>3, <1>6 DEF DeletionInv
<1>10. TrustInv'
  <2>1. CASE rs.state = "gone"
    BY <1>2, <2>1 DEF TrustInv, Begin
  <2>2. CASE rs.state # "gone" /\ ~doubt'
    <3>1. exp' = exp /\ pc' = "list" /\ needsSync' = SatisfiedExpectations(exp)
      BY <2>2 DEF Begin
    <3>2. Counted
      <4>1. CASE ~doubt
        BY <1>1, <2>2, <4>1 DEF TrustInv
      <4>2. CASE ~Lagging
        <5>1. AllSeen
          BY <1>1, <1>4, <4>2, WithoutLag DEF AllSeen
        <5>2. QED
          BY <1>4, <5>1 DEF Counted, AllSeen
      <4>3. QED
        BY <2>2, <4>1, <4>2 DEF Begin
    <3>3. AllSeen => AllSeen'
      BY <1>2, <1>3 DEF AllSeen
    <3>4. Counted'
      BY <1>2, <1>3, <1>4, <3>1, <3>2, <3>3 DEF Counted
    <3>5. needsSync' => AllSeen'
      BY <1>1, <1>4, <3>1, <3>2, <3>3, SatisfiedMeansSeen
    <3>6. SyncInv'
      BY <1>2, <1>4, <3>1, <3>5 DEF SyncInv
    <3>7. QED
      BY <3>4, <3>6 DEF TrustInv
  <2>3. CASE doubt'
    BY <2>3 DEF TrustInv
  <2>4. QED
    BY <2>1, <2>2, <2>3
<1>11. QED
  BY <1>3, <1>7, <1>8, <1>9, <1>10 DEF IndInv

LEMMA ListIndInv ==
    ASSUME IndInv, TypeOK', List
    PROVE  IndInv'
<1>1. TypeOK /\ WatchInv /\ NoticeInv /\ KnownInv /\ WorkerInv /\ DeletionInv /\ TrustInv
  BY DEF IndInv
<1>2. UNCHANGED <<rs, api, watch, cache, notices, exp, needsSync, spec, creates, deletes, ours, doubt>>
  BY DEF List, informer, history
<1>3. /\ WatchInv' /\ NoticeInv' /\ Pending' = Pending
      /\ \A v : (Stale(v)' <=> Stale(v)) /\ (Due(v)' <=> Due(v))
  BY <1>1, <1>2, SameInformer
<1>4. creates = 0 /\ deletes = {}
  BY <1>1, Numbers DEF List, WorkerInv
<1>5. KnownInv'
  BY <1>1, <1>2 DEF KnownInv, List, WatchInv, CacheStates
<1>6. WorkerInv' /\ DeletionInv'
  BY <1>1, <1>2, <1>3, <1>4 DEF WorkerInv, DeletionInv, List
<1>7. TrustInv'
  <2>1. SUFFICES ASSUME ~doubt PROVE Counted' /\ SyncInv'
    BY <1>2 DEF TrustInv
  <2>2. Counted /\ SyncInv
    BY <1>1, <2>1 DEF TrustInv, List
  <2>3. Counted'
    BY <1>2, <1>3, <2>2 DEF Counted, AllSeen
  <2>4. needsSync => AllSeen
    BY <2>2 DEF SyncInv, List
  <2>5. pc' = "scale" => needsSync /\ list' = cache
    BY DEF List
  <2>6. needsSync => /\ \A v \in VMIs : api[v] # "none" => cache[v] # "none"
                     /\ \A v \in ours : cache[v] \notin Fresh
    <3>1. ours \subseteq VMIs
      BY <1>1, Numbers
    <3>2. QED
      BY <2>4, <3>1 DEF AllSeen, Pending, Unseen, Stale
  <2>7. pc' \in {"scale", "cleaning"}
    BY DEF List
  <2>8. SyncInv'
    BY <1>2, <1>4, <2>5, <2>6, <2>7 DEF SyncInv
  <2>9. QED
    BY <2>3, <2>8
<1>8. QED
  BY <1>3, <1>5, <1>6, <1>7 DEF IndInv

\* New expectations replace the ones before: nothing is forgotten unless in doubt.
LEMMA ExpectSeen ==
    ASSUME IndInv, NEW e, Expect(e), ~doubt', creates = 0, pc # "idle"
    PROVE  ~doubt /\ AllSeen
<1>1. TypeOK /\ WatchInv /\ KnownInv /\ WorkerInv /\ TrustInv
  BY DEF IndInv
<1>2. ~doubt /\ (~Lagging \/ Fulfilled(exp))
  BY DEF Expect
<1>3. CASE ~Lagging
  BY <1>1, <1>2, <1>3, WithoutLag DEF AllSeen
<1>4. CASE Fulfilled(exp)
  <2>1. Counted
    BY <1>1, <1>2 DEF TrustInv
  <2>2. SatisfiedExpectations(exp)
    BY <1>4 DEF SatisfiedExpectations
  <2>3. QED
    BY <1>1, <1>2, <2>1, <2>2, SatisfiedMeansSeen
<1>5. QED
  BY <1>2, <1>3, <1>4

\* scale or cleanFinishedVmis is about to delete the VMIs in S.
LEMMA DeletesIndInv ==
    ASSUME IndInv, TypeOK', NEW S \in SUBSET VMIs, Expect(ExpectDeletions(exp, S)), deletes' = S,
           UNCHANGED <<rs, api, informer, needsSync, spec, list, creates, ours>>,
           \A v \in S : list[v] # "none", creates = 0,
           \/ pc = "scale" /\ pc' = "scaling" /\ \A v \in S : list[v] = "live"
           \/ pc = "scaling" /\ pc' = "cleaning" /\ \A v \in S : list[v] = "final"
    PROVE  IndInv'
<1>1. TypeOK /\ WatchInv /\ NoticeInv /\ KnownInv /\ WorkerInv /\ DeletionInv /\ TrustInv
  BY DEF IndInv
<1>2. UNCHANGED <<rs, api, watch, cache, notices, list, creates, needsSync, spec, ours>>
  BY DEF informer
<1>3. WatchInv' /\ NoticeInv' /\ Pending' = Pending /\ \A v : Stale(v)' <=> Stale(v)
  BY <1>1, <1>2, SameInformer
<1>4. exp'.set /\ exp'.add = 0 /\ exp'.del = Cardinality(S) /\ ~exp'.expired /\ exp'.uids = S
  BY <1>1, Numbers, ExpectationFields DEF Expect
<1>5. KnownInv'
  BY <1>1, <1>2, <1>4 DEF KnownInv
<1>6. WorkerInv'
  BY <1>1, <1>2, <1>4 DEF WorkerInv
<1>7. DeletionInv'
  BY <1>4 DEF DeletionInv, Due
<1>8. TrustInv'
  <2>1. SUFFICES ASSUME ~doubt' PROVE Counted' /\ SyncInv'
    BY DEF TrustInv
  <2>2. ~doubt /\ AllSeen
    BY <2>1, ExpectSeen
  <2>3. SyncInv
    BY <1>1, <2>2 DEF TrustInv
  <2>4. \A v \in S : Cardinality(S) > 0
    BY VMICardinality
  <2>5. Counted'
    BY <1>2, <1>3, <1>4, <2>2, <2>4 DEF Counted, AllSeen
  <2>6. SyncInv'
    BY <1>2, <2>3 DEF SyncInv, Fresh
  <2>7. QED
    BY <2>5, <2>6
<1>9. QED
  BY <1>3, <1>5, <1>6, <1>7, <1>8 DEF IndInv

LEMMA ScaleIndInv ==
    ASSUME IndInv, TypeOK', Scale
    PROVE  IndInv'
<1>1. TypeOK /\ WatchInv /\ NoticeInv /\ KnownInv /\ WorkerInv /\ DeletionInv /\ TrustInv
  BY DEF IndInv
<1>2. UNCHANGED <<rs, api, watch, cache, notices, list, needsSync, spec, ours>> /\ pc = "scale" /\ pc' = "scaling"
  BY DEF Scale, informer
<1>3. creates = 0 /\ deletes = {}
  BY <1>1, <1>2, Numbers DEF WorkerInv
<1>4. CASE Missing > 0 /\ Expect(ExpectCreations(exp, Missing)) /\ creates' = Missing /\ UNCHANGED deletes
  <2>1. /\ WatchInv' /\ NoticeInv' /\ Pending' = Pending
        /\ \A v : (Stale(v)' <=> Stale(v)) /\ (Due(v)' <=> Due(v))
    BY <1>1, <1>2, <1>4, SameInformer
  <2>2. /\ activeVmis \in SUBSET VMIs /\ Cardinality(activeVmis) \in Nat /\ spec.replicas \in Int
        /\ Missing \in Int /\ Missing <= spec.replicas - Cardinality(activeVmis)
    <3>1. activeVmis \in SUBSET VMIs
      BY DEF activeVmis, In
    <3>2. Cardinality(activeVmis) \in Nat /\ spec.replicas \in Int
      BY <1>1, <3>1, VMICardinality, Numbers
    <3>3. QED
      BY <3>1, <3>2, Consts DEF Missing, Least
  <2>3. exp'.set /\ exp'.add = Missing /\ exp'.del = 0 /\ ~exp'.expired /\ exp'.uids = exp.uids
    BY <1>1, <1>4, <2>2, Numbers, ExpectationFields DEF Expect
  <2>4. KnownInv' /\ WorkerInv' /\ DeletionInv'
    BY <1>1, <1>2, <1>3, <1>4, <2>3 DEF KnownInv, WorkerInv, DeletionInv
  <2>5. TrustInv'
    <3>1. SUFFICES ASSUME ~doubt' PROVE Counted' /\ SyncInv'
      BY DEF TrustInv
    <3>2. ~doubt /\ AllSeen
      BY <1>2, <1>3, <1>4, <3>1, ExpectSeen
    <3>3. SyncInv
      BY <1>1, <1>2, <3>2 DEF TrustInv
    <3>4. Cardinality(Pending') = 0
      BY <2>1, <3>2, FS_EmptySet DEF AllSeen
    <3>5. Counted'
      BY <1>3, <1>4, <2>1, <2>2, <2>3, <3>2, <3>4 DEF Counted, AllSeen
    <3>6. In(api, "live") \in SUBSET activeVmis
      <4>1. \A v \in VMIs : api[v] = "live" => list[v] # "none" /\ api[v] \in Since(list[v]) /\ list[v] \in States
        BY <1>1, <1>2, <3>3 DEF SyncInv, KnownInv, TypeOK
      <4>2. \A v \in VMIs : api[v] = "live" => list[v] = "live"
        BY <4>1, SinceFacts
      <4>3. QED
        BY <4>2 DEF In, activeVmis
    <3>7. Cardinality(In(api, "live")) \in Nat /\ Cardinality(In(api, "live")) <= Cardinality(activeVmis)
      BY <2>2, <3>6, PendingCardinality
    <3>8. Cardinality(In(api, "live")) + Missing <= spec.replicas
      BY <2>2, <3>7
    <3>9. SyncInv'
      BY <1>2, <1>3, <1>4, <3>3, <3>8 DEF SyncInv, Fresh
    <3>10. QED
      BY <3>5, <3>9
  <2>6. QED
    BY <2>1, <2>4, <2>5 DEF IndInv
<1>5. ASSUME NEW S \in SUBSET activeVmis, Expect(ExpectDeletions(exp, S)), deletes' = S, UNCHANGED creates
      PROVE  IndInv'
  <2>1. S \in SUBSET VMIs /\ \A v \in S : list[v] = "live"
    BY DEF activeVmis, In
  <2>2. QED
    BY <1>2, <1>3, <1>5, <2>1, DeletesIndInv DEF informer
<1>6. CASE UNCHANGED <<exp, doubt, creates, deletes>>
  <2>1. /\ WatchInv' /\ NoticeInv' /\ Pending' = Pending
        /\ \A v : (Stale(v)' <=> Stale(v)) /\ (Due(v)' <=> Due(v))
    BY <1>1, <1>2, <1>6, SameInformer
  <2>2. KnownInv' /\ WorkerInv' /\ DeletionInv'
    BY <1>1, <1>2, <1>3, <1>6, <2>1 DEF KnownInv, WorkerInv, DeletionInv
  <2>3. ~doubt => Counted /\ SyncInv
    BY <1>1, <1>2 DEF TrustInv
  <2>4. TrustInv'
    BY <1>2, <1>3, <1>6, <2>1, <2>3 DEF TrustInv, Counted, SyncInv, AllSeen, Fresh
  <2>5. QED
    BY <2>1, <2>2, <2>4 DEF IndInv
<1>7. QED
  BY <1>4, <1>5, <1>6 DEF Scale

LEMMA CleanIndInv ==
    ASSUME IndInv, TypeOK', Clean
    PROVE  IndInv'
<1>1. TypeOK /\ WatchInv /\ NoticeInv /\ KnownInv /\ WorkerInv /\ DeletionInv /\ TrustInv
  BY DEF IndInv
<1>2. /\ UNCHANGED <<rs, api, watch, cache, notices, list, needsSync, spec, ours, creates>>
      /\ pc = "scaling" /\ pc' = "cleaning" /\ creates = 0 /\ deletes = {}
  BY DEF Clean, informer
<1>3. ASSUME NEW S \in SUBSET finishedVmis, Expect(ExpectDeletions(exp, S)), deletes' = S
      PROVE  IndInv'
  <2>1. S \in SUBSET VMIs /\ \A v \in S : list[v] = "final"
    BY DEF finishedVmis, In
  <2>2. QED
    BY <1>2, <1>3, <2>1, DeletesIndInv DEF informer
<1>4. CASE UNCHANGED <<exp, doubt, deletes>>
  <2>1. /\ WatchInv' /\ NoticeInv' /\ Pending' = Pending
        /\ \A v : (Stale(v)' <=> Stale(v)) /\ (Due(v)' <=> Due(v))
    BY <1>1, <1>2, <1>4, SameInformer
  <2>2. KnownInv' /\ WorkerInv' /\ DeletionInv'
    BY <1>1, <1>2, <1>4, <2>1 DEF KnownInv, WorkerInv, DeletionInv
  <2>3. ~doubt => Counted /\ SyncInv
    BY <1>1, <1>2 DEF TrustInv
  <2>4. TrustInv'
    BY <1>2, <1>4, <2>1, <2>3 DEF TrustInv, Counted, SyncInv, AllSeen
  <2>5. QED
    BY <2>1, <2>2, <2>4 DEF IndInv
<1>5. QED
  BY <1>3, <1>4 DEF Clean

\* The part of the invariant that doesn't depend on how the controller counts: a VMI
\* is created.
LEMMA NewKnown ==
    ASSUME IndInv, Free # {}, Becomes(New, "live"), creates > 0, creates' = creates - 1,
           ours' = ours \ {New}, exp' \in {exp, CreationObserved(exp)},
           UNCHANGED <<rs, cache, notices, pc, needsSync, spec, list, deletes>>
    PROVE  /\ WatchInv' /\ NoticeInv' /\ KnownInv' /\ WorkerInv' /\ DeletionInv'
           /\ New \in VMIs /\ New \notin deletes /\ Pending' \subseteq Pending \cup {New}
           /\ \A u \in VMIs : Stale(u)' => Stale(u)
           /\ api'[New] = "live" /\ \A u \in VMIs : u # New => api'[u] = api[u]
<1>1. TypeOK /\ WatchInv /\ NoticeInv /\ KnownInv /\ WorkerInv /\ DeletionInv
  BY DEF IndInv
<1>2. New \in Free
  BY <1>1, FreeFacts
<1> DEFINE v == New
<1>3. v \in Free /\ Becomes(v, "live") /\ ours' = ours \ {v}
  BY <1>2
<1> HIDE DEF v
<1>4. /\ v \in VMIs /\ v \notin exp.uids /\ v \notin deletes
      /\ api[v] = "none" /\ cache[v] = "none" /\ list[v] = "none"
      /\ \A s : ~Has(watch, <<v, s>>) /\ ~Has(notices, <<v, s>>)
  BY <1>1, <1>3, FreeName
<1>5. /\ WatchInv' /\ NoticeInv' /\ Pending' \subseteq Pending \cup {v}
      /\ \A x : Has(watch', x) <=> Has(watch, x) \/ x = <<v, "live">>
      /\ api'[v] = "live" /\ \A u \in VMIs : u # v => api'[u] = api[u]
  BY <1>1, <1>3, NewInformer
<1>6. /\ exp'.uids = exp.uids /\ exp'.del = exp.del /\ exp'.set = exp.set /\ (~exp.set => exp' = exp)
  BY <1>1, Numbers, ExpectationFields
<1>7. ours \subseteq VMIs /\ exp.uids \subseteq VMIs /\ creates \in Int /\ creates >= 0
  BY <1>1, Numbers
<1>8. KnownInv'
  BY <1>1, <1>3, <1>4, <1>5, <1>6, <1>7 DEF KnownInv
<1>9. WorkerInv'
  BY <1>1, <1>6, <1>7 DEF WorkerInv
<1>10. \A u \in VMIs : u # v /\ Due(u) => Due(u)'
  BY <1>5 DEF Due
<1>11. DeletionInv'
  BY <1>1, <1>4, <1>6, <1>7, <1>10 DEF DeletionInv
<1>12. \A u \in VMIs : Stale(u)' => Stale(u)
  BY <1>3, <1>5 DEF Stale
<1>13. QED
  BY <1>4, <1>5, <1>8, <1>9, <1>11, <1>12 DEF v

\* One VMI more runs.
LEMMA OneMoreLives ==
    ASSUME NEW v \in VMIs, \A u \in VMIs : u # v => api'[u] = api[u]
    PROVE  /\ Cardinality(In(api, "live")) \in Nat /\ Cardinality(In(api', "live")) \in Nat
           /\ Cardinality(In(api', "live")) <= Cardinality(In(api, "live")) + 1
<1> DEFINE S == In(api, "live")
           T == In(api', "live")
<1>1. S \in SUBSET VMIs /\ T \in SUBSET (S \cup {v}) /\ S \cup {v} \in SUBSET VMIs
  BY DEF In
<1> HIDE DEF S, T
<1>2. /\ Cardinality(T) \in Nat /\ Cardinality(S \cup {v}) \in Nat
      /\ Cardinality(T) <= Cardinality(S \cup {v})
  BY <1>1, PendingCardinality
<1>3. IsFiniteSet(S) /\ Cardinality(S) \in Nat
  BY <1>1, VMICardinality
<1>4. Cardinality(S \cup {v}) <= Cardinality(S) + 1
  BY <1>3, FS_AddElement, SMTT(30)
<1>5. QED
  BY <1>2, <1>3, <1>4 DEF S, T

LEMMA CreateIndInv ==
    ASSUME IndInv, TypeOK', Create
    PROVE  IndInv'
<1>1. TypeOK /\ WorkerInv /\ TrustInv
  BY DEF IndInv
<1>2. /\ UNCHANGED <<rs, exp, pc, needsSync, spec, list, deletes, doubt, cache, notices>>
      /\ creates > 0 /\ creates' = creates - 1 /\ ours' = ours \ {New}
      /\ Free # {} /\ Becomes(New, "live")
  BY DEF Create
<1>3. /\ WatchInv' /\ NoticeInv' /\ KnownInv' /\ WorkerInv' /\ DeletionInv'
      /\ New \in VMIs /\ New \notin deletes /\ Pending' \subseteq Pending \cup {New}
      /\ \A u \in VMIs : Stale(u)' => Stale(u)
      /\ api'[New] = "live" /\ \A u \in VMIs : u # New => api'[u] = api[u]
  BY <1>2, NewKnown
<1>4. ASSUME ~doubt PROVE Counted' /\ SyncInv'
  <2>1. pc = "scaling" /\ creates \in Int /\ exp.add \in Int /\ deletes \subseteq VMIs /\ spec.replicas \in Int
    BY <1>1, <1>2, Numbers DEF WorkerInv
  <2>2. Counted /\ SyncInv
    BY <1>1, <1>4, <2>1 DEF TrustInv
  <2>3. creates + Cardinality(Pending) <= exp.add /\ ~exp.expired
    BY <1>2, <2>1, <2>2 DEF Counted, AllSeen
  <2>4. /\ Cardinality(Pending) \in Nat /\ Cardinality(Pending') \in Nat
        /\ Cardinality(Pending') <= Cardinality(Pending) + 1
    <3> DEFINE P == Pending
               Q == Pending'
    <3>1. P \in SUBSET VMIs /\ P \cup {New} \in SUBSET VMIs /\ Q \in SUBSET (P \cup {New})
      BY <1>3 DEF Pending
    <3> HIDE DEF P, Q
    <3>2. IsFiniteSet(P) /\ Cardinality(P) \in Nat
      BY <3>1, VMICardinality
    <3>3. /\ Cardinality(Q) \in Nat /\ Cardinality(P \cup {New}) \in Nat
          /\ Cardinality(Q) <= Cardinality(P \cup {New})
      BY <3>1, PendingCardinality
    <3>4. Cardinality(P \cup {New}) <= Cardinality(P) + 1
      BY <3>2, FS_AddElement
    <3>5. QED
      BY <3>2, <3>3, <3>4 DEF P, Q
  <2>5. creates' + Cardinality(Pending') <= exp'.add
    BY <1>2, <2>1, <2>3, <2>4
  <2>6. Counted'
    BY <1>2, <1>3, <2>1, <2>2, <2>3, <2>5 DEF Counted
  <2>7. Cardinality(In(api', "live")) + creates' <= spec'.replicas
    <3>1. /\ Cardinality(In(api, "live")) \in Nat /\ Cardinality(In(api', "live")) \in Nat
          /\ Cardinality(In(api', "live")) <= Cardinality(In(api, "live")) + 1
      BY <1>3, OneMoreLives
    <3>2. QED
      BY <1>2, <2>1, <2>2, <3>1 DEF SyncInv
  <2>8. SyncInv'
    BY <1>2, <2>1, <2>2, <2>7 DEF SyncInv
  <2>9. QED
    BY <2>6, <2>8
<1>5. TrustInv'
  BY <1>2, <1>4 DEF TrustInv
<1>6. QED
  BY <1>3, <1>5 DEF IndInv

LEMMA CreateTimesOutIndInv ==
    ASSUME IndInv, TypeOK', CreateTimesOut
    PROVE  IndInv'
<1>1. WatchInv' /\ NoticeInv' /\ KnownInv' /\ WorkerInv' /\ DeletionInv'
  <2>1. /\ Free # {} /\ Becomes(New, "live") /\ creates > 0 /\ creates' = creates - 1
        /\ ours' = ours \ {New} /\ exp' \in {exp, CreationObserved(exp)}
        /\ UNCHANGED <<rs, cache, notices, pc, needsSync, spec, list, deletes>>
    BY DEF CreateTimesOut
  <2>2. QED
    BY <2>1, NewKnown
<1>2. TrustInv'
  BY DEF TrustInv, CreateTimesOut
<1>3. QED
  BY <1>1, <1>2 DEF IndInv

LEMMA CreateFailsIndInv ==
    ASSUME IndInv, TypeOK', CreateFails
    PROVE  IndInv'
<1>1. TypeOK /\ WatchInv /\ NoticeInv /\ KnownInv /\ WorkerInv /\ DeletionInv /\ TrustInv
  BY DEF IndInv
<1>2. /\ UNCHANGED <<rs, api, watch, cache, notices, pc, needsSync, spec, list, deletes, ours, doubt>>
      /\ creates > 0 /\ creates' = creates - 1 /\ exp' = CreationObserved(exp)
  BY DEF CreateFails, informer, history
<1>3. /\ WatchInv' /\ NoticeInv' /\ Pending' = Pending
      /\ \A v : (Stale(v)' <=> Stale(v)) /\ (Due(v)' <=> Due(v))
  BY <1>1, <1>2, SameInformer
<1>4. /\ exp'.set = exp.set /\ exp'.del = exp.del /\ exp'.expired = exp.expired /\ exp'.uids = exp.uids
      /\ exp'.add = IF exp.set THEN exp.add - 1 ELSE exp.add
      /\ ~exp.set => exp' = exp
  BY <1>1, <1>2, Numbers, ExpectationFields
<1>5. pc = "scaling" /\ creates \in Int /\ exp.add \in Int /\ spec.replicas \in Int
  BY <1>1, <1>2, Numbers DEF WorkerInv
<1>6. KnownInv' /\ WorkerInv' /\ DeletionInv'
  BY <1>1, <1>2, <1>3, <1>4, <1>5 DEF KnownInv, WorkerInv, DeletionInv
<1>7. ASSUME ~doubt PROVE Counted' /\ SyncInv'
  <2>1. Counted /\ SyncInv
    BY <1>1, <1>5, <1>7 DEF TrustInv
  <2>2. creates + Cardinality(Pending) <= exp.add /\ ~exp.expired
    BY <1>2, <1>5, <2>1 DEF Counted, AllSeen
  <2>3. Cardinality(Pending) \in Nat /\ Cardinality(In(api, "live")) \in Nat
    <3>1. Pending \in SUBSET VMIs /\ In(api, "live") \in SUBSET VMIs
      BY DEF Pending, In
    <3>2. QED
      BY <3>1, VMICardinality
  <2>4. exp.set
    <3>1. exp.add # 0
      BY <1>2, <1>5, <2>2, <2>3
    <3>2. QED
      BY <1>1, <3>1, Numbers, ExpectationFields DEF WorkerInv
  <2>5. creates' + Cardinality(Pending') <= exp'.add
    BY <1>2, <1>3, <1>4, <1>5, <2>2, <2>3, <2>4
  <2>6. Counted'
    BY <1>2, <1>3, <1>4, <2>1, <2>2, <2>5 DEF Counted
  <2>7. Cardinality(In(api, "live")) + creates' <= spec.replicas
    BY <1>2, <1>5, <2>1, <2>3 DEF SyncInv
  <2>8. SyncInv'
    BY <1>2, <1>5, <2>1, <2>7 DEF SyncInv
  <2>9. QED
    BY <2>6, <2>8
<1>8. TrustInv'
  BY <1>2, <1>7 DEF TrustInv
<1>9. QED
  BY <1>3, <1>6, <1>8 DEF IndInv

\* The same when the controller deletes a VMI, whatever its call returned.
LEMMA DeletedKnown ==
    ASSUME IndInv, NEW v \in deletes, api[v] \in Fresh, Becomes(v, "deleting"),
           deletes' = deletes \ {v}, ours' = ours \cup {v},
           exp' \in {exp, DeletionObserved(exp, v)},
           UNCHANGED <<rs, cache, notices, pc, needsSync, spec, list, creates>>
    PROVE  /\ WatchInv' /\ NoticeInv' /\ KnownInv' /\ WorkerInv' /\ DeletionInv'
           /\ v \in VMIs /\ Pending' \subseteq Pending
           /\ \A u \in VMIs : Stale(u)' => Stale(u) \/ u = v
           /\ api'[v] = "deleting" /\ \A u \in VMIs : u # v => api'[u] = api[u]
<1>1. TypeOK /\ WatchInv /\ NoticeInv /\ KnownInv /\ WorkerInv /\ DeletionInv
  BY DEF IndInv
<1>2. ours \subseteq VMIs /\ exp.uids \subseteq VMIs /\ deletes \subseteq VMIs /\ v \in VMIs
  BY <1>1, Numbers
<1>3. "deleting" \in Later(api[v]) /\ "deleting" \notin Fresh
  BY LaterFacts DEF Fresh
<1>4. /\ WatchInv' /\ NoticeInv' /\ Pending' \subseteq Pending
      /\ \A x : Has(watch', x) <=> Has(watch, x) \/ x = <<v, "deleting">>
      /\ api'[v] = "deleting" /\ \A u \in VMIs : u # v => api'[u] = api[u]
  BY <1>1, <1>2, <1>3, ChangeInformer
<1>5. /\ exp'.uids \subseteq exp.uids /\ (exp' # exp => exp'.uids = exp.uids \ {v})
      /\ exp'.del > 0 => exp.del > 0 /\ exp'.del = Cardinality(exp'.uids)
      /\ exp'.set = exp.set
  <2>1. CASE exp' = exp
    BY <1>1, <2>1 DEF DeletionInv
  <2>2. CASE exp' = DeletionObserved(exp, v)
    BY <1>1, <1>2, <2>2, StruckOff
  <2>3. QED
    BY <2>1, <2>2
<1>6. ~exp.set => exp' = exp
  BY <1>1, <1>2, Numbers, ExpectationFields DEF WorkerInv
<1>7. KnownInv'
  <2>1. cache[v] # "none"
    BY <1>1, <1>2 DEF KnownInv, Fresh
  <2>2. list[v] # "none" => "deleting" \in Since(list[v])
    <3>1. list[v] \in States /\ api[v] \in States
      BY <1>1, <1>2 DEF TypeOK
    <3>2. "deleting" \in Since(api[v])
      BY <1>3 DEF Since
    <3>3. QED
      BY <1>1, <1>2, <3>1, <3>2, SinceFacts DEF KnownInv
  <2>3. \A u \in VMIs : u \in exp.uids \cup deletes \/ list[u] # "none" => api'[u] = "none" \/ cache[u] # "none"
    BY <1>1, <1>4, <2>1 DEF KnownInv
  <2>4. \A u \in VMIs : list[u] # "none" => api'[u] \in Since(list[u])
    BY <1>1, <1>4, <2>2 DEF KnownInv
  <2>5. \A u \in ours \cup {v} : api'[u] \notin Fresh
    BY <1>1, <1>2, <1>3, <1>4 DEF KnownInv
  <2>6. QED
    BY <1>5, <2>3, <2>4, <2>5 DEF KnownInv
<1>8. WorkerInv'
  BY <1>1, <1>5, <1>6 DEF WorkerInv
<1>9. \A u \in VMIs : Due(u) => Due(u)'
  BY <1>4 DEF Due
<1>10. DeletionInv'
  BY <1>1, <1>2, <1>5, <1>9 DEF DeletionInv
<1>11. \A u \in VMIs : Stale(u)' => Stale(u) \/ u = v
  BY <1>3, <1>4 DEF Stale
<1>12. QED
  BY <1>2, <1>4, <1>7, <1>8, <1>10, <1>11

LEMMA DeleteIndInv ==
    ASSUME IndInv, TypeOK', NEW v \in VMIs, Delete(v)
    PROVE  IndInv'
<1>1. TypeOK /\ WatchInv /\ NoticeInv /\ KnownInv /\ WorkerInv /\ DeletionInv /\ TrustInv
  BY DEF IndInv
<1>2. /\ v \in deletes /\ deletes' = deletes \ {v}
      /\ UNCHANGED <<rs, cache, notices, exp, pc, needsSync, spec, list, creates, doubt>>
  BY DEF Delete
<1>3. pc \in {"scaling", "cleaning"} /\ deletes \subseteq VMIs /\ creates \in Int /\ exp.add \in Int
      /\ spec.replicas \in Int /\ ours \subseteq VMIs
  BY <1>1, <1>2, Numbers DEF WorkerInv
<1>4. ~doubt => Counted /\ SyncInv /\ ~exp.expired
  BY <1>1, <1>2, <1>3 DEF TrustInv, Counted
<1>5. CASE api[v] \in Fresh /\ Becomes(v, "deleting") /\ ours' = ours \cup {v}
  <2>1. /\ WatchInv' /\ NoticeInv' /\ KnownInv' /\ WorkerInv' /\ DeletionInv'
        /\ Pending' \subseteq Pending
        /\ \A u \in VMIs : Stale(u)' => Stale(u) \/ u = v
        /\ api'[v] = "deleting" /\ \A u \in VMIs : u # v => api'[u] = api[u]
    BY <1>2, <1>5, DeletedKnown
  <2>2. ASSUME ~doubt PROVE Counted' /\ SyncInv'
    <3>1. /\ Cardinality(Pending) \in Nat /\ Cardinality(Pending') \in Nat
          /\ Cardinality(Pending') <= Cardinality(Pending) /\ (Pending = {} => Pending' = {})
      <4>1. Pending \in SUBSET VMIs
        BY DEF Pending
      <4> HIDE DEF Pending
      <4>2. QED
        BY <2>1, <4>1, PendingCardinality
    <3>2. v \in exp.uids /\ exp.del > 0
      BY <1>2, <1>4, <1>5, <2>2 DEF Counted
    <3>3. creates' + Cardinality(Pending') <= exp'.add \/ (creates' = 0 /\ Pending' = {})
      BY <1>2, <1>3, <1>4, <2>2, <3>1 DEF Counted
    <3>4. \A u \in VMIs : Stale(u)' => u \in exp'.uids /\ exp'.del > 0
      BY <1>2, <1>4, <2>1, <2>2, <3>2 DEF Counted
    <3>5. \A u \in deletes' : (u \in exp'.uids /\ exp'.del > 0) \/ api'[u] \notin Fresh
      BY <1>2, <1>3, <1>4, <2>1, <2>2 DEF Counted
    <3>6. Counted'
      BY <1>2, <1>4, <2>2, <3>3, <3>4, <3>5 DEF Counted
    <3>7. creates > 0 => Cardinality(In(api', "live")) + creates <= spec.replicas
      <4>1. In(api, "live") \in SUBSET VMIs /\ In(api', "live") \in SUBSET In(api, "live")
        BY <2>1 DEF In
      <4>2. /\ Cardinality(In(api', "live")) \in Nat /\ Cardinality(In(api, "live")) \in Nat
            /\ Cardinality(In(api', "live")) <= Cardinality(In(api, "live"))
        BY <4>1, PendingCardinality
      <4>3. QED
        BY <1>3, <1>4, <2>2, <4>2 DEF SyncInv
    <3>8. pc = "scaling" => \A u \in ours \cup {v} : list[u] # "final"
      BY <1>1, <1>2, <1>4, <2>2 DEF SyncInv, WorkerInv
    <3>9. \A u \in deletes' : u \notin ours'
      BY <1>2, <1>4, <1>5, <2>2 DEF SyncInv
    <3>10. SyncInv'
      BY <1>2, <1>3, <1>5, <3>7, <3>8, <3>9 DEF SyncInv
    <3>11. QED
      BY <3>6, <3>10
  <2>3. TrustInv'
    BY <1>2, <2>2 DEF TrustInv
  <2>4. QED
    BY <2>1, <2>3 DEF IndInv
<1>6. CASE api[v] = "deleting" /\ UNCHANGED <<api, watch, ours>>
  <2>1. WatchInv' /\ NoticeInv' /\ Pending' = Pending /\ \A u : Stale(u)' <=> Stale(u)
    BY <1>1, <1>2, <1>6, SameInformer
  <2>2. \A u : Due(u) => Due(u)'
    BY <1>2, <1>6 DEF Due
  <2>3. KnownInv' /\ WorkerInv' /\ DeletionInv'
    BY <1>1, <1>2, <1>6, <2>2 DEF KnownInv, WorkerInv, DeletionInv
  <2>4. ASSUME ~doubt PROVE Counted' /\ SyncInv'
    <3>1. Counted'
      BY <1>2, <1>4, <1>6, <2>1, <2>4 DEF Counted
    <3>2. SyncInv'
      BY <1>2, <1>3, <1>4, <1>6, <2>4 DEF SyncInv
    <3>3. QED
      BY <3>1, <3>2
  <2>5. TrustInv'
    BY <1>2, <2>4 DEF TrustInv
  <2>6. QED
    BY <2>1, <2>3, <2>5 DEF IndInv
<1>7. QED
  BY <1>5, <1>6 DEF Delete, Fresh

LEMMA DeleteTimesOutIndInv ==
    ASSUME IndInv, TypeOK', NEW v \in VMIs, DeleteTimesOut(v)
    PROVE  IndInv'
<1>1. WatchInv' /\ NoticeInv' /\ KnownInv' /\ WorkerInv' /\ DeletionInv'
  <2>1. /\ v \in deletes /\ api[v] \in Fresh /\ Becomes(v, "deleting") /\ deletes' = deletes \ {v}
        /\ ours' = ours \cup {v} /\ exp' \in {exp, DeletionObserved(exp, v)}
        /\ UNCHANGED <<rs, cache, notices, pc, needsSync, spec, list, creates>>
    BY DEF DeleteTimesOut, Fresh
  <2>2. QED
    BY <2>1, DeletedKnown
<1>2. TrustInv'
  BY DEF TrustInv, DeleteTimesOut
<1>3. QED
  BY <1>1, <1>2 DEF IndInv

LEMMA DeleteFailsIndInv ==
    ASSUME IndInv, TypeOK', NEW v \in VMIs, DeleteFails(v)
    PROVE  IndInv'
<1>1. TypeOK /\ WatchInv /\ NoticeInv /\ KnownInv /\ WorkerInv /\ DeletionInv /\ TrustInv
  BY DEF IndInv
<1>2. /\ v \in deletes /\ deletes' = deletes \ {v} /\ exp' = DeletionObserved(exp, v)
      /\ UNCHANGED <<rs, api, watch, cache, notices, pc, needsSync, spec, list, creates, ours, doubt>>
  BY DEF DeleteFails, informer, history
<1>3. WatchInv' /\ NoticeInv' /\ Pending' = Pending /\ \A u : Stale(u)' <=> Stale(u)
  BY <1>1, <1>2, SameInformer
<1>4. /\ exp'.uids = exp.uids \ {v} /\ exp'.add = exp.add /\ exp'.set = exp.set /\ exp'.expired = exp.expired
      /\ exp'.del > 0 => exp.del > 0 /\ exp'.del = Cardinality(exp'.uids)
      /\ \A u \in exp.uids : u # v /\ exp.del > 0 => exp'.del > 0
  BY <1>1, <1>2, StruckOff
<1>5. ~exp.set => exp' = exp
  BY <1>1, <1>2, Numbers, ExpectationFields DEF WorkerInv
<1>6. \A u : u # v /\ Due(u) => Due(u)'
  BY <1>2 DEF Due
<1>7. KnownInv' /\ WorkerInv'
  BY <1>1, <1>2, <1>4, <1>5 DEF KnownInv, WorkerInv
<1>8. DeletionInv'
  BY <1>1, <1>2, <1>4, <1>6 DEF DeletionInv
<1>9. ASSUME ~doubt PROVE Counted' /\ SyncInv'
  <2>1. Counted /\ SyncInv /\ pc \in {"scaling", "cleaning"}
    BY <1>1, <1>2, <1>9 DEF TrustInv, WorkerInv
  <2>2. ~exp.expired /\ ~Stale(v)
    BY <1>2, <2>1 DEF Counted, SyncInv, Stale
  <2>3. Counted'
    BY <1>2, <1>3, <1>4, <2>1, <2>2 DEF Counted
  <2>4. SyncInv'
    BY <1>2, <2>1 DEF SyncInv
  <2>5. QED
    BY <2>3, <2>4
<1>10. TrustInv'
  BY <1>2, <1>9 DEF TrustInv
<1>11. QED
  BY <1>3, <1>7, <1>8, <1>10 DEF IndInv

LEMMA UpdateStatusIndInv ==
    ASSUME IndInv, TypeOK', UpdateStatus
    PROVE  IndInv'
<1>1. TypeOK /\ WatchInv /\ NoticeInv /\ KnownInv /\ WorkerInv /\ DeletionInv /\ TrustInv
  BY DEF IndInv
<1>2. /\ UNCHANGED <<rs, api, watch, cache, notices, exp, spec, creates, deletes, ours, doubt>>
      /\ pc = "cleaning" /\ deletes = {} /\ pc' = "idle" /\ list' = NoVMIs
  BY DEF UpdateStatus, informer, history
<1>3. creates = 0
  BY <1>1, <1>2, Numbers DEF WorkerInv
<1>4. /\ WatchInv' /\ NoticeInv' /\ Pending' = Pending
      /\ \A v : (Stale(v)' <=> Stale(v)) /\ (Due(v)' <=> Due(v))
  BY <1>1, <1>2, SameInformer
<1>5. KnownInv'
  BY <1>1, <1>2 DEF KnownInv, NoVMIs
<1>6. WorkerInv' /\ DeletionInv'
  BY <1>1, <1>2, <1>3, <1>4 DEF WorkerInv, DeletionInv
<1>7. TrustInv'
  BY <1>1, <1>2, <1>3, <1>4 DEF TrustInv, Counted, SyncInv, AllSeen
<1>8. QED
  BY <1>4, <1>5, <1>6, <1>7 DEF IndInv

LEMMA RestartIndInv ==
    ASSUME IndInv, TypeOK', Restart
    PROVE  IndInv'
<1>1. TypeOK /\ KnownInv
  BY DEF IndInv
<1>2. WatchInv' /\ NoticeInv'
  BY <1>1, RestartInformer
<1>3. /\ exp' = NoExpectation /\ pc' = "idle" /\ list' = NoVMIs /\ creates' = 0 /\ deletes' = {}
      /\ doubt' /\ UNCHANGED <<api, ours>>
  BY DEF Restart
<1>4. exp'.uids = {} /\ exp'.del = 0
  BY <1>1, <1>3, Numbers, ExpectationFields
<1>5. KnownInv'
  BY <1>1, <1>3, <1>4 DEF KnownInv, NoVMIs
<1>6. WorkerInv' /\ DeletionInv' /\ TrustInv'
  BY <1>3, <1>4 DEF WorkerInv, DeletionInv, TrustInv
<1>7. QED
  BY <1>2, <1>5, <1>6 DEF IndInv

LEMMA InitIndInv == Init => IndInv
<1>1. SUFFICES ASSUME Init PROVE IndInv
  OBVIOUS
<1>2. TypeOK
  BY <1>1, InitType
<1>3. (\A x : ~Has(watch, x)) /\ (\A x : ~Has(notices, x)) /\ DOMAIN watch = {} /\ DOMAIN notices = {}
  BY <1>1 DEF Init, Has
<1>4. /\ \A v \in VMIs : api[v] = "none" /\ cache[v] = "none" /\ list[v] = "none"
      /\ exp = NoExpectation /\ exp.uids = {} /\ exp.del = 0 /\ ~exp.expired
      /\ creates = 0 /\ deletes = {} /\ ours = {} /\ pc = "idle"
  BY <1>1, <1>2, Numbers, ExpectationFields DEF Init, NoVMIs
<1>5. WatchInv /\ NoticeInv
  BY <1>3, <1>4 DEF WatchInv, WatchOrder, WatchStates, CacheStates, NoticeInv
<1>6. KnownInv /\ WorkerInv /\ DeletionInv
  BY <1>4 DEF KnownInv, WorkerInv, DeletionInv, Fresh
<1>7. Pending = {} /\ \A v \in VMIs : ~Stale(v)
  BY <1>3, <1>4 DEF Pending, Unseen, Stale
<1>8. Counted /\ SyncInv
  BY <1>4, <1>7 DEF Counted, SyncInv, AllSeen
<1>9. QED
  BY <1>2, <1>5, <1>6, <1>8 DEF IndInv, TrustInv

LEMMA NextIndInv == IndInv /\ [Next]_vars => IndInv'
<1>1. SUFFICES ASSUME IndInv, [Next]_vars PROVE IndInv'
  OBVIOUS
<1>2. TypeOK'
  BY <1>1, NextType DEF IndInv
<1>3. CASE Sync
  <2>1. CASE Begin
    BY <1>1, <1>2, <2>1, BeginIndInv
  <2>2. CASE List
    BY <1>1, <1>2, <2>2, ListIndInv
  <2>3. CASE Scale
    BY <1>1, <1>2, <2>3, ScaleIndInv
  <2>4. CASE Create
    BY <1>1, <1>2, <2>4, CreateIndInv
  <2>5. CASE Clean
    BY <1>1, <1>2, <2>5, CleanIndInv
  <2>6. ASSUME NEW v \in VMIs, Delete(v) \/ DeleteFails(v) PROVE IndInv'
    BY <1>1, <1>2, <2>6, DeleteIndInv, DeleteFailsIndInv
  <2>7. CASE UpdateStatus
    BY <1>1, <1>2, <2>7, UpdateStatusIndInv
  <2>8. QED
    BY <1>3, <2>1, <2>2, <2>3, <2>4, <2>5, <2>6, <2>7 DEF Sync
<1>4. CASE Apply
  BY <1>1, <1>2, <1>4, ApplyIndInv
<1>5. CASE Handle
  BY <1>1, <1>2, <1>5, HandleIndInv
<1>6. CASE Expire
  BY <1>1, <1>2, <1>6, ExpireIndInv
<1>7. CASE Resync \/ Retry
  <2>1. UNCHANGED <<rs, api, informer, exp, worker, ours, doubt>>
    BY <1>7 DEF Resync, Retry, history
  <2>2. QED
    BY <1>1, <1>2, <2>1, SpecIndInv
<1>8. ASSUME NEW v \in VMIs, Finish(v) \/ UserDelete(v) \/ Remove(v) PROVE IndInv'
  BY <1>1, <1>2, <1>8, OutsideIndInv
<1>9. CASE ChangeSpec
  <2>1. UNCHANGED <<api, informer, exp, worker, ours, doubt>> /\ rs.state # "gone"
    BY <1>9 DEF ChangeSpec, history
  <2>2. QED
    BY <1>1, <1>2, <2>1, SpecIndInv
<1>10. CASE Failure
  <2>1. CASE CreateFails
    BY <1>1, <1>2, <2>1, CreateFailsIndInv
  <2>2. CASE CreateTimesOut
    BY <1>1, <1>2, <2>2, CreateTimesOutIndInv
  <2>3. ASSUME NEW v \in VMIs, DeleteFails(v) \/ DeleteTimesOut(v) PROVE IndInv'
    BY <1>1, <1>2, <2>3, DeleteFailsIndInv, DeleteTimesOutIndInv
  <2>4. CASE Relist
    BY <1>1, <1>2, <2>4, RelistIndInv
  <2>5. CASE Restart
    BY <1>1, <1>2, <2>5, RestartIndInv
  <2>6. QED
    BY <1>10, <2>1, <2>2, <2>3, <2>4, <2>5 DEF Failure
<1>11. CASE UNCHANGED vars
  <2>1. UNCHANGED <<rs, api, informer, exp, worker, ours, doubt>>
    BY <1>11 DEF vars, history
  <2>2. QED
    BY <1>1, <1>2, <2>1, SpecIndInv
<1>12. QED
  BY <1>1, <1>3, <1>4, <1>5, <1>6, <1>7, <1>8, <1>9, <1>10, <1>11 DEF Next, Outside

-----------------------------------------------------------------------------
(* The theorems.                                                           *)

\* The inductive invariant holds of every behaviour: the informer delivers a VMI's
\* states in order, and the expectations of the controller cover every call of its
\* syncs whose effect the cache doesn't show, as long as they aren't in doubt.
THEOREM IndInvariance == Spec => []IndInv
<1>1. Init => IndInv
  BY InitIndInv
<1>2. IndInv /\ [Next]_vars => IndInv'
  BY NextIndInv
<1>3. QED
  BY <1>1, <1>2, PTL DEF Spec

\* The replica set, the VMIs, the queues of the informer, the expectations and the
\* local variables of execute keep their types.
THEOREM TypeCorrectness == Spec => []TypeOK
<1>1. IndInv => TypeOK
  BY DEF IndInv
<1>2. QED
  BY <1>1, IndInvariance, PTL

\* scale acts on a list that shows every VMI the controller created, and every one it
\* deleted as deleted, however far the informer is behind, until the expectations expire
\* with events or calls under way (or are replaced, miscounted or lost: doubt): before
\* that, SatisfiedExpectations is read before the list, and the handlers lower the
\* expectations only after the cache has changed.
THEOREM ScalesOnSeenAlways == Spec => []ScalesOnSeen
<1>1. IndInv => ScalesOnSeen
  <2>1. SUFFICES ASSUME IndInv, pc = "scale", ~doubt
                 PROVE  /\ \A v \in VMIs : api[v] = "live" => list[v] # "none"
                        /\ \A v \in ours : list[v] \notin {"live", "final"}
    BY DEF ScalesOnSeen
  <2>2. SyncInv
    BY <2>1 DEF IndInv, TrustInv
  <2>3. QED
    BY <2>1, <2>2 DEF SyncInv, Fresh
<1>2. QED
  BY <1>1, IndInvariance, PTL

\* Every deletion in the uidStore is one that is still to be called, completed or
\* reported, and the counter is the number of them: DeletionObserved, called by the
\* handlers and after a failed call, strikes each off once.
THEOREM DeletionsReported == Spec => []DeletionsWillBeReported
<1>1. IndInv => DeletionsWillBeReported
  <2>1. SUFFICES ASSUME IndInv, rs.state # "gone", exp.del > 0 PROVE DeletionsWillBeReported
    BY DEF DeletionsWillBeReported
  <2>2. exp.del = Cardinality(exp.uids) /\ \A v \in exp.uids : Due(v)
    BY <2>1 DEF IndInv, DeletionInv
  <2>3. ASSUME NEW v \in exp.uids, v \notin deletes, api[v] # "deleting"
        PROVE  \/ \E i \in DOMAIN watch : watch[i][1] = v
               \/ \E i \in DOMAIN notices : notices[i] = <<v, "delete">>
    <3>1. Has(watch, <<v, "none">>) \/ Has(notices, <<v, "delete">>)
      BY <2>2, <2>3 DEF Due
    <3>2. Has(watch, <<v, "none">>) => \E i \in DOMAIN watch : watch[i][1] = v
      BY DEF Has
    <3>3. QED
      BY <3>1, <3>2 DEF Has
  <2>4. QED
    BY <2>2, <2>3 DEF DeletionsWillBeReported
<1>2. QED
  BY <1>1, IndInvariance, PTL

\* Only the calls of scale create VMIs.
LEMMA OnlyScaleCreates ==
    ASSUME TypeOK, [Next]_vars, NEW v \in VMIs, api[v] = "none", api'[v] = "live"
    PROVE  Create \/ CreateTimesOut
<1>1. ASSUME NEW u \in VMIs, NEW s, Becomes(u, s), s # "live" PROVE FALSE
  BY <1>1 DEF Becomes, TypeOK
<1>2. ASSUME api' = api PROVE FALSE
  BY <1>2
<1>3. ASSUME NEW u \in VMIs, Finish(u) \/ UserDelete(u) \/ Remove(u) PROVE FALSE
  BY <1>1, <1>3 DEF Finish, UserDelete, Remove
<1>4. ASSUME NEW u \in VMIs, Delete(u) \/ DeleteFails(u) \/ DeleteTimesOut(u) PROVE FALSE
  BY <1>1, <1>2, <1>4 DEF Delete, DeleteFails, DeleteTimesOut
<1>5. ~(Begin \/ List \/ Scale \/ Clean \/ UpdateStatus)
  BY <1>2 DEF Begin, List, Scale, Clean, UpdateStatus
<1>6. ~(Apply \/ Handle \/ Expire \/ Resync \/ Retry \/ ChangeSpec)
  BY <1>2 DEF Apply, Handle, Expire, Resync, Retry, ChangeSpec
<1>7. ~(CreateFails \/ Relist \/ Restart)
  BY <1>2 DEF CreateFails, Relist, Restart
<1>8. ~UNCHANGED vars
  BY <1>2 DEF vars
<1>9. QED
  BY <1>3, <1>4, <1>5, <1>6, <1>7, <1>8 DEF Next, Sync, Outside, Failure

\* Unless the expectations expired with events or calls under way, or are in doubt
\* for another reason, no creation exceeds spec.replicas, though the goroutines of scale
\* create while guests end, users delete and earlier events are still on their way: what
\* scale has still to create fits between the VMIs that run and spec.replicas.
THEOREM NeverOvershoots == Spec => NoOvershoot
<1> DEFINE Fits == \A v \in VMIs : api[v] = "none" /\ api'[v] = "live" =>
                       doubt \/ Cardinality(In(api', "live")) <= spec.replicas
<1>1. IndInv /\ [Next]_vars => [Fits]_vars
  <2>1. SUFFICES ASSUME IndInv, [Next]_vars, NEW v \in VMIs, api[v] = "none", api'[v] = "live", ~doubt
                 PROVE  Cardinality(In(api', "live")) <= spec.replicas
    OBVIOUS
  <2>2. TypeOK /\ WorkerInv /\ TrustInv
    BY <2>1 DEF IndInv
  <2>3. Create \/ CreateTimesOut
    BY <2>1, <2>2, OnlyScaleCreates
  <2>4. creates > 0 /\ Free # {} /\ Becomes(New, "live")
    BY <2>3 DEF Create, CreateTimesOut
  <2>5. creates \in Int /\ spec.replicas \in Int
    BY <2>2, Numbers
  <2>6. Cardinality(In(api, "live")) + creates <= spec.replicas
    BY <2>1, <2>2, <2>4 DEF WorkerInv, TrustInv, SyncInv
  <2>7. New \in VMIs /\ \A u \in VMIs : u # New => api'[u] = api[u]
    <3>1. New \in VMIs
      BY <2>2, <2>4, FreeFacts
    <3>2. QED
      BY <2>2, <2>4, <3>1 DEF Becomes, TypeOK
  <2>8. /\ Cardinality(In(api, "live")) \in Nat /\ Cardinality(In(api', "live")) \in Nat
        /\ Cardinality(In(api', "live")) <= Cardinality(In(api, "live")) + 1
    BY <2>7, OneMoreLives
  <2>9. QED
    BY <2>4, <2>5, <2>6, <2>8
<1>2. QED
  BY <1>1, IndInvariance, PTL DEF Spec, NoOvershoot
=============================================================================
