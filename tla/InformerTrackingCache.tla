----------------------- MODULE InformerTrackingCache -----------------------
(***************************************************************************)
(* InformerTrackingCache (crossplane internal/engine/cache.go) step by     *)
(* step: each call takes the read lock, looks at the active map, and       *)
(* either calls the wrapped cache under the read lock or gives that lock   *)
(* up, takes the write lock and only then changes the map and calls the    *)
(* wrapped cache. Between the two locks other calls run.                   *)
(*                                                                         *)
(* Informers states what the calls promise, each as a single step; the     *)
(* refinement mapping at the end shows that this module implements it.     *)
(***************************************************************************)
EXTENDS Informers

CONSTANTS
    Readers,     \* goroutines that call Get, List or GetInformer
    Collector,   \* the goroutine that handles CRD delete events
    Nobody       \* no goroutine, no GVK

ASSUME CacheAssumption ==
    /\ Collector \notin Readers
    /\ Nobody \notin Readers \cup {Collector}
    /\ Nobody \notin Gvks

VARIABLES
    readers,   \* mx: the goroutines that hold the read lock
    writer,    \* mx: the goroutine that holds the write lock or is next
    at,        \* where each goroutine is
    arg,       \* the GVK its call is for
    before     \* history: active as it was when the writer took the lock

lockVars == <<readers, writer>>
cacheVars == <<infVars, lockVars, at, arg, before>>

Procs == Readers \cup {Collector}

\* Each goroutine waits, calls the wrapped cache or waits for it, with the lock
\* its program counter says.
CacheTypeOK ==
    /\ InformersTypeOK
    /\ readers \in SUBSET Procs
    /\ writer \in Procs \cup {Nobody}
    /\ at \in [Procs -> {"idle", "lock", "drain", "rcall", "wcall", "rwait", "wwait"}]
    /\ arg \in [Procs -> Gvks \cup {Nobody}]
    /\ \A p \in Procs : at[p] # "idle" => arg[p] \in Gvks
    /\ before \in SUBSET Gvks

CacheInit ==
    /\ InformersInit
    /\ readers = {}
    /\ writer = Nobody
    /\ at = [p \in Procs |-> "idle"]
    /\ arg = [p \in Procs |-> Nobody]
    /\ before = {}

-----------------------------------------------------------------------------

\* The read lock's holders once p keeps it for the call of the wrapped cache.
Held(p) == readers \cup {p}

\* The call begins with the read lock. If the map already says what the call
\* would make it say, the read lock is kept for the call of the wrapped cache;
\* otherwise it's released again.
RLock(p, g, asWanted) ==
    /\ at[p] = "idle"
    /\ writer = Nobody
    /\ arg' = [arg EXCEPT ![p] = g]
    /\ IF asWanted
       THEN /\ readers' = Held(p)
            /\ at' = [at EXCEPT ![p] = "rcall"]
       ELSE /\ at' = [at EXCEPT ![p] = "lock"]
            /\ UNCHANGED readers
    /\ UNCHANGED <<infVars, writer, before>>

\* Get, List, GetInformer and GetInformerForKind look for the GVK in the map.
GetRLock(p, g) == RLock(p, g, g \in active)

\* RemoveInformer, called for a GVK of a deleted CRD, looks for it too.
RemoveRLock(g) == g \in deleted /\ RLock(Collector, g, g \notin active)

\* Mutant of Written: RemoveInformer leaves the GVK marked active.
Written_NeverDeleted(p) == active \cup {arg[p]}

\* The map as the writer leaves it, before it calls the wrapped cache.
Written(p) == IF p = Collector THEN active \ {arg[p]} ELSE active \cup {arg[p]}

\* The call wants the write lock: Go's RWMutex lets one goroutine at a time in and
\* turns new readers away from then on.
WantLock(p) ==
    /\ at[p] = "lock"
    /\ writer = Nobody
    /\ writer' = p
    /\ at' = [at EXCEPT ![p] = "drain"]
    /\ UNCHANGED <<infVars, readers, arg, before>>

\* The last reader has gone: the call has the write lock and changes the map.
Lock(p) ==
    /\ at[p] = "drain"
    /\ readers = {}
    /\ before' = active
    /\ active' = Written(p)
    /\ at' = [at EXCEPT ![p] = "wcall"]
    /\ UNCHANGED <<live, gen, crds, deleted, lockVars, arg>>

\* A goroutine that holds a lock on its way to the wrapped cache waits for it.
Called(p) == at' = [at EXCEPT ![p] = IF @ = "rcall" THEN "rwait" ELSE "wwait"]

\* The wrapped cache starts the informer if there is none.
CallGet(p) ==
    /\ p \in Readers
    /\ at[p] \in {"rcall", "wcall"}
    /\ StartInformer(arg[p])
    /\ Called(p)
    /\ UNCHANGED <<active, crds, deleted, lockVars, arg, before>>

\* The wrapped cache stops the informer if there is one.
CallRemove ==
    /\ at[Collector] \in {"rcall", "wcall"}
    /\ live' = live \ {arg[Collector]}
    /\ deleted' = deleted \ {arg[Collector]}
    /\ Called(Collector)
    /\ UNCHANGED <<active, gen, crds, lockVars, arg, before>>

\* Mutant of Unlocked: the read lock isn't released when the call is over.
Unlocked_Leaked(p) == readers

\* The read lock's holders after the deferred unlock.
Unlocked(p) == readers \ {p}

\* The wrapped cache returns, for a Get once the informer has synced or the
\* caller's context is done, and the deferred unlock runs.
CallReturns(p) ==
    /\ at[p] \in {"rwait", "wwait"}
    /\ readers' = Unlocked(p)
    /\ writer' = IF at[p] = "wwait" THEN Nobody ELSE writer
    /\ at' = [at EXCEPT ![p] = "idle"]
    /\ arg' = [arg EXCEPT ![p] = Nobody]
    /\ UNCHANGED <<infVars, before>>

\* A CRD comes or goes at the API server.
CRDChanges(g) ==
    /\ CreateCRD(g) \/ DeleteCRD(g)
    /\ UNCHANGED <<lockVars, at, arg, before>>

CacheStep(p) == WantLock(p) \/ Lock(p) \/ CallGet(p) \/ CallReturns(p)

CacheNext ==
    \/ \E p \in Readers, g \in Gvks : GetRLock(p, g)
    \/ \E g \in Gvks : RemoveRLock(g)
    \/ \E p \in Procs : CacheStep(p)
    \/ CallRemove
    \/ \E g \in Gvks : CRDChanges(g)

CacheSpec == CacheInit /\ [][CacheNext]_cacheVars

\* Go's RWMutex lets a waiting goroutine in eventually, and the contexts passed to
\* the wrapped cache have deadlines.
CacheFairSpec ==
    /\ CacheSpec
    /\ \A p \in Readers : SF_cacheVars(CacheStep(p))
    /\ SF_cacheVars(CacheStep(Collector) \/ CallRemove)
    /\ \A g \in Gvks : SF_cacheVars(RemoveRLock(g))

-----------------------------------------------------------------------------

\* What ActiveInformers returns under the read lock has every running informer:
\* whoever goes by it never takes a running informer for a stopped one.
ActiveInformersComplete == writer = Nobody => live \subseteq active

\* The abstract map is the one before the writer changed it, until the writer has
\* called the wrapped cache.
AbstractActive == IF \E p \in Procs : at[p] = "wcall" THEN before ELSE active

\* The inductive invariant behind the refinement: the locks exclude what they must,
\* what a goroutine saw in the map still holds while it keeps its lock, and the
\* writer's change is the only difference between active and before.
CacheInv ==
    /\ CacheTypeOK
    /\ \A p \in Procs :
        /\ p \in readers <=> at[p] \in {"rcall", "rwait"}
        /\ writer = p <=> at[p] \in {"drain", "wcall", "wwait"}
        /\ at[p] \in {"wcall", "wwait"} => readers = {}
        /\ p \in Readers /\ at[p] = "rcall" => arg[p] \in active
        /\ p \in Readers /\ at[p] = "wcall" => active = before \cup {arg[p]}
    /\ at[Collector] \in {"lock", "drain", "rcall", "wcall"} => arg[Collector] \in deleted
    /\ at[Collector] = "rcall" => arg[Collector] \notin active
    /\ at[Collector] = "wcall" => active = before \ {arg[Collector]}
    /\ live \subseteq AbstractActive

Abstract == INSTANCE Informers WITH active <- AbstractActive

\* The calls, split at their locks, behave as if each was a single step.
ImplementsInformers == Abstract!InformersSpec

\* An informer doesn't outlive its CRD for ever: a delete event is handled, however
\* many Gets hold or want the lock.
DeletesAreHandled == \A g \in Gvks : g \in deleted ~> g \notin deleted
=============================================================================
