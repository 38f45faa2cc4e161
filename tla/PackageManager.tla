--------------------------- MODULE PackageManager ---------------------------
(***************************************************************************)
(* The reconciler of packages (crossplane controller/pkg/manager): for     *)
(* each source and generation of a Provider, Configuration or Function it  *)
(* makes a package revision, activates it, deactivates the others, and     *)
(* deletes those beyond the history limit. One package is modelled, as     *)
(* packages do not interact here.                                          *)
(*                                                                         *)
(* Package and revisions are read from caches that lag behind the API      *)
(* server. A revision that was listed is written only if the copy is       *)
(* current; one that was not is created, or patched if it appeared in the  *)
(* cache meanwhile.                                                        *)
(*                                                                         *)
(* Left out: packages that are deleted, which the reconciler leaves to     *)
(* Kubernetes, or paused; the fields that are copied to the revision,      *)
(* health, events and ImageConfigs.                                        *)
(***************************************************************************)
EXTENDS Integers, Sequences, FiniteSets, FiniteSetsExt, Functions

CONSTANTS
    Digests,         \* what the package's tag may point to
    MaxGeneration,   \* bound on the package's generations
    HistoryLimit,    \* spec.revisionHistoryLimit
    None,            \* no revision
    MaxLag,          \* bound on the events a reconcile may be ahead of the cache
    MaxTrouble       \* bound on the users' actions, crashes and failed calls

ASSUME PackageManagerAssumption ==
    /\ MaxGeneration \in Nat \ {0}
    /\ HistoryLimit \in Nat
    /\ MaxLag \in Nat /\ MaxTrouble \in Nat
    /\ IsFiniteSet(Digests) /\ Cardinality(Digests) > HistoryLimit

\* A revision's name is a hash of digest and generation, taken to be unique.
Names == Digests \X (1 .. MaxGeneration)

ASSUME NoneAssumption == None \notin Names

VARIABLES
    pkg,       \* the package in the API server
    pkgCache,  \* the package in the cache
    pkgSeen,   \* the cache has the package's current version
    digest,    \* the digest of the package's source
    revs,      \* the revisions in the API server
    cache,     \* the revisions in the cache
    events,    \* the changes of revisions that the cache has yet to see, in order
    queued,    \* the package is in the work queue
    pc,        \* where the reconcile is
    p,         \* its local variable p
    pFresh,    \* p is the current version
    list,      \* its local variable revisions
    fresh,     \* those of them that are the current versions
    name,      \* its local variable revisionName
    trouble    \* how many of them there were

package == <<pkg, pkgCache, pkgSeen, digest>>
revisions == <<revs, cache, events>>
locals == <<p, pFresh, list, fresh, name>>
vars == <<package, revisions, queued, pc, locals, trouble>>

Package ==
    [generation : 1 .. MaxGeneration,
     automatic : BOOLEAN,              \* spec.revisionActivationPolicy
     currentRevision : Names \cup {None}]  \* in the status

\* Every revision is numbered at most once for each change of the package or its source.
Revision ==
    [state : {"none", "live", "deleting"}, number : 0 .. HistoryLimit + 1 + MaxTrouble, active : BOOLEAN]

NoRevision == [state |-> "none", number |-> 0, active |-> FALSE]

TypeOK ==
    /\ pkg \in Package /\ pkgCache \in Package /\ p \in Package
    /\ pkgSeen \in BOOLEAN /\ pFresh \in BOOLEAN /\ queued \in BOOLEAN
    /\ digest \in Digests
    /\ revs \in [Names -> Revision]
    /\ cache \in [Names -> Revision]
    /\ list \in [Names -> Revision]
    /\ events \in Seq([revision : Names, as : Revision])
    /\ fresh \in SUBSET Names
    /\ pc \in {"idle", "deactivate", "apply", "status"}
    /\ name \in Names \cup {None}
    /\ trouble \in 0 .. MaxTrouble

\* An order of the digests. They are interchangeable.
Order == CHOOSE f \in [Digests -> 1 .. Cardinality(Digests)] : IsInjective(f)

\* The first n digests have revisions, and the last of them is current. By default
\* it is active.
Past(n) ==
    /\ digest = CHOOSE d \in Digests : Order[d] = Max({1, n})
    /\ name = IF n = 0 THEN None ELSE <<digest, 1>>
    /\ pkg = [generation |-> 1, automatic |-> TRUE, currentRevision |-> name]
    /\ revs = [r \in Names |->
                  IF r[2] = 1 /\ Order[r[1]] <= n
                      THEN [state |-> "live", number |-> Order[r[1]], active |-> Order[r[1]] = n]
                      ELSE NoRevision]

\* The process starts when the package is new or has a full history.
Init ==
    /\ \E n \in {0, HistoryLimit + 1} : Past(n)
    /\ pkgCache = pkg /\ p = pkg
    /\ pkgSeen = TRUE /\ pFresh = FALSE
    /\ cache = revs /\ list = [r \in Names |-> NoRevision]
    /\ events = <<>> /\ fresh = {}
    /\ queued = TRUE
    /\ pc = "idle"
    /\ trouble = 0

Trouble ==
    /\ trouble < MaxTrouble
    /\ trouble' = trouble + 1

Exists(r) == r.state # "none"

-----------------------------------------------------------------------------
(* The API server, its users and its watchers, external.                   *)

\* The package is written as o by a user: cache and copies are behind.
WritePackage(o) ==
    /\ pkg' = o
    /\ pkgSeen' = FALSE /\ pFresh' = FALSE

\* Revision r is written as o, by the reconcile or somebody else. A write that
\* changes nothing makes no new version.
Write(r, o, own) ==
    /\ revs' = [revs EXCEPT ![r] = o]
    /\ events' = IF o = revs[r] THEN events ELSE Append(events, [revision |-> r, as |-> o])
    /\ fresh' = IF own \/ o = revs[r] THEN fresh ELSE fresh \ {r}

\* Users change the package's spec.
EditPackage(automatic) ==
    /\ pkg.generation < MaxGeneration
    /\ Trouble
    /\ WritePackage([pkg EXCEPT !.generation = @ + 1, !.automatic = automatic])
    /\ UNCHANGED <<pkgCache, digest, revisions, queued, pc, p, list, fresh, name>>

\* The tag of its source is moved to another image.
MoveTag(d) ==
    /\ d # digest
    /\ Trouble
    /\ digest' = d
    /\ UNCHANGED <<pkg, pkgCache, pkgSeen, revisions, queued, pc, locals>>

\* Users activate or deactivate a revision,
EditRevision(r) ==
    /\ Exists(revs[r])
    /\ Trouble
    /\ Write(r, [revs[r] EXCEPT !.active = ~@], FALSE)
    /\ UNCHANGED <<package, cache, queued, pc, p, pFresh, list, name>>

\* or delete one.
DeleteRevision(r) ==
    /\ revs[r].state = "live"
    /\ Trouble
    /\ Write(r, [revs[r] EXCEPT !.state = "deleting"], FALSE)
    /\ UNCHANGED <<package, cache, queued, pc, p, pFresh, list, name>>

\* The revision's own reconciler writes its status: only the version changes.
TouchRevision(r) ==
    /\ Exists(revs[r])
    /\ Trouble
    /\ events' = Append(events, [revision |-> r, as |-> revs[r]])
    /\ fresh' = fresh \ {r}
    /\ UNCHANGED <<package, revs, cache, queued, pc, p, pFresh, list, name>>

\* It removes the finalizer of one that is deleted.
RemoveRevision(r) ==
    /\ revs[r].state = "deleting"
    /\ Write(r, NoRevision, FALSE)
    /\ UNCHANGED <<package, cache, queued, pc, p, pFresh, list, name, trouble>>

\* The informers see the current versions, and the package is enqueued.
SeePackage ==
    /\ ~pkgSeen
    /\ pkgSeen' = TRUE /\ pkgCache' = pkg /\ queued' = TRUE
    /\ UNCHANGED <<pkg, digest, revisions, pc, locals, trouble>>

SeeRevision ==
    /\ events # <<>>
    /\ events' = Tail(events)
    /\ cache' = [cache EXCEPT ![Head(events).revision] = Head(events).as]
    /\ queued' = TRUE
    /\ UNCHANGED <<package, revs, pc, locals, trouble>>

\* The revisions of which the cache has the current version.
Seen == Names \ {e.revision : e \in Range(events)}

\* A package that is pulled always is reconciled again and again. Those times
\* when the source did not change are left out.
Poll ==
    /\ pc = "idle" /\ ~queued
    /\ name # <<digest, p.generation>>
    /\ queued' = TRUE
    /\ UNCHANGED <<package, revisions, pc, locals, trouble>>

-----------------------------------------------------------------------------
(* Reconcile.                                                              *)

\* Between reconciles its local variables are forgotten, except for those Poll needs.
Forget ==
    /\ pc' = "idle"
    /\ list' = [r \in Names |-> NoRevision]
    /\ fresh' = {} /\ pFresh' = FALSE

\* The reconcile ends with an error or a conflict, and is repeated.
Requeue ==
    /\ Forget
    /\ queued' = TRUE

\* The package is read, its revisions are listed, and its source is resolved. What
\* happens in between could as well happen before or after: each of them reads
\* something else.
Begin ==
    /\ pc = "idle" /\ queued
    /\ Len(events) <= MaxLag
    /\ queued' = FALSE
    /\ p' = pkgCache
    /\ pFresh' = pkgSeen
    /\ list' = cache /\ fresh' = Seen
    /\ name' = <<digest, pkgCache.generation>>
    /\ pc' = "deactivate"
    /\ UNCHANGED <<package, revisions, trouble>>

Listed == {r \in Names : Exists(list[r])}

\* Mutant of Others: the activation policy is heeded here, too.
Others_IfAutomatic == {r \in Listed \ {name} : list[r].active /\ p.automatic}

\* The revisions to deactivate, whatever the activation policy is.
Others == {r \in Listed \ {name} : list[r].active}

\* The API server accepts the reconcile's copy of r.
Writable(r) == r \in fresh /\ Exists(revs[r])

Deactivate(r) ==
    /\ pc = "deactivate" /\ r \in Others
    /\ IF Writable(r)
          THEN /\ Write(r, [revs[r] EXCEPT !.active = FALSE], TRUE)
               /\ list' = [list EXCEPT ![r].active = FALSE]
               /\ UNCHANGED <<pc, queued, pFresh>>
          ELSE Requeue /\ UNCHANGED <<revs, events>>
    /\ UNCHANGED <<package, cache, p, name, trouble>>

OverLimit == HistoryLimit # 0 /\ Cardinality(Listed) > HistoryLimit + 1

\* The revisions of the lowest number: the first of them in the list is deleted,
\* and the order of a list from the cache is arbitrary.
Oldest == {r \in Listed : \A s \in Listed : list[r].number <= list[s].number}

\* Deleting what is gone is an error.
Delete(r) ==
    IF Exists(revs[r])
        THEN /\ Write(r, [revs[r] EXCEPT !.state = "deleting"], FALSE)
             /\ pc' = "apply"
             /\ UNCHANGED <<queued, list, pFresh>>
        ELSE Requeue /\ UNCHANGED <<revs, events>>

Collect ==
    /\ pc = "deactivate" /\ Others = {}
    /\ IF OverLimit
          THEN \E r \in Oldest : Delete(r)
          ELSE pc' = "apply" /\ UNCHANGED <<queued, revs, events, list, fresh, pFresh>>
    /\ UNCHANGED <<package, cache, p, name, trouble>>

maxRevision == Max({0} \cup {list[r].number : r \in Listed})

\* Mutants of Number: a revision is numbered anew by every reconcile, or only
\* when it is made.
Number_Always == maxRevision + 1
Number_Once == IF Exists(list[name]) THEN list[name].number ELSE maxRevision + 1

\* The number of the current revision.
Number ==
    IF list[name].number < maxRevision \/ maxRevision = 0 THEN maxRevision + 1
                                                          ELSE list[name].number

\* Mutant of Applied: an active revision is deactivated again.
Applied_Flipped(r) ==
    [state |-> IF Exists(r) THEN r.state ELSE "live",
     number |-> Number,
     active |-> p.automatic # list[name].active]

\* What is applied on top of the revision as it is.
Applied(r) ==
    [state |-> IF Exists(r) THEN r.state ELSE "live",
     number |-> Number,
     active |-> p.automatic \/ list[name].active]

\* A listed revision is patched if the copy is current, one that is in the cache by
\* now if it exists, and another one is created.
Appliable ==
    CASE Exists(list[name]) -> Writable(name)
      [] ~Exists(list[name]) /\ Exists(cache[name]) -> Exists(revs[name])
      [] OTHER -> ~Exists(revs[name])

Apply ==
    /\ pc = "apply"
    /\ IF Appliable
          THEN /\ Write(name, Applied(revs[name]), TRUE)
               /\ pc' = "status"
               /\ UNCHANGED <<queued, list, pFresh>>
          ELSE Requeue /\ UNCHANGED <<revs, events>>
    /\ UNCHANGED <<package, cache, p, name, trouble>>

UpdateStatus ==
    /\ pc = "status"
    /\ Forget
    /\ IF pFresh
          THEN /\ pkg' = [p EXCEPT !.currentRevision = name]
               /\ pkgSeen' = (pkgSeen /\ pkg' = pkg)
               /\ UNCHANGED queued
          ELSE /\ queued' = TRUE
               /\ UNCHANGED <<pkg, pkgSeen>>
    /\ UNCHANGED <<pkgCache, digest, revisions, p, name, trouble>>

\* A call fails, the package cannot be fetched, or the process crashes: the
\* package is reconciled again.
Abort ==
    /\ pc # "idle"
    /\ Trouble
    /\ Requeue
    /\ UNCHANGED <<package, revisions, p, name>>

Reconcile ==
    \/ Begin
    \/ \E r \in Names : Deactivate(r)
    \/ Collect \/ Apply \/ UpdateStatus

Users ==
    \/ \E a \in BOOLEAN : EditPackage(a)
    \/ \E d \in Digests : MoveTag(d)
    \/ \E r \in Names : EditRevision(r) \/ DeleteRevision(r)

Next ==
    \/ Users
    \/ \E r \in Names :
          TouchRevision(r) \/ RemoveRevision(r)
    \/ SeePackage \/ SeeRevision \/ Poll \/ Reconcile \/ Abort

Spec == Init /\ [][Next]_vars

\* The informers catch up, the reconcile takes its steps, and what is deleted goes.
FairSpec ==
    /\ Spec
    /\ WF_vars(SeePackage) /\ WF_vars(SeeRevision) /\ WF_vars(Poll) /\ WF_vars(Reconcile)
    /\ \A r \in Names :
          WF_vars(RemoveRevision(r))

-----------------------------------------------------------------------------
(* Properties.                                                             *)

Existing == {r \in Names : Exists(revs[r])}

\* The manager has nothing left to do or to learn.
AtRest ==
    /\ pc = "idle" /\ ~queued
    /\ pkgSeen /\ events = <<>>
    /\ name = <<digest, pkg.generation>>
    /\ \A r \in Names : revs[r].state # "deleting"

\* It comes to rest: no conflict, no deleted revision and no old copy makes it
\* revise its own decisions for ever.
ComesToRest == <>[]AtRest

\* At rest the current revision is the only active one, as far as the policy lets
\* it be: a revision that was made behind a lagging cache, or activated by a user,
\* does not stay active.
OnlyCurrentIsActive ==
    AtRest =>
        /\ pkg.currentRevision = name
        /\ Exists(revs[name])
        /\ \A r \in Existing : revs[r].active => r = name
        /\ pkg.automatic => revs[name].active

\* "The current revision should always be the highest numbered revision", also
\* after a rollback, and at rest there are no more old ones than the limit says.
HistoryIsOrdered ==
    AtRest =>
        /\ \A r \in Existing : revs[r].number <= revs[name].number
        /\ HistoryLimit # 0 => Cardinality(Existing) <= HistoryLimit + 1
=============================================================================
