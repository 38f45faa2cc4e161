------------------------------ MODULE Composer ------------------------------
(***************************************************************************)
(* The function composer of Crossplane (composite/composition_functions.go)*)
(* and the parts of the XR reconciler around it, for one XR: it observes   *)
(* the composed resources that the XR refers to, asks the functions which  *)
(* ones they desire, deletes the others, saves the references to the       *)
(* desired ones, and only then applies these.                              *)
(*                                                                         *)
(* The XR and its resources are read from caches that lag behind the API   *)
(* server, each on its own. A reconcile may end at every step, by a crash  *)
(* or a failed call, and start again: the XR is polled or, with realtime   *)
(* compositions, enqueued by events and by the resync of its informer.     *)
(*                                                                         *)
(* Left out: the content of resources, connection details, readiness and   *)
(* conditions, selection of the revision, paused XRs, the upgrade of       *)
(* managed fields, and names that functions choose themselves: generated   *)
(* names are a hash of the XR's UID and the resource's name in the         *)
(* composition.                                                            *)
(***************************************************************************)
EXTENDS Integers

CONSTANTS
    Objects,   \* identities of resources: a kind and a name
    NameOf,    \* the resource name, in the composition, that each of them is for
    MaxTrouble \* bound on outside changes, failures and crashes

ASSUME ComposerAssumption ==
    /\ DOMAIN NameOf = Objects
    /\ MaxTrouble \in Nat

VARIABLES
    xr,        \* the XR in the API server
    xrCache,   \* the XR in the cache
    objs,      \* the resources in the API server
    cache,     \* the resources in the cache
    wanted,    \* what the functions desire
    pc,        \* where the reconcile is
    got,       \* its local variable xr
    copies,    \* the referenced resources, as ObserveComposedResources got them
    desired,   \* its local variable desired
    todo,      \* resources that are still to be deleted, or to be applied
    victim,    \* the resource that is being deleted: a set of at most one
    trouble,   \* how many of them there were
    forgotten  \* history: resources whose reference was dropped, although they exist

server == <<xr, objs>>
caches == <<xrCache, cache>>
locals == <<got, copies, desired, todo, victim>>
vars == <<server, caches, wanted, pc, locals, trouble, forgotten>>

\* Every composition resource name is desired, or referred to, once.
Unambiguous(S) == \A o, p \in S : NameOf[o] = NameOf[p] => o = p

\* What functions may desire.
Desires == {S \in SUBSET Objects : Unambiguous(S)}

XR == [state : {"none", "live", "deleting"}, finalizer : BOOLEAN, refs : Desires]

Object ==
    [state : {"none", "live", "deleting"},
     uid : Nat,                               \* how many there have been
     controller : {"xr", "other", "nobody"}]  \* its controller reference

TypeOK ==
    /\ xr \in XR /\ xrCache \in XR /\ got \in XR
    /\ objs \in [Objects -> Object]
    /\ cache \in [Objects -> Object]
    /\ copies \in [Objects -> Object]
    /\ wanted \in Desires /\ desired \in Desires
    /\ pc \in {"idle", "unfinalize", "finalize", "run", "collect", "delete", "apply"}
    /\ todo \in SUBSET Objects
    /\ victim \in SUBSET Objects
    /\ trouble \in 0 .. MaxTrouble
    /\ forgotten \in SUBSET Objects

NoXR == [state |-> "none", finalizer |-> FALSE, refs |-> {}]

NoObjects == [o \in Objects |-> [state |-> "none", uid |-> 0, controller |-> "nobody"]]

Init ==
    /\ xr = [state |-> "live", finalizer |-> FALSE, refs |-> {}]
    /\ xrCache = xr /\ got = NoXR
    /\ objs = NoObjects /\ cache = NoObjects /\ copies = NoObjects
    /\ wanted \in Desires
    /\ desired = {} /\ todo = {} /\ victim = {}
    /\ pc = "idle"
    /\ trouble = 0
    /\ forgotten = {}

Trouble ==
    /\ trouble < MaxTrouble
    /\ trouble' = trouble + 1

Exists(r) == r.state # "none"

-----------------------------------------------------------------------------
(* The API server, its users and its watchers, external.                   *)

\* A new resource.
Created(o, controller) == [state |-> "live", uid |-> objs[o].uid + 1, controller |-> controller]

\* One that was removed.
Removed(o) == [objs[o] EXCEPT !.state = "none", !.controller = "nobody"]

Write(o, r) == objs' = [objs EXCEPT ![o] = r]

\* The functions change their mind: their inputs changed.
ChangeWanted(S) ==
    /\ S # wanted
    /\ Trouble
    /\ wanted' = S
    /\ UNCHANGED <<server, caches, pc, locals, forgotten>>

\* Users delete the XR.
DeleteXR ==
    /\ xr.state = "live"
    /\ Trouble
    /\ xr' = IF xr.finalizer THEN [xr EXCEPT !.state = "deleting"]
                             ELSE NoXR
    /\ UNCHANGED <<objs, caches, wanted, pc, locals, forgotten>>

\* Somebody deletes a resource,
DeleteObject(o) ==
    /\ objs[o].state = "live"
    /\ Trouble
    /\ Write(o, [objs[o] EXCEPT !.state = "deleting"])
    /\ UNCHANGED <<xr, caches, wanted, pc, locals, forgotten>>

\* makes another one of the same kind and name,
CreateObject(o) ==
    /\ ~Exists(objs[o])
    /\ Trouble
    /\ Write(o, Created(o, "other"))
    /\ UNCHANGED <<xr, caches, wanted, pc, locals, forgotten>>

\* or restores one without its controller reference,
LoseController(o) ==
    /\ Exists(objs[o]) /\ objs[o].controller = "xr"
    /\ Trouble
    /\ Write(o, [objs[o] EXCEPT !.controller = "nobody"])
    /\ UNCHANGED <<xr, caches, wanted, pc, locals, forgotten>>

\* which may be given back.
RestoreController(o) ==
    /\ Exists(objs[o]) /\ objs[o].controller = "nobody"
    /\ Write(o, [objs[o] EXCEPT !.controller = "xr"])
    /\ UNCHANGED <<xr, caches, wanted, pc, locals, trouble, forgotten>>

\* A deleted resource goes once it is finalized; one whose XR is gone goes, too.
RemoveObject(o) ==
    /\ \/ objs[o].state = "deleting"
       \/ Exists(objs[o]) /\ objs[o].controller = "xr" /\ xr.state = "none"
    /\ Write(o, Removed(o))
    /\ UNCHANGED <<xr, caches, wanted, pc, locals, trouble, forgotten>>

\* The caches catch up.
SeeXR ==
    /\ xrCache # xr
    /\ xrCache' = xr
    /\ UNCHANGED <<server, cache, wanted, pc, locals, trouble, forgotten>>

SeeObject(o) ==
    /\ cache[o] # objs[o]
    /\ cache' = [cache EXCEPT ![o] = objs[o]]
    /\ UNCHANGED <<server, xrCache, wanted, pc, locals, trouble, forgotten>>

-----------------------------------------------------------------------------
(* Reconcile.                                                              *)

\* The reconcile ends; what it knew is forgotten.
End ==
    /\ pc' = "idle"
    /\ got' = NoXR
    /\ copies' = NoObjects
    /\ desired' = {} /\ todo' = {} /\ victim' = {}

\* Mutant of NeedsFinalizer: the finalizer is added to no XR.
NeedsFinalizer_Never(x) == FALSE

NeedsFinalizer(x) == ~x.finalizer

\* The XR is polled, its informer resyncs, or something it depends on changed.
Begin ==
    /\ pc = "idle"
    /\ Exists(xrCache)
    /\ got' = xrCache
    /\ pc' = CASE xrCache.state = "deleting" -> "unfinalize"
               [] xrCache.state = "live" /\ NeedsFinalizer(xrCache) -> "finalize"
               [] OTHER -> "run"
    /\ UNCHANGED <<server, caches, wanted, copies, desired, todo, victim, trouble, forgotten>>

\* The XR goes. A copy that is not current is refused.
RemoveFinalizer ==
    /\ pc = "unfinalize"
    /\ xr' = IF got = xr THEN NoXR ELSE xr
    /\ End
    /\ UNCHANGED <<objs, caches, wanted, trouble, forgotten>>

AddFinalizer ==
    /\ pc = "finalize"
    /\ IF got = xr
          THEN /\ xr' = [xr EXCEPT !.finalizer = TRUE]
               /\ got' = xr'
               /\ pc' = "run"
               /\ UNCHANGED <<copies, desired, todo, victim>>
          ELSE End /\ UNCHANGED xr
    /\ UNCHANGED <<objs, caches, wanted, trouble, forgotten>>

\* Mutant of Copy: what is not in the cache is taken not to exist.
Copy_CachedOnly(o) == cache[o]

\* A resource is read from the cache, or from the API server if it is not there.
Copy(o) == IF Exists(cache[o]) THEN cache[o] ELSE objs[o]

\* The copies of what the XR refers to.
Observed == [o \in Objects |-> IF o \in got.refs THEN Copy(o) ELSE NoObjects[o]]

Names(S) == {NameOf[o] : o \in S}

\* The observed resources to delete when S is desired: those of names that are not
\* desired, as far as the XR controls them.
Undesired(S, seen) ==
    {o \in Objects : Exists(seen[o]) /\ seen[o].controller = "xr" /\ NameOf[o] \notin Names(S)}

\* The resources are observed and the functions run. A resource that exists keeps its
\* name, and another one gets the name that it would have had. What happens between
\* the two could as well happen before or after, as they read different things.
Run ==
    /\ pc = "run"
    /\ copies' = Observed
    /\ desired' = wanted
    /\ todo' = Undesired(wanted, Observed)
    /\ pc' = "collect"
    /\ UNCHANGED <<server, caches, wanted, got, victim, trouble, forgotten>>

\* The next one's labels are removed. That it's gone is no error, but a conflict is.
Collect(o) ==
    /\ pc = "collect" /\ o \in todo
    /\ IF Exists(objs[o]) /\ objs[o] # copies[o]
          THEN End
          ELSE /\ victim' = {o}
               /\ todo' = todo \ {o}
               /\ pc' = "delete"
               /\ UNCHANGED <<got, copies, desired>>
    /\ UNCHANGED <<server, caches, wanted, trouble, forgotten>>

\* Mutant of Deletable: the deletion has no precondition.
Deletable_Any(o) == TRUE

\* The deletion's precondition.
Deletable(o) == objs[o].uid = copies[o].uid

\* It is deleted.
Delete(o) ==
    /\ pc = "delete" /\ o \in victim
    /\ IF ~Exists(objs[o]) \/ Deletable(o)
          THEN /\ Write(o, IF Exists(objs[o]) THEN [objs[o] EXCEPT !.state = "deleting"] ELSE objs[o])
               /\ victim' = {}
               /\ pc' = "collect"
               /\ UNCHANGED <<got, copies, desired, todo>>
          ELSE End /\ UNCHANGED objs
    /\ UNCHANGED <<xr, caches, wanted, trouble, forgotten>>

\* References that are dropped although their resources exist: the copy of the XR was
\* old, the resource's kind changed, or the copy of the resource did not show the XR
\* as its controller.
Dropped ==
    {o \in xr.refs \ desired :
        \/ got.refs # xr.refs
        \/ NameOf[o] \in Names(desired)
        \/ Exists(copies[o]) /\ copies[o].controller # "xr"}

\* Mutants of NewRefs: the references are merged, not replaced; or only what was
\* referred to already is.
NewRefs_Merged == xr.refs \cup desired
NewRefs_Known == desired \cap got.refs

\* UpdateResourceRefs.
NewRefs == desired

\* All references are replaced, whatever version the XR has. If it is gone it is
\* created. The copies are not used any more.
WriteRefs ==
    /\ pc = "collect" /\ todo = {}
    /\ xr' = [xr EXCEPT !.refs = NewRefs, !.state = IF @ = "none" THEN "live" ELSE @]
    /\ forgotten' = (forgotten \cup Dropped) \ desired
    /\ todo' = desired
    /\ pc' = "apply"
    /\ got' = NoXR /\ copies' = NoObjects /\ desired' = {}
    /\ UNCHANGED <<objs, caches, wanted, victim, trouble>>

\* A desired resource is applied. The API server refuses a second controller, and
\* Compose goes on to the next one.
Apply(o) ==
    /\ pc = "apply" /\ o \in todo
    /\ todo' = todo \ {o}
    /\ Write(o, CASE ~Exists(objs[o]) -> Created(o, "xr")
                  [] Exists(objs[o]) /\ objs[o].controller = "nobody" -> [objs[o] EXCEPT !.controller = "xr"]
                  [] OTHER -> objs[o])
    /\ UNCHANGED <<xr, caches, wanted, pc, got, copies, desired, victim, trouble, forgotten>>

\* The status is written, and Compose returns.
Finish ==
    /\ pc = "apply" /\ todo = {}
    /\ End
    /\ UNCHANGED <<server, caches, wanted, trouble, forgotten>>

\* A call or a function fails, or the process crashes.
Abort ==
    /\ pc # "idle"
    /\ Trouble
    /\ End
    /\ UNCHANGED <<server, caches, wanted, forgotten>>

-----------------------------------------------------------------------------
Reconcile ==
    \/ Begin \/ RemoveFinalizer \/ AddFinalizer
    \/ Run
    \/ \E o \in Objects : Collect(o) \/ Delete(o)
    \/ WriteRefs
    \/ \E o \in Objects : Apply(o)
    \/ Finish

Others ==
    \/ \E S \in Desires : ChangeWanted(S)
    \/ DeleteXR
    \/ \E o \in Objects : DeleteObject(o) \/ CreateObject(o) \/ LoseController(o) \/ RestoreController(o)

Next ==
    \/ Reconcile \/ Abort \/ Others \/ SeeXR
    \/ \E o \in Objects : RemoveObject(o) \/ SeeObject(o)

Spec == Init /\ [][Next]_vars

\* The XR is reconciled again and again, by polls or, where realtime compositions switch
\* these off, by the resync of its informer; a reconcile goes on, the caches catch up, and
\* deleted resources go.
FairSpec ==
    /\ Spec
    /\ WF_vars(Reconcile)
    /\ WF_vars(SeeXR)
    /\ \A o \in Objects : WF_vars(RemoveObject(o)) /\ WF_vars(SeeObject(o))

-----------------------------------------------------------------------------
(* Properties.                                                             *)

\* "We never create a composed resource without first persisting a reference to it":
\* whatever fails between the writes, a resource that the XR controls is one that it
\* refers to, except for those that a reconcile forgot (see Dropped): its copy of the XR
\* was old, the functions gave the name to a resource of another kind, or its copy of
\* the resource had lost its controller. In these cases the code drops the reference
\* to a resource that was not deleted, and nothing is claimed of that one until it is
\* desired again.
NoResourceLeaks ==
    Exists(xr) => \A o \in Objects \ forgotten :
        objs[o].state = "live" /\ objs[o].controller = "xr" => o \in xr.refs

\* Garbage collection never deletes what another controls, also when that took the
\* name of a resource that was observed.
DeletesOnlyOwn ==
    [][\A o \in victim :
          objs[o].state = "live" /\ objs'[o].state = "deleting" /\ victim' = {}
              => objs[o].controller # "other"]_vars

\* An XR that is gone is not brought back by a reconcile that still has its copy.
StaysDeleted == [][~Exists(xr) => ~Exists(xr')]_vars

\* What the functions desire exists, and what they do not desire goes, unless it was
\* forgotten for a reason that Dropped names: also a resource that lost its controller
\* and got it back stays, although composition_functions.go:983-987 says that it "will be
\* re-adopted and collected on a later reconcile". Once the XR is deleted everything
\* goes, forgotten or not.
Composed ==
    /\ xr.state # "deleting"
    /\ Exists(xr) =>
          /\ xr.refs = wanted
          /\ \A o \in wanted : objs[o].state = "live" /\ objs[o].controller # "nobody"
          /\ \A o \in Objects \ (wanted \cup forgotten) : objs[o].controller # "xr"
    /\ ~Exists(xr) => \A o \in Objects : objs[o].controller # "xr"

Composes == <>[]Composed
=============================================================================
