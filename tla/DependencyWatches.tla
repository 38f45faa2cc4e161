------------------------- MODULE DependencyWatches --------------------------
(***************************************************************************)
(* How the parts of an XR controller keep the dependency watches right:    *)
(* its reconciler (composite/reconciler.go), the dependency tracker        *)
(* (DependencyTracker, here the kinds each XR refers to), the watches of   *)
(* the controller engine (ControllerEngine, here the kinds with a source,  *)
(* and whether the informer behind it is still there) and the garbage      *)
(* collector of dependency watches (composite/watch).                      *)
(*                                                                         *)
(* Each XR is reconciled by one worker at a time, different XRs and the    *)
(* collector run concurrently. The collector reads the watches, reads the  *)
(* tracker and stops watches in three steps; a reconcile tracks, reads the *)
(* tracker and starts watches in three steps.                              *)
(***************************************************************************)
EXTENDS Integers

CONSTANTS
    XRs,      \* names of composite resources
    Kinds,    \* GVKs they may depend on
    MaxCreations,  \* bound on how often XRs are created
    MaxPauses      \* bound on how often XRs are paused

ASSUME WatchesAssumption == MaxCreations \in Nat /\ MaxPauses \in Nat

VARIABLES
    xrs,      \* the XR of each name in the API server
    paused,   \* the XRs with the pause annotation
    creations,  \* how many XRs were ever created
    pauses,   \* how many were ever paused
    queued,   \* whether a reconcile of it is queued
    pc,       \* where the reconcile of it is
    deps,     \* the tracker: the kinds it refers to
    ws,       \* local variable: the kinds its reconcile starts watches for
    sources,  \* the controller's sources: its dependency watches
    dead,     \* those whose informer was removed: they never send an event again
    active,   \* the kinds with an informer, which all controllers share
    gc,       \* where the collector is
    running,  \* local variable of the collector
    stop      \* local variable of the collector

api == <<xrs, paused, creations, pauses, queued>>
watches == <<sources, dead, active>>
collector == <<gc, running, stop>>
vars == <<xrs, paused, creations, pauses, queued, pc, deps, ws, sources, dead, active,
          gc, running, stop>>

TypeOK ==
    /\ xrs \in [XRs -> {"absent", "live", "deleting"}]
    /\ paused \in SUBSET XRs
    /\ creations \in 0 .. MaxCreations
    /\ pauses \in 0 .. MaxPauses
    /\ queued \in [XRs -> BOOLEAN]
    /\ pc \in [XRs -> {"idle", "forget", "compose", "kinds", "start"}]
    /\ deps \in [XRs -> SUBSET Kinds]
    /\ ws \in [XRs -> SUBSET Kinds]
    /\ sources \in SUBSET Kinds
    /\ dead \in SUBSET sources
    /\ active \in SUBSET Kinds
    /\ gc \in {"idle", "kinds", "stop"}
    /\ running \in SUBSET Kinds
    /\ stop \in SUBSET Kinds

Init ==
    /\ xrs = [x \in XRs |-> "absent"]
    /\ paused = {}
    /\ creations = 0
    /\ pauses = 0
    /\ queued = [x \in XRs |-> FALSE]
    /\ pc = [x \in XRs |-> "idle"]
    /\ deps = [x \in XRs |-> {}]
    /\ ws = [x \in XRs |-> {}]
    /\ sources = {}
    /\ dead = {}
    /\ active = {}
    /\ gc = "idle"
    /\ running = {}
    /\ stop = {}

\* The tracker's GVKs.
GVKs == UNION {deps[x] : x \in XRs}

-----------------------------------------------------------------------------
(* The API server and the watch of the XRs themselves, external.           *)

\* An XR is created, marked as deleted, or removed; its controller hears of it.
Changes(x, s) ==
    /\ xrs' = [xrs EXCEPT ![x] = s]
    /\ paused' = IF s = "absent" THEN paused \ {x} ELSE paused
    /\ queued' = [queued EXCEPT ![x] = TRUE]
    /\ UNCHANGED <<pauses, pc, deps, ws, watches, collector>>

Create(x) ==
    /\ xrs[x] = "absent"
    /\ creations < MaxCreations
    /\ creations' = creations + 1
    /\ Changes(x, "live")
Delete(x) == xrs[x] = "live" /\ Changes(x, "deleting") /\ UNCHANGED creations
Remove(x) == xrs[x] = "deleting" /\ Changes(x, "absent") /\ UNCHANGED creations

\* Somebody pauses the XR, or lets it go on.
Pause(x) ==
    /\ xrs[x] # "absent" /\ x \notin paused
    /\ pauses < MaxPauses
    /\ pauses' = pauses + 1
    /\ paused' = paused \cup {x}
    /\ queued' = [queued EXCEPT ![x] = TRUE]
    /\ UNCHANGED <<xrs, creations, pc, deps, ws, watches, collector>>

Resume(x) ==
    /\ x \in paused
    /\ paused' = paused \ {x}
    /\ queued' = [queued EXCEPT ![x] = TRUE]
    /\ UNCHANGED <<xrs, creations, pauses, pc, deps, ws, watches, collector>>

\* The XR's informer resyncs.
Resync(x) ==
    /\ xrs[x] # "absent"
    /\ ~queued[x]
    /\ queued' = [queued EXCEPT ![x] = TRUE]
    /\ UNCHANGED <<xrs, paused, creations, pauses, pc, deps, ws, watches, collector>>

\* The CRD of a kind is deleted: the engine removes its informer
\* (GarbageCollectCustomResourceInformers), and the sources at it are dead.
InformerRemoved(k) ==
    /\ k \in active
    /\ active' = active \ {k}
    /\ dead' = dead \cup ({k} \cap sources)
    /\ UNCHANGED <<api, pc, deps, ws, sources, collector>>

\* Another controller's watch, or a read through the cache, starts an informer.
InformerStarted(k) ==
    /\ k \notin active
    /\ active' = active \cup {k}
    /\ UNCHANGED <<api, pc, deps, ws, sources, dead, collector>>

-----------------------------------------------------------------------------
(* Reconcile.                                                              *)

\* The reconcile of x goes on at l.
Goto(x, l) == pc' = [pc EXCEPT ![x] = l]

\* The reconcile of x is over because of an error: it is queued again.
Fail(x) ==
    /\ Goto(x, "idle")
    /\ queued' = [queued EXCEPT ![x] = TRUE]

\* Mutant of AfterGet: nothing is forgotten of an XR that is gone.
AfterGet_NotFound(x) ==
    CASE xrs[x] = "absent" -> "idle"
      [] xrs[x] = "deleting" -> "forget"
      [] xrs[x] = "live" -> "compose"

\* Where a reconcile goes on after it got the XR.
AfterGet(x) == IF xrs[x] = "live" THEN "compose" ELSE "forget"

\* Reconcile gets the XR. It removes the finalizer of a deleted one, so that the
\* XR is gone before the tracker forgets it. (When that fails the XR stays queued:
\* nothing changes.)
Begin(x) ==
    /\ pc[x] = "idle"
    /\ queued[x]
    /\ x \notin paused
    /\ Goto(x, AfterGet(x))
    /\ xrs' = [xrs EXCEPT ![x] = IF @ = "deleting" THEN "absent" ELSE @]
    /\ queued' = [queued EXCEPT ![x] = (xrs[x] = "deleting")]
    /\ UNCHANGED <<paused, creations, pauses, deps, ws, watches, collector>>

\* Nothing else is done for a paused XR, be it live or deleted.
BeginPaused(x) ==
    /\ pc[x] = "idle"
    /\ queued[x]
    /\ x \in paused
    /\ queued' = [queued EXCEPT ![x] = FALSE]
    /\ UNCHANGED <<xrs, paused, creations, pauses, pc, deps, ws, watches, collector>>

\* The tracker forgets an XR that is gone.
Forget(x) ==
    /\ pc[x] = "forget"
    /\ deps' = [deps EXCEPT ![x] = {}]
    /\ Goto(x, "idle")
    /\ UNCHANGED <<api, ws, watches, collector>>

\* Compose ends with Track.
Track(x, ks) ==
    /\ pc[x] = "compose"
    /\ deps' = [deps EXCEPT ![x] = ks]
    /\ Goto(x, "kinds")
    /\ UNCHANGED <<api, ws, watches, collector>>

\* Something fails before.
ComposeFails(x) ==
    /\ pc[x] = "compose"
    /\ Fail(x)
    /\ UNCHANGED <<xrs, paused, creations, pauses, deps, ws, watches, collector>>

\* The kinds to watch: all that the controller's XRs refer to.
ReadKinds(x) ==
    /\ pc[x] = "kinds"
    /\ ws' = [ws EXCEPT ![x] = GVKs]
    /\ Goto(x, "start")
    /\ UNCHANGED <<api, deps, watches, collector>>

\* Mutant of Running: the informer isn't looked at.
Running_AnySource == sources

\* The kinds that StartWatches takes for watched: there is a source, and there is
\* an informer of its kind, though perhaps not the one the source is at.
Running == sources \cap active

\* Sources are started for the kinds in ks that aren't running, informers too.
Started(ks) ==
    LET new == ks \ Running
    IN  /\ sources' = sources \cup new
        /\ dead' = dead \ new
        /\ active' = active \cup new

\* StartWatches starts those that aren't running, or fails after some.
StartWatches(x) ==
    /\ pc[x] = "start"
    /\ Started(ws[x])
    /\ ws' = [ws EXCEPT ![x] = {}]
    /\ Goto(x, "idle")
    /\ UNCHANGED <<api, deps, collector>>

StartWatchesFails(x) ==
    /\ pc[x] = "start"
    /\ \E some \in SUBSET ws[x] : Started(some)
    /\ ws' = [ws EXCEPT ![x] = {}]
    /\ Fail(x)
    /\ UNCHANGED <<xrs, paused, creations, pauses, deps, collector>>

-----------------------------------------------------------------------------
(* GarbageCollectWatchesNow.                                               *)

GetWatches ==
    /\ gc = "idle"
    /\ running' = sources
    /\ gc' = "kinds"
    /\ UNCHANGED <<api, pc, deps, ws, watches, stop>>

\* The running watches of kinds that no XR refers to.
Unneeded == running \ GVKs

ReadTracker ==
    /\ gc = "kinds"
    /\ stop' = Unneeded
    /\ running' = {}
    /\ gc' = IF Unneeded = {} THEN "idle" ELSE "stop"
    /\ UNCHANGED <<api, pc, deps, ws, watches>>

\* The sources of the kinds in ks are stopped, dead or alive. Informers stay.
Stopped(ks) ==
    /\ gc = "stop"
    /\ sources' = sources \ ks
    /\ dead' = dead \ ks
    /\ stop' = {}
    /\ gc' = "idle"
    /\ UNCHANGED <<api, pc, deps, ws, active, running>>

\* StopWatches stops them, or fails after some.
StopWatches == Stopped(stop)
StopWatchesFails == \E some \in SUBSET stop : Stopped(some)

Next ==
    \/ \E x \in XRs :
          \/ Create(x) \/ Delete(x) \/ Remove(x) \/ Pause(x) \/ Resume(x) \/ Resync(x)
          \/ Begin(x) \/ BeginPaused(x) \/ Forget(x)
          \/ (\E ks \in SUBSET Kinds : Track(x, ks)) \/ ComposeFails(x) \/ ReadKinds(x)
          \/ StartWatches(x) \/ StartWatchesFails(x)
    \/ \E k \in Kinds : InformerRemoved(k) \/ InformerStarted(k)
    \/ GetWatches \/ ReadTracker \/ StopWatches \/ StopWatchesFails

\* Workers, the collector's ticker and the informer's resync run for ever, and
\* what fails doesn't fail for ever.
Fairness ==
    /\ \A x \in XRs :
          /\ WF_vars(Resync(x)) /\ WF_vars(Begin(x) \/ BeginPaused(x)) /\ WF_vars(Forget(x))
          /\ WF_vars(ReadKinds(x))
          /\ WF_vars(ComposeFails(x)) /\ SF_vars(\E ks \in SUBSET Kinds : Track(x, ks))
          /\ WF_vars(StartWatchesFails(x)) /\ SF_vars(StartWatches(x))
    /\ WF_vars(GetWatches) /\ WF_vars(ReadTracker)
    /\ WF_vars(StopWatchesFails) /\ SF_vars(StopWatches)

Spec == Init /\ [][Next]_vars /\ Fairness

-----------------------------------------------------------------------------
(* Properties.                                                             *)

\* The kinds that XRs which exist refer to, and those of them that XRs which are
\* reconciled refer to.
Needed == UNION {deps[x] : x \in {y \in XRs : xrs[y] # "absent"}}
Wanted == UNION {deps[x] : x \in {y \in XRs \ paused : xrs[y] # "absent"}}

\* The source is dead but taken for running: somebody else has started an informer
\* of its kind since its own was removed, and before StartWatches looked.
Mistaken(k) == k \in dead /\ k \in active

\* A kind that an XR depends on is eventually watched, also after the collector
\* has stopped its watch because it read the tracker too early (the comment in
\* GarbageCollectWatchesNow: "the XR will restart the watch next time it
\* reconciles"), and after its informer was removed with the CRD. This holds for
\* XRs that aren't paused, and except where StartWatches takes a dead source for a
\* running one: the race that its comment says "will eventually self-correct" does
\* so only if nobody else starts an informer of the kind meanwhile.
NeededIsWatched ==
    \A k \in Kinds : k \in Wanted ~> k \in sources \ dead \/ k \notin Wanted \/ Mistaken(k)

\* A kind that no XR depends on any longer doesn't stay watched, also if its last
\* XR disappeared before its controller saw the deletion, if a reconcile of
\* another XR had already read that it is to be watched, or if its source is dead.
UnneededIsStopped ==
    \A k \in Kinds : k \in sources /\ k \notin Needed ~> k \notin sources \/ k \in Needed
=============================================================================
