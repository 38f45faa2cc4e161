-------------------------- MODULE ControllerEngine --------------------------
(***************************************************************************)
(* Crossplane's controller engine (crossplane internal/engine/engine.go    *)
(* and source.go): a registry of controllers, each with the watch sources  *)
(* it has started, driven concurrently by the reconcilers that call the    *)
(* engine, by the goroutine Start spawns for each controller, and by the   *)
(* garbage collector of custom resource informers.                         *)
(*                                                                         *)
(* A thread is a caller of the engine or the goroutine of one controller   *)
(* instance. The steps of a call end where it takes or releases a lock,    *)
(* or where it calls the informers. A name may be started again after it   *)
(* was stopped: each Start makes a new instance.                           *)
(***************************************************************************)
EXTENDS Informers

CONSTANTS
    Names,        \* controller names
    WatchTypes,   \* engine.WatchType
    Instances,    \* the *controller values Start allocates, and their goroutines
    Callers,      \* goroutines that call the engine's methods
    MaxDropped,   \* bound: StartWatches calls for a watch already dropped unstarted
    Failures,     \* which calls to controller-runtime may fail
    None          \* no thread, no controller

ASSUME ThreadsAssumption ==
    /\ Callers \cap Instances = {}
    /\ None \notin Callers \cup Instances

ASSUME FailuresAssumption == Failures \subseteq {"sync", "watch", "remove"}

VARIABLES
    controllers,  \* ControllerEngine.controllers: the instance of each name
    eMx,          \* ControllerEngine.mx: its writer
    nameOf,       \* the name each instance was started with
    phase,        \* what the instance's goroutine is doing
    cancelled,    \* instances whose context is cancelled
    elected,      \* mgr.Elected() is closed
    cMx,          \* controller.mx: the writer of each instance
    sources,      \* controller.sources: the informer each source is bound to
    reg,          \* StoppableSource.reg # nil: the recorded source was started
    dropped,      \* sources of the running informer stopped before they started
    handlers,     \* how many of a watch's event handlers its informer calls
    pc,           \* where each thread is
    ctl,          \* local c: the instance the thread looked up
    todo,         \* locals ws: the watches the thread has still to consider
    snap,         \* local activeInformer
    inf           \* local inf: the watch being started and its informer

ctlVars == <<controllers, eMx, nameOf, phase, cancelled, elected>>
srcVars == <<cMx, sources, reg, dropped, handlers>>
locVars == <<pc, ctl, todo, snap, inf>>
vars == <<infVars, ctlVars, srcVars, locVars>>

Threads == Callers \cup Instances

\* A WatchID uniquely identifies a watch of a controller.
WatchID == [type : WatchTypes, gvk : Gvks]

NoInf == [wid |-> None, gen |-> 0]

\* The source recorded for a watch is bound to the informer that is running.
Attached(i, w) ==
    /\ w.gvk \in live
    /\ sources[i][w] = gen[w.gvk]

\* The controller of controller-runtime has been started: only then does Watch
\* start a source at once. One that isn't, or whose start failed, keeps it.
Started(i) == phase[i] \in {"running", "returned"}

StopPcs == {"stop_lock", "stop_loop"}
WritePcs == {"stop_loop", "sw_loop", "sw_watch", "tw_loop"}
PcSet == {"idle", "done", "sw_snap", "sw_check", "sw_lock", "tw_check",
          "tw_lock"} \cup StopPcs \cup WritePcs

EngineTypeOK ==
    /\ controllers \in [Names -> Instances \cup {None}]
    /\ eMx \in Threads \cup {None}
    /\ nameOf \in [Instances -> Names \cup {None}]
    /\ phase \in [Instances -> {"unused", "waiting", "running", "failed", "returned"}]
    /\ cancelled \in [Instances -> BOOLEAN]
    /\ elected \in BOOLEAN
    /\ cMx \in [Instances -> Threads \cup {None}]
    /\ sources \in [Instances -> [WatchID -> Nat]]
    /\ reg \in [Instances -> [WatchID -> BOOLEAN]]
    /\ dropped \in [Instances -> [WatchID -> Nat]]
    /\ handlers \in [Instances -> [WatchID -> Int]]
    /\ pc \in [Threads -> PcSet]
    /\ ctl \in [Threads -> Instances \cup {None}]
    /\ todo \in [Threads -> SUBSET WatchID]
    /\ snap \in [Threads -> SUBSET Gvks]
    /\ inf \in [Threads -> [wid : WatchID \cup {None}, gen : Nat]]

\* Every variable stays in its type, and a thread past the lookup of its
\* controller holds one.
TypeOK ==
    /\ InformersTypeOK
    /\ EngineTypeOK
    /\ \A t \in Threads :
        /\ pc[t] \notin {"idle", "done"} => ctl[t] \in Instances
        /\ pc[t] = "sw_watch" => inf[t].wid \in WatchID

Init ==
    /\ InformersInit
    /\ controllers = [n \in Names |-> None]
    /\ eMx = None
    /\ nameOf = [i \in Instances |-> None]
    /\ phase = [i \in Instances |-> "unused"]
    /\ cancelled = [i \in Instances |-> FALSE]
    /\ elected = FALSE
    /\ cMx = [i \in Instances |-> None]
    /\ sources = [i \in Instances |-> [w \in WatchID |-> 0]]
    /\ reg = [i \in Instances |-> [w \in WatchID |-> FALSE]]
    /\ dropped = [i \in Instances |-> [w \in WatchID |-> 0]]
    /\ handlers = [i \in Instances |-> [w \in WatchID |-> 0]]
    /\ pc = [t \in Threads |-> "idle"]
    /\ ctl = [t \in Threads |-> None]
    /\ todo = [t \in Threads |-> {}]
    /\ snap = [t \in Threads |-> {}]
    /\ inf = [t \in Threads |-> NoInf]

-----------------------------------------------------------------------------
(* Control flow of a thread. *)

\* Mutants of IsRunning: a missing lookup of the name.
IsRunning_Always(n) == TRUE
IsRunning_Never(n) == FALSE

\* The name is in the engine's map of controllers.
IsRunning(n) == controllers[n] # None

Goto(t, l) == pc' = [pc EXCEPT ![t] = l]

\* The call returns. Locals are forgotten; the goroutine of a controller that
\* failed ends after its only call.
Return(t) ==
    /\ pc' = [pc EXCEPT ![t] = IF t \in Instances THEN "done" ELSE "idle"]
    /\ ctl' = [ctl EXCEPT ![t] = None]
    /\ todo' = [todo EXCEPT ![t] = {}]
    /\ snap' = [snap EXCEPT ![t] = {}]
    /\ inf' = [inf EXCEPT ![t] = NoInf]

\* The call's deferred unlock of its controller's write lock.
UnlockController(t) == cMx' = [cMx EXCEPT ![ctl[t]] = None]

\* StoppableSource.Stop: the event handler is removed from its informer, unless
\* that informer has stopped or the source was never started; then Stop has
\* nothing to do. The source is then deleted from the controller's sources, but
\* a controller that waits to be started keeps it and will start it.
StopSource(i, w) ==
    /\ handlers' = [handlers EXCEPT ![i][w] =
                       IF Attached(i, w) /\ reg[i][w] THEN @ - 1 ELSE @]
    /\ dropped' = [dropped EXCEPT ![i][w] =
                       IF Attached(i, w) /\ phase[i] = "waiting" THEN @ + 1 ELSE @]
    /\ sources' = [sources EXCEPT ![i][w] = 0]
    /\ reg' = [reg EXCEPT ![i][w] = FALSE]

-----------------------------------------------------------------------------
(* The manager's election, and the goroutine of a controller. *)

\* The manager wins leader election: mgr.Elected() is closed.
Elect ==
    /\ ~elected
    /\ elected' = TRUE
    /\ UNCHANGED <<infVars, controllers, eMx, nameOf, phase, cancelled, srcVars, locVars>>

\* Start, called by t under the engine's write lock. It is a no-op if the
\* controller is running; otherwise it registers a new instance whose goroutine
\* waits for the election.
Start(n, i) ==
    /\ eMx = None
    /\ ~IsRunning(n)
    /\ phase[i] = "unused"
    /\ controllers' = [controllers EXCEPT ![n] = i]
    /\ nameOf' = [nameOf EXCEPT ![i] = n]
    /\ phase' = [phase EXCEPT ![i] = "waiting"]
    /\ UNCHANGED <<infVars, eMx, cancelled, elected, srcVars, locVars>>

\* The controller starts the sources it kept for the watches in ws: those that
\* are recorded, and those dropped meanwhile. Each adds its event handler.
StartKept(i, ws) ==
    /\ handlers' = [handlers EXCEPT ![i] = [w \in WatchID |->
                       IF w \in ws
                       THEN @[w] + dropped[i][w] + (IF Attached(i, w) THEN 1 ELSE 0)
                       ELSE @[w]]]
    /\ reg' = [reg EXCEPT ![i] = [w \in WatchID |-> w \in ws /\ sources[i][w] # 0]]

\* The goroutine sees the election and calls c.Start(ctx), which starts every
\* source the controller was given so far; a cancelled context doesn't stop it.
RunController(i) ==
    /\ phase[i] = "waiting"
    /\ elected
    /\ phase' = [phase EXCEPT ![i] = "running"]
    /\ StartKept(i, WatchID)
    /\ UNCHANGED <<infVars, controllers, eMx, nameOf, cancelled, elected, cMx, sources,
                   dropped, locVars>>

\* c.Start(ctx) returns nil after its context is cancelled.
ControllerReturns(i) ==
    /\ phase[i] = "running"
    /\ cancelled[i]
    /\ phase' = [phase EXCEPT ![i] = "returned"]
    /\ pc' = [pc EXCEPT ![i] = "done"]
    /\ UNCHANGED <<infVars, controllers, eMx, nameOf, cancelled, elected, srcVars,
                   ctl, todo, snap, inf>>

\* c.Start(ctx) returns an error, having started the sources of some watches: no
\* other source is ever started. The goroutine goes on to call Stop.
ControllerFails(i, ws) ==
    /\ phase[i] = "waiting"
    /\ elected
    /\ phase' = [phase EXCEPT ![i] = "failed"]
    /\ StartKept(i, ws)
    /\ dropped' = [dropped EXCEPT ![i] = [w \in WatchID |-> IF w \in ws THEN @[w] ELSE 0]]
    /\ UNCHANGED <<infVars, controllers, eMx, nameOf, cancelled, elected, cMx, sources,
                   locVars>>

\* Mutant of MayStop: a failed controller's goroutine returns without a Stop.
MayStop_CallersOnly(t, n) == pc[t] = "idle" /\ t \in Callers

\* A thread may begin a call of Stop for name n: callers for any name, and the
\* goroutine of a failed controller for the name it was started with.
MayStop(t, n) ==
    /\ pc[t] = "idle"
    /\ t \in Instances => phase[t] = "failed" /\ nameOf[t] = n

-----------------------------------------------------------------------------
(* Stop(ctx, name) *)

\* The name isn't running: Stop is a no-op. Only the goroutine of a failed
\* controller shows it, by ending.
StopNoop(t, n) ==
    /\ t \in Instances
    /\ MayStop(t, n)
    /\ eMx = None
    /\ ~IsRunning(n)
    /\ Return(t)
    /\ UNCHANGED <<infVars, ctlVars, srcVars>>

\* Stop takes the engine's write lock and finds the controller.
StopBegin(t, n) ==
    /\ MayStop(t, n)
    /\ eMx = None
    /\ IsRunning(n)
    /\ eMx' = t
    /\ ctl' = [ctl EXCEPT ![t] = controllers[n]]
    /\ Goto(t, "stop_lock")
    /\ UNCHANGED <<infVars, controllers, nameOf, phase, cancelled, elected, srcVars,
                   todo, snap, inf>>

\* Stop takes the controller's write lock.
StopLock(t) ==
    /\ pc[t] = "stop_lock"
    /\ cMx[ctl[t]] = None
    /\ cMx' = [cMx EXCEPT ![ctl[t]] = t]
    /\ Goto(t, "stop_loop")
    /\ UNCHANGED <<infVars, ctlVars, sources, reg, dropped, handlers, ctl, todo, snap, inf>>

\* Stop stops one of the controller's sources and forgets it.
StopOneSource(t, w) ==
    /\ pc[t] = "stop_loop"
    /\ sources[ctl[t]][w] # 0
    /\ StopSource(ctl[t], w)
    /\ UNCHANGED <<infVars, ctlVars, cMx, locVars>>

\* A source can't be stopped: Stop returns the error. Both locks are released,
\* and the controller stays registered with the sources it still has.
StopOneSourceFails(t, w) ==
    /\ "remove" \in Failures
    /\ pc[t] = "stop_loop"
    /\ Attached(ctl[t], w) /\ reg[ctl[t]][w]
    /\ UnlockController(t)
    /\ eMx' = None
    /\ Return(t)
    /\ UNCHANGED <<infVars, controllers, nameOf, phase, cancelled, elected, sources, reg, dropped, handlers>>

\* Mutants of AllStopped: Stop forgets the controller without stopping its watches,
\* or goes on for ever when there are none.
AllStopped_Skipped(t) == TRUE
AllStopped_AnyLeft(t) == \E w \in WatchID : sources[ctl[t]][w] # 0

\* Stop's loop over the controller's sources is over.
AllStopped(t) == \A w \in WatchID : sources[ctl[t]][w] = 0

\* Every source is stopped: the controller is cancelled and deleted.
StopDone(t) ==
    /\ pc[t] = "stop_loop"
    /\ AllStopped(t)
    /\ cancelled' = [cancelled EXCEPT ![ctl[t]] = TRUE]
    /\ controllers' = [controllers EXCEPT ![nameOf[ctl[t]]] = None]
    /\ UnlockController(t)
    /\ eMx' = None
    /\ Return(t)
    /\ UNCHANGED <<infVars, nameOf, phase, elected, sources, reg, dropped, handlers>>

-----------------------------------------------------------------------------
(* StartWatches(ctx, name, ws...) *)

\* StartWatches looks the controller up under the engine's read lock. It returns
\* an error if the name isn't running, which changes nothing.
SWBegin(t, n, ws) ==
    /\ pc[t] = "idle"
    /\ eMx = None
    /\ IsRunning(n)
    /\ \A w \in ws : dropped[controllers[n]][w] < MaxDropped
    /\ ctl' = [ctl EXCEPT ![t] = controllers[n]]
    /\ todo' = [todo EXCEPT ![t] = ws]
    /\ Goto(t, "sw_snap")
    /\ UNCHANGED <<infVars, ctlVars, srcVars, snap, inf>>

\* It notes which informers are active, before it takes the controller's lock.
SWSnapshot(t) ==
    /\ pc[t] = "sw_snap"
    /\ snap' = [snap EXCEPT ![t] = active]
    /\ Goto(t, "sw_check")
    /\ UNCHANGED <<infVars, ctlVars, srcVars, ctl, todo, inf>>

\* The watch exists, and the thread believes that its informer is running.
IsWatching(t, w) == sources[ctl[t]][w] # 0 /\ w.gvk \in snap[t]

\* Under the controller's read lock: return if there's nothing to start.
SWCheck(t) ==
    /\ pc[t] = "sw_check"
    /\ cMx[ctl[t]] = None
    /\ IF \A w \in todo[t] : IsWatching(t, w)
       THEN Return(t)
       ELSE Goto(t, "sw_lock") /\ UNCHANGED <<ctl, todo, snap, inf>>
    /\ UNCHANGED <<infVars, ctlVars, srcVars>>

\* Mutant of RefreshedSnapshot: the informers active before the lock was taken.
RefreshedSnapshot_Stale(t) == snap[t]

\* The active informers StartWatches goes by once it holds the write lock.
RefreshedSnapshot(t) == active

\* It takes the controller's write lock and refreshes the active informers.
SWLock(t) ==
    /\ pc[t] = "sw_lock"
    /\ cMx[ctl[t]] = None
    /\ cMx' = [cMx EXCEPT ![ctl[t]] = t]
    /\ snap' = [snap EXCEPT ![t] = RefreshedSnapshot(t)]
    /\ Goto(t, "sw_loop")
    /\ UNCHANGED <<infVars, ctlVars, sources, reg, dropped, handlers, ctl, todo, inf>>

\* It gets the informer for a watch it has to start.
SWGetInformer(t, w) ==
    /\ pc[t] = "sw_loop"
    /\ w \in todo[t]
    /\ ~IsWatching(t, w)
    /\ GetInformer(w.gvk)
    /\ w.gvk \in live'
    /\ inf' = [inf EXCEPT ![t] = [wid |-> w, gen |-> gen'[w.gvk]]]
    /\ Goto(t, "sw_watch")
    /\ UNCHANGED <<ctlVars, srcVars, ctl, todo, snap>>

\* There's no such kind, or the informer doesn't sync in time: StartWatches
\* returns the error. What it started before stays started.
SWGetInformerFails(t, w) ==
    /\ pc[t] = "sw_loop"
    /\ w \in todo[t]
    /\ ~IsWatching(t, w)
    /\ GetInformer(w.gvk)
    /\ w.gvk \in live' => "sync" \in Failures
    /\ UnlockController(t)
    /\ Return(t)
    /\ UNCHANGED <<ctlVars, sources, reg, dropped, handlers>>

\* A controller that was started starts the source, which adds its event handler
\* to the informer; another one keeps the source for its own start. The source is
\* recorded. An informer removed since it was fetched may not be known to have
\* stopped yet; its handlers are never called.
SWWatch(t) ==
    /\ pc[t] = "sw_watch"
    /\ LET w == inf[t].wid IN
        /\ sources' = [sources EXCEPT ![ctl[t]][w] = inf[t].gen]
        /\ reg' = [reg EXCEPT ![ctl[t]][w] = Started(ctl[t])]
        /\ handlers' = [handlers EXCEPT ![ctl[t]][w] =
                           IF Started(ctl[t]) /\ w.gvk \in live /\ gen[w.gvk] = inf[t].gen
                           THEN @ + 1 ELSE @]
        /\ todo' = [todo EXCEPT ![t] = @ \ {w}]
    /\ inf' = [inf EXCEPT ![t] = NoInf]
    /\ Goto(t, "sw_loop")
    /\ UNCHANGED <<infVars, ctlVars, cMx, dropped, ctl, snap>>

\* The event handler can't be added (the informer has stopped, for one):
\* StartWatches returns the error and records nothing.
SWWatchFails(t) ==
    /\ "watch" \in Failures
    /\ pc[t] = "sw_watch"
    /\ UnlockController(t)
    /\ Return(t)
    /\ UNCHANGED <<infVars, ctlVars, sources, reg, dropped, handlers>>

\* Every watch was started or was there already.
SWDone(t) ==
    /\ pc[t] = "sw_loop"
    /\ \A w \in todo[t] : IsWatching(t, w)
    /\ UnlockController(t)
    /\ Return(t)
    /\ UNCHANGED <<infVars, ctlVars, sources, reg, dropped, handlers>>

-----------------------------------------------------------------------------
(* StopWatches(ctx, name, ws...) *)

\* StopWatches looks the controller up under the engine's read lock.
TWBegin(t, n, ws) ==
    /\ pc[t] = "idle"
    /\ eMx = None
    /\ IsRunning(n)
    /\ ctl' = [ctl EXCEPT ![t] = controllers[n]]
    /\ todo' = [todo EXCEPT ![t] = ws]
    /\ Goto(t, "tw_check")
    /\ UNCHANGED <<infVars, ctlVars, srcVars, snap, inf>>

\* Under the controller's read lock: return if there's nothing to stop.
TWCheck(t) ==
    /\ pc[t] = "tw_check"
    /\ cMx[ctl[t]] = None
    /\ IF \A w \in todo[t] : sources[ctl[t]][w] = 0
       THEN Return(t)
       ELSE Goto(t, "tw_lock") /\ UNCHANGED <<ctl, todo, snap, inf>>
    /\ UNCHANGED <<infVars, ctlVars, srcVars>>

\* It takes the controller's write lock.
TWLock(t) ==
    /\ pc[t] = "tw_lock"
    /\ cMx[ctl[t]] = None
    /\ cMx' = [cMx EXCEPT ![ctl[t]] = t]
    /\ Goto(t, "tw_loop")
    /\ UNCHANGED <<infVars, ctlVars, sources, reg, dropped, handlers, ctl, todo, snap, inf>>

\* It stops one of the watches and forgets its source.
TWStop(t, w) ==
    /\ pc[t] = "tw_loop"
    /\ w \in todo[t]
    /\ sources[ctl[t]][w] # 0
    /\ StopSource(ctl[t], w)
    /\ UNCHANGED <<infVars, ctlVars, cMx, locVars>>

\* A source can't be stopped: StopWatches returns the error.
TWStopFails(t, w) ==
    /\ "remove" \in Failures
    /\ pc[t] = "tw_loop"
    /\ w \in todo[t]
    /\ Attached(ctl[t], w) /\ reg[ctl[t]][w]
    /\ UnlockController(t)
    /\ Return(t)
    /\ UNCHANGED <<infVars, ctlVars, sources, reg, dropped, handlers>>

\* Every watch is stopped, or wasn't there.
TWDone(t) ==
    /\ pc[t] = "tw_loop"
    /\ \A w \in todo[t] : sources[ctl[t]][w] = 0
    /\ UnlockController(t)
    /\ Return(t)
    /\ UNCHANGED <<infVars, ctlVars, sources, reg, dropped, handlers>>

-----------------------------------------------------------------------------
(* The rest of the system: cached reads, CRDs and the garbage collector. *)

\* A reconciler reads through the engine's cached client.
Read(g) ==
    /\ GetInformer(g)
    /\ UNCHANGED <<ctlVars, srcVars, locVars>>

\* A CRD comes or goes at the API server.
ChangeCRD(g) ==
    /\ CreateCRD(g) \/ DeleteCRD(g)
    /\ UNCHANGED <<ctlVars, srcVars, locVars>>

\* The garbage collector removes the informer of a deleted CRD, and with it the
\* event handlers of every controller that watches the kind.
GarbageCollectInformer(g) ==
    /\ RemoveInformer(g)
    /\ handlers' = [i \in Instances |-> [w \in WatchID |->
                       IF w.gvk = g THEN 0 ELSE handlers[i][w]]]
    /\ dropped' = [i \in Instances |-> [w \in WatchID |->
                       IF w.gvk = g THEN 0 ELSE dropped[i][w]]]
    /\ UNCHANGED <<ctlVars, cMx, sources, reg, locVars>>

-----------------------------------------------------------------------------

ControllerStep(i) ==
    \/ RunController(i) \/ ControllerReturns(i)
    \/ \E ws \in SUBSET WatchID : ControllerFails(i, ws)

StopStep(t) ==
    \/ StopLock(t)
    \/ \E w \in WatchID : StopOneSource(t, w) \/ StopOneSourceFails(t, w)
    \/ StopDone(t)

StartWatchesStep(t) ==
    \/ SWSnapshot(t) \/ SWCheck(t) \/ SWLock(t)
    \/ \E w \in WatchID : SWGetInformer(t, w) \/ SWGetInformerFails(t, w)
    \/ SWWatch(t) \/ SWWatchFails(t) \/ SWDone(t)

StopWatchesStep(t) ==
    \/ TWCheck(t) \/ TWLock(t)
    \/ \E w \in WatchID : TWStop(t, w) \/ TWStopFails(t, w)
    \/ TWDone(t)

ThreadStep(t) == StopStep(t) \/ StartWatchesStep(t) \/ StopWatchesStep(t)

\* The calls a reconciler or a watch garbage collector makes.
Call(t) ==
    \E n \in Names, ws \in SUBSET WatchID \ {{}} :
        SWBegin(t, n, ws) \/ TWBegin(t, n, ws)

Next ==
    \/ Elect
    \/ \E n \in Names, i \in Instances : Start(n, i)
    \/ \E i \in Instances : ControllerStep(i)
    \/ \E t \in Threads, n \in Names : StopNoop(t, n) \/ StopBegin(t, n)
    \/ \E t \in Callers : Call(t)
    \/ \E t \in Threads : ThreadStep(t)
    \/ \E g \in Gvks : Read(g) \/ ChangeCRD(g) \/ GarbageCollectInformer(g)

Spec == Init /\ [][Next]_vars

-----------------------------------------------------------------------------
(* Safety. *)

\* The engine keeps one watch per (kind, watch type): the running informer calls
\* exactly one event handler for a recorded source that was started on it, and
\* none for a watch that is not recorded, not started, or bound to an informer
\* that was removed. The exception is a source stopped before its controller was
\* started: Stop can't take back what hasn't happened (source.go:69), and the
\* controller starts the source when it starts, one handler for each.
OneWatch ==
    \A i \in Instances, w \in WatchID :
        handlers[i][w] = (IF Attached(i, w) /\ reg[i][w] THEN 1 ELSE 0)
                       + (IF phase[i] \in {"unused", "waiting"} THEN 0 ELSE dropped[i][w])

\* Start and Stop keep a name to one controller: an instance that was started
\* and whose context isn't cancelled is the one registered for its name.
OneController ==
    \A i \in Instances :
        phase[i] # "unused" /\ ~cancelled[i] => controllers[nameOf[i]] = i

\* A name is released only by Stop, and only when its controller is cancelled
\* and left without a recorded watch, and without a handler unless a source was
\* stopped before the controller was started.
StopReleasesEverything ==
    [][\A n \in Names :
        LET i == controllers[n] IN
        i # None /\ controllers'[n] # i =>
            /\ controllers'[n] = None
            /\ cancelled'[i]
            /\ \A w \in WatchID :
                /\ sources'[i][w] = 0
                /\ dropped'[i][w] = 0 => handlers'[i][w] = 0]_vars

-----------------------------------------------------------------------------
(* The inductive invariant the proofs of the safety properties rest on.       *)

\* A lock's owner is the thread whose program counter says so, and a controller's
\* goroutine makes a call only once the controller has failed.
LocksInv ==
    /\ \A t \in Threads : eMx = t <=> pc[t] \in StopPcs
    /\ \A t \in Threads, i \in Instances :
        cMx[i] = t <=> pc[t] \in WritePcs /\ ctl[t] = i
    /\ \A i \in Instances : phase[i] # "failed" => pc[i] \in {"idle", "done"}

\* Sources are bound to informers that exist or have existed.
SourcesInv ==
    /\ LiveIsActive
    /\ \A g \in live : gen[g] > 0
    /\ \A i \in Instances, w \in WatchID : sources[i][w] <= gen[w.gvk]

\* StartWatches doesn't start a watch that works: whatever it is about to start
\* has no source, or a source whose informer was removed.
StartWatchesInv ==
    \A t \in Threads :
        /\ pc[t] \in {"sw_loop", "sw_watch"} =>
            \A w \in todo[t] : w.gvk \notin snap[t] => ~Attached(ctl[t], w)
        /\ pc[t] = "sw_watch" =>
            /\ ~Attached(ctl[t], inf[t].wid)
            /\ 0 < inf[t].gen /\ inf[t].gen <= gen[inf[t].wid.gvk]

\* The sources of a controller that waits have not been started, and a source
\* that isn't recorded is no started source.
StartedInv ==
    \A i \in Instances, w \in WatchID :
        reg[i][w] => phase[i] \notin {"unused", "waiting"} /\ sources[i][w] # 0

\* The registry: names and instances agree, and Stop holds a registered one.
RegistryInv ==
    /\ \A n \in Names : controllers[n] # None =>
        /\ nameOf[controllers[n]] = n
        /\ phase[controllers[n]] # "unused"
        /\ ~cancelled[controllers[n]]
    /\ \A i \in Instances : phase[i] # "unused" => nameOf[i] \in Names
    /\ \A i \in Instances : phase[i] = "unused" => ~cancelled[i]
    /\ \A t \in Threads : pc[t] \in StopPcs =>
        /\ nameOf[ctl[t]] \in Names
        /\ controllers[nameOf[ctl[t]]] = ctl[t]

\* OneWatch and OneController with what makes them inductive.
IndInv ==
    /\ TypeOK
    /\ LocksInv
    /\ SourcesInv
    /\ StartWatchesInv
    /\ StartedInv
    /\ RegistryInv
    /\ OneWatch
    /\ OneController

-----------------------------------------------------------------------------
(* Liveness. Go's mutexes don't starve a waiting goroutine: a thread whose    *)
(* next step is possible again and again takes it. Nothing obliges a caller   *)
(* to call, a controller to fail, an election to end or a CRD to change.      *)

\* The steps of a controller's goroutine that only wait for locks.
GoroutineStep(i) ==
    \/ RunController(i) \/ ControllerReturns(i)
    \/ \E n \in Names : StopNoop(i, n) \/ StopBegin(i, n)
    \/ ThreadStep(i)

Fairness ==
    /\ \A t \in Callers : SF_vars(ThreadStep(t))
    /\ \A i \in Instances : SF_vars(GoroutineStep(i))

FairSpec == Spec /\ Fairness

\* Every call of the engine returns, whatever the other callers, the failing
\* controllers and the informer garbage collector do meanwhile.
CallsReturn ==
    \A t \in Threads :
        pc[t] \notin {"idle", "done"} ~> pc[t] \in {"idle", "done"}

\* A controller that failed doesn't stay registered: its goroutine's own call
\* of Stop, or another, makes IsRunning false for that instance.
FailedIsCleanedUp ==
    \A i \in Instances :
        phase[i] = "failed" ~> \A n \in Names : controllers[n] # i

-----------------------------------------------------------------------------
(* What a comment of engine.go says and the code doesn't do: the run of this  *)
(* property finds it violated.                                                *)

\* "Stop the controller's watches" (engine.go:386): once Stop has cancelled a
\* controller no event handler of it is left on a running informer. A call of
\* StartWatches that looked the controller up before Stop adds one after it.
NoHandlerOutlivesStop ==
    \A i \in Instances, w \in WatchID : cancelled[i] => handlers[i][w] = 0
=============================================================================
