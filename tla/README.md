# A TLA+ development of SHAHEEN-YS

The repository holds a small platform backend of its own (`platform/`) and two
large components it builds on: Crossplane (`components/crossplane`) and KubeVirt
(`components/kubevirt`). This directory specifies the parts of them in which
concurrency, failure and ordering decide whether they are right, checks small
instances with TLC, and proves the most important invariants for every instance
with TLAPS.

Paths below are relative to `src/`. `internal/` stands for
`components/crossplane/internal/`, `composite/` for
`internal/controller/apiextensions/composite/`, `backend/` for
`platform/backend/src/`.

## 1. Inventory

### Crossplane

| Component | State | Operations | Interacts with |
|---|---|---|---|
| Controller engine, `internal/engine/engine.go`, `source.go` | map of controllers; per controller its cancel function and started sources; an engine lock and a lock per controller | Start, Stop, IsRunning, StartWatches, StopWatches, GetWatches, the goroutine of each controller, the collector of CRD informers | called by the XRD, claim and watch-operation controllers; calls the tracking cache |
| Informer tracking cache, `internal/engine/cache.go` | map of active kinds, a read/write lock | Get, List, GetInformer, GetInformerForKind, RemoveInformer, ActiveInformers | wraps controller-runtime's cache |
| Circuit breaker, `internal/circuit` | per XR a token bucket, ring buffer of sources, open/closed | GetState, RecordEvent, ResetTarget, two MapFuncs | called from the event handlers the engine adds |
| Dependency tracker, `composite/dependency` | references of each XR and three indices over them | Track, Forget, Dependants, GVKs | XR reconciler, MapFuncs, watch collector |
| Dependency watches, `composite/watch` | none of its own | GarbageCollectWatchesNow, once per interval | engine and tracker |
| XR reconciler and function composer, `composite/` | in the API server: XRs with references to their composed resources, the resources with a controller reference | Reconcile: finalizer, Compose (observe, run functions, collect, write references, apply) | tracker, engine, functions |
| XRD controllers, `definition`, `offered` | in the API server | Reconcile | engine, registry of trackers |
| Claim controller, `internal/controller/apiextensions/claim` | in the API server: claims with a reference to their XR, XRs with a reference to their claim | Reconcile: finalizer, Sync (bind and apply), deletion of the XR | XRs, through two caches |
| Package manager, `internal/controller/pkg/manager` | in the API server: packages, numbered revisions that are active or not | Reconcile: make, activate, deactivate, collect revisions | revision reconciler, registries |
| Package revisions and dependencies, `internal/controller/pkg/revision`, `resolver`, `internal/dag` | in the API server; the Lock | establishment of objects, dependencies | API server |
| Usage protection, operations, function runner, RBAC | see `PROJECT.json` | | |

What is hard here: every XR controller has several workers; watch events come
from many goroutines; the engine has two levels of locks and gives them up
between looking and acting; informers are removed under the feet of the
controllers that use them; collectors act on readings that are already old; any
call to the API server may fail half way through a loop; every decision is taken
on caches that lag behind the reconciler's own writes.

What makes it right: a name has one controller; a watch has one event handler,
and has one as long as somebody needs it; stopping leaves nothing behind; the
indices answer what the references say; a circuit opens only after a burst and
does not stay open under load; a claim has one XR and leaves none behind; an XR
keeps track of its resources and deletes nobody else's; of a package's revisions
the current one alone stays active.

### KubeVirt

virt-api, virt-controller (VM, VMI, replica set, pool, migration, evacuation,
workload updates, all on top of `pkg/controller/expectations.go`), virt-handler
and virt-launcher on the nodes, virt-operator, virtctl. What is hard: decisions
taken on informer caches that lag behind the controller's own writes, and the
hand-over of a migration between two nodes. The replica set is the smallest user
of the expectations that are to make the lag harmless, and is modelled with them.

| Component | State | Operations |
|---|---|---|
| Expectations, `pkg/controller/expectations.go` | per controller: creations and deletions not yet observed, keys, a time | expect, observe, satisfied, forget |
| Replica set, `pkg/virt-controller/watch/replicaset` | in the API server; the VMI informer, the work queue | execute (scale, clean up, write the status), event handlers |

What makes it right: it scales only when it has seen what it did before, it never
waits for an event that will not come longer than the timeout, and it ends with
the number of VMIs its spec says.

### Platform

| Component | State | Operations |
|---|---|---|
| Authentication, `backend/server.js`, `routes/auth.routes.js`, `services/auth.service.js`, `middleware/`, `config/database.js` | tables `users` and `audit_logs` in SQLite, rate limiters in memory, a cookie in each browser | register, login, logout, me, shutdown by signal |
| Infrastructure resources, `routes/infrastructure.routes.js`, `services/infrastructure.service.js`, `services/audit.service.js`, `config/phase2-migration.js` | table `infrastructure_resources`, the audit log | create, update of the status, remove; not mounted by `server.js` at this commit, not modelled |
| Front end and scripts | none | static files, installation |

What is hard: handlers await bcrypt between reading and writing the database;
statements are durable one by one, so a crash falls between them.

The complete list, with what is left out and why, is `components` in
`PROJECT.json`; `hazards` there lists where the code is exposed and which
property would catch it.

## 2. Modules

| Module | Models | Extends |
|---|---|---|
| `Informers` | the tracking cache as its callers see it: each call one step | |
| `InformerTrackingCache` | the same calls split at the read and write lock | `Informers`, which it implements |
| `ControllerEngine` | the engine, its sources and its collector, on top of the informers | `Informers` |
| `CircuitBreaker` | token bucket breaker and MapFuncs | |
| `DependencyTracker` | the in-memory tracker and its indices | |
| `DependencyWatches` | XR reconciles, tracker, engine watches and the watch collector together | |
| `Expectations` | KubeVirt's expectations, as operators on a value | |
| `ReplicaSet` | the replica set controller with its informer and the API server | `Expectations` |
| `Claim` | the claim reconciler, two caches and the API server | |
| `Composer` | the function composer and the XR's finalizer, two caches and the API server | |
| `PackageManager` | the package reconciler, two caches and the API server | |
| `PlatformAuth` | authentication of the platform | |
| `...Proofs` | theorems about the module they are named after; `ControllerEngineProofs` also has those about `InformerTrackingCache` | that module |
| `MC...` | instances for TLC | that module |

Definitions whose names end in `_Something` next to a definition of the plain
name are that definition with a plausible mistake in it. They are not used by
the specifications; replacing the definition by one of them shows that the
property named in `mutants` of `PROJECT.json` depends on it.

### Informers and InformerTrackingCache

`active` is the map of the tracking cache, `live` the informers of the wrapped
controller-runtime cache, `gen` counts the informers each kind has had, so that a
source bound to a removed informer can be told from one bound to its successor.
`crds` and `deleted` are the API server and the CRD delete events under way.
The wrapped cache and the API server are external.

`InformerTrackingCache` has the lock: `readers`, `writer`, and per goroutine
where it is. A call looks at the map under the read lock (`GetRLock`,
`RemoveRLock`), either goes on under it or gives it up and waits for the write
lock (`WantLock`, `Lock`), changes the map, calls the wrapped cache (`CallGet`,
`CallRemove`) and returns. As in Go, a waiting writer keeps new readers out.
`before` is a history variable for the refinement mapping.

### ControllerEngine

A thread is a caller or the goroutine Start spawns for a controller. Its steps
end where the code takes or releases a lock or calls an informer: Stop is
`StopNoop`, `StopBegin` (engine lock), `StopLock` (controller lock),
`StopOneSource` or `StopOneSourceFails` per source, `StopDone`; StartWatches is
`SWBegin` (look-up), `SWSnapshot` (active informers), `SWCheck` (read lock),
`SWLock` (write lock, second snapshot), `SWGetInformer` or its failure,
`SWWatch` or its failure, `SWDone`; StopWatches is `TWBegin` .. `TWDone`.
The goroutine is `RunController`, `ControllerReturns`, `ControllerFails` and then
a Stop of its own. `GarbageCollectInformer` is the collector. The constant
`Failures` says which calls to controller-runtime may fail.

A source recorded before its controller runs is started when it does
(`StartKept`, called by `RunController` and `ControllerFails`): controller-runtime
keeps it until then. `reg` is `StoppableSource.reg`, which only a started source
has. Stopping a source that was not started takes nothing back (`source.go:69`), so
it is counted in `dropped` and adds its handler when the controller starts;
`MaxDropped` bounds how many such sources a watch may have.

Abstractions: the watches of a call are a set (the loop's order does not matter
to it); metrics and IsAuthorizedFor are left out.

### CircuitBreaker

A worker is a goroutine that runs a MapFunc: `GetState`, then `RecordLookup`
(RecordEvent under the breaker's lock, with the garbage collection of idle
targets), then `RecordEvent` (under the state's lock: refill, ring buffer, probe,
cooldown, closing, opening). A worker whose state object was removed from the map
in between records into an object nobody sees (`held`). Moments are represented
by their ages, so time goes on for ever in a finite state space; `AgeCap` is
beyond everything ages are compared with. `MaxLag` bounds the time a worker
spends between RecordEvent's two locks. The clock that NewMapFunc reads is merged
with the one RecordEvent reads under its first lock. The bucket is counted in units,
`Token` of them to a token and `Rate` of them refilled per tick: burst, refill rate
and cooldown are flags that nobody validates (`core.go:118-120`), so a cooldown may
refill less than a token. Then RecordEvent closes a circuit and opens it again at
once (`Reclosed`), with an emptied ring buffer and the source it was blamed on before.
`seen`, `closed` and `causes` are history variables.

### DependencyTracker

`Track` and `Forget` patch the indices `byName`, `byLabel` and `gvks` the way
`add` and `remove` do. `Dependants` and `GVKs` read them. The tracker's lock makes
each call one step.

### DependencyWatches

Reconciles of different XRs and the collector interleave; one XR is reconciled by
one worker at a time. A reconcile is `Begin` (get the XR; remove the finalizer of
a deleted one; `BeginPaused` returns early), `Forget`, or `Track` (the end of
Compose), `ReadKinds`,
`StartWatches`, with the failures in between. The collector is `GetWatches`,
`ReadTracker`, `StopWatches` or its failure. The tracker is reduced to the kinds
each XR refers to, which `DependencyTracker` shows to be what GVKs returns; the
engine to `sources`, the kinds with a recorded source (one handler each by OneWatch),
`dead`, those whose informer was removed with the CRD (`InformerRemoved`), and `active`,
the kinds with an informer, which another controller may have started again
(`InformerStarted`). As in the engine, StartWatches leaves a recorded source alone when
its kind is active. Gets of the XR from the cache are treated as current.

### Expectations and ReplicaSet

An expectation is a record of both counts, the keys in `uidStore` and whether the
timeout has passed; SetExpectations replaces it, CreationObserved and
DeletionObserved lower it. A VMI's change goes from `api` through `watch` into
`cache` (`Apply`), which the controller lists, and from there as one of `notices`
to the handlers (`Handle`), which lower the expectations and enqueue the replica
set. `execute` is `Begin` (reads the expectations), `List`, `Scale` up to its
calls, the calls of the goroutines one by one (`Create`, `Delete`, their failures
and timeouts), `Clean`, and `UpdateStatus`. Faults are the members of `Faults`:
refused calls, calls that take effect although they fail, a broken watch that is
replaced by a list (`Relist`), a restart, a failed write of the status. The timeout of
the expectations may pass at any time (`Expire`), also while the informer lags or calls
are under way. `doubt` is a history variable: from when the expectations expired with
something under way, or were replaced, miscounted or lost, until a sync begins after the
informer has caught up, ScalesOnSeen and NoOvershoot promise nothing; `ours` holds the
VMIs the controller deleted.

### Claim

`cm` and `xrs` are the API server's objects, `cmCache` and `xrCache` the caches,
each of which catches up on its own (`SeeClaim`, `SeeXR`). Of versions the model
keeps only whether a cache or a copy is the current one (`current`,
`gotCurrent`): that is what the API server compares. A reconcile is `Get`,
`GetXR`, then `Delete` and `RemoveFinalizer`, or `AddFinalizer`, `Bind` (Sync
writes the reference), `Apply` (Sync applies the XR) and `UpdateStatus`. `Abort`
ends it anywhere, by a crash or a failed call. Generated names are taken to be
new, as the code argues (`names/generate.go`). Syncing is the server-side one.
`blind` and `orphaned` are history variables: claims whose reconcile read an XR from
a cache that was behind, and the XRs such a reconcile left behind.

### Composer

One XR. An object is a kind and a name; `NameOf` is the resource name in the
composition it is for, so that two objects of one such name are of two kinds. `xr`
and `objs` are in the API server, `xrCache` and `cache` lag behind them; `wanted` is
what the function pipeline would return now. A reconcile is `Begin`, then
`RemoveFinalizer`, or `AddFinalizer` where it is missing, `Run` (observe, run the
pipeline), `Collect` and `Delete` for each undesired resource, `WriteRefs`, `Apply`
for each desired one, and `Finish`. `Abort` ends it anywhere, by a crash or a failed
call. Others delete, replace and orphan resources and delete the XR at any time.
Versions are not counted: a write that needs the current version is refused when
the copy differs from what is there. `forgotten` is a history variable: resources
whose reference was dropped though they exist, in one of three ways (see findings).

### PackageManager

One package; its tag points to a digest, and a revision is named after digest and
generation. `Begin` reads package, list and source; `Deactivate` writes one of the
other active revisions; `Collect` deletes the oldest one over the limit; `Apply`
numbers, activates and writes the current one; `UpdateStatus` ends the reconcile.
Changes of revisions reach the cache one by one (`events`), so a reconcile may list
without the revision the previous one made. `fresh` and `pFresh` say which copies
are the current versions. A deleted revision exists until its own reconciler
removes its finalizer (`RemoveRevision`).

### PlatformAuth

A request arrives in one step that ends where the handler awaits bcrypt
(`Refuse`, `Invalid`, `Register`, `Login`, `Logout`, `Me`), goes on after it
(`Hashed` or `InsertFails`, `Compared`), writes its audit row (`WriteAudit`, or
`AuditFails` when the INSERT throws) and is answered (`Respond`). A client may hang up
while its request awaits bcrypt (`HangUp`); the server then does not wait for that
request when it closes (`Drained`). `loop` is the handler that has the event loop between two
statements: only a crash can come there. `Normalized` is what normalizeEmail and
the service make of an address, passwords stand for themselves and their hashes.
Shutdown, exit after draining, crash and restart, the limiters' windows and the
expiry of the cookie are actions.

## 3. Runs

| Run | Properties | What it shows |
|---|---|---|
| `engine` | TypeOK, OneWatch, OneController, StopReleasesEverything | two callers, one name started twice, failing controllers and informers that come and go keep one handler per watch and one controller per name; a name is released only by a Stop that left nothing behind, except for sources that were stopped before they started |
| `engine_live` | CallsReturn, FailedIsCleanedUp | no call blocks for ever on the two levels of locks; a failed controller does not stay registered |
| `engine_orphan` (violation) | NoHandlerOutlivesStop | see findings |
| `cache` | ImplementsInformers, DeletesAreHandled | the split calls behave as the single steps the engine relies on; the collector gets its write lock |
| `breaker` | TypeOK, FirstOpenAfterBurst, TriggerIsRecent, AutoCloses | no circuit opens within its burst or is blamed on a source from before it last closed, though a cooldown refills less than a token; under load an open circuit closes |
| `tracker` | DependantsAreExact, GVKsAreExact | patched indices answer as the references would |
| `watches` | NeededIsWatched, UnneededIsStopped | a kind that an XR which isn't paused needs is watched again whatever the collector did, and when its informer was removed, unless StartWatches takes the dead source for a running one (see findings); an unneeded kind does not stay watched |
| `replicaset` | TypeOK, ScalesOnSeen, DeletionsWillBeReported, NoOvershoot, Converges | with a lagging informer the replica set does not act twice, until its expectations expire with something under way, or are replaced, miscounted or lost; whatever of that happens, it does not wait for what will not come, or miss its goal in the end |
| `claim` | TypeOK, NoXRLeaks, StaysBound, ClaimsSettle | crashes between the two writes of Sync and stale copies make no second XR and bind the claim to no other one; live claims are bound, deleted ones go |
| `composer` | TypeOK, NoResourceLeaks, DeletesOnlyOwn, StaysDeleted, Composes | whatever fails between the writes of a composition, no resource is created without a reference, and none is forgotten before it is deleted but for the three reasons (a) to (c) under findings; nobody else's is deleted, a deleted XR does not come back, and what is desired is what there is in the end, besides what was so forgotten |
| `packages` | TypeOK, OnlyCurrentIsActive, HistoryIsOrdered, ComesToRest | whatever users, conflicts, crashes and stale lists do, the manager comes to rest with one active revision of the highest number and a history within its limit |
| `auth` | TypeOK, OneAccountPerEmail, LoginKnowsAccounts, AnsweredIsAudited, NothingLostInSilence | racing registrations, failing INSERTs, clients that hang up, crashes and restarts: an account without its audit row was answered 500 or hit by a crash, and a request ends without an answer only in a crash or when its client has gone |

### Bounds, and why they are enough

- `engine`: two instances of one name are what it takes for one to be mistaken
  for the other; two callers plus two goroutines make four threads for two locks;
  `MaxInformers = 2` lets an informer be removed and replaced once; `MaxDropped = 1`
  lets a watch be started again after a source of it was stopped before it started. One
  watch: what several watches of one call do is, for any number, in the theorems.
  `engine_live` has one caller and the two goroutines and excludes failures of removing a handler: with them
  FailedIsCleanedUp does not hold, since the goroutine of a failed controller tries
  only once ("best effort").
- `cache`: two readers contend for both locks with the collector; the lock is the
  same for all kinds, so one kind is enough; it is removed and started again once.
- `breaker`: two workers, two sources for a ring buffer of two, a burst of one token
  of three units, one unit per tick, a cooldown of two ticks and a half-open interval of
  one: the bucket runs empty and refills, the ring wraps round, probes happen before the
  cooldown ends, a cooldown refills two thirds of a token, so that a circuit closes and
  opens again at once, and a circuit opens again before the ring has been overwritten. `MaxLag = 0`: the workers'
  locks interleave in any way, but within a tick; that they record with clocks that are
  behind each other is in the theorems, for any `MaxLag`. With one target
  nothing is collected: the collection of idle targets is in the model only.
- `tracker`: two XRs and every list of up to two composed and two required
  references out of a set that mixes names and labels, one namespace and all.
- `watches`: two XRs, one kind, whose informer is removed and started any number of
  times. `MaxPauses = 1`: one XR is paused once, for a while or for ever. `MaxCreations` bounds creations: XRs that are
  created and deleted for ever can be tracked each time the collector looks, and
  then a watch nobody needs is never seen to be unneeded; the bound says that this
  churn ends.
- `replicaset`: up to two replicas in bursts of two, so that a sync has two calls
  of which one fails; four VMIs, so that finished and deleted ones remain while new
  ones are made (no creation ever lacks a name); an informer two events behind; any two faults or outside changes,
  enough for a restart or a relist in the middle of a failed sync. Resyncs count as
  trouble only while the controller is at work, and the timeout of the expectations
  only when it passes with calls or events under way.
- `claim`: one claim, an XR of the user's and two generated names: a second XR
  would show. Four users' actions or crashes: create, delete, create again, and a
  crash. Two claims exceed the time a run may take; the claims of another name are
  in the model (`Contested`), and any number of claims may be given.
- `composer`: two resource names, one of which has a choice of two kinds: a resource
  is added, removed, or changes its kind while another one stays. Two outside changes
  or failures: a name is freed and taken by another, a crash follows a changed result,
  the XR is deleted in the middle of a reconcile.
- `packages`: three digests and two generations make six names; a history limit of
  one, which is the default, is reached in the initial state; two events of lag let
  two revisions be made that do not know of each other; two changes let the tag move
  away and back. Polls are left out when they would find nothing new.
- `auth`: three requests of one client (two that race and one that comes later),
  two spellings of one address, two passwords, limits of 3 and 2 that are reached,
  one crash.

### Fairness, and why the code justifies it

- Engine and cache: a goroutine whose next step is possible again and again takes
  it (strong fairness per thread): Go's mutexes hand over to the longest waiter
  after a millisecond and a waiting writer blocks new readers; calls of the
  wrapped cache end with their context. Nothing obliges a caller to call, a CRD to
  change or a controller to fail.
- Breaker: time passes without end (`[]<><<Tick>>_vars`: infinitely many steps
  take infinitely long) and a worker that is between its locks goes on. `BusySpec`
  adds that events keep coming for each XR.
- Watches: the work queue, the resync of the XRs' informer (`SyncPeriod`, `core.go:365`)
  and the collector's ticker run for
  ever, and a call that can fail does not fail for ever (strong fairness on its
  success).
- Replica set: the worker, the informer, its handlers, delayed retries, the clock
  and the removal of finalizers go on, and the replica set informer resyncs
  (weak fairness of each). No fault is fair: `MaxTrouble` says that they end.
  Convergence needs that: while every creation is refused nothing converges.
- Composer: the XR is reconciled again and again. It is polled, except with realtime
  compositions, which switch polling off (`definition/reconciler.go:608`,
  `composite/reconciler.go:911`); then changes of the XR and of its resources are events
  that enqueue it, and what is no event (the functions' change of mind, a failed status)
  waits for the resync of the XRs' informer (`SyncPeriod`, `core.go:365`, an hour by
  default). The steps of a reconcile follow one another, both caches catch up, and what is deleted is in the end removed. Functions may change
  their mind, and calls fail, `MaxTrouble` times.
- Claim and packages: the informers catch up, the worker takes the steps of a
  queued reconcile, errors and conflicts are requeued by controller-runtime, and
  what is deleted is in the end removed by its own reconciler. A package whose pull
  policy is Always is polled.

## 4. Findings

One is the counterexample of a run with `expect: violation`:

**`engine_orphan`**. StartWatches keeps the controller it looked up and takes
that controller's lock later. A Stop in between cancels and forgets the
controller; StartWatches then adds event handlers that no later call reaches.

Also observed while modelling, without a run of its own:

- Engine: a source that is stopped before its controller runs is stopped without effect
  (`source.go:69`) and is started with the controller all the same: its handler is called
  for ever although the watch is not recorded, and a watch that is started again has
  two. OneWatch counts these (`dropped`). The goroutine of a failed controller calls Stop by name; if the name was
  stopped and started again meanwhile, it stops the new one. A watch whose informer
  was removed is not started again once another reader has made the kind active, as
  StartWatches looks at the kind and not at the informer the source is bound to. The
  comment at `engine.go:478-483` says that this "will eventually self-correct"; nothing
  makes it so while the kind stays active. NeededIsWatched excuses it (`Mistaken`).
- Breaker: an open circuit that gets no further event is reported open for ever, as
  only RecordEvent closes it (AutoCloses is therefore checked under `BusySpec`); two
  workers may both let a probe through, as both decide on the state they read
  before; and a worker that records later than another, with an earlier reading of
  the clock, takes `Rate` times the difference out of the bucket, which is why
  FirstOpenAfterBurst has the term `Rate * MaxLag`. Where a cooldown refills less than a
  token, a circuit closes and opens again within one event, and keeps a source that it
  was blamed on before it closed, as the ring buffer is empty; `token_bucket.go:111` calls
  triggerSource the "most frequent watched resource when circuit opened".
- Replica set: cleanFinishedVmis calls ExpectDeletions (`replicaset.go:776`), which
  replaces the creations that scale has just expected. If its delete then fails
  because the VMI is gone, the expectations are met at once, and the repeated sync
  may scale on a list without the VMI just created. `expectations.go:63` says "A
  controller isn't synced till its expectations are either fulfilled, or expire".
  This is one of the things `doubt` excuses. Another is the timeout itself: five minutes
  after they were set the expectations no longer hold the controller back, also if the
  informer is still behind, and it may then create or delete too many, which later syncs
  undo. Finished VMIs are deleted only after a
  scale without error, so under a quota that refuses creations they stay. A failed
  write of the status is only logged, and made up for at the next resync.
- Claim: a claim that is deleted before the XR cache shows its new XR loses its
  finalizer, and the XR stays. `orphaned` excuses it in NoXRLeaks, and only when the
  reconcile really read the XR from a cache that was behind (`blind`). A claim whose
  deletion is to be in the foreground goes before its XR in the same way
  (`claim/reconciler.go:398`), so no property says that it waits.
- Composer: the reference to a resource that exists is dropped, and the resource
  stays behind, in three cases, which `forgotten` excuses. (a) The XR's cached copy
  is older than its last references, and the functions no longer desire what those
  name: the references are replaced without comparing versions. (b) A desired
  resource changes its kind: the collector looks for its name only. (c) A resource
  that lost its controller reference is not desired any more: the collector skips it
  and the same reconcile drops its reference, so that it is not "re-adopted and
  collected on a later reconcile once the reference is restored", as
  `composition_functions.go:983-987` says, unless the functions desire it again.
  NoResourceLeaks and Composes claim nothing of resources so forgotten.
- Packages: a revision that was made behind a lagging cache may be active together
  with its successor until the next reconcile. Three such revisions share a number,
  and the collector may then delete the current one, active or not, which is made
  again. The same happens without any lag after a rollback to the oldest digest: that
  revision keeps the lowest number until it is applied (`manager/reconciler.go:427-432`),
  and is active if a user had activated it. `package_types.go:40` speaks of "old inactive
  package revisions", so no property says that the collector spares active ones; what is
  checked is that the manager makes good for it until it comes to rest.
- Platform: an account whose audit row cannot be written is there although its
  registration was answered 500; NothingLostInSilence says so.
- Infrastructure resources: were the routes mounted as `phase2.sh:472-476` says, no
  change would be logged. `audit_logs` is created by `database.js` first, with other
  columns than `writeAudit` names, so that every change would be made and then
  answered with an error.

## 5. Proofs

Every theorem holds for all values of the constants that satisfy the named
assumptions (threads are distinct from each other and from None, bounds are
natural numbers, `Normalized` is a function).

**ControllerEngineProofs**: TypeCorrectness, OneWatchAlways, OneControllerAlways,
LiveIsActiveAlways, StopReleasesAlways. OneWatch is not inductive: a StartWatches
in its write lock could start a watch that works. `IndInv` adds
- `LocksInv`: who holds a lock is where its program counter says, so only one
  thread changes a controller's sources;
- `SourcesInv`: sources are bound to informers that exist or have existed, so a
  new informer has no source bound to it, and running informers are active;
- `StartedInv`: only recorded sources of controllers that run are started;
- `StartWatchesInv`: the watches still to be started, and not excused by the
  snapshot taken under the write lock, do not work. This needs LiveIsActive: a
  kind that was inactive then had no running informer;
- `RegistryInv`: names and instances agree, and the instance that Stop holds is
  registered, because it has held the engine's lock since it looked.

There is one lemma per part of `IndInv`, each with one step per action.
StopReleasesEverything is an action property proved from `IndInv`: when Stop
deletes the name it holds both locks, no source is left, and OneWatch turns that
into no handler left but those of sources that were stopped before they started.

The same module has the theorems about `InformerTrackingCache`:
ActiveInformersCompleteAlways and CacheRefinement. The
abstract map is the concrete one, except while a writer has changed it and not yet
called the wrapped cache (`AbstractActive`, by way of `before`). `CacheInv` states
that locks exclude each other, that what a reader saw in the map still holds while
it has its lock, and what the writer's one change was.

**DependencyTrackerProofs**: IndexInvariance, DependantsAreExactAlways,
CountInvariance, GVKsAreExactAlways. `IndexInv` says what each index holds in terms
of the references; `remove` of one label reference drops the XR's whole scope, and
the proof uses that Track and Forget always remove all of an XR's references before
they add any. A kind's count is a sum over all XRs, and sums need induction over
data; `CountInv` says instead that it is the cardinality of the set of all uses
(XR, list, position), which loses the XR's old uses and gains its new ones. That set
is finite at all times, also if there are infinitely many XRs.

**PlatformAuthProofs**: OneAccountPerEmailAlways and LoginKnowsAccountsAlways from
`AccountsInv`, AnsweredIsAuditedAlways and NothingLostInSilenceAlways from `LogInv` and
`LoopInv`, and TypeCorrectness. `AccountsInv` says that a registration that was or is about to be
answered 201 has its row, that a login compares with a row of its address that is
still there, and that requests counted as known were answered; with one row per
address the login compares with the row of that very registration. `LogInv` says of
each request what it left in the log, depending on where its handler is, and of each
row whose registration made it; that an answer is past its audit row does not follow
from the code of one handler, since a crash or a failed INSERT may come between its
statements. `LoopInv` says that a handler keeps the event loop from the users row to the
answer, so that a shutdown finds no request between the two INSERTs.

**CircuitBreakerProofs**: OpensAfterBurst, BlamedOnRecent, TypeCorrectness, for any
capacity, rate, cooldown, ring and number of goroutines; assumed is only that `AgeCap`
is beyond what ages are compared with. A bucket may go below zero and lose tokens when
goroutines record in the other order than they read the clock: `BurstInv` bounds
what they take by the refill of the lag that is not accounted for yet
(`Lag(lastRefill)`), so that several overtakings do not add up. For BlamedOnRecent,
`RingInv` says that the ring buffer holds only sources recorded since the circuit was
last closed. A circuit that closes and opens again within one event has an empty ring
and keeps its blame; as it was closed for nobody, the sources since it last let an
event through still include it. No relation of refill rate and cooldown is needed.

**ReplicaSetProofs**: ScalesOnSeenAlways, DeletionsReported, NeverOvershoots,
TypeCorrectness, for any number of VMIs, replicas, faults, calls in a burst and
events the informer is behind, the first and the third while not in doubt. The invariant has a part for each station of a change:
- `WatchInv`: what is in the watch of a VMI are later states than the cache has, in
  their order, and the last is the API server's. A relist keeps that;
- `NoticeInv`: notices lag behind the cache, which is why the list can be trusted
  when the expectations are met; a deletion that is noticed is final, and each
  creation is noticed once;
- `KnownInv`, `WorkerInv`: what the controller listed exists, or did, and its
  local variables agree with where it is;
- `DeletionInv`: the counter of deletions is the number of keys, and each key is
  still to be called, completed or reported;
- `TrustInv`: unless in doubt, `Counted`: creations still to be made or seen are at
  most those expected, and every deletion that the cache does not show is among the
  keys; and `SyncInv`: what the sync has read still covers what it is about to do,
  in particular the VMIs that run and those still to be created are at most
  spec.replicas.

DeletionsReported does not depend on `doubt`: it holds through expiries, timeouts of
calls, restarts and replaced expectations, too.

**ClaimProofs**: NoLeak, NeverRebound, TypeCorrectness, for any claims, XRs and
number of faults. `LeakInv` adds the finalizer to NoXRLeaks: a claim with a live XR
has it, so only a reconcile can make the claim go. `CurrentInv` says that current
copies are what there is; `BindInv` that between writing the reference and applying
the XR the claim stays and keeps that reference, because nobody else writes it once
it is set; `UnfinalizeInv` that a reconcile removes the finalizer only after it
deleted the XR, or found none, and that the latter was true unless it was `blind`.
NeverRebound needs that a write of an old copy is refused, and that a current copy has
the reference.

**ComposerProofs**: NothingLeaks, NoOtherIsDeleted, GoneStaysGone, TypeCorrectness,
for any resources, kinds, names and number of faults; NothingLeaks excepts the
resources that were forgotten in one of the ways (a) to (c) of the findings. `LifeInv` says how the cached
XR may differ from the XR, and that past the finalizer a reconcile can rely on the XR
to stay; `CollectInv` and `LeakInv` that what is no longer referred to was deleted
before, and that references are written before anything is applied; `OwnInv` that a
copy with a resource's UID does not mistake another's for the XR's, which makes the
precondition on the UID in the delete call sufficient.

**PackageManagerProofs**: OnlyCurrentIsActiveAlways, HistoryIsOrderedAlways,
TypeCorrectness, for any digests, generations, history limit, lag, and number of changes, failures and crashes; assumed is that there are more
digests than the limit, so that the initial history fits. The properties are about
states in which nothing is left to do, and nothing in such a state tells how it came
about. `PackageInv` does:
- `CacheFollows`: the last event of a revision that the cache has yet to see has it as
  it is, and the cache has the others as they are;
- `CopiesAreCurrent`: what the API server would accept from the reconcile is a copy of
  what is there;
- `NothingMissed`: every change makes an event, and seeing one enqueues the package.
  So if neither queue has anything, nothing has changed since the reconcile began, and
  it has all revisions as they are;
- `Established`: of such a reconcile, the first half leaves `Trimmed` and the second
  half `OnTop`. Had it found anything else it would have written a revision, and there
  would be an event. When it ends, that is what is left;
- `NumbersBounded`: a bound on the numbers, without which the types are not inductive.
  A revision gets a higher number than all others only if another one has the highest,
  and that takes a change of the name that reconciles use. `Spent` counts these; the
  name they use next may be one ahead of the rest, and a reconcile that began before
  the last change of the name one behind.

The initial history needs that digests can be
numbered, which is the library's theorem on bijections, and the highest number that it
exists, which is proved from the well-foundedness of strict inclusion on finite sets.

Only model-checked is liveness (CallsReturn, FailedIsCleanedUp, DeletesAreHandled,
AutoCloses, NeededIsWatched, UnneededIsStopped, Converges, ClaimsSettle, Composes,
ComesToRest), which the prover cannot do. Every invariant and every action property
of a passing run is a theorem.

## 6. Plan

In this order:

1. The definition reconciler with the registry of trackers, composed with
   `ControllerEngine`: when an XRD is offered, changed and deleted, its controller is
   started, restarted and stopped.
2. The dependency graph as operators against a reference definition; the Lock.
3. KubeVirt's migration controller with its limits.

Not planned: virt-handler and virt-launcher (libvirt, cgroups, system calls),
virt-operator and virtctl (installation, command line), the RBAC manager (one apply,
no state of its own), the front end and the scripts, generated and vendored code.

## 7. Running

    tlc -workers 2 -config engine.cfg MCControllerEngine
    tlapm ControllerEngineProofs.tla

`PROJECT.json` names the module of each configuration. `engine_orphan`
ends with a counterexample; all others end without an error within three minutes.
