----------------------------- MODULE ReplicaSet -----------------------------
(***************************************************************************)
(* The controller of VirtualMachineInstanceReplicaSets (kubevirt           *)
(* pkg/virt-controller/watch/replicaset) for one replica set: it lists the *)
(* VMIs in the informer's cache, creates missing ones, deletes excess and  *)
(* finished ones, and writes the status.                                   *)
(*                                                                         *)
(* The cache lags behind the API server: a change travels from watch to    *)
(* cache, where the controller lists it, and only then, as a notice, to    *)
(* the handlers that lower the expectations. The controller scales only    *)
(* when its expectations are met, which is to keep it from acting twice.   *)
(*                                                                         *)
(* Left out: adoption of orphans and label changes, the annotation of the  *)
(* API version and invalid specs (each ends a sync before it reads the     *)
(* expectations), the ready count and the reasons in the status.           *)
(***************************************************************************)
EXTENDS Expectations, Sequences, Functions

CONSTANTS
    MaxVMIs,      \* bound on the VMIs that exist, or are remembered, at a time
    MaxReplicas,  \* bound on spec.replicas
    Burst,        \* burstReplicas: bound on the calls of a sync
    Faults,       \* which of "create", "delete", "timeout", "relist", "restart",
                  \* "status" may go wrong
    MaxLag,       \* bound on the events that the informer is behind
    MaxTrouble    \* bound on the faults and outside changes of a behaviour

ASSUME ReplicaSetAssumption ==
    /\ {MaxVMIs, MaxReplicas, MaxLag, MaxTrouble} \subseteq Nat
    /\ Burst \in Nat \ {0}
    /\ Faults \subseteq {"create", "delete", "timeout", "relist", "restart", "status"}

\* VMIs have generated names. A name stands for one VMI until nothing remembers it.
VMIs == 1 .. MaxVMIs

\* "final" is a VMI that is Succeeded, Failed or has a terminating pod; "deleting"
\* one with a deletion timestamp; "none" is not (or no longer) in the API server.
States == {"none", "live", "final", "deleting"}

VARIABLES
    rs,       \* the replica set in its informer's cache
    status,   \* its status
    api,      \* the VMIs in the API server
    watch,    \* changes of VMIs that the cache has yet to see
    cache,    \* the VMIs in the informer's cache
    notices,  \* changes of the cache that the handlers have yet to hear of
    exp,      \* the controller's expectations
    queued,   \* whether the replica set is in the work queue
    retry,    \* whether it will be, after the delay of AddRateLimited
    pc,       \* where the worker is
    needsSync,  \* local variable of execute
    spec,     \* local variable of execute: the replica set it got
    list,     \* local variable of execute: the VMIs it listed
    creates,  \* creations that scale has still to do
    deletes,  \* deletions that scale or cleanFinishedVmis has still to do
    failed,   \* local variable of execute: scaleErr
    trouble,  \* how many faults and outside changes there were
    ours,     \* history: VMIs the controller deleted
    doubt     \* history: the expectations may be met too early

informer == <<watch, cache, notices>>
queue == <<queued, retry>>
worker == <<pc, needsSync, spec, list, creates, deletes, failed>>
history == <<ours, doubt>>
vars == <<rs, status, api, informer, exp, queue, worker, trouble, history>>

Specs == [replicas : 0 .. MaxReplicas, paused : BOOLEAN,
          state : {"live", "deleting", "gone"}]

TypeOK ==
    /\ rs \in Specs
    /\ status \in [replicas : 0 .. MaxVMIs, failure : BOOLEAN]
    /\ api \in [VMIs -> States]
    /\ watch \in Seq(VMIs \X States)
    /\ cache \in [VMIs -> States]
    /\ notices \in Seq(VMIs \X {"add", "update", "delete"})
    /\ exp \in Expectation(VMIs)
    /\ queued \in BOOLEAN
    /\ retry \in BOOLEAN
    /\ pc \in {"idle", "list", "scale", "scaling", "cleaning"}
    /\ needsSync \in BOOLEAN
    /\ spec \in Specs
    /\ list \in [VMIs -> States]
    /\ creates \in 0 .. MaxReplicas
    /\ deletes \in SUBSET VMIs
    /\ failed \in BOOLEAN
    /\ trouble \in 0 .. MaxTrouble
    /\ ours \in SUBSET VMIs
    /\ doubt \in BOOLEAN

NoVMIs == [v \in VMIs |-> "none"]

Init ==
    /\ rs \in [replicas : 0 .. MaxReplicas, paused : {FALSE}, state : {"live"}]
    /\ status = [replicas |-> 0, failure |-> FALSE]
    /\ api = NoVMIs
    /\ watch = << >>
    /\ cache = NoVMIs
    /\ notices = << >>
    /\ exp = NoExpectation
    /\ queued = TRUE
    /\ retry = FALSE
    /\ pc = "idle"
    /\ needsSync = FALSE
    /\ spec = rs
    /\ list = NoVMIs
    /\ creates = 0
    /\ deletes = {}
    /\ failed = FALSE
    /\ trouble = 0
    /\ ours = {}
    /\ doubt = FALSE

\* Those of a set of VMIs in state s.
In(f, s) == {v \in VMIs : f[v] = s}

Least(m, n) == IF m <= n THEN m ELSE n

\* A fault or an outside change happens.
Trouble ==
    /\ trouble < MaxTrouble
    /\ trouble' = trouble + 1

Fault(f) == f \in Faults /\ Trouble

\* The controller's informer has something yet to see or to report.
Lagging == watch # << >> \/ notices # << >>

-----------------------------------------------------------------------------
(* The API server and the users, external.                                 *)

\* VMI v becomes s, and its watchers will hear of it.
Becomes(v, s) ==
    /\ Len(watch) + Len(notices) < MaxLag
    /\ api' = [api EXCEPT ![v] = s]
    /\ watch' = Append(watch, <<v, s>>)

\* A guest ends.
Finish(v) ==
    /\ api[v] = "live"
    /\ Becomes(v, "final")
    /\ Trouble
    /\ UNCHANGED <<rs, status, cache, notices, exp, queue, worker, history>>

\* Somebody else deletes a VMI.
UserDelete(v) ==
    /\ api[v] \in {"live", "final"}
    /\ Becomes(v, "deleting")
    /\ Trouble
    /\ UNCHANGED <<rs, status, cache, notices, exp, queue, worker, history>>

\* The last finalizer of a deleted VMI is removed.
Remove(v) ==
    /\ api[v] = "deleting"
    /\ Becomes(v, "none")
    /\ UNCHANGED <<rs, status, cache, notices, exp, queue, worker, trouble, history>>

\* The replica set is changed or deleted; its handler enqueues it.
ChangeSpec ==
    /\ \/ rs.state = "live" /\ \E n \in 0 .. MaxReplicas : rs' = [rs EXCEPT !.replicas = n]
       \/ rs.state = "live" /\ rs' = [rs EXCEPT !.paused = ~@]
       \/ rs.state = "live" /\ rs' = [rs EXCEPT !.state = "deleting"]
       \/ rs.state = "deleting" /\ rs' = [rs EXCEPT !.state = "gone"]
    /\ queued' = TRUE
    /\ Trouble
    /\ UNCHANGED <<retry, status, api, informer, exp, worker, history>>

\* Its informer resyncs. (It counts as trouble while the controller is at work.)
Resync ==
    /\ rs.state # "gone"
    /\ ~queued
    /\ queued' = TRUE
    /\ IF pc = "idle" /\ ~Lagging THEN UNCHANGED trouble ELSE Trouble
    /\ UNCHANGED <<retry, rs, status, api, informer, exp, worker, history>>

\* A failed sync is to be repeated: its delay is over.
Retry ==
    /\ retry
    /\ retry' = FALSE
    /\ queued' = TRUE
    /\ IF Lagging THEN Trouble ELSE UNCHANGED trouble
    /\ UNCHANGED <<rs, status, api, informer, exp, worker, history>>

-----------------------------------------------------------------------------
(* The VMI informer, external, and the controller's handlers of its events. *)

\* What the handlers are told when the cache's state of a VMI changes from old to
\* new: an object with a deletion timestamp is a deletion to them.
Notice(old, new) ==
    CASE new \in {"deleting", "none"} -> "delete"
      [] new \in {"live", "final"} /\ old = "none" -> "add"
      [] OTHER -> "update"

\* The cache takes the next change.
Apply ==
    /\ watch # << >>
    /\ LET v == Head(watch)[1]
           s == Head(watch)[2]
       IN /\ cache' = [cache EXCEPT ![v] = s]
          /\ notices' = Append(notices, <<v, Notice(cache[v], s)>>)
    /\ watch' = Tail(watch)
    /\ UNCHANGED <<rs, status, api, exp, queue, worker, trouble, history>>

\* The orders of a set.
Orders(S) == Bijection(1 .. Cardinality(S), S)

\* The watch breaks and is replaced by a list: only the VMIs' last states are seen.
Relist ==
    /\ watch # << >>
    /\ Fault("relist")
    /\ \E o \in Orders({v \in VMIs : api[v] # cache[v]}) :
          watch' = [i \in DOMAIN o |-> <<o[i], api[o[i]]>>]
    /\ UNCHANGED <<rs, status, api, cache, notices, exp, queue, worker, history>>

\* Mutant of Observed: also an update counts as the observation of a creation.
Observed_Updates(kind, v) ==
    CASE kind = "delete" -> DeletionObserved(exp, v)
      [] OTHER -> CreationObserved(exp)

\* addVirtualMachine, updateVirtualMachine and deleteVirtualMachine: what they make
\* of the expectations.
Observed(kind, v) ==
    CASE kind = "add" -> CreationObserved(exp)
      [] kind = "delete" -> DeletionObserved(exp, v)
      [] kind = "update" -> exp

\* A handler runs: unless the replica set is gone, it is enqueued.
Handle ==
    /\ notices # << >>
    /\ notices' = Tail(notices)
    /\ IF rs.state = "gone"
          THEN UNCHANGED <<exp, queued>>
          ELSE /\ exp' = Observed(Head(notices)[2], Head(notices)[1])
               /\ queued' = TRUE
    /\ UNCHANGED <<retry, rs, status, api, watch, cache, worker, trouble, history>>

\* Events or calls that the expectations count are still under way.
UnderWay == Lagging \/ creates > 0 \/ deletes # {}

\* ExpectationsTimeout passes, whether or not the informer lags or calls are under way.
\* (It counts as trouble when they are: the timeout is minutes long.)
Expire ==
    /\ exp.set /\ ~exp.expired /\ ~Fulfilled(exp)
    /\ exp' = [exp EXCEPT !.expired = TRUE]
    /\ doubt' = (doubt \/ UnderWay)
    /\ IF UnderWay THEN Trouble ELSE UNCHANGED trouble
    /\ UNCHANGED <<rs, status, api, informer, queue, worker, ours>>

-----------------------------------------------------------------------------
(* execute.                                                                *)

\* The worker takes the key, and reads the expectations before it lists the VMIs.
\* Of a replica set that is gone it only forgets the expectations.
Begin ==
    /\ pc = "idle"
    /\ queued
    /\ queued' = FALSE
    /\ IF rs.state = "gone"
          THEN exp' = NoExpectation /\ UNCHANGED <<pc, needsSync, spec>>
          ELSE /\ needsSync' = SatisfiedExpectations(exp)
               /\ spec' = rs
               /\ pc' = "list"
               /\ UNCHANGED exp
    /\ doubt' = (doubt /\ Lagging)
    /\ UNCHANGED <<retry, rs, status, api, informer, list, creates, deletes, failed, trouble, ours>>

List ==
    /\ pc = "list"
    /\ list' = cache
    /\ pc' = IF needsSync /\ ~spec.paused /\ spec.state = "live" THEN "scale" ELSE "cleaning"
    /\ UNCHANGED <<rs, status, api, informer, exp, queue, needsSync, spec, creates, deletes,
                   failed, trouble, history>>

activeVmis == In(list, "live")
finishedVmis == In(list, "final")

\* Expectations are set. They replace the ones before: those of cleanFinishedVmis make
\* the controller forget the creations of scale that the informer has yet to report.
Expect(e) ==
    /\ exp' = e
    /\ doubt' = (doubt \/ (Lagging /\ ~Fulfilled(exp)))

\* Mutant of Missing: the sign is lost.
Missing_Sum == spec.replicas + Cardinality(activeVmis)

\* How many VMIs scale creates.
Missing == Least(spec.replicas - Cardinality(activeVmis), Burst)

\* How many it deletes.
Excess == Least(Cardinality(activeVmis) - spec.replicas, Burst)

\* scale up to its calls. The candidates for deletion are the first in the list,
\* whose order is arbitrary.
Scale ==
    /\ pc = "scale"
    /\ \/ /\ Missing > 0
          /\ Expect(ExpectCreations(exp, Missing))
          /\ creates' = Missing
          /\ UNCHANGED deletes
       \/ \E S \in SUBSET activeVmis :
          /\ Excess > 0 /\ Cardinality(S) = Excess
          /\ Expect(ExpectDeletions(exp, S))
          /\ deletes' = S
          /\ UNCHANGED creates
       \/ /\ Cardinality(activeVmis) = spec.replicas
          /\ UNCHANGED <<exp, doubt, creates, deletes>>
    /\ pc' = "scaling"
    /\ UNCHANGED <<rs, status, api, informer, queue, needsSync, spec, list, failed, trouble, ours>>

\* Names that nothing remembers.
Free ==
    {v \in VMIs : /\ v \notin exp.uids \cup deletes
                  /\ "none" = api[v] /\ "none" = cache[v] /\ "none" = list[v]
                  /\ \A i \in DOMAIN watch : watch[i][1] # v
                  /\ \A i \in DOMAIN notices : notices[i][1] # v}

New == CHOOSE v \in Free : \A w \in Free : v <= w

\* One of the goroutines of scale creates a VMI.
Create ==
    /\ creates > 0
    /\ Free # {}
    /\ Becomes(New, "live")
    /\ ours' = ours \ {New}
    /\ creates' = creates - 1
    /\ UNCHANGED <<rs, status, cache, notices, exp, queue, pc, needsSync, spec, list, deletes,
                   failed, trouble, doubt>>

\* Its call fails: the server refuses.
CreateFails ==
    /\ creates > 0
    /\ Fault("create")
    /\ exp' = CreationObserved(exp)
    /\ creates' = creates - 1
    /\ failed' = TRUE
    /\ UNCHANGED <<rs, status, api, informer, queue, pc, needsSync, spec, list, deletes, history>>

\* Its call fails for the controller, but the VMI is created.
CreateTimesOut ==
    /\ creates > 0
    /\ Free # {}
    /\ Fault("timeout")
    /\ Becomes(New, "live")
    /\ ours' = ours \ {New}
    /\ exp' = CreationObserved(exp)
    /\ creates' = creates - 1
    /\ failed' = TRUE
    /\ doubt' = TRUE
    /\ UNCHANGED <<rs, status, cache, notices, queue, pc, needsSync, spec, list, deletes>>

\* One of the goroutines of scale or cleanFinishedVmis deletes a VMI. The deletion of
\* one that is being deleted changes nothing.
Delete(v) ==
    /\ v \in deletes
    /\ deletes' = deletes \ {v}
    /\ \/ /\ api[v] \in {"live", "final"}
          /\ Becomes(v, "deleting")
          /\ ours' = ours \cup {v}
       \/ /\ api[v] = "deleting"
          /\ UNCHANGED <<api, watch, ours>>
    /\ UNCHANGED <<rs, status, cache, notices, exp, queue, pc, needsSync, spec, list, creates,
                   failed, trouble, doubt>>

\* Its call fails: the VMI is not found, or the server refuses.
DeleteFails(v) ==
    /\ v \in deletes
    /\ deletes' = deletes \ {v}
    /\ IF api[v] = "none" THEN UNCHANGED trouble ELSE Fault("delete")
    /\ exp' = DeletionObserved(exp, v)
    /\ failed' = TRUE
    /\ UNCHANGED <<rs, status, api, informer, queue, pc, needsSync, spec, list, creates, history>>

\* Its call fails for the controller, but the VMI is being deleted.
DeleteTimesOut(v) ==
    /\ v \in deletes
    /\ api[v] \in {"live", "final"}
    /\ deletes' = deletes \ {v}
    /\ Fault("timeout")
    /\ Becomes(v, "deleting")
    /\ exp' = DeletionObserved(exp, v)
    /\ failed' = TRUE
    /\ ours' = ours \cup {v}
    /\ doubt' = TRUE
    /\ UNCHANGED <<rs, status, cache, notices, queue, pc, needsSync, spec, list, creates>>

\* All goroutines of scale are done; cleanFinishedVmis up to its calls.
Clean ==
    /\ pc = "scaling" /\ creates = 0 /\ deletes = {}
    /\ pc' = "cleaning"
    /\ IF finishedVmis = {} \/ failed
          THEN UNCHANGED <<exp, doubt, deletes>>
          ELSE \E S \in SUBSET finishedVmis :
               /\ Cardinality(S) = Least(Cardinality(finishedVmis), Burst)
               /\ Expect(ExpectDeletions(exp, S))
               /\ deletes' = S
    /\ UNCHANGED <<rs, status, api, informer, queue, needsSync, spec, list, creates, failed,
                   trouble, ours>>

\* The status that updateStatus wants.
NewStatus == [replicas |-> Cardinality(activeVmis), failure |-> failed]

\* updateStatus, whose failure is only logged, ends execute; Execute enqueues the
\* key again when scaleErr is set. The write of the status enqueues it, too.
UpdateStatus ==
    /\ pc = "cleaning" /\ deletes = {}
    /\ \/ /\ status' = NewStatus
          /\ queued' = (queued \/ status # NewStatus)
          /\ UNCHANGED trouble
       \/ /\ status # NewStatus
          /\ Fault("status")
          /\ UNCHANGED <<status, queued>>
    /\ retry' = (retry \/ failed)
    /\ pc' = "idle"
    /\ needsSync' = FALSE
    /\ list' = NoVMIs
    /\ failed' = FALSE
    /\ UNCHANGED <<rs, api, informer, exp, spec, creates, deletes, history>>

\* virt-controller crashes and starts again: it waits until the cache has listed the
\* VMIs, not until the handlers have heard of them.
Restart ==
    /\ Fault("restart")
    /\ cache' = api
    /\ watch' = << >>
    /\ \E o \in Orders({v \in VMIs : api[v] # "none"}) :
          notices' = [i \in DOMAIN o |-> <<o[i], Notice("none", api[o[i]])>>]
    /\ exp' = NoExpectation
    /\ queued' = (rs.state # "gone")
    /\ retry' = FALSE
    /\ pc' = "idle"
    /\ needsSync' = FALSE
    /\ list' = NoVMIs
    /\ creates' = 0
    /\ deletes' = {}
    /\ failed' = FALSE
    /\ doubt' = TRUE
    /\ UNCHANGED <<rs, status, api, spec, ours>>

-----------------------------------------------------------------------------
Sync ==
    \/ Begin \/ List \/ Scale \/ Create \/ Clean
    \/ \E v \in VMIs : Delete(v) \/ (api[v] = "none" /\ DeleteFails(v))
    \/ UpdateStatus

Outside ==
    \/ \E v \in VMIs : Finish(v) \/ UserDelete(v)
    \/ ChangeSpec

Failure ==
    \/ CreateFails \/ CreateTimesOut
    \/ \E v \in VMIs : DeleteFails(v) \/ DeleteTimesOut(v)
    \/ Relist \/ Restart

Next ==
    \/ Sync \/ Apply \/ Handle \/ Expire \/ Resync \/ Retry
    \/ \E v \in VMIs : Remove(v)
    \/ Outside \/ Failure

Spec == Init /\ [][Next]_vars

\* The worker, the informer, its handlers, the clock and the removal of finalizers go
\* on, and the informer of replica sets resyncs.
FairSpec ==
    /\ Spec
    /\ WF_vars(Sync)
    /\ WF_vars(Apply)
    /\ WF_vars(Handle)
    /\ WF_vars(Expire)
    /\ WF_vars(Resync)
    /\ WF_vars(Retry)
    /\ \A v \in VMIs : WF_vars(Remove(v))

-----------------------------------------------------------------------------
(* Properties.                                                             *)

\* scale acts on a list in which every VMI that the controller created is present,
\* and every one that it deleted is known to be deleted. The expectations promise this
\* only until they expire (expectations.go: "either fulfilled, or expire naturally"), so
\* it is not claimed in doubt: from the step in which they expired with calls or events
\* under way, were replaced while the informer lagged, miscounted a call that timed out,
\* or were lost in a restart, to a sync that begins when the informer has caught up.
ScalesOnSeen ==
    pc = "scale" /\ ~doubt =>
        /\ \A v \in VMIs : api[v] = "live" => list[v] # "none"
        /\ \A v \in ours : list[v] \notin {"live", "final"}

\* Unless in doubt for one of the same reasons, no creation exceeds spec.replicas.
NoOvershoot ==
    [][\A v \in VMIs : api[v] = "none" /\ api'[v] = "live" =>
           doubt \/ Cardinality(In(api', "live")) <= spec.replicas]_vars

\* Every deletion that the controller waits for is one whose report is still to come:
\* no sync is put off for an event that was handled, or never sent.
DeletionsWillBeReported ==
    rs.state # "gone" /\ exp.del > 0 =>
        /\ exp.del = Cardinality(exp.uids)
        /\ \A v \in exp.uids :
              \/ v \in deletes
              \/ api[v] = "deleting"
              \/ \E i \in DOMAIN watch : watch[i][1] = v
              \/ \E i \in DOMAIN notices : notices[i] = <<v, "delete">>

\* The number of running VMIs, the cleanup of finished ones and the status become
\* what the spec says, and stay so.
Converged ==
    rs.state = "live" /\ ~rs.paused =>
        /\ Cardinality(In(api, "live")) = rs.replicas
        /\ In(api, "final") = {}
        /\ status = [replicas |-> rs.replicas, failure |-> FALSE]

Converges == <>[]Converged
=============================================================================
