-------------------------------- MODULE Claim -------------------------------
(***************************************************************************)
(* The reconciler of composite resource claims (crossplane                 *)
(* apiextensions/claim): it binds each claim to a composite resource (XR), *)
(* which it creates when there is none, and deletes with its claim.        *)
(*                                                                         *)
(* Claims and XRs are read from caches that lag behind the API server,     *)
(* each on its own; a claim is written only if the copy that was read is   *)
(* current, an XR is patched or deleted by its name. A reconcile may end   *)
(* at every step, by a crash or a failed call, and start again.            *)
(*                                                                         *)
(* Left out: the fields that are copied between claim and XR, connection   *)
(* secrets, paused claims, and the upgrade of managed fields. Syncing is   *)
(* that of the ServerSideCompositeSyncer.                                  *)
(***************************************************************************)
EXTENDS Integers

CONSTANTS
    Claims,    \* names of claims
    XRs,       \* names of XRs
    Static,    \* those of them that users create
    None,      \* no claim, or no XR
    MaxTrouble \* bound on the users' actions and the crashes of a behaviour

ASSUME ClaimAssumption ==
    /\ Static \subseteq XRs
    /\ Claims \cap XRs = {}   \* as they are of different kinds
    /\ None \notin Claims \cup XRs
    /\ MaxTrouble \in Nat

VARIABLES
    cm,        \* the claims in the API server
    cmCache,   \* the claims in the cache
    current,   \* the claims and XRs of which the caches have the current version
    xrs,       \* the XRs in the API server
    xrCache,   \* the XRs in the cache
    queued,    \* the claims in the work queue
    pc,        \* where the reconcile of each claim is
    got,       \* its local variable cm
    gotCurrent,  \* the claims whose reconcile's copy is current
    gotXR,     \* its local variable xr
    trouble,   \* how many of them there were
    blind,     \* history: claims whose reconcile read an XR that the cache is behind of
    orphaned   \* history: XRs whose claim went without having seen them

api == <<cm, xrs>>
caches == <<cmCache, xrCache, current>>
locals == <<pc, got, gotCurrent, gotXR>>
history == <<blind, orphaned>>
vars == <<api, caches, queued, locals, trouble, history>>

ClaimObject ==
    [state : {"none", "live", "deleting"},
     finalizer : BOOLEAN,
     ref : XRs \cup {None},        \* spec.resourceRef
     foreground : BOOLEAN,         \* spec.compositeDeletePolicy
     synced : {"unknown", "no", "yes"}]  \* its condition

XRObject == [state : {"none", "live", "deleting"}, claim : Claims \cup {None}]

TypeOK ==
    /\ cm \in [Claims -> ClaimObject]
    /\ cmCache \in [Claims -> ClaimObject]
    /\ current \in SUBSET (Claims \cup XRs)
    /\ xrs \in [XRs -> XRObject]
    /\ xrCache \in [XRs -> XRObject]
    /\ queued \in SUBSET Claims
    /\ pc \in [Claims -> {"idle", "xr", "delete", "unfinalize", "finalize", "bind", "apply", "status"}]
    /\ got \in [Claims -> ClaimObject]
    /\ gotCurrent \in SUBSET Claims
    /\ gotXR \in [Claims -> XRObject]
    /\ trouble \in 0 .. MaxTrouble
    /\ blind \in SUBSET Claims
    /\ orphaned \in SUBSET XRs

NoClaim ==
    [state |-> "none", finalizer |-> FALSE, ref |-> None, foreground |-> FALSE, synced |-> "unknown"]

NoXR == [state |-> "none", claim |-> None]

Init ==
    /\ cm = [c \in Claims |-> NoClaim]
    /\ cmCache = cm
    /\ current = Claims \cup XRs
    /\ xrs = [x \in XRs |-> IF x \in Static THEN [NoXR EXCEPT !.state = "live"] ELSE NoXR]
    /\ xrCache = xrs
    /\ queued = {}
    /\ pc = [c \in Claims |-> "idle"]
    /\ got = cm
    /\ gotCurrent = {}
    /\ gotXR = [c \in Claims |-> NoXR]
    /\ trouble = 0
    /\ blind = {} /\ orphaned = {}

Trouble ==
    /\ trouble < MaxTrouble
    /\ trouble' = trouble + 1

-----------------------------------------------------------------------------
(* The API server, external.                                               *)

\* Claim c is written as o. A write that changes nothing makes no new version; of a
\* new one the cache is behind, and so are the copies of readers other than by.
Write(c, o, by) ==
    /\ cm' = [cm EXCEPT ![c] = o]
    /\ current' = IF o = cm[c] THEN current ELSE current \ {c}
    /\ gotCurrent' = IF o = cm[c] THEN gotCurrent ELSE gotCurrent \ ({c} \ by)

\* The same of XR x. Nobody's writes of XRs depend on the version.
WriteXR(x, o) ==
    /\ xrs' = [xrs EXCEPT ![x] = o]
    /\ current' = IF o = xrs[x] THEN current ELSE current \ {x}

\* Users create a claim, perhaps for one of their XRs.
CreateClaim(c, x, fg) ==
    /\ cm[c].state = "none"
    /\ Trouble
    /\ Write(c, [NoClaim EXCEPT !.state = "live", !.ref = x, !.foreground = fg], {})
    /\ UNCHANGED <<xrs, cmCache, xrCache, queued, pc, got, gotXR, history>>

\* Users delete a claim.
DeleteClaim(c) ==
    /\ cm[c].state = "live"
    /\ Trouble
    /\ Write(c, IF cm[c].finalizer THEN [cm[c] EXCEPT !.state = "deleting"] ELSE NoClaim, {})
    /\ UNCHANGED <<xrs, cmCache, xrCache, queued, pc, got, gotXR, history>>

\* Users change something else of a claim: only its version changes.
EditClaim(c) ==
    /\ cm[c].state # "none"
    /\ Trouble
    /\ current' = current \ {c}
    /\ gotCurrent' = gotCurrent \ {c}
    /\ UNCHANGED <<api, cmCache, xrCache, queued, pc, got, gotXR, history>>

\* Users delete an XR.
DeleteXR(x) ==
    /\ xrs[x].state = "live"
    /\ Trouble
    /\ WriteXR(x, [xrs[x] EXCEPT !.state = "deleting"])
    /\ UNCHANGED <<cm, cmCache, xrCache, queued, locals, history>>

\* The XR's own reconciler removes its finalizer. The claim that the XR referred to
\* is kept for the watchers, who are told the last state of what is deleted.
RemoveXR(x) ==
    /\ xrs[x].state = "deleting"
    /\ WriteXR(x, [xrs[x] EXCEPT !.state = "none"])
    /\ UNCHANGED <<cm, cmCache, xrCache, queued, locals, trouble, history>>

\* The claims' informer sees the current version of c, which is enqueued. What it
\* sees in between makes no difference to those who do not look.
SeeClaim(c) ==
    /\ c \notin current
    /\ cmCache' = [cmCache EXCEPT ![c] = cm[c]]
    /\ current' = current \cup {c}
    /\ queued' = queued \cup {c}
    /\ UNCHANGED <<api, xrCache, locals, trouble, history>>

\* The XRs' informer sees x: EnqueueForClaim enqueues the claim it refers to.
SeeXR(x) ==
    /\ x \notin current
    /\ current' = current \cup {x}
    /\ xrCache' = [xrCache EXCEPT ![x] = xrs[x]]
    /\ queued' = queued \cup ({xrCache[x].claim, xrs[x].claim} \ {None})
    /\ UNCHANGED <<api, cmCache, locals, trouble, history>>

-----------------------------------------------------------------------------
(* Reconcile.                                                              *)

Goto(c, l) == pc' = [pc EXCEPT ![c] = l]

\* Mutant of Requeue: an error is not returned.
Requeue_Dropped(c) == Goto(c, "idle") /\ UNCHANGED queued

\* The reconcile of c ends, and is repeated.
Requeue(c) ==
    /\ Goto(c, "idle")
    /\ queued' = queued \cup {c}

\* Mutant of Writable: an old copy can be written, too.
Writable_Always(c) == cm[c].state # "none"

\* Whether the API server accepts the reconcile's copy of c.
Writable(c) == c \in gotCurrent /\ cm[c].state # "none"

\* The copy of c is written as o, and the reconcile goes on at l; or it is not
\* current, and the reconcile is repeated.
Update(c, o, l) ==
    IF Writable(c)
        THEN /\ Write(c, o, {c})
             /\ got' = [got EXCEPT ![c] = o]
             /\ Goto(c, l)
             /\ UNCHANGED queued
        ELSE /\ Requeue(c)
             /\ UNCHANGED <<cm, current, got, gotCurrent>>

Get(c) ==
    /\ pc[c] = "idle"
    /\ c \in queued
    /\ queued' = queued \ {c}
    /\ got' = [got EXCEPT ![c] = cmCache[c]]
    /\ gotCurrent' = IF c \in current THEN gotCurrent \cup {c} ELSE gotCurrent \ {c}
    /\ Goto(c, IF cmCache[c].state = "none" THEN "idle" ELSE "xr")
    /\ UNCHANGED <<api, caches, gotXR, trouble, history>>

\* The XR that c refers to, if there is one in the cache.
XROf(c) == IF got[c].ref = None THEN NoXR ELSE xrCache[got[c].ref]

Created(xr) == xr.state # "none"

\* Where the reconcile goes on after it got the XR. It ends when the XR refers to
\* another claim.
AfterGetXR(c, xr) ==
    IF Created(xr) /\ xr.claim \notin {None, c} THEN "unbound"
    ELSE IF got[c].state # "deleting" THEN "finalize"
    ELSE IF Created(xr) THEN "delete" ELSE "unfinalize"

GetXR(c) ==
    /\ pc[c] = "xr"
    /\ gotXR' = [gotXR EXCEPT ![c] = XROf(c)]
    /\ IF AfterGetXR(c, XROf(c)) = "unbound"
          THEN /\ Goto(c, "idle")
               /\ IF Writable(c)
                     THEN Write(c, [got[c] EXCEPT !.synced = "no"], {c})
                     ELSE UNCHANGED <<cm, current, gotCurrent>>
          ELSE /\ Goto(c, AfterGetXR(c, XROf(c)))
               /\ UNCHANGED <<cm, current, gotCurrent>>
    /\ blind' = IF got[c].ref \in XRs \ current THEN blind \cup {c} ELSE blind \ {c}
    /\ UNCHANGED <<xrs, cmCache, xrCache, queued, got, trouble, orphaned>>

\* Where a reconcile goes on after it deleted the XR: it awaits the XR's end when
\* the deletion is to be in the foreground.
AfterDelete(c) == IF got[c].foreground THEN "idle" ELSE "unfinalize"

\* The XR is deleted, unless that was done before and is awaited.
Delete(c) ==
    /\ pc[c] = "delete"
    /\ LET x == got[c].ref
           awaited == gotXR[c].state = "deleting" /\ got[c].foreground
       IN WriteXR(x, IF xrs[x].state = "live" /\ ~awaited
                        THEN [xrs[x] EXCEPT !.state = "deleting"] ELSE xrs[x])
    /\ Goto(c, AfterDelete(c))
    /\ queued' = IF AfterDelete(c) = "idle" THEN queued \cup {c} ELSE queued
    /\ UNCHANGED <<cm, cmCache, xrCache, got, gotCurrent, gotXR, trouble, history>>

\* The claim's finalizer is removed: it is gone.
RemoveFinalizer(c) ==
    /\ pc[c] = "unfinalize"
    /\ Update(c, NoClaim, "idle")
    /\ orphaned' = IF Writable(c) /\ ~Created(gotXR[c]) /\ c \in blind
                      THEN orphaned \cup ({got[c].ref} \ {None}) ELSE orphaned
    /\ UNCHANGED <<xrs, cmCache, xrCache, gotXR, trouble, blind>>

\* AddFinalizer writes nothing when the copy has the finalizer.
AddFinalizer(c) ==
    /\ pc[c] = "finalize"
    /\ IF got[c].finalizer
          THEN Goto(c, "bind") /\ UNCHANGED <<cm, current, got, gotCurrent, queued>>
          ELSE Update(c, [got[c] EXCEPT !.finalizer = TRUE], "bind")
    /\ UNCHANGED <<xrs, cmCache, xrCache, gotXR, trouble, history>>

\* Names that are not in use: GenerateName's are assumed to be new.
NewNames ==
    {x \in XRs \ (Static \cup orphaned) :
        /\ ~Created(xrs[x]) /\ x \in current
        /\ \A c \in Claims : x \notin {cm[c].ref, cmCache[c].ref, got[c].ref}}

\* Mutant of Name: an XR is named as its claim.
Name_Claim(c) == c

\* Mutant of Name: an XR that was not found gets a new name.
Name_UnlessFound(c) == IF Created(gotXR[c]) THEN got[c].ref ELSE CHOOSE x \in NewNames : TRUE

\* The name of the XR to apply.
Name(c) == IF got[c].ref # None THEN got[c].ref ELSE CHOOSE x \in NewNames : TRUE

\* Sync saves the reference to the XR first,
Bind(c) ==
    /\ pc[c] = "bind"
    /\ got[c].ref = None /\ Writable(c) => NewNames # {}
    /\ Update(c, [got[c] EXCEPT !.ref = Name(c)], "apply")
    /\ UNCHANGED <<xrs, cmCache, xrCache, gotXR, trouble, history>>

\* then it applies the XR, whatever there is of that name.
Apply(c) ==
    /\ pc[c] = "apply"
    /\ LET x == got[c].ref
       IN WriteXR(x, [state |-> IF Created(xrs[x]) THEN xrs[x].state ELSE "live", claim |-> c])
    /\ Goto(c, "status")
    /\ orphaned' = orphaned \ {got[c].ref}
    /\ UNCHANGED <<cm, cmCache, xrCache, queued, got, gotCurrent, gotXR, trouble, blind>>

\* The claim's status is written.
UpdateStatus(c) ==
    /\ pc[c] = "status"
    /\ Update(c, [got[c] EXCEPT !.synced = "yes"], "idle")
    /\ UNCHANGED <<xrs, cmCache, xrCache, gotXR, trouble, history>>

\* A call fails before or after its effect, which may still be written to the status,
\* or the process crashes: the claim is reconciled again.
Abort(c) ==
    /\ pc[c] # "idle"
    /\ Trouble
    /\ Requeue(c)
    /\ \/ UNCHANGED <<cm, current, gotCurrent>>
       \/ Writable(c) /\ Write(c, [got[c] EXCEPT !.synced = "no"], {c})
    /\ UNCHANGED <<xrs, cmCache, xrCache, got, gotXR, history>>

Reconcile(c) ==
    \/ Get(c) \/ GetXR(c)
    \/ Delete(c) \/ RemoveFinalizer(c)
    \/ AddFinalizer(c) \/ Bind(c) \/ Apply(c) \/ UpdateStatus(c)

Users ==
    \/ \E c \in Claims :
          \/ \E x \in Static \cup {None}, fg \in BOOLEAN : CreateClaim(c, x, fg)
          \/ DeleteClaim(c) \/ EditClaim(c)
    \/ \E x \in XRs : DeleteXR(x)

Next ==
    \/ Users
    \/ \E x \in XRs : RemoveXR(x) \/ SeeXR(x)
    \/ \E c \in Claims : SeeClaim(c) \/ Reconcile(c) \/ Abort(c)

Spec == Init /\ [][Next]_vars

\* The informers catch up, reconciles take their steps, and deleted XRs go.
FairSpec ==
    /\ Spec
    /\ \A c \in Claims : WF_vars(SeeClaim(c)) /\ WF_vars(Reconcile(c))
    /\ \A x \in XRs : WF_vars(SeeXR(x)) /\ WF_vars(RemoveXR(x))

-----------------------------------------------------------------------------
(* Properties.                                                             *)

\* XR x exists for claim c.
Bound(x, c) == Created(xrs[x]) /\ xrs[x].claim = c

\* "This ensures we don't leak an XR": an XR that refers to a claim is the one that
\* the claim refers to. No crash between the two writes, and no old copy of a claim,
\* makes a second XR for a claim or leaves one behind; only the finalizer's removal
\* by a reconcile that found no XR in a cache that was behind does.
NoXRLeaks ==
    \A x \in XRs \ orphaned, c \in Claims :
        Bound(x, c) /\ xrs[x].state = "live" => cm[c].state # "none" /\ cm[c].ref = x

\* A claim that refers to an XR refers to that one as long as it exists: neither a sync
\* that crashed after it saved the reference, nor an XR that the cache does not show or
\* that is gone, nor an old copy of the claim "without a resourceRef set" makes the
\* reconciler bind it to another one.
StaysBound ==
    [][\A c \in Claims :
          cm[c].state # "none" /\ cm[c].ref # None /\ cm'[c].state # "none"
              => cm'[c].ref = cm[c].ref]_vars

\* The XR that c refers to is another claim's: c awaits human intervention.
Contested(c) ==
    /\ cm[c].ref # None
    /\ Created(xrs[cm[c].ref])
    /\ xrs[cm[c].ref].claim \notin {None, c}

\* A claim gets its XR, and says so; a deleted claim goes.
ClaimsSettle ==
    \A c \in Claims :
        /\ cm[c].state = "live" ~>
              \/ cm[c].state # "live"
              \/ Contested(c)
              \/ cm[c].ref # None /\ Bound(cm[c].ref, c) /\ cm[c].synced = "yes"
        /\ cm[c].state = "deleting" ~> cm[c].state = "none" \/ Contested(c)
=============================================================================
