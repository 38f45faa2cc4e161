----------------------------- MODULE Informers -----------------------------
(***************************************************************************)
(* The informers of Crossplane's controller engine, as the engine sees     *)
(* them: a set of GVKs with a running informer, and the set the            *)
(* InformerTrackingCache calls active (crossplane internal/engine/cache.go *)
(* ). Every call is one step here; InformerTrackingCache splits the calls  *)
(* at their locks and is shown to implement this module.                   *)
(*                                                                         *)
(* An informer has an incarnation number: 1 for the first informer started *)
(* for a GVK, 2 for the one started after the first was removed, and so    *)
(* on. A pointer held to a removed informer is thereby told apart from a   *)
(* pointer to its replacement.                                             *)
(***************************************************************************)
EXTENDS Integers

CONSTANTS
    Gvks,          \* the kinds that custom resource definitions define
    MaxInformers   \* bound: CRDs are deleted while gen < MaxInformers

ASSUME MaxInformersAssumption == MaxInformers \in Nat

VARIABLES
    active,    \* InformerTrackingCache.active: GVKs believed to have an informer
    live,      \* GVKs with an informer in the wrapped controller-runtime cache
    gen,       \* the incarnation of each GVK's latest informer, 0 for none yet
    crds,      \* GVKs whose CRD exists at the API server
    deleted    \* GVKs with a CRD delete event not yet handled

infVars == <<active, live, gen, crds, deleted>>

InformersTypeOK ==
    /\ active \in SUBSET Gvks
    /\ live \in SUBSET Gvks
    /\ gen \in [Gvks -> Nat]
    /\ crds \in SUBSET Gvks
    /\ deleted \in SUBSET Gvks

InformersInit ==
    /\ active = {}
    /\ live = {}
    /\ gen = [g \in Gvks |-> 0]
    /\ crds \in SUBSET Gvks
    /\ deleted = {}

-----------------------------------------------------------------------------

\* The wrapped cache returns the informer it has, or starts one if it can map
\* the kind. It can't when the CRD is gone; then it returns an error.
StartInformer(g) ==
    IF g \notin live /\ g \in crds
    THEN /\ live' = live \cup {g}
         /\ gen' = [gen EXCEPT ![g] = @ + 1]
    ELSE UNCHANGED <<live, gen>>

\* Get, List, GetInformer and GetInformerForKind: the GVK is marked active
\* before the wrapped cache is called, so it stays marked when that call fails.
GetInformer(g) ==
    /\ active' = active \cup {g}
    /\ StartInformer(g)
    /\ UNCHANGED <<crds, deleted>>

\* A CRD is created at the API server.
CreateCRD(g) ==
    /\ g \notin crds
    /\ crds' = crds \cup {g}
    /\ UNCHANGED <<active, live, gen, deleted>>

\* A CRD is deleted at the API server; the CRD informer will deliver an event.
DeleteCRD(g) ==
    /\ g \in crds
    /\ gen[g] < MaxInformers
    /\ crds' = crds \ {g}
    /\ deleted' = deleted \cup {g}
    /\ UNCHANGED <<active, live, gen>>

\* The garbage collector handles a CRD delete event: the informer is stopped
\* and marked inactive, even if the CRD has been created again meanwhile.
RemoveInformer(g) ==
    /\ g \in deleted
    /\ deleted' = deleted \ {g}
    /\ active' = active \ {g}
    /\ live' = live \ {g}
    /\ UNCHANGED <<gen, crds>>

InformersNext ==
    \E g \in Gvks :
        \/ GetInformer(g)
        \/ CreateCRD(g)
        \/ DeleteCRD(g)
        \/ RemoveInformer(g)

InformersSpec == InformersInit /\ [][InformersNext]_infVars

\* Every running informer is known to be active: StartWatches asks only which
\* informers are active when it decides whether a watch still has an informer.
LiveIsActive == live \subseteq active
=============================================================================
