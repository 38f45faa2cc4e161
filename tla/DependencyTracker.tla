------------------------- MODULE DependencyTracker --------------------------
(***************************************************************************)
(* The in-memory tracker of what composite resources (XRs) depend on       *)
(* (internal/controller/apiextensions/composite/dependency/tracker.go).    *)
(* Track and Forget hold the write lock throughout, so each is one step;   *)
(* Dependants, GVKs and Requirements hold the read lock and are state      *)
(* functions here. What they answer comes from indices that Track and      *)
(* Forget maintain incrementally; the properties compare the answers with  *)
(* the references themselves.                                              *)
(***************************************************************************)
EXTENDS Integers, Sequences, FiniteSets

CONSTANTS
    XRs,
    Kinds,          \* GVKs
    Namespaces,     \* includes NoNamespace
    Names,
    Labels,         \* a set of labels is a selector: an object matches that has them all
    Composed,       \* the lists of references an XR may compose
    Required,       \* the lists of requirements its functions may have
    Steps,          \* pipeline steps
    NoNamespace,    \* ""
    NoName          \* "": a reference without a name matches by label

Reference == [gvk : Kinds, namespace : Namespaces, name : Names \cup {NoName},
              labels : SUBSET Labels]
Requirement == [step : Steps, reference : Reference]
Object == [gvk : Kinds, namespace : Namespaces, name : Names, labels : SUBSET Labels]

ASSUME TrackerAssumption ==
    /\ NoName \notin Names
    /\ NoNamespace \in Namespaces
    /\ Composed \subseteq Seq(Reference)
    /\ Required \subseteq Seq(Requirement)
    /\ <<>> \in Composed /\ <<>> \in Required

VARIABLES
    composed,   \* t.composed, <<>> for an XR that isn't in the map
    required,   \* t.required, likewise
    byName,     \* t.byName: XRs per kind, namespace and name
    byLabel,    \* t.byLabel: selectors per kind, namespace and XR
    gvks        \* t.gvks, 0 for a kind that isn't in the map

vars == <<composed, required, byName, byLabel, gvks>>

NameRef == [gvk : Kinds, namespace : Namespaces, name : Names]
LabelScope == [gvk : Kinds, namespace : Namespaces]

TypeOK ==
    /\ composed \in [XRs -> Composed]
    /\ required \in [XRs -> Required]
    /\ byName \in [NameRef -> SUBSET XRs]
    /\ byLabel \in [LabelScope -> [XRs -> SUBSET SUBSET Labels]]
    /\ gvks \in [Kinds -> Nat]

Init ==
    /\ composed = [xr \in XRs |-> <<>>]
    /\ required = [xr \in XRs |-> <<>>]
    /\ byName = [k \in NameRef |-> {}]
    /\ byLabel = [s \in LabelScope |-> [xr \in XRs |-> {}]]
    /\ gvks = [g \in Kinds |-> 0]

-----------------------------------------------------------------------------
(* What a list of composed and one of required references puts into the    *)
(* indices.                                                                *)

Entries(s) == {s[i] : i \in DOMAIN s}
References(cs, rs) == Entries(cs) \cup {r.reference : r \in Entries(rs)}

\* The references that match by name at k, and those that match by label at s.
NamedAt(refs, k) ==
    {r \in refs : /\ r.name # NoName
                  /\ r.gvk = k.gvk /\ r.namespace = k.namespace /\ r.name = k.name}
LabelledAt(refs, s) ==
    {r \in refs : r.name = NoName /\ r.gvk = s.gvk /\ r.namespace = s.namespace}

\* How often a kind is referred to.
Uses(cs, rs, g) ==
    Cardinality({i \in DOMAIN cs : cs[i].gvk = g})
        + Cardinality({i \in DOMAIN rs : rs[i].reference.gvk = g})

-----------------------------------------------------------------------------
(* The indices without an XR's references (forget, remove), and then with  *)
(* new ones (add).                                                         *)

Old(xr) == References(composed[xr], required[xr])

NameRemoved(xr) ==
    [k \in NameRef |-> IF NamedAt(Old(xr), k) # {} THEN byName[k] \ {xr} ELSE byName[k]]

\* The first of an XR's references in a scope to be removed takes all its
\* selectors there along.
LabelRemoved(xr) ==
    [s \in LabelScope |-> IF LabelledAt(Old(xr), s) # {}
                          THEN [byLabel[s] EXCEPT ![xr] = {}] ELSE byLabel[s]]

\* Mutant of UsesRemoved: one use per kind, however often it was referred to.
UsesRemoved_Once(xr) ==
    [g \in Kinds |-> IF gvks[g] > 0 /\ Uses(composed[xr], required[xr], g) > 0
                     THEN gvks[g] - 1 ELSE gvks[g]]

UsesRemoved(xr) ==
    [g \in Kinds |-> LET n == gvks[g] - Uses(composed[xr], required[xr], g)
                     IN  IF n > 0 THEN n ELSE 0]

\* Track: forget the XR's references, then add the new ones.
Track(xr, cs, rs) ==
    /\ composed' = [composed EXCEPT ![xr] = cs]
    /\ required' = [required EXCEPT ![xr] = rs]
    /\ byName' = [k \in NameRef |-> IF NamedAt(References(cs, rs), k) # {}
                                    THEN NameRemoved(xr)[k] \cup {xr}
                                    ELSE NameRemoved(xr)[k]]
    /\ byLabel' = [s \in LabelScope |->
                      [LabelRemoved(xr)[s] EXCEPT ![xr] =
                          @ \cup {r.labels : r \in LabelledAt(References(cs, rs), s)}]]
    /\ gvks' = [g \in Kinds |-> UsesRemoved(xr)[g] + Uses(cs, rs, g)]

Forget(xr) ==
    /\ composed' = [composed EXCEPT ![xr] = <<>>]
    /\ required' = [required EXCEPT ![xr] = <<>>]
    /\ byName' = NameRemoved(xr)
    /\ byLabel' = LabelRemoved(xr)
    /\ gvks' = UsesRemoved(xr)

Next ==
    \E xr \in XRs :
        \/ \E cs \in Composed, rs \in Required : Track(xr, cs, rs)
        \/ Forget(xr)

Spec == Init /\ [][Next]_vars

-----------------------------------------------------------------------------
(* What the tracker answers.                                               *)

\* Mutant of Scopes: a selector for any namespace is forgotten.
Scopes_Exact(obj) == {[gvk |-> obj.gvk, namespace |-> obj.namespace]}

\* The scopes whose selectors an object is tested against.
Scopes(obj) == {[gvk |-> obj.gvk, namespace |-> n] : n \in {obj.namespace, NoNamespace}}

Dependants(obj) ==
    byName[[gvk |-> obj.gvk, namespace |-> obj.namespace, name |-> obj.name]]
        \cup {xr \in XRs : \E s \in Scopes(obj) :
                               \E sel \in byLabel[s][xr] : sel \subseteq obj.labels}

GVKs == {g \in Kinds : gvks[g] # 0}

-----------------------------------------------------------------------------
(* Properties.                                                             *)

\* Whether a reference means an object (the comment on Reference): by name in
\* exactly its namespace, or by label, where no namespace means any.
Means(r, obj) ==
    /\ r.gvk = obj.gvk
    /\ \/ r.name # NoName /\ r.name = obj.name /\ r.namespace = obj.namespace
       \/ /\ r.name = NoName
          /\ r.namespace \in {NoNamespace, obj.namespace}
          /\ r.labels \subseteq obj.labels

\* After any sequence of Track and Forget, a changed object is mapped to exactly
\* the XRs with a reference that means it, although the answer comes from indices
\* that each call only patched (Dependants, add, remove).
DependantsAreExact ==
    \A obj \in Object :
        Dependants(obj) = {xr \in XRs : \E r \in Old(xr) : Means(r, obj)}

\* A kind is watched as long as some XR refers to it and not longer: the counts
\* neither leak nor run out, also when one XR refers to a kind several times.
GVKsAreExact == GVKs = UNION {{r.gvk : r \in Old(xr)} : xr \in XRs}

\* What DependantsAreExact rests on: each index holds what the references say.
IndexInv ==
    /\ TypeOK
    /\ \A k \in NameRef : byName[k] = {xr \in XRs : NamedAt(Old(xr), k) # {}}
    /\ \A s \in LabelScope, xr \in XRs :
           byLabel[s][xr] = {r.labels : r \in LabelledAt(Old(xr), s)}
=============================================================================
