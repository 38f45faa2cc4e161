---------------------- MODULE DependencyTrackerProofs -----------------------
(***************************************************************************)
(* A changed object is mapped to exactly the XRs that depend on it, for    *)
(* any XRs, kinds, namespaces, names and labels and any lists of           *)
(* references.                                                             *)
(***************************************************************************)
EXTENDS DependencyTracker, FiniteSetTheorems, TLAPS

\* A kind is used a natural number of times by a list of references.
LEMMA UsesType ==
    ASSUME NEW cs \in Composed, NEW rs \in Required, NEW g \in Kinds
    PROVE  Uses(cs, rs, g) \in Nat
<1>1. cs \in Seq(Reference) /\ rs \in Seq(Requirement)
  BY TrackerAssumption
<1>2. DOMAIN cs = 1 .. Len(cs) /\ Len(cs) \in Nat /\ DOMAIN rs = 1 .. Len(rs) /\ Len(rs) \in Nat
  BY <1>1
<1>3. IsFiniteSet(1 .. Len(cs)) /\ IsFiniteSet(1 .. Len(rs))
  BY <1>2, FS_Interval
<1>4. /\ IsFiniteSet({i \in DOMAIN cs : cs[i].gvk = g})
      /\ IsFiniteSet({i \in DOMAIN rs : rs[i].reference.gvk = g})
  BY <1>2, <1>3, FS_Subset
<1>5. /\ Cardinality({i \in DOMAIN cs : cs[i].gvk = g}) \in Nat
      /\ Cardinality({i \in DOMAIN rs : rs[i].reference.gvk = g}) \in Nat
  BY <1>4, FS_CardinalityType
<1>6. QED
  BY <1>5 DEF Uses

\* The references of lists that may be tracked are references.
LEMMA ReferencesType ==
    ASSUME NEW cs \in Composed, NEW rs \in Required
    PROVE  References(cs, rs) \subseteq Reference
<1>1. cs \in Seq(Reference) /\ rs \in Seq(Requirement)
  BY TrackerAssumption
<1>2. Entries(cs) \subseteq Reference /\ Entries(rs) \subseteq Requirement
  BY <1>1 DEF Entries
<1>3. QED
  BY <1>2 DEF References, Requirement

\* The references of lists without entries.
LEMMA NoReferences == References(<<>>, <<>>) = {}
<1>1. Entries(<<>>) = {}
  BY DEF Entries
<1>2. QED
  BY <1>1 DEF References

LEMMA UsesRemovedType ==
    ASSUME TypeOK, NEW xr \in XRs, NEW g \in Kinds
    PROVE  UsesRemoved(xr)[g] \in Nat
<1>1. Uses(composed[xr], required[xr], g) \in Nat
  BY UsesType DEF TypeOK
<1>2. QED
  BY <1>1 DEF TypeOK, UsesRemoved

\* Without an XR's references the indices hold what the other XRs' say.
LEMMA RemovedIsExact ==
    ASSUME IndexInv, NEW xr \in XRs
    PROVE  /\ \A k \in NameRef :
                  NameRemoved(xr)[k] = {x \in XRs : x # xr /\ NamedAt(Old(x), k) # {}}
           /\ \A s \in LabelScope : \A x \in XRs :
                  LabelRemoved(xr)[s][x] =
                      IF x = xr THEN {} ELSE {r.labels : r \in LabelledAt(Old(x), s)}
           /\ LabelRemoved(xr) \in [LabelScope -> [XRs -> SUBSET SUBSET Labels]]
<1>1. ASSUME NEW k \in NameRef
      PROVE  NameRemoved(xr)[k] = {x \in XRs : x # xr /\ NamedAt(Old(x), k) # {}}
  BY DEF IndexInv, NameRemoved
<1>2. ASSUME NEW s \in LabelScope
      PROVE  /\ \A x \in XRs : LabelRemoved(xr)[s][x] =
                      IF x = xr THEN {} ELSE {r.labels : r \in LabelledAt(Old(x), s)}
             /\ LabelRemoved(xr)[s] \in [XRs -> SUBSET SUBSET Labels]
  <2>1. byLabel[s] \in [XRs -> SUBSET SUBSET Labels]
    BY DEF IndexInv, TypeOK
  <2>2. CASE LabelledAt(Old(xr), s) # {}
    <3>1. LabelRemoved(xr)[s] = [byLabel[s] EXCEPT ![xr] = {}]
      BY <2>2 DEF LabelRemoved
    <3>2. QED BY <2>1, <3>1 DEF IndexInv
  <2>3. CASE LabelledAt(Old(xr), s) = {}
    <3>1. LabelRemoved(xr)[s] = byLabel[s]
      BY <2>3 DEF LabelRemoved
    <3>2. byLabel[s][xr] = {}
      BY <2>3 DEF IndexInv
    <3>3. QED BY <2>1, <3>1, <3>2 DEF IndexInv
  <2>4. QED BY <2>2, <2>3
<1>3. LabelRemoved(xr) = [s \in LabelScope |-> LabelRemoved(xr)[s]]
  BY DEF LabelRemoved
<1>4. QED
  BY <1>1, <1>2, <1>3

\* Track keeps the indices exact.
LEMMA TrackKeeps ==
    ASSUME IndexInv, NEW xr \in XRs, NEW cs \in Composed, NEW rs \in Required,
           Track(xr, cs, rs)
    PROVE  IndexInv'
<1> DEFINE refs == References(cs, rs)
<1>1. /\ Old(xr)' = refs
      /\ \A x \in XRs : x # xr => Old(x)' = Old(x)
  BY DEF IndexInv, TypeOK, Track, Old
<1>2. refs \subseteq Reference
  BY ReferencesType
<1>3. ASSUME NEW k \in NameRef
      PROVE  byName'[k] = {x \in XRs : NamedAt(Old(x)', k) # {}}
  <2>1. byName'[k] = IF NamedAt(refs, k) # {} THEN NameRemoved(xr)[k] \cup {xr}
                                               ELSE NameRemoved(xr)[k]
    BY DEF Track
  <2>2. NameRemoved(xr)[k] = {x \in XRs : x # xr /\ NamedAt(Old(x), k) # {}}
    BY RemovedIsExact
  <2>3. HIDE DEF refs
  <2>4. QED BY <2>1, <2>2, <1>1
<1>4. ASSUME NEW s \in LabelScope
      PROVE  /\ byLabel'[s] \in [XRs -> SUBSET SUBSET Labels]
             /\ \A x \in XRs : byLabel'[s][x] = {r.labels : r \in LabelledAt(Old(x)', s)}
  <2> DEFINE new == {r.labels : r \in LabelledAt(refs, s)}
  <2>1. byLabel'[s] = [LabelRemoved(xr)[s] EXCEPT ![xr] = @ \cup new]
    BY DEF Track
  <2>2. LabelledAt(refs, s) \subseteq Reference
    BY <1>2 DEF LabelledAt
  <2>3. new \subseteq SUBSET Labels
    BY <2>2 DEF Reference
  <2>4. /\ LabelRemoved(xr)[s] \in [XRs -> SUBSET SUBSET Labels]
        /\ \A x \in XRs : LabelRemoved(xr)[s][x] =
              IF x = xr THEN {} ELSE {r.labels : r \in LabelledAt(Old(x), s)}
    BY RemovedIsExact
  <2>5. byLabel'[s][xr] = new /\ \A x \in XRs : x # xr => byLabel'[s][x] = LabelRemoved(xr)[s][x]
    <3> HIDE DEF new
    <3> QED BY <2>1, <2>4
  <2>6. byLabel'[s] \in [XRs -> SUBSET SUBSET Labels]
    <3> HIDE DEF new
    <3> QED BY <2>1, <2>3, <2>4
  <2>7. ASSUME NEW x \in XRs
        PROVE  byLabel'[s][x] = {r.labels : r \in LabelledAt(Old(x)', s)}
    <3>1. CASE x = xr
      BY <3>1, <2>5, <1>1
    <3>2. CASE x # xr
      BY <3>2, <2>4, <2>5, <1>1
    <3>3. QED BY <3>1, <3>2
  <2>8. QED BY <2>6, <2>7
<1>5. TypeOK'
  <2>1. composed' \in [XRs -> Composed] /\ required' \in [XRs -> Required]
    BY DEF IndexInv, TypeOK, Track
  <2>2. byName' \in [NameRef -> SUBSET XRs]
    <3>1. byName' = [k \in NameRef |-> byName'[k]]
      BY DEF Track
    <3>2. QED BY <3>1, <1>3
  <2>3. byLabel' \in [LabelScope -> [XRs -> SUBSET SUBSET Labels]]
    <3>1. byLabel' = [s \in LabelScope |-> byLabel'[s]]
      BY DEF Track
    <3>2. QED BY <3>1, <1>4
  <2>4. gvks' \in [Kinds -> Nat]
    <3>1. \A g \in Kinds : UsesRemoved(xr)[g] \in Nat /\ Uses(cs, rs, g) \in Nat
      BY UsesRemovedType, UsesType DEF IndexInv
    <3>2. gvks' = [g \in Kinds |-> UsesRemoved(xr)[g] + Uses(cs, rs, g)]
      BY DEF Track
    <3>3. QED BY <3>1, <3>2
  <2>5. QED BY <2>1, <2>2, <2>3, <2>4 DEF TypeOK
<1>6. QED
  BY <1>3, <1>4, <1>5 DEF IndexInv, NamedAt, LabelledAt

\* Forget keeps the indices exact.
LEMMA ForgetKeeps == ASSUME IndexInv, NEW xr \in XRs, Forget(xr) PROVE IndexInv'
<1>1. /\ Old(xr)' = {}
      /\ \A x \in XRs : x # xr => Old(x)' = Old(x)
  BY NoReferences DEF IndexInv, TypeOK, Forget, Old
<1>2. \A k \in NameRef : byName'[k] = {x \in XRs : NamedAt(Old(x)', k) # {}}
  <2>1. ASSUME NEW k \in NameRef
        PROVE  byName'[k] = {x \in XRs : x # xr /\ NamedAt(Old(x), k) # {}}
    BY RemovedIsExact DEF Forget
  <2>2. \A k : NamedAt(Old(xr)', k) = {}
    BY <1>1 DEF NamedAt
  <2>3. QED BY <1>1, <2>1, <2>2
<1>3. \A s \in LabelScope, x \in XRs :
          byLabel'[s][x] = {r.labels : r \in LabelledAt(Old(x)', s)}
  <2>1. ASSUME NEW s \in LabelScope, NEW x \in XRs
        PROVE  byLabel'[s][x] = IF x = xr THEN {} ELSE {r.labels : r \in LabelledAt(Old(x), s)}
    BY RemovedIsExact DEF Forget
  <2>2. \A s : LabelledAt(Old(xr)', s) = {}
    BY <1>1 DEF LabelledAt
  <2>3. QED BY <1>1, <2>1, <2>2
<1>4. TypeOK'
  <2>1. composed' \in [XRs -> Composed] /\ required' \in [XRs -> Required]
    BY TrackerAssumption DEF IndexInv, TypeOK, Forget
  <2>2. byName' \in [NameRef -> SUBSET XRs]
    BY DEF IndexInv, TypeOK, Forget, NameRemoved
  <2>3. byLabel' \in [LabelScope -> [XRs -> SUBSET SUBSET Labels]]
    BY RemovedIsExact DEF Forget
  <2>4. gvks' \in [Kinds -> Nat]
    <3>1. \A g \in Kinds : UsesRemoved(xr)[g] \in Nat
      BY UsesRemovedType DEF IndexInv
    <3>2. gvks' = [g \in Kinds |-> UsesRemoved(xr)[g]]
      BY DEF Forget, UsesRemoved
    <3>3. QED BY <3>1, <3>2
  <2>5. QED BY <2>1, <2>2, <2>3, <2>4 DEF TypeOK
<1>5. QED
  BY <1>2, <1>3, <1>4 DEF IndexInv, NamedAt, LabelledAt

\* Each index always holds exactly what the tracked references say.
THEOREM IndexInvariance == Spec => []IndexInv
<1>1. Init => IndexInv
  <2> SUFFICES ASSUME Init PROVE IndexInv
    OBVIOUS
  <2>1. \A xr \in XRs : Old(xr) = {}
    BY NoReferences DEF Init, Old
  <2>2. TypeOK
    BY TrackerAssumption DEF Init, TypeOK
  <2>3. QED
    BY <2>1, <2>2 DEF Init, IndexInv, NamedAt, LabelledAt
<1>2. IndexInv /\ [Next]_vars => IndexInv'
  <2> SUFFICES ASSUME IndexInv, [Next]_vars PROVE IndexInv'
    OBVIOUS
  <2>1. CASE UNCHANGED vars
    BY <2>1 DEF vars, IndexInv, TypeOK, Old, NamedAt, LabelledAt
  <2>2. ASSUME NEW xr \in XRs, NEW cs \in Composed, NEW rs \in Required, Track(xr, cs, rs)
        PROVE  IndexInv'
    BY <2>2, TrackKeeps
  <2>3. ASSUME NEW xr \in XRs, Forget(xr) PROVE IndexInv'
    BY <2>3, ForgetKeeps
  <2>4. QED
    BY <2>1, <2>2, <2>3 DEF Next
<1>3. QED
  BY <1>1, <1>2, PTL DEF Spec

\* Exact indices give exact answers.
LEMMA IndexGivesDependants == IndexInv => DependantsAreExact
<1> SUFFICES ASSUME IndexInv, NEW obj \in Object
             PROVE  Dependants(obj) = {xr \in XRs : \E r \in Old(xr) : Means(r, obj)}
  BY DEF DependantsAreExact
<1> DEFINE k == [gvk |-> obj.gvk, namespace |-> obj.namespace, name |-> obj.name]
<1>1. /\ k \in NameRef /\ Scopes(obj) \subseteq LabelScope
      /\ obj.gvk \in Kinds /\ obj.namespace \in Namespaces /\ obj.name \in Names
  BY TrackerAssumption DEF Object, NameRef, Scopes, LabelScope
<1>2. byName[k] = {xr \in XRs : \E r \in Old(xr) :
                      /\ r.name # NoName /\ r.gvk = obj.gvk
                      /\ r.namespace = obj.namespace /\ r.name = obj.name}
  BY <1>1 DEF IndexInv, NamedAt
<1>3. ASSUME NEW xr \in XRs
      PROVE  (\E s \in Scopes(obj) : \E sel \in byLabel[s][xr] : sel \subseteq obj.labels)
             <=> (\E r \in Old(xr) : /\ r.name = NoName /\ r.gvk = obj.gvk
                                     /\ r.namespace \in {NoNamespace, obj.namespace}
                                     /\ r.labels \subseteq obj.labels)
  <2>1. \A s \in Scopes(obj) : byLabel[s][xr] = {r.labels : r \in LabelledAt(Old(xr), s)}
    BY <1>1 DEF IndexInv
  <2>2. ASSUME NEW s \in Scopes(obj)
        PROVE  (\E sel \in byLabel[s][xr] : sel \subseteq obj.labels)
               <=> (\E r \in Old(xr) : /\ r.name = NoName /\ r.gvk = s.gvk
                                       /\ r.namespace = s.namespace
                                       /\ r.labels \subseteq obj.labels)
    BY <2>1 DEF LabelledAt
  <2>3. /\ \A s \in Scopes(obj) : s.gvk = obj.gvk /\ s.namespace \in {NoNamespace, obj.namespace}
        /\ \A n \in {NoNamespace, obj.namespace} :
               \E s \in Scopes(obj) : s.gvk = obj.gvk /\ s.namespace = n
    <3>1. \A s \in Scopes(obj) : s.gvk = obj.gvk /\ s.namespace \in {NoNamespace, obj.namespace}
      BY DEF Scopes
    <3>2. ASSUME NEW n \in {NoNamespace, obj.namespace}
          PROVE  \E s \in Scopes(obj) : s.gvk = obj.gvk /\ s.namespace = n
      <4>1. [gvk |-> obj.gvk, namespace |-> n] \in Scopes(obj)
        BY DEF Scopes
      <4>2. QED BY <4>1
    <3>3. QED BY <3>1, <3>2
  <2>4. ASSUME NEW s \in Scopes(obj), \E sel \in byLabel[s][xr] : sel \subseteq obj.labels
        PROVE  \E r \in Old(xr) : /\ r.name = NoName /\ r.gvk = obj.gvk
                                  /\ r.namespace \in {NoNamespace, obj.namespace}
                                  /\ r.labels \subseteq obj.labels
    BY <2>2, <2>3, <2>4
  <2>5. ASSUME NEW r \in Old(xr), r.name = NoName, r.gvk = obj.gvk,
               r.namespace \in {NoNamespace, obj.namespace}, r.labels \subseteq obj.labels
        PROVE  \E s \in Scopes(obj) : \E sel \in byLabel[s][xr] : sel \subseteq obj.labels
    <3>1. PICK s \in Scopes(obj) : s.gvk = obj.gvk /\ s.namespace = r.namespace
      BY <2>3, <2>5
    <3>2. QED BY <2>2, <2>5, <3>1
  <2>6. QED BY <2>4, <2>5
<1>4. Dependants(obj) = byName[k] \cup {xr \in XRs :
          \E s \in Scopes(obj) : \E sel \in byLabel[s][xr] : sel \subseteq obj.labels}
  BY DEF Dependants
<1>5. ASSUME NEW xr \in XRs
      PROVE  xr \in Dependants(obj) <=> \E r \in Old(xr) : Means(r, obj)
  <2> HIDE DEF k
  <2> QED BY <1>2, <1>3, <1>4 DEF Means
<1>6. Dependants(obj) \subseteq XRs
  <2> HIDE DEF k
  <2> QED BY <1>2, <1>4
<1>7. QED BY <1>5, <1>6

\* A changed object is always mapped to exactly the XRs with a reference that
\* means it.
THEOREM DependantsAreExactAlways == Spec => []DependantsAreExact
  BY IndexInvariance, IndexGivesDependants, PTL

-----------------------------------------------------------------------------
(* The reference counts of the kinds.                                      *)

\* The uses of a kind in the lists of an XR, told apart, and in all lists.
UsesBy(xr, cs, rs, g) ==
    ({<<xr, "composed">>} \X {i \in DOMAIN cs : cs[i].gvk = g})
        \cup ({<<xr, "required">>} \X {i \in DOMAIN rs : rs[i].reference.gvk = g})

AllUses(g) == UNION {UsesBy(xr, composed[xr], required[xr], g) : xr \in XRs}

\* The count of a kind is the number of its uses. (They are finitely many, also of
\* infinitely many XRs.)
CountInv == \A g \in Kinds : IsFiniteSet(AllUses(g)) /\ gvks[g] = Cardinality(AllUses(g))

\* An XR's uses of a kind are as many as its references to it.
LEMMA UsesByFacts ==
    ASSUME NEW xr, NEW cs \in Composed, NEW rs \in Required, NEW g \in Kinds
    PROVE  /\ IsFiniteSet(UsesBy(xr, cs, rs, g)) /\ Cardinality(UsesBy(xr, cs, rs, g)) = Uses(cs, rs, g)
           /\ \A u \in UsesBy(xr, cs, rs, g) : u[1][1] = xr
<1> DEFINE C == {i \in DOMAIN cs : cs[i].gvk = g}
           R == {i \in DOMAIN rs : rs[i].reference.gvk = g}
           CC == {<<xr, "composed">>} \X C
           RR == {<<xr, "required">>} \X R
<1>1. IsFiniteSet(C) /\ IsFiniteSet(R)
  <2>1. cs \in Seq(Reference) /\ rs \in Seq(Requirement)
    BY TrackerAssumption
  <2>2. DOMAIN cs = 1 .. Len(cs) /\ Len(cs) \in Nat /\ DOMAIN rs = 1 .. Len(rs) /\ Len(rs) \in Nat
    BY <2>1
  <2>3. IsFiniteSet(1 .. Len(cs)) /\ IsFiniteSet(1 .. Len(rs))
    BY <2>2, FS_Interval
  <2>4. QED
    BY <2>2, <2>3, FS_Subset
<1>2. UsesBy(xr, cs, rs, g) = CC \cup RR /\ Uses(cs, rs, g) = Cardinality(C) + Cardinality(R)
  BY DEF UsesBy, Uses
<1>3. CC \cap RR = {} /\ \A u \in CC \cup RR : u[1][1] = xr
  OBVIOUS
<1> HIDE DEF C, R
<1>4. Cardinality(C) \in Nat /\ Cardinality(R) \in Nat
  BY <1>1, FS_CardinalityType
<1>5. /\ IsFiniteSet(CC) /\ Cardinality(CC) = 1 * Cardinality(C)
      /\ IsFiniteSet(RR) /\ Cardinality(RR) = 1 * Cardinality(R)
  <2>1. \A x : IsFiniteSet({x}) /\ Cardinality({x}) = 1
    BY FS_Singleton
  <2>2. ASSUME NEW x, NEW S, IsFiniteSet(S)
        PROVE  IsFiniteSet({x} \X S) /\ Cardinality({x} \X S) = 1 * Cardinality(S)
    <3> DEFINE X == {x}
    <3>1. IsFiniteSet(X) /\ Cardinality(X) = 1
      BY <2>1
    <3> HIDE DEF X
    <3>2. IsFiniteSet(X \X S) /\ Cardinality(X \X S) = Cardinality(X) * Cardinality(S)
      BY <2>2, <3>1, FS_Product
    <3>3. QED
      BY <3>1, <3>2 DEF X
  <2>3. QED
    BY <1>1, <2>2
<1> HIDE DEF CC, RR
<1>6. IsFiniteSet(CC \cup RR) /\ Cardinality(CC \cup RR) = Cardinality(CC) + Cardinality(RR) - 0
  BY <1>3, <1>5, FS_Union, FS_EmptySet
<1>7. QED
  BY <1>2, <1>3, <1>4, <1>5, <1>6

\* When the lists of one XR are replaced, its uses are, and no others.
LEMMA UsesReplaced ==
    ASSUME TypeOK, CountInv, NEW xr \in XRs, NEW cs \in Composed, NEW rs \in Required, NEW g \in Kinds,
           composed' = [composed EXCEPT ![xr] = cs], required' = [required EXCEPT ![xr] = rs]
    PROVE  /\ IsFiniteSet(AllUses(g)')
           /\ Cardinality(AllUses(g)') = UsesRemoved(xr)[g] + Uses(cs, rs, g)
<1> DEFINE Of(x) == UsesBy(x, composed[x], required[x], g)
           New == UsesBy(xr, cs, rs, g)
           All == AllUses(g)
<1>1. \A x \in XRs : composed[x] \in Composed /\ required[x] \in Required
  BY DEF TypeOK
<1>2. /\ IsFiniteSet(New) /\ Cardinality(New) = Uses(cs, rs, g) /\ \A u \in New : u[1][1] = xr
      /\ IsFiniteSet(Of(xr)) /\ Cardinality(Of(xr)) = Uses(composed[xr], required[xr], g)
      /\ \A x \in XRs : \A u \in Of(x) : u[1][1] = x
  BY <1>1, UsesByFacts
<1>3. AllUses(g)' = UNION {UsesBy(x, composed'[x], required'[x], g) : x \in XRs}
  BY DEF AllUses
<1>4. /\ UsesBy(xr, composed'[xr], required'[xr], g) = New
      /\ \A x \in XRs : x # xr => UsesBy(x, composed'[x], required'[x], g) = Of(x)
  BY DEF TypeOK
<1>5. All = UNION {Of(x) : x \in XRs}
  BY DEF AllUses
<1>6. IsFiniteSet(All) /\ gvks[g] = Cardinality(All)
  BY DEF CountInv
<1> HIDE DEF Of, New, All
<1>7. AllUses(g)' = (All \ Of(xr)) \cup New
  <2>1. ASSUME NEW u \in AllUses(g)' PROVE u \in (All \ Of(xr)) \cup New
    <3>1. PICK x \in XRs : u \in UsesBy(x, composed'[x], required'[x], g)
      BY <1>3, <2>1
    <3>2. QED
      BY <1>2, <1>4, <1>5, <3>1
  <2>2. ASSUME NEW u \in All \ Of(xr) PROVE u \in AllUses(g)'
    <3>1. PICK x \in XRs : u \in Of(x) /\ x # xr
      BY <1>5, <2>2
    <3>2. QED
      BY <1>3, <1>4, <3>1
  <2>3. New \subseteq AllUses(g)'
    BY <1>3, <1>4
  <2>4. QED
    BY <2>1, <2>2, <2>3
<1>8. (All \ Of(xr)) \cap New = {} /\ All \cap Of(xr) = Of(xr)
  <2>1. ASSUME NEW u \in All \ Of(xr), u \in New PROVE FALSE
    BY <1>2, <1>5, <2>1
  <2>2. QED
    BY <1>5, <2>1
<1>9. IsFiniteSet(All \ Of(xr)) /\ Cardinality(All \ Of(xr)) = gvks[g] - Cardinality(Of(xr))
  <2> DEFINE Mine == Of(xr)
  <2>1. IsFiniteSet(All) /\ gvks[g] = Cardinality(All) /\ All \cap Mine = Mine
    BY <1>6, <1>8
  <2> HIDE DEF Mine
  <2>2. IsFiniteSet(All \ Mine) /\ Cardinality(All \ Mine) = Cardinality(All) - Cardinality(All \cap Mine)
    BY <2>1, FS_Difference
  <2>3. QED
    BY <2>1, <2>2 DEF Mine
<1>10. /\ IsFiniteSet((All \ Of(xr)) \cup New)
       /\ Cardinality((All \ Of(xr)) \cup New) = Cardinality(All \ Of(xr)) + Cardinality(New) - 0
  <2> DEFINE Rest == All \ Of(xr)
  <2>1. IsFiniteSet(Rest) /\ IsFiniteSet(New) /\ Rest \cap New = {}
    BY <1>2, <1>8, <1>9
  <2> HIDE DEF Rest
  <2>2. /\ IsFiniteSet(Rest \cup New)
        /\ Cardinality(Rest \cup New) = Cardinality(Rest) + Cardinality(New) - Cardinality(Rest \cap New)
    BY <2>1, FS_Union
  <2>3. QED
    BY <2>1, <2>2, FS_EmptySet DEF Rest
<1>11. Cardinality(All \ Of(xr)) \in Nat /\ Cardinality(New) \in Nat /\ gvks[g] \in Nat /\ Cardinality(Of(xr)) \in Nat
  BY <1>2, <1>6, <1>9, FS_CardinalityType
<1>12. UsesRemoved(xr)[g] = Cardinality(All \ Of(xr))
  BY <1>2, <1>9, <1>11 DEF UsesRemoved
<1>13. QED
  BY <1>2, <1>7, <1>10, <1>11, <1>12

\* The count of every kind is always the number of references to it: what remove
\* takes off for an XR is what add put on for it, and never more than there is.
THEOREM CountInvariance == Spec => []CountInv
<1>1. Init => CountInv
  <2> SUFFICES ASSUME Init, NEW g \in Kinds PROVE AllUses(g) = {} /\ gvks[g] = 0
    BY FS_EmptySet DEF CountInv
  <2>1. \A xr \in XRs : UsesBy(xr, composed[xr], required[xr], g) = {}
    BY DEF Init, UsesBy
  <2>2. QED
    BY <2>1 DEF AllUses, Init
<1>2. IndexInv /\ CountInv /\ [Next]_vars => CountInv'
  <2> SUFFICES ASSUME IndexInv, CountInv, [Next]_vars PROVE CountInv'
    OBVIOUS
  <2>1. TypeOK
    BY DEF IndexInv
  <2>2. CASE UNCHANGED vars
    BY <2>2 DEF vars, CountInv, AllUses
  <2>3. ASSUME NEW xr \in XRs, NEW cs \in Composed, NEW rs \in Required, Track(xr, cs, rs)
        PROVE  CountInv'
    <3>1. SUFFICES ASSUME NEW g \in Kinds PROVE IsFiniteSet(AllUses(g)') /\ gvks'[g] = Cardinality(AllUses(g)')
      BY DEF CountInv
    <3>2. gvks'[g] = UsesRemoved(xr)[g] + Uses(cs, rs, g)
      BY <2>3 DEF Track
    <3>3. QED
      BY <2>1, <2>3, <3>2, UsesReplaced DEF Track
  <2>4. ASSUME NEW xr \in XRs, Forget(xr) PROVE CountInv'
    <3>1. SUFFICES ASSUME NEW g \in Kinds PROVE IsFiniteSet(AllUses(g)') /\ gvks'[g] = Cardinality(AllUses(g)')
      BY DEF CountInv
    <3>2. <<>> \in Composed /\ <<>> \in Required
      BY TrackerAssumption
    <3>3. UsesBy(xr, <<>>, <<>>, g) = {}
      BY DEF UsesBy
    <3>4. Uses(<<>>, <<>>, g) = 0
      BY <3>2, <3>3, UsesByFacts, FS_EmptySet
    <3>5. /\ IsFiniteSet(AllUses(g)')
          /\ Cardinality(AllUses(g)') = UsesRemoved(xr)[g] + Uses(<<>>, <<>>, g)
      BY <2>1, <2>4, <3>2, UsesReplaced DEF Forget
    <3>6. UsesRemoved(xr)[g] \in Nat /\ gvks'[g] = UsesRemoved(xr)[g]
      BY <2>1, <2>4, UsesRemovedType DEF Forget
    <3>7. QED
      BY <3>4, <3>5, <3>6
  <2>5. QED
    BY <2>2, <2>3, <2>4 DEF Next
<1>3. QED
  BY <1>1, <1>2, IndexInvariance, PTL DEF Spec

\* A kind has a use exactly when an XR refers to it.
LEMMA CountsGiveKinds == IndexInv /\ CountInv => GVKsAreExact
<1> SUFFICES ASSUME IndexInv, CountInv PROVE GVKsAreExact
  OBVIOUS
<1>1. \A xr \in XRs : composed[xr] \in Composed /\ required[xr] \in Required
  BY DEF IndexInv, TypeOK
<1>2. ASSUME NEW xr \in XRs, NEW g
      PROVE  (\E r \in Old(xr) : r.gvk = g) <=> UsesBy(xr, composed[xr], required[xr], g) # {}
  <2> DEFINE cs == composed[xr]
             rs == required[xr]
  <2>1. (\E r \in Old(xr) : r.gvk = g)
        <=> \/ \E i \in DOMAIN cs : cs[i].gvk = g
            \/ \E i \in DOMAIN rs : rs[i].reference.gvk = g
    BY DEF Old, References, Entries
  <2> HIDE DEF cs, rs
  <2>2. ASSUME NEW i \in DOMAIN cs, cs[i].gvk = g PROVE UsesBy(xr, cs, rs, g) # {}
    <3>1. <<<<xr, "composed">>, i>> \in UsesBy(xr, cs, rs, g)
      BY <2>2 DEF UsesBy
    <3>2. QED
      BY <3>1
  <2>3. ASSUME NEW i \in DOMAIN rs, rs[i].reference.gvk = g PROVE UsesBy(xr, cs, rs, g) # {}
    <3>1. <<<<xr, "required">>, i>> \in UsesBy(xr, cs, rs, g)
      BY <2>3 DEF UsesBy
    <3>2. QED
      BY <3>1
  <2>4. UsesBy(xr, cs, rs, g) # {} => \/ \E i \in DOMAIN cs : cs[i].gvk = g
                                      \/ \E i \in DOMAIN rs : rs[i].reference.gvk = g
    BY DEF UsesBy
  <2>5. UsesBy(xr, cs, rs, g) # {} <=> \/ \E i \in DOMAIN cs : cs[i].gvk = g
                                       \/ \E i \in DOMAIN rs : rs[i].reference.gvk = g
    BY <2>2, <2>3, <2>4
  <2>6. QED
    BY <2>1, <2>5 DEF cs, rs
<1>3. ASSUME NEW xr \in XRs, NEW r \in Old(xr) PROVE r.gvk \in Kinds
  BY <1>1, ReferencesType DEF Old, Reference
<1>4. ASSUME NEW g \in Kinds PROVE gvks[g] # 0 <=> \E xr \in XRs : \E r \in Old(xr) : r.gvk = g
  <2>1. gvks[g] # 0 <=> AllUses(g) # {}
    BY FS_EmptySet DEF CountInv
  <2>2. AllUses(g) # {} <=> \E xr \in XRs : UsesBy(xr, composed[xr], required[xr], g) # {}
    BY DEF AllUses
  <2>3. QED
    BY <1>2, <2>1, <2>2
<1>5. QED
  BY <1>3, <1>4 DEF GVKsAreExact, GVKs

\* The kinds that the tracker names are always exactly those that some tracked
\* reference has: the garbage collector of watches stops no watch that is needed.
THEOREM GVKsAreExactAlways == Spec => []GVKsAreExact
  BY IndexInvariance, CountInvariance, CountsGiveKinds, PTL
=============================================================================
