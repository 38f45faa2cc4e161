---------------------------- MODULE ClaimProofs -----------------------------
(***************************************************************************)
(* No XR is leaked by its claim, and no claim is bound to a second XR, for *)
(* any claims and XRs and any number of crashes, failed calls and changes  *)
(* by users.                                                               *)
(***************************************************************************)
EXTENDS Claim, TLAPS

-----------------------------------------------------------------------------
(* The inductive invariant.                                                *)

\* What the caches and the reconciles have is what there is, where it is current.
CurrentInv ==
    /\ \A c \in Claims : c \in current => cmCache[c] = cm[c]
    /\ \A x \in XRs : x \in current => xrCache[x] = xrs[x]
    /\ \A c \in Claims : c \in gotCurrent /\ pc[c] # "idle" => got[c] = cm[c]

LiveFor(x, c) == Bound(x, c) /\ xrs[x].state = "live"

\* An XR that is not excused is the one that its claim refers to, and the claim cannot
\* go unless a reconcile removes its finalizer.
LeakInv ==
    /\ \A c \in Claims : cm[c].state = "deleting" => cm[c].finalizer
    /\ \A x \in XRs \ orphaned, c \in Claims :
          LiveFor(x, c) => cm[c].state # "none" /\ cm[c].ref = x /\ cm[c].finalizer

\* From Bind to Apply the claim stays and refers to the XR that is applied.
BindInv ==
    \A c \in Claims :
        /\ pc[c] = "bind" => got[c].finalizer
        /\ pc[c] = "apply" =>
              /\ cm[c].state # "none" /\ cm[c].finalizer
              /\ got[c].ref # None /\ cm[c].ref = got[c].ref

\* A reconcile that removes the finalizer deleted the XR, or found none; where its cache
\* was not behind there is none.
UnfinalizeInv ==
    \A c \in Claims :
        /\ pc[c] = "delete" => Created(gotXR[c]) /\ got[c].ref # None
        /\ pc[c] = "unfinalize" =>
              \/ got[c].ref = None
              \/ ~Created(gotXR[c]) /\ (c \in blind \/ ~Bound(got[c].ref, c))
              \/ ~got[c].foreground /\ ~LiveFor(got[c].ref, c)

IndInv == TypeOK /\ CurrentInv /\ LeakInv /\ BindInv /\ UnfinalizeInv

-----------------------------------------------------------------------------
(* Types.                                                                  *)

PCs == {"idle", "xr", "delete", "unfinalize", "finalize", "bind", "apply", "status"}

LEMMA NothingType == NoClaim \in ClaimObject /\ NoXR \in XRObject
  BY DEF NoClaim, ClaimObject, NoXR, XRObject

\* What is written of a claim is one.
LEMMA ClaimType ==
    ASSUME NEW o \in ClaimObject
    PROVE  /\ \A x \in XRs \cup {None} : [o EXCEPT !.ref = x] \in ClaimObject
           /\ \A s \in {"none", "live", "deleting"} : [o EXCEPT !.state = s] \in ClaimObject
           /\ \A s \in {"unknown", "no", "yes"} : [o EXCEPT !.synced = s] \in ClaimObject
           /\ [o EXCEPT !.finalizer = TRUE] \in ClaimObject
           /\ \A fg \in BOOLEAN : [o EXCEPT !.foreground = fg] \in ClaimObject
<1>1. \A x \in XRs \cup {None} : [o EXCEPT !.ref = x] \in ClaimObject
  BY DEF ClaimObject
<1>2. \A s \in {"none", "live", "deleting"} : [o EXCEPT !.state = s] \in ClaimObject
  BY DEF ClaimObject
<1>3. \A s \in {"unknown", "no", "yes"} : [o EXCEPT !.synced = s] \in ClaimObject
  BY DEF ClaimObject
<1>4. [o EXCEPT !.finalizer = TRUE] \in ClaimObject
  BY DEF ClaimObject
<1>5. \A fg \in BOOLEAN : [o EXCEPT !.foreground = fg] \in ClaimObject
  BY DEF ClaimObject
<1>6. QED
  BY <1>1, <1>2, <1>3, <1>4, <1>5

LEMMA WriteType ==
    ASSUME TypeOK, NEW c \in Claims, NEW o \in ClaimObject, NEW by, Write(c, o, by)
    PROVE  /\ cm' \in [Claims -> ClaimObject]
           /\ current' \in SUBSET (Claims \cup XRs)
           /\ gotCurrent' \in SUBSET Claims
  BY DEF TypeOK, Write

LEMMA WriteXRType ==
    ASSUME TypeOK, NEW x \in XRs, NEW o \in XRObject, WriteXR(x, o)
    PROVE  xrs' \in [XRs -> XRObject] /\ current' \in SUBSET (Claims \cup XRs)
  BY DEF TypeOK, WriteXR

LEMMA RequeueType ==
    ASSUME TypeOK, NEW c \in Claims, Requeue(c)
    PROVE  pc' \in [Claims -> PCs] /\ queued' \in SUBSET Claims
  BY DEF TypeOK, Requeue, Goto, PCs

LEMMA UpdateType ==
    ASSUME TypeOK, NEW c \in Claims, NEW o \in ClaimObject, NEW l \in PCs, Update(c, o, l)
    PROVE  /\ cm' \in [Claims -> ClaimObject]
           /\ current' \in SUBSET (Claims \cup XRs)
           /\ gotCurrent' \in SUBSET Claims
           /\ got' \in [Claims -> ClaimObject]
           /\ pc' \in [Claims -> PCs]
           /\ queued' \in SUBSET Claims
<1>1. CASE Writable(c)
  <2>1. Write(c, o, {c}) /\ got' = [got EXCEPT ![c] = o] /\ pc' = [pc EXCEPT ![c] = l] /\ queued' = queued
    BY <1>1 DEF Update, Goto
  <2>2. QED BY <2>1, WriteType DEF TypeOK, PCs
<1>2. CASE ~Writable(c)
  <2>1. Requeue(c) /\ UNCHANGED <<cm, current, got, gotCurrent>>
    BY <1>2 DEF Update
  <2>2. QED BY <2>1, RequeueType DEF TypeOK
<1>3. QED
  BY <1>1, <1>2

\* A step of users, other controllers and caches keeps the types.
LEMMA OthersType ==
    ASSUME TypeOK,
           \/ Users
           \/ \E x \in XRs : RemoveXR(x) \/ SeeXR(x)
           \/ \E c \in Claims : SeeClaim(c)
    PROVE  TypeOK'
<1> USE ClaimAssumption DEF api, caches, locals, history
<1>1. ASSUME NEW c \in Claims, NEW x \in Static \cup {None}, NEW fg \in BOOLEAN, CreateClaim(c, x, fg)
      PROVE  TypeOK'
  <2> DEFINE o == [NoClaim EXCEPT !.state = "live", !.ref = x, !.foreground = fg]
  <2>1. o \in ClaimObject
    BY DEF NoClaim, ClaimObject
  <2>2. Write(c, o, {})
    BY <1>1 DEF CreateClaim
  <2> HIDE DEF o
  <2>3. QED BY <1>1, <2>1, <2>2, WriteType DEF CreateClaim, Trouble, TypeOK
<1>2. ASSUME NEW c \in Claims, DeleteClaim(c) PROVE TypeOK'
  <2> DEFINE o == IF cm[c].finalizer THEN [cm[c] EXCEPT !.state = "deleting"] ELSE NoClaim
  <2>1. o \in ClaimObject
    BY ClaimType, NothingType DEF TypeOK
  <2>2. Write(c, o, {})
    BY <1>2 DEF DeleteClaim
  <2> HIDE DEF o
  <2>3. QED BY <1>2, <2>1, <2>2, WriteType DEF DeleteClaim, Trouble, TypeOK
<1>3. ASSUME NEW c \in Claims, EditClaim(c) PROVE TypeOK'
  BY <1>3 DEF EditClaim, Trouble, TypeOK
<1>4. ASSUME NEW x \in XRs, DeleteXR(x) PROVE TypeOK'
  <2>1. [xrs[x] EXCEPT !.state = "deleting"] \in XRObject
    BY DEF TypeOK, XRObject
  <2>2. QED BY <1>4, <2>1, WriteXRType DEF DeleteXR, Trouble, TypeOK
<1>5. ASSUME NEW x \in XRs, RemoveXR(x) PROVE TypeOK'
  <2>1. [xrs[x] EXCEPT !.state = "none"] \in XRObject
    BY DEF TypeOK, XRObject
  <2>2. QED BY <1>5, <2>1, WriteXRType DEF RemoveXR, TypeOK
<1>6. ASSUME NEW x \in XRs, SeeXR(x) PROVE TypeOK'
  <2>1. {xrCache[x].claim, xrs[x].claim} \ {None} \subseteq Claims
    BY DEF TypeOK, XRObject
  <2>2. QED BY <1>6, <2>1 DEF SeeXR, TypeOK
<1>7. ASSUME NEW c \in Claims, SeeClaim(c) PROVE TypeOK'
  BY <1>7 DEF SeeClaim, TypeOK
<1>8. QED
  BY <1>1, <1>2, <1>3, <1>4, <1>5, <1>6, <1>7 DEF Users

\* A name that Sync binds is one.
LEMMA NameType ==
    ASSUME TypeOK, NEW c \in Claims, got[c].ref = None => NewNames # {}
    PROVE  Name(c) \in XRs /\ (got[c].ref # None => Name(c) = got[c].ref)
<1>1. got[c].ref \in XRs \cup {None}
  BY DEF TypeOK, ClaimObject
<1>2. NewNames # {} => (CHOOSE x \in NewNames : TRUE) \in XRs
  BY DEF NewNames
<1>3. QED
  BY <1>1, <1>2 DEF Name

\* A step of a reconcile keeps the types.
LEMMA ReconcileType == ASSUME TypeOK, NEW c \in Claims, Reconcile(c) \/ Abort(c) PROVE TypeOK'
<1> USE ClaimAssumption DEF api, caches, locals, history
<1>0. got[c] \in ClaimObject
  BY DEF TypeOK
<1>1. CASE Get(c)
  BY <1>1 DEF Get, Goto, TypeOK
<1>2. CASE GetXR(c)
  <2>1. XROf(c) \in XRObject
    BY <1>0, NothingType DEF XROf, TypeOK, ClaimObject
  <2>2. AfterGetXR(c, XROf(c)) \in {"unbound", "delete", "unfinalize", "finalize"}
    BY DEF AfterGetXR
  <2>3. [got[c] EXCEPT !.synced = "no"] \in ClaimObject
    BY <1>0, ClaimType
  <2>4. /\ cm' \in [Claims -> ClaimObject]
        /\ current' \in SUBSET (Claims \cup XRs)
        /\ gotCurrent' \in SUBSET Claims
    BY <1>2, <2>3, WriteType DEF GetXR, TypeOK
  <2>5. pc' \in [Claims -> PCs]
    BY <1>2, <2>2 DEF GetXR, Goto, TypeOK, PCs
  <2>6. QED BY <1>2, <2>1, <2>4, <2>5 DEF GetXR, TypeOK, PCs
<1>3. CASE Delete(c)
  <2> DEFINE x == got[c].ref
             o == IF xrs[x].state = "live" /\ ~(gotXR[c].state = "deleting" /\ got[c].foreground)
                     THEN [xrs[x] EXCEPT !.state = "deleting"] ELSE xrs[x]
  <2>1. WriteXR(x, o)
    BY <1>3 DEF Delete
  <2>2. xrs' \in [XRs -> XRObject] /\ current' \in SUBSET (Claims \cup XRs)
    <3>1. CASE x \in XRs
      <4>1. o \in XRObject
        BY <3>1 DEF TypeOK, XRObject
      <4>2. QED BY <2>1, <3>1, <4>1, WriteXRType
    <3>2. CASE x \notin XRs
      BY <2>1, <3>2 DEF WriteXR, TypeOK
    <3>3. QED BY <3>1, <3>2
  <2> HIDE DEF o
  <2>3. QED BY <1>3, <2>2 DEF Delete, AfterDelete, Goto, TypeOK
<1>4. CASE RemoveFinalizer(c)
  <2>1. orphaned' \in SUBSET XRs
    BY <1>0, <1>4 DEF RemoveFinalizer, TypeOK, ClaimObject
  <2>2. QED BY <1>4, <2>1, UpdateType, NothingType DEF RemoveFinalizer, TypeOK, PCs
<1>5. CASE AddFinalizer(c)
  <2>1. CASE got[c].finalizer
    BY <1>5, <2>1 DEF AddFinalizer, Goto, TypeOK
  <2>2. CASE ~got[c].finalizer
    BY <1>0, <1>5, <2>2, ClaimType, UpdateType DEF AddFinalizer, TypeOK, PCs
  <2>3. QED BY <2>1, <2>2
<1>6. CASE Bind(c)
  <2>1. CASE Writable(c)
    <3>1. [got[c] EXCEPT !.ref = Name(c)] \in ClaimObject
      BY <1>0, <1>6, <2>1, NameType, ClaimType DEF Bind
    <3>2. QED BY <1>6, <3>1, UpdateType DEF Bind, TypeOK, PCs
  <2>2. CASE ~Writable(c)
    BY <1>6, <2>2, RequeueType DEF Bind, Update, TypeOK, PCs
  <2>3. QED BY <2>1, <2>2
<1>7. CASE Apply(c)
  <2> DEFINE x == got[c].ref
             o == [state |-> IF Created(xrs[x]) THEN xrs[x].state ELSE "live", claim |-> c]
  <2>1. WriteXR(x, o)
    BY <1>7 DEF Apply
  <2>2. xrs' \in [XRs -> XRObject] /\ current' \in SUBSET (Claims \cup XRs)
    <3>1. CASE x \in XRs
      <4>1. o \in XRObject
        BY <3>1 DEF TypeOK, XRObject
      <4>2. QED BY <2>1, <3>1, <4>1, WriteXRType
    <3>2. CASE x \notin XRs
      BY <2>1, <3>2, ZenonT(40) DEF WriteXR, TypeOK
    <3>3. QED BY <3>1, <3>2
  <2> HIDE DEF o
  <2>3. QED BY <1>7, <2>2 DEF Apply, Goto, TypeOK
<1>8. CASE UpdateStatus(c)
  BY <1>0, <1>8, ClaimType, UpdateType DEF UpdateStatus, TypeOK, PCs
<1>9. CASE Abort(c)
  <2>1. [got[c] EXCEPT !.synced = "no"] \in ClaimObject
    BY <1>0, ClaimType
  <2>2. /\ cm' \in [Claims -> ClaimObject]
        /\ current' \in SUBSET (Claims \cup XRs)
        /\ gotCurrent' \in SUBSET Claims
    BY <1>9, <2>1, WriteType DEF Abort, TypeOK
  <2>3. QED BY <1>9, <2>2, RequeueType DEF Abort, Trouble, TypeOK, PCs
<1>10. QED
  BY <1>1, <1>2, <1>3, <1>4, <1>5, <1>6, <1>7, <1>8, <1>9 DEF Reconcile

-----------------------------------------------------------------------------
(* What steps change and what they leave alone.                            *)

LEMMA WriteFacts ==
    ASSUME TypeOK, NEW c \in Claims, NEW o, NEW by, Write(c, o, by)
    PROVE  /\ cm'[c] = o /\ \A d \in Claims \ {c} : cm'[d] = cm[d]
           /\ \A d \in current' : d \in current /\ (d \in Claims => cm'[d] = cm[d])
           /\ \A d \in gotCurrent' : d \in gotCurrent /\ (d \in Claims \ by => cm'[d] = cm[d])
  BY DEF TypeOK, Write

LEMMA WriteXRFacts ==
    ASSUME TypeOK, NEW x \in XRs, NEW o, WriteXR(x, o)
    PROVE  /\ xrs'[x] = o /\ \A y \in XRs \ {x} : xrs'[y] = xrs[y]
           /\ \A y \in current' : y \in current /\ (y \in XRs => xrs'[y] = xrs[y])
  BY DEF TypeOK, WriteXR

\* The reconcile of another claim, and everyone else, leaves the locals of c alone.
LEMMA LocalsKept ==
    ASSUME TypeOK, Next, NEW c \in Claims, ~Reconcile(c), ~Abort(c)
    PROVE  /\ pc'[c] = pc[c] /\ got'[c] = got[c] /\ gotXR'[c] = gotXR[c]
           /\ c \in blind' <=> c \in blind
<1> USE DEF api, caches, locals, history, TypeOK
<1>1. CASE Users \/ \E x \in XRs : RemoveXR(x) \/ SeeXR(x)
  BY <1>1 DEF Users, CreateClaim, DeleteClaim, EditClaim, DeleteXR, RemoveXR, SeeXR
<1>2. ASSUME NEW d \in Claims, SeeClaim(d) PROVE pc' = pc /\ got' = got /\ gotXR' = gotXR /\ blind' = blind
  BY <1>2 DEF SeeClaim
<1>3. ASSUME NEW d \in Claims \ {c}, Get(d) \/ GetXR(d) \/ Delete(d) \/ Apply(d)
      PROVE  pc'[c] = pc[c] /\ got'[c] = got[c] /\ gotXR'[c] = gotXR[c] /\ (c \in blind' <=> c \in blind)
  BY <1>3 DEF Get, GetXR, Delete, Apply, Goto
<1>4. ASSUME NEW d \in Claims \ {c}, RemoveFinalizer(d) \/ AddFinalizer(d) \/ Bind(d) \/ UpdateStatus(d)
      PROVE  pc'[c] = pc[c] /\ got'[c] = got[c] /\ gotXR'[c] = gotXR[c] /\ (c \in blind' <=> c \in blind)
  BY <1>4 DEF RemoveFinalizer, AddFinalizer, Bind, UpdateStatus, Update, Requeue, Goto
<1>5. ASSUME NEW d \in Claims \ {c}, Abort(d)
      PROVE  pc'[c] = pc[c] /\ got'[c] = got[c] /\ gotXR'[c] = gotXR[c] /\ (c \in blind' <=> c \in blind)
  BY <1>5 DEF Abort, Requeue, Goto
<1>6. QED
  BY <1>1, <1>2, <1>3, <1>4, <1>5 DEF Next, Reconcile

\* An XR becomes a claim's only by being applied.
LEMMA XRsKept ==
    ASSUME TypeOK, Next, NEW x \in XRs, NEW c \in Claims, ~(Apply(c) /\ got[c].ref = x)
    PROVE  (Bound(x, c)' => Bound(x, c)) /\ (LiveFor(x, c)' => LiveFor(x, c))
<1> USE DEF api, caches, locals, history, Bound, LiveFor, Created
<1>0. xrs[x] \in XRObject
  BY DEF TypeOK
<1>1. CASE xrs'[x] = xrs[x]
  BY <1>1
<1>2. ASSUME NEW s \in {"none", "deleting"}, WriteXR(x, [xrs[x] EXCEPT !.state = s]), Created(xrs[x])
      PROVE  (Bound(x, c)' => Bound(x, c)) /\ (LiveFor(x, c)' => LiveFor(x, c))
  <2>1. xrs'[x].state = s /\ xrs'[x].claim = xrs[x].claim
    BY <1>0, <1>2, WriteXRFacts DEF XRObject
  <2>2. QED BY <1>2, <2>1
<1>3. ASSUME NEW y, y # x, NEW o, WriteXR(y, o) PROVE xrs'[x] = xrs[x]
  BY <1>3 DEF WriteXR, TypeOK
<1>4. ASSUME NEW y \in XRs, DeleteXR(y) \/ RemoveXR(y)
      PROVE  (Bound(x, c)' => Bound(x, c)) /\ (LiveFor(x, c)' => LiveFor(x, c))
  <2>1. CASE y = x
    BY <1>2, <1>4, <2>1 DEF DeleteXR, RemoveXR
  <2>2. CASE y # x
    BY <1>1, <1>3, <1>4, <2>2 DEF DeleteXR, RemoveXR
  <2>3. QED BY <2>1, <2>2
<1>5. ASSUME NEW d \in Claims, Delete(d)
      PROVE  (Bound(x, c)' => Bound(x, c)) /\ (LiveFor(x, c)' => LiveFor(x, c))
  <2>1. CASE got[d].ref # x
    BY <1>1, <1>3, <1>5, <2>1 DEF Delete
  <2>2. CASE got[d].ref = x /\ xrs[x].state = "live" /\ ~(gotXR[d].state = "deleting" /\ got[d].foreground)
    <3>1. WriteXR(x, [xrs[x] EXCEPT !.state = "deleting"])
      BY <1>5, <2>2 DEF Delete
    <3>2. QED BY <1>2, <2>2, <3>1
  <2>3. CASE got[d].ref = x /\ ~(xrs[x].state = "live" /\ ~(gotXR[d].state = "deleting" /\ got[d].foreground))
    <3>1. WriteXR(x, xrs[x])
      BY <1>5, <2>3 DEF Delete
    <3>2. QED BY <1>1, <3>1, WriteXRFacts
  <2>4. QED BY <2>1, <2>2, <2>3
<1>6. ASSUME NEW d \in Claims, Apply(d)
      PROVE  (Bound(x, c)' => Bound(x, c)) /\ (LiveFor(x, c)' => LiveFor(x, c))
  <2>1. CASE got[d].ref # x
    BY <1>1, <1>3, <1>6, <2>1 DEF Apply
  <2>2. CASE got[d].ref = x
    <3>1. d # c
      BY <1>6, <2>2
    <3>2. xrs'[x].claim = d
      BY <1>6, <2>2, WriteXRFacts DEF Apply
    <3>3. QED BY <3>1, <3>2
  <2>3. QED BY <2>1, <2>2
<1>7. CASE UNCHANGED xrs
  BY <1>1, <1>7
<1>8. QED
  BY <1>4, <1>5, <1>6, <1>7
     DEF Next, Users, CreateClaim, DeleteClaim, EditClaim, SeeXR, SeeClaim, Reconcile, Get, GetXR,
         RemoveFinalizer, AddFinalizer, Bind, UpdateStatus, Abort

\* The claim o becomes n, which keeps the finalizer and the reference of o if it has
\* both, keeps the reference unless it is gone, and does not await deletion without a
\* finalizer.
Keeps(o, n) ==
    /\ o.state # "none" /\ o.finalizer /\ o.ref # None
          => n.state # "none" /\ n.finalizer /\ n.ref = o.ref
    /\ o.state # "none" /\ o.ref # None /\ n.state # "none" => n.ref = o.ref
    /\ (o.state = "deleting" => o.finalizer) => (n.state = "deleting" => n.finalizer)

\* What reconciles make of their copy keeps both.
LEMMA CopyKeeps ==
    ASSUME NEW o \in ClaimObject
    PROVE  /\ \A s \in {"no", "yes"} : Keeps(o, [o EXCEPT !.synced = s])
           /\ Keeps(o, [o EXCEPT !.finalizer = TRUE])
           /\ o.finalizer => Keeps(o, [o EXCEPT !.state = "deleting"])
           /\ \A x : (o.ref # None => x = o.ref) => Keeps(o, [o EXCEPT !.ref = x])
<1>1. \A s \in {"no", "yes"} : Keeps(o, [o EXCEPT !.synced = s])
  BY DEF Keeps, ClaimObject
<1>2. Keeps(o, [o EXCEPT !.finalizer = TRUE])
  BY DEF Keeps, ClaimObject
<1>3. o.finalizer => Keeps(o, [o EXCEPT !.state = "deleting"])
  BY DEF Keeps, ClaimObject
<1>4. \A x : (o.ref # None => x = o.ref) => Keeps(o, [o EXCEPT !.ref = x])
  BY DEF Keeps, ClaimObject
<1>5. QED
  BY <1>1, <1>2, <1>3, <1>4

\* Nothing but the removal of its finalizer takes a claim away, or its reference.
LEMMA ClaimsKept ==
    ASSUME TypeOK, CurrentInv, Next, NEW c \in Claims, ~RemoveFinalizer(c)
    PROVE  Keeps(cm[c], cm'[c])
<1> USE DEF api, caches, locals, history
<1>0. cm[c] \in ClaimObject
  BY DEF TypeOK
<1>1. CASE cm'[c] = cm[c]
  BY <1>1 DEF Keeps
<1>2. ASSUME NEW o, Write(c, o, {c}), Writable(c), pc[c] # "idle", Keeps(got[c], o)
      PROVE  Keeps(cm[c], cm'[c])
  BY <1>2, WriteFacts DEF CurrentInv, Writable
<1>3. ASSUME NEW d \in Claims \ {c}, NEW o, NEW by, Write(d, o, by) PROVE Keeps(cm[c], cm'[c])
  BY <1>1, <1>3, WriteFacts
<1>4. ASSUME NEW d \in Claims, NEW x, NEW fg, CreateClaim(d, x, fg) PROVE Keeps(cm[c], cm'[c])
  <2>1. CASE d = c
    <3> DEFINE o == [NoClaim EXCEPT !.state = "live", !.ref = x, !.foreground = fg]
    <3>1. cm'[c] = o
      BY <1>4, <2>1, WriteFacts DEF CreateClaim
    <3>2. o.state = "live"
      BY DEF NoClaim
    <3> HIDE DEF o
    <3>3. QED BY <1>4, <2>1, <3>1, <3>2 DEF CreateClaim, Keeps
  <2>2. CASE d # c
    BY <1>3, <1>4, <2>2 DEF CreateClaim
  <2>3. QED BY <2>1, <2>2
<1>5. ASSUME NEW d \in Claims, DeleteClaim(d) PROVE Keeps(cm[c], cm'[c])
  <2>1. CASE d = c /\ cm[c].finalizer
    <3>1. Write(c, [cm[c] EXCEPT !.state = "deleting"], {})
      BY <1>5, <2>1 DEF DeleteClaim
    <3>2. QED BY <1>0, <2>1, <3>1, CopyKeeps, WriteFacts
  <2>2. CASE d = c /\ ~cm[c].finalizer
    BY <1>5, <2>2, WriteFacts DEF DeleteClaim, Keeps, NoClaim
  <2>3. CASE d # c
    BY <1>3, <1>5, <2>3 DEF DeleteClaim
  <2>4. QED BY <2>1, <2>2, <2>3
<1>6. ASSUME NEW d \in Claims, GetXR(d) \/ Abort(d) PROVE Keeps(cm[c], cm'[c])
  <2>1. UNCHANGED cm \/ (Writable(d) /\ Write(d, [got[d] EXCEPT !.synced = "no"], {d}))
    <3>1. CASE GetXR(d)
      BY <3>1 DEF GetXR
    <3>2. CASE Abort(d)
      BY <3>2 DEF Abort
    <3>3. QED BY <1>6, <3>1, <3>2
  <2>2. pc[d] # "idle" /\ got[d] \in ClaimObject
    BY <1>6 DEF GetXR, Abort, TypeOK
  <2>3. CASE d = c
    BY <1>1, <1>2, <2>1, <2>2, <2>3, CopyKeeps
  <2>4. CASE d # c
    BY <1>1, <1>3, <2>1, <2>4
  <2>5. QED BY <2>3, <2>4
<1>7. ASSUME NEW d \in Claims, NEW o, NEW l, Update(d, o, l), pc[d] # "idle", d = c => Keeps(got[c], o) \/ ~Writable(c)
      PROVE  Keeps(cm[c], cm'[c])
  BY <1>1, <1>2, <1>3, <1>7 DEF Update
<1>8. ASSUME NEW d \in Claims, RemoveFinalizer(d) PROVE Keeps(cm[c], cm'[c])
  BY <1>7, <1>8 DEF RemoveFinalizer
<1>9. ASSUME NEW d \in Claims, AddFinalizer(d) PROVE Keeps(cm[c], cm'[c])
  <2>1. UNCHANGED cm \/ Update(d, [got[d] EXCEPT !.finalizer = TRUE], "bind")
    BY <1>9 DEF AddFinalizer
  <2>2. pc[d] # "idle" /\ Keeps(got[d], [got[d] EXCEPT !.finalizer = TRUE])
    BY <1>9, CopyKeeps DEF AddFinalizer, TypeOK
  <2>3. QED BY <1>1, <1>7, <2>1, <2>2
<1>10. ASSUME NEW d \in Claims, Bind(d) PROVE Keeps(cm[c], cm'[c])
  <2>1. Update(d, [got[d] EXCEPT !.ref = Name(d)], "apply") /\ pc[d] # "idle"
    BY <1>10 DEF Bind
  <2>2. Writable(d) => Keeps(got[d], [got[d] EXCEPT !.ref = Name(d)])
    <3>1. got[d].ref # None => Name(d) = got[d].ref
      BY DEF Name
    <3>2. QED BY <3>1, CopyKeeps DEF TypeOK
  <2>3. QED BY <1>7, <2>1, <2>2
<1>11. ASSUME NEW d \in Claims, UpdateStatus(d) PROVE Keeps(cm[c], cm'[c])
  <2>1. Update(d, [got[d] EXCEPT !.synced = "yes"], "idle") /\ pc[d] # "idle"
    BY <1>11 DEF UpdateStatus
  <2>2. Keeps(got[d], [got[d] EXCEPT !.synced = "yes"])
    BY CopyKeeps DEF TypeOK
  <2>3. QED BY <1>7, <2>1, <2>2
<1>12. CASE UNCHANGED cm
  BY <1>1, <1>12
<1>13. QED
  BY <1>4, <1>5, <1>6, <1>8, <1>9, <1>10, <1>11, <1>12
     DEF Next, Users, EditClaim, DeleteXR, RemoveXR, SeeXR, SeeClaim, Reconcile, Get, Delete, Apply

-----------------------------------------------------------------------------
(* Each part of the invariant is kept by every step.                       *)

\* A write of a claim, after which its reconcile has what it wrote, or has ended.
LEMMA ClaimWritten ==
    ASSUME TypeOK, CurrentInv, NEW c \in Claims, NEW o, NEW by \in SUBSET {c}, Write(c, o, by),
           UNCHANGED <<xrs, cmCache, xrCache>>,
           \A d \in Claims \ by : got'[d] = got[d] /\ pc'[d] = pc[d],
           \A d \in by : got'[d] = o \/ pc'[d] = "idle"
    PROVE  CurrentInv'
  BY WriteFacts DEF CurrentInv

LEMMA XRWritten ==
    ASSUME TypeOK, CurrentInv, NEW x \in XRs, NEW o, WriteXR(x, o),
           UNCHANGED <<cm, cmCache, xrCache, got, gotCurrent>>,
           \A d \in Claims : pc[d] = "idle" => pc'[d] = "idle"
    PROVE  CurrentInv'
  BY WriteXRFacts DEF CurrentInv

\* Where a reconcile goes on without a write.
LEMMA NothingWritten ==
    ASSUME CurrentInv, UNCHANGED <<api, caches, got, gotCurrent>>,
           \A d \in Claims : pc[d] = "idle" => pc'[d] = "idle"
    PROVE  CurrentInv'
  BY DEF CurrentInv, api, caches

LEMMA Updated ==
    ASSUME TypeOK, CurrentInv, NEW c \in Claims, NEW o, NEW l, Update(c, o, l), UNCHANGED <<xrs, cmCache, xrCache>>
    PROVE  CurrentInv'
<1>1. CASE Writable(c)
  <2>1. Write(c, o, {c}) /\ got' = [got EXCEPT ![c] = o] /\ pc' = [pc EXCEPT ![c] = l]
    BY <1>1 DEF Update, Goto
  <2>2. got'[c] = o /\ \A d \in Claims \ {c} : got'[d] = got[d] /\ pc'[d] = pc[d]
    BY <2>1 DEF TypeOK
  <2>3. QED BY <2>1, <2>2, ClaimWritten
<1>2. CASE ~Writable(c)
  BY <1>2, NothingWritten DEF Update, Requeue, Goto, api, caches, TypeOK
<1>3. QED
  BY <1>1, <1>2

LEMMA CurrentStep == ASSUME IndInv, Next PROVE CurrentInv'
<1> USE ClaimAssumption DEF api, caches, locals, history
<1>0. TypeOK /\ CurrentInv
  BY DEF IndInv
<1>1. ASSUME NEW c \in Claims, NEW x, NEW fg, CreateClaim(c, x, fg) PROVE CurrentInv'
  BY <1>0, <1>1, ClaimWritten DEF CreateClaim
<1>2. ASSUME NEW c \in Claims, DeleteClaim(c) PROVE CurrentInv'
  BY <1>0, <1>2, ClaimWritten DEF DeleteClaim
<1>3. ASSUME NEW c \in Claims, EditClaim(c) PROVE CurrentInv'
  BY <1>0, <1>3 DEF EditClaim, CurrentInv
<1>4. ASSUME NEW x \in XRs, DeleteXR(x) \/ RemoveXR(x) PROVE CurrentInv'
  BY <1>0, <1>4, XRWritten DEF DeleteXR, RemoveXR
<1>5. ASSUME NEW x \in XRs, SeeXR(x) PROVE CurrentInv'
  BY <1>0, <1>5 DEF SeeXR, CurrentInv, TypeOK
<1>6. ASSUME NEW c \in Claims, SeeClaim(c) PROVE CurrentInv'
  BY <1>0, <1>6 DEF SeeClaim, CurrentInv, TypeOK
<1>7. ASSUME NEW c \in Claims, Get(c) PROVE CurrentInv'
  BY <1>0, <1>7 DEF Get, Goto, CurrentInv, TypeOK
<1>8. ASSUME NEW c \in Claims, GetXR(c) \/ Abort(c) PROVE CurrentInv'
  <2>1. pc[c] # "idle" /\ UNCHANGED <<xrs, cmCache, xrCache, got>> /\ \A d \in Claims \ {c} : pc'[d] = pc[d]
    BY <1>0, <1>8 DEF GetXR, Abort, Requeue, Goto, TypeOK
  <2>2. \/ UNCHANGED <<cm, current, gotCurrent>>
        \/ Write(c, [got[c] EXCEPT !.synced = "no"], {c}) /\ pc'[c] = "idle"
    BY <1>0, <1>8 DEF GetXR, Abort, Requeue, Goto, TypeOK
  <2>3. QED BY <1>0, <2>1, <2>2, ClaimWritten, NothingWritten
<1>9. ASSUME NEW c \in Claims, Delete(c) \/ Apply(c) PROVE CurrentInv'
  <2>1. got[c].ref \in XRs
    BY <1>0, <1>9 DEF IndInv, UnfinalizeInv, BindInv, Delete, Apply, TypeOK, ClaimObject
  <2>2. \A d \in Claims : pc[d] = "idle" => pc'[d] = "idle"
    BY <1>0, <1>9 DEF Delete, Apply, Goto, TypeOK
  <2>3. QED BY <1>0, <1>9, <2>1, <2>2, XRWritten DEF Delete, Apply
<1>10. ASSUME NEW c \in Claims, RemoveFinalizer(c) \/ AddFinalizer(c) \/ Bind(c) \/ UpdateStatus(c) PROVE CurrentInv'
  <2>1. CASE AddFinalizer(c) /\ got[c].finalizer
    BY <1>0, <2>1, NothingWritten DEF AddFinalizer, Goto, TypeOK
  <2>2. QED BY <1>0, <1>10, <2>1, Updated DEF RemoveFinalizer, AddFinalizer, Bind, UpdateStatus
<1>11. QED
  BY <1>1, <1>2, <1>3, <1>4, <1>5, <1>6, <1>7, <1>8, <1>9, <1>10 DEF Next, Users, Reconcile

\* The finalizer of a claim is removed when its XR is deleted, or in ignorance of it.
LEMMA LeakStep == ASSUME IndInv, Next PROVE LeakInv'
<1> USE ClaimAssumption
<1>0. TypeOK /\ CurrentInv /\ LeakInv /\ BindInv /\ UnfinalizeInv
  BY DEF IndInv
<1>1. ASSUME NEW c \in Claims, cm'[c].state = "deleting" PROVE cm'[c].finalizer
  <2>1. CASE RemoveFinalizer(c)
    BY <1>0, <1>1, <2>1, WriteFacts DEF RemoveFinalizer, Update, NoClaim, LeakInv
  <2>2. CASE ~RemoveFinalizer(c)
    BY <1>0, <1>1, <2>2, ClaimsKept DEF Keeps, LeakInv
  <2>3. QED BY <2>1, <2>2
<1> SUFFICES ASSUME NEW x \in XRs \ orphaned', NEW c \in Claims, LiveFor(x, c)'
             PROVE  cm'[c].state # "none" /\ cm'[c].ref = x /\ cm'[c].finalizer
  BY <1>1 DEF LeakInv
<1>2. CASE Apply(c) /\ got[c].ref = x
  BY <1>0, <1>2 DEF Apply, BindInv
<1>3. CASE ~(Apply(c) /\ got[c].ref = x)
  <2>1. LiveFor(x, c)
    BY <1>0, <1>3, XRsKept
  <2>2. x \notin orphaned
    <3>1. ASSUME NEW d \in Claims, Apply(d) PROVE x \notin orphaned
      <4>1. CASE got[d].ref = x
        <5>1. xrs'[x].claim = d
          BY <1>0, <3>1, <4>1, WriteXRFacts DEF Apply
        <5>2. d # c
          BY <1>3, <3>1, <4>1
        <5>3. QED BY <5>1, <5>2 DEF LiveFor, Bound
      <4>2. CASE got[d].ref # x
        BY <3>1, <4>2 DEF Apply
      <4>3. QED BY <4>1, <4>2
    <3>2. ASSUME NEW d \in Claims, RemoveFinalizer(d) PROVE x \notin orphaned
      BY <3>2 DEF RemoveFinalizer
    <3>3. CASE UNCHANGED orphaned
      BY <3>3
    <3>4. QED
      BY <3>1, <3>2, <3>3
         DEF Next, Users, CreateClaim, DeleteClaim, EditClaim, DeleteXR, RemoveXR, SeeXR, SeeClaim,
             Reconcile, Get, GetXR, Delete, AddFinalizer, Bind, UpdateStatus, Abort, history
  <2>3. cm[c].state # "none" /\ cm[c].ref = x /\ cm[c].finalizer
    BY <1>0, <2>1, <2>2 DEF LeakInv
  <2>4. CASE ~RemoveFinalizer(c)
    BY <1>0, <2>3, <2>4, ClaimsKept DEF Keeps
  <2>5. CASE RemoveFinalizer(c)
    <3>1. CASE Writable(c)
      <4>1. pc[c] = "unfinalize" /\ got[c].ref = x
        BY <1>0, <2>3, <2>5, <3>1 DEF RemoveFinalizer, Writable, CurrentInv
      <4>2. ~Created(gotXR[c]) /\ c \in blind
        BY <1>0, <2>1, <4>1 DEF UnfinalizeInv, LiveFor
      <4>3. x \in orphaned'
        BY <2>5, <3>1, <4>1, <4>2 DEF RemoveFinalizer
      <4>4. QED BY <4>3
    <3>2. CASE ~Writable(c)
      BY <2>3, <2>5, <3>2 DEF RemoveFinalizer, Update
    <3>3. QED BY <3>1, <3>2
  <2>6. QED BY <2>4, <2>5
<1>4. QED
  BY <1>2, <1>3

LEMMA BindStep == ASSUME IndInv, Next PROVE BindInv'
<1> USE ClaimAssumption DEF PCs
<1>0. TypeOK /\ CurrentInv /\ BindInv
  BY DEF IndInv
<1> SUFFICES ASSUME NEW c \in Claims
             PROVE  /\ pc'[c] = "bind" => got'[c].finalizer
                    /\ pc'[c] = "apply" =>
                          /\ cm'[c].state # "none" /\ cm'[c].finalizer
                          /\ got'[c].ref # None /\ cm'[c].ref = got'[c].ref
  BY DEF BindInv
<1>1. CASE ~Reconcile(c) /\ ~Abort(c)
  <2>1. ~RemoveFinalizer(c)
    BY <1>1 DEF Reconcile
  <2>2. pc'[c] = pc[c] /\ got'[c] = got[c] /\ Keeps(cm[c], cm'[c])
    BY <1>0, <1>1, <2>1, LocalsKept, ClaimsKept
  <2>3. QED BY <1>0, <2>2 DEF BindInv, Keeps
<1>2. CASE Get(c) \/ GetXR(c) \/ Delete(c) \/ Apply(c)
  BY <1>0, <1>2 DEF Get, GetXR, AfterGetXR, Delete, AfterDelete, Apply, Goto, TypeOK
<1>3. CASE RemoveFinalizer(c) \/ UpdateStatus(c)
  BY <1>0, <1>3 DEF RemoveFinalizer, UpdateStatus, Update, Requeue, Goto, TypeOK
<1>4. CASE AddFinalizer(c)
  <2>1. pc'[c] \in {"idle", "bind"} /\ (pc'[c] = "bind" => got'[c] \in {got[c], [got[c] EXCEPT !.finalizer = TRUE]})
    BY <1>0, <1>4 DEF AddFinalizer, Update, Requeue, Goto, TypeOK
  <2>2. [got[c] EXCEPT !.finalizer = TRUE].finalizer
    BY <1>0 DEF TypeOK, ClaimObject
  <2>3. CASE got[c].finalizer
    BY <1>4, <2>1, <2>3 DEF AddFinalizer
  <2>4. CASE ~got[c].finalizer /\ Writable(c)
    BY <1>0, <1>4, <2>1, <2>2, <2>4 DEF AddFinalizer, Update, TypeOK
  <2>5. CASE ~got[c].finalizer /\ ~Writable(c)
    BY <1>0, <1>4, <2>5 DEF AddFinalizer, Update, Requeue, Goto, TypeOK
  <2>6. QED BY <2>3, <2>4, <2>5
<1>5. CASE Bind(c)
  <2>1. CASE Writable(c)
    <3>1. got[c] = cm[c] /\ got[c].finalizer /\ cm[c].state # "none"
      BY <1>0, <1>5, <2>1 DEF Bind, BindInv, CurrentInv, Writable
    <3> DEFINE o == [got[c] EXCEPT !.ref = Name(c)]
    <3>2. cm'[c] = o /\ got'[c] = o /\ pc'[c] = "apply"
      BY <1>0, <1>5, <2>1 DEF Bind, Update, Write, Goto, TypeOK
    <3>3. Name(c) \in XRs
      BY <1>0, <1>5, <2>1, NameType DEF Bind
    <3>4. o.ref = Name(c) /\ o.finalizer = got[c].finalizer /\ o.state = got[c].state
      BY <1>0 DEF TypeOK, ClaimObject
    <3>5. QED BY <3>1, <3>2, <3>3, <3>4
  <2>2. CASE ~Writable(c)
    BY <1>0, <1>5, <2>2 DEF Bind, Update, Requeue, Goto, TypeOK
  <2>3. QED BY <2>1, <2>2
<1>6. CASE Abort(c)
  BY <1>0, <1>6 DEF Abort, Requeue, Goto, TypeOK
<1>7. QED
  BY <1>1, <1>2, <1>3, <1>4, <1>5, <1>6 DEF Reconcile

LEMMA UnfinalizeStep == ASSUME IndInv, Next PROVE UnfinalizeInv'
<1> USE ClaimAssumption
<1>0. TypeOK /\ CurrentInv /\ UnfinalizeInv
  BY DEF IndInv
<1> SUFFICES ASSUME NEW c \in Claims
             PROVE  /\ pc'[c] = "delete" => Created(gotXR'[c]) /\ got'[c].ref # None
                    /\ pc'[c] = "unfinalize" =>
                          \/ got'[c].ref = None
                          \/ ~Created(gotXR'[c]) /\ (c \in blind' \/ ~Bound(got[c].ref, c)')
                          \/ ~got'[c].foreground /\ ~LiveFor(got[c].ref, c)'
  BY DEF UnfinalizeInv
<1>1. CASE ~Reconcile(c) /\ ~Abort(c)
  <2>1. pc'[c] = pc[c] /\ got'[c] = got[c] /\ gotXR'[c] = gotXR[c] /\ (c \in blind' <=> c \in blind)
    BY <1>0, <1>1, LocalsKept
  <2>2. CASE got[c].ref # None
    <3>1. got[c].ref \in XRs /\ ~Apply(c)
      BY <1>0, <1>1, <2>2 DEF TypeOK, ClaimObject, Reconcile
    <3>2. (Bound(got[c].ref, c)' => Bound(got[c].ref, c)) /\ (LiveFor(got[c].ref, c)' => LiveFor(got[c].ref, c))
      <4> DEFINE x == got[c].ref
      <4>1. /\ Created(xrs'[x]) /\ xrs'[x].claim = c => Bound(x, c)
            /\ Created(xrs'[x]) /\ xrs'[x].claim = c /\ xrs'[x].state = "live" => LiveFor(x, c)
        BY <1>0, <3>1, XRsKept DEF Bound, LiveFor
      <4>2. got'[c].ref = x
        BY <2>1
      <4>3. QED BY <4>1, <4>2 DEF Bound, LiveFor
    <3>3. QED BY <1>0, <2>1, <3>2 DEF UnfinalizeInv, Created
  <2>3. CASE got[c].ref = None
    BY <1>0, <2>1, <2>3 DEF UnfinalizeInv, Created
  <2>4. QED BY <2>2, <2>3
<1>2. CASE Get(c)
  BY <1>0, <1>2 DEF Get, Goto, TypeOK
<1>3. CASE GetXR(c)
  <2>1. got' = got /\ xrs' = xrs /\ gotXR'[c] = XROf(c) /\ (c \in blind' <=> got[c].ref \in XRs \ current)
    BY <1>0, <1>3 DEF GetXR, TypeOK
  <2>2. /\ pc'[c] = "delete" => Created(XROf(c))
        /\ pc'[c] = "unfinalize" => ~Created(XROf(c))
    <3>1. pc'[c] \in {"idle", AfterGetXR(c, XROf(c))}
      BY <1>0, <1>3 DEF GetXR, Goto, TypeOK
    <3>2. /\ AfterGetXR(c, XROf(c)) = "delete" => Created(XROf(c))
          /\ AfterGetXR(c, XROf(c)) = "unfinalize" => ~Created(XROf(c))
      BY DEF AfterGetXR, Created
    <3>3. QED BY <3>1, <3>2
  <2>3. Created(XROf(c)) => got[c].ref # None
    BY DEF XROf, Created, NoXR
  <2>4. ~Created(XROf(c)) /\ got[c].ref # None /\ c \notin blind' => ~Bound(got[c].ref, c)'
    <3>1. got[c].ref \in XRs \cup {None}
      BY <1>0 DEF TypeOK, ClaimObject
    <3>2. QED BY <1>0, <2>1, <3>1 DEF CurrentInv, XROf, Bound, Created
  <2>5. QED BY <2>1, <2>2, <2>3, <2>4 DEF Created
<1>4. CASE Delete(c)
  <2> DEFINE x == got[c].ref
  <2>1. got' = got /\ gotXR' = gotXR /\ pc'[c] = AfterDelete(c)
    BY <1>0, <1>4 DEF Delete, Goto, TypeOK
  <2>2. CASE got[c].foreground
    BY <2>1, <2>2 DEF AfterDelete
  <2>3. CASE ~got[c].foreground
    <3>1. x \in XRs /\ xrs[x] \in XRObject
      BY <1>0, <1>4 DEF Delete, UnfinalizeInv, TypeOK, ClaimObject
    <3>2. xrs'[x].state # "live"
      <4>1. [xrs[x] EXCEPT !.state = "deleting"].state = "deleting"
        BY <3>1 DEF XRObject
      <4>2. WriteXR(x, IF xrs[x].state = "live" THEN [xrs[x] EXCEPT !.state = "deleting"] ELSE xrs[x])
        BY <1>4, <2>3 DEF Delete
      <4>3. CASE xrs[x].state = "live"
        BY <1>0, <3>1, <4>1, <4>2, <4>3, WriteXRFacts
      <4>4. CASE xrs[x].state # "live"
        BY <1>0, <3>1, <4>2, <4>4, WriteXRFacts
      <4>5. QED BY <4>3, <4>4
    <3>3. QED BY <2>1, <2>3, <3>2 DEF AfterDelete, LiveFor
  <2>4. QED BY <2>2, <2>3
<1>5. CASE RemoveFinalizer(c) \/ AddFinalizer(c) \/ Bind(c) \/ UpdateStatus(c)
  BY <1>0, <1>5 DEF RemoveFinalizer, AddFinalizer, Bind, UpdateStatus, Update, Requeue, Goto, TypeOK
<1>6. CASE Apply(c) \/ Abort(c)
  BY <1>0, <1>6 DEF Apply, Abort, Requeue, Goto, TypeOK
<1>7. QED
  BY <1>1, <1>2, <1>3, <1>4, <1>5, <1>6 DEF Reconcile

\* The invariant holds throughout.
THEOREM IndInvariance == Spec => []IndInv
<1>1. Init => IndInv
  <2> SUFFICES ASSUME Init PROVE IndInv
    OBVIOUS
  <2> USE ClaimAssumption DEF Init
  <2>1. TypeOK
    <3>1. [NoXR EXCEPT !.state = "live"] \in XRObject
      BY DEF NoXR, XRObject
    <3>2. QED BY <3>1, NothingType DEF TypeOK
  <2>2. CurrentInv
    BY DEF CurrentInv
  <2>3. LeakInv
    <3>1. \A x \in XRs : xrs[x].claim = None
      BY DEF NoXR
    <3>2. QED BY <3>1 DEF LeakInv, LiveFor, Bound, NoClaim
  <2>4. BindInv /\ UnfinalizeInv
    BY DEF BindInv, UnfinalizeInv
  <2>5. QED BY <2>1, <2>2, <2>3, <2>4 DEF IndInv
<1>2. IndInv /\ [Next]_vars => IndInv'
  <2> SUFFICES ASSUME IndInv, [Next]_vars PROVE IndInv'
    OBVIOUS
  <2>1. CASE UNCHANGED vars
    BY <2>1 DEF vars, api, caches, locals, history, IndInv, TypeOK, CurrentInv, LeakInv, BindInv,
                UnfinalizeInv, LiveFor, Bound, Created
  <2>2. CASE Next
    <3>1. TypeOK'
      BY <2>2, OthersType, ReconcileType DEF Next, IndInv
    <3>2. QED BY <2>2, <3>1, CurrentStep, LeakStep, BindStep, UnfinalizeStep DEF IndInv
  <2>3. QED BY <2>1, <2>2
<1>3. QED
  BY <1>1, <1>2, PTL DEF Spec

-----------------------------------------------------------------------------
(* What follows.                                                           *)

\* The state stays well typed: in particular a claim refers to an XR or to none, also
\* when Sync generates the name.
THEOREM TypeCorrectness == Spec => []TypeOK
<1>1. IndInv => TypeOK
  BY DEF IndInv
<1>2. QED
  BY <1>1, IndInvariance, PTL

\* An XR that exists for a claim is the one that the claim refers to, whatever crashes
\* or fails between the two writes of Sync and however old the copies are; only a
\* reconcile whose cache was behind leaves one without its claim.
THEOREM NoLeak == Spec => []NoXRLeaks
<1>1. IndInv => NoXRLeaks
  BY DEF IndInv, LeakInv, LiveFor, NoXRLeaks
<1>2. QED
  BY <1>1, IndInvariance, PTL

\* A claim is not bound to a second XR while it exists, whatever crashed between the
\* writes of Sync and however old the copies of the claim and of its XR are: an old copy
\* is refused, and a current one has the reference, which gives the name.
THEOREM NeverRebound == Spec => StaysBound
<1> DEFINE A(c) == cm[c].state # "none" /\ cm[c].ref # None /\ cm'[c].state # "none"
                      => cm'[c].ref = cm[c].ref
<1>1. IndInv /\ [Next]_vars => \A c \in Claims : A(c)
  <2> SUFFICES ASSUME IndInv, [Next]_vars, NEW c \in Claims,
                      cm[c].state # "none", cm[c].ref # None, cm'[c].state # "none"
               PROVE  cm'[c].ref = cm[c].ref
    OBVIOUS
  <2> USE ClaimAssumption
  <2>1. CASE UNCHANGED vars
    BY <2>1 DEF vars, api
  <2>2. CASE RemoveFinalizer(c)
    <3>1. CASE Writable(c)
      <4>1. Write(c, NoClaim, {c})
        BY <2>2, <3>1 DEF RemoveFinalizer, Update
      <4>2. QED BY <4>1, WriteFacts DEF IndInv, NoClaim
    <3>2. CASE ~Writable(c)
      BY <2>2, <3>2 DEF RemoveFinalizer, Update
    <3>3. QED BY <3>1, <3>2
  <2>3. CASE Next /\ ~RemoveFinalizer(c)
    BY <2>3, ClaimsKept DEF Keeps, IndInv
  <2>4. QED BY <2>1, <2>2, <2>3
<1>2. QED
  BY <1>1, IndInvariance, PTL DEF Spec, StaysBound
=============================================================================
