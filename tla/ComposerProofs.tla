--------------------------- MODULE ComposerProofs ---------------------------
(***************************************************************************)
(* A composed resource is forgotten for the known reasons only, another's  *)
(* is never deleted, and a deleted XR stays deleted, for any resources,    *)
(* kinds and names and any number of failures, crashes and changes from    *)
(* outside.                                                                *)
(***************************************************************************)
EXTENDS Composer, TLAPS

-----------------------------------------------------------------------------
(* The inductive invariant.                                                *)

\* The cached XR is at an earlier stage of its life than the XR, or the same. Past
\* the finalizer a reconcile can rely on the XR: nobody else removes the finalizer.
LifeInv ==
    /\ xrCache.state = "deleting" => xr.state # "live"
    /\ xrCache.state = "none" => xr.state = "none"
    /\ xrCache.state = "live" /\ xrCache.finalizer => Exists(xr) /\ xr.finalizer
    /\ pc = "unfinalize" => got.state = "deleting" /\ xrCache.state # "live"
    /\ pc = "finalize" => got.state = "live"
    /\ pc \in {"run", "collect", "delete", "apply"} => Exists(xr) /\ xr.finalizer

\* The resource is one that the XR controls, or would if its reference were restored.
Ours(o) == objs[o].state = "live" /\ objs[o].controller # "other"

\* What the collector has yet to delete it has seen, as the XR's; it deletes one at a time.
CollectInv ==
    /\ pc # "delete" => victim = {}
    /\ \A o, p \in victim : o = p
    /\ pc \in {"collect", "delete"} =>
          \A o \in todo \cup victim : Exists(copies[o]) /\ copies[o].controller = "xr"

\* Every resource of the XR is referred to, what is applied is, too, and what the
\* collector is done with and may be forgotten is the XR's no longer.
LeakInv ==
    /\ Exists(xr) => \A o \in Objects \ forgotten : Ours(o) => o \in xr.refs
    /\ pc = "apply" => todo \subseteq xr.refs
    /\ pc \in {"collect", "delete"} =>
          \A o \in got.refs \ (todo \cup victim) :
              /\ NameOf[o] \notin Names(desired)
              /\ Exists(copies[o]) => copies[o].controller = "xr"
              => ~Ours(o)

\* The copy c of the resource r is not newer, and where c has the UID of r and is not
\* another's, neither is r.
Follows(c, r) ==
    /\ c.uid <= r.uid
    /\ Exists(c) /\ c.controller # "other" /\ c.uid = r.uid => r.controller # "other"

OwnInv == \A o \in Objects : Follows(cache[o], objs[o]) /\ Follows(copies[o], objs[o])

IndInv == TypeOK /\ LifeInv /\ CollectInv /\ LeakInv /\ OwnInv

-----------------------------------------------------------------------------
(* Types.                                                                  *)

LEMMA NothingType == NoXR \in XR /\ NoObjects \in [Objects -> Object] /\ {} \in Desires
<1>1. {} \in Desires
  BY DEF Desires, Unambiguous
<1>2. QED
  BY <1>1 DEF NoXR, XR, NoObjects, Object

\* What the API server makes of a resource is a resource.
LEMMA ObjectType ==
    ASSUME TypeOK, NEW o \in Objects
    PROVE  /\ \A k \in {"xr", "other", "nobody"} : Created(o, k) \in Object
           /\ Removed(o) \in Object
           /\ \A s \in {"none", "live", "deleting"} : [objs[o] EXCEPT !.state = s] \in Object
           /\ \A k \in {"xr", "other", "nobody"} : [objs[o] EXCEPT !.controller = k] \in Object
<1>1. objs[o] \in Object
  BY DEF TypeOK
<1>2. objs[o].uid \in Nat /\ objs[o].uid + 1 \in Nat
  BY <1>1 DEF Object
<1>3. \A k \in {"xr", "other", "nobody"} : Created(o, k) \in Object
  BY <1>2 DEF Created, Object
<1>4. \A s \in {"none", "live", "deleting"} : [objs[o] EXCEPT !.state = s] \in Object
  BY <1>1 DEF Object
<1>5. \A k \in {"xr", "other", "nobody"} : [objs[o] EXCEPT !.controller = k] \in Object
  BY <1>1 DEF Object
<1>6. Removed(o) \in Object
  BY <1>1 DEF Removed, Object
<1>7. QED
  BY <1>3, <1>4, <1>5, <1>6

\* A step of the outside world keeps the types.
LEMMA OthersType ==
    ASSUME TypeOK, Others \/ SeeXR \/ \E o \in Objects : RemoveObject(o) \/ SeeObject(o)
    PROVE  TypeOK'
<1> USE NothingType, ComposerAssumption DEF caches, locals, server
<1>1. ASSUME NEW S \in Desires, ChangeWanted(S) PROVE TypeOK'
  BY <1>1 DEF TypeOK, ChangeWanted, Trouble
<1>2. CASE DeleteXR
  <2>1. xr' \in XR
    BY <1>2 DEF DeleteXR, TypeOK, XR
  <2>2. QED BY <1>2, <2>1 DEF TypeOK, DeleteXR, Trouble
<1>3. ASSUME NEW o \in Objects, DeleteObject(o) PROVE TypeOK'
  <2>1. objs' \in [Objects -> Object]
    BY <1>3, ObjectType DEF DeleteObject, Write, TypeOK
  <2>2. QED BY <1>3, <2>1 DEF TypeOK, DeleteObject, Trouble
<1>4. ASSUME NEW o \in Objects, CreateObject(o) PROVE TypeOK'
  <2>1. objs' \in [Objects -> Object]
    BY <1>4, ObjectType DEF CreateObject, Write, TypeOK
  <2>2. QED BY <1>4, <2>1 DEF TypeOK, CreateObject, Trouble
<1>5. ASSUME NEW o \in Objects, LoseController(o) PROVE TypeOK'
  <2>1. objs' \in [Objects -> Object]
    BY <1>5, ObjectType DEF LoseController, Write, TypeOK
  <2>2. QED BY <1>5, <2>1 DEF TypeOK, LoseController, Trouble
<1>6. ASSUME NEW o \in Objects, RestoreController(o) PROVE TypeOK'
  <2>1. objs' \in [Objects -> Object]
    BY <1>6, ObjectType DEF RestoreController, Write, TypeOK
  <2>2. QED BY <1>6, <2>1 DEF TypeOK, RestoreController
<1>7. ASSUME NEW o \in Objects, RemoveObject(o) PROVE TypeOK'
  <2>1. objs' \in [Objects -> Object]
    BY <1>7, ObjectType DEF RemoveObject, Write, TypeOK
  <2>2. QED BY <1>7, <2>1 DEF TypeOK, RemoveObject
<1>8. CASE SeeXR
  BY <1>8 DEF TypeOK, SeeXR
<1>9. ASSUME NEW o \in Objects, SeeObject(o) PROVE TypeOK'
  BY <1>9 DEF TypeOK, SeeObject
<1>10. QED
  BY <1>1, <1>2, <1>3, <1>4, <1>5, <1>6, <1>7, <1>8, <1>9 DEF Others

\* The end of a reconcile leaves well typed local variables.
LEMMA EndType ==
    ASSUME End
    PROVE  /\ got' \in XR /\ copies' \in [Objects -> Object] /\ desired' \in Desires
           /\ todo' = {} /\ victim' = {} /\ pc' = "idle"
  BY NothingType DEF End

\* What is observed is well typed.
LEMMA ObservedType == ASSUME TypeOK PROVE Observed \in [Objects -> Object]
  BY NothingType DEF TypeOK, Observed, Copy

\* A step of a reconcile keeps the types.
LEMMA ReconcileType == ASSUME TypeOK, Reconcile \/ Abort PROVE TypeOK'
<1> USE NothingType, ComposerAssumption DEF caches, locals, server
<1>1. CASE Begin
  BY <1>1 DEF TypeOK, Begin
<1>2. CASE RemoveFinalizer
  <2>1. xr' \in XR
    BY <1>2 DEF RemoveFinalizer, TypeOK
  <2>2. QED BY <1>2, <2>1, EndType DEF TypeOK, RemoveFinalizer
<1>3. CASE AddFinalizer
  <2>1. CASE got = xr
    <3>1. xr' \in XR
      BY <1>3, <2>1 DEF AddFinalizer, TypeOK, XR
    <3>2. QED BY <1>3, <2>1, <3>1 DEF AddFinalizer, TypeOK
  <2>2. CASE got # xr
    BY <1>3, <2>2, EndType DEF AddFinalizer, TypeOK
  <2>3. QED BY <2>1, <2>2
<1>4. CASE Run
  BY <1>4, ObservedType DEF TypeOK, Run, Undesired
<1>5. ASSUME NEW o \in Objects, Collect(o) PROVE TypeOK'
  <2>1. CASE End
    BY <1>5, <2>1, EndType DEF Collect, TypeOK
  <2>2. CASE ~End
    BY <1>5, <2>2 DEF Collect, TypeOK
  <2>3. QED BY <2>1, <2>2
<1>6. ASSUME NEW o \in Objects, Delete(o) PROVE TypeOK'
  <2>1. CASE End /\ UNCHANGED objs
    BY <1>6, <2>1, EndType DEF Delete, TypeOK
  <2>2. CASE ~(End /\ UNCHANGED objs)
    <3>1. objs' \in [Objects -> Object]
      BY <1>6, <2>2, ObjectType, ZenonT(40) DEF Delete, Write, TypeOK
    <3>2. QED BY <1>6, <2>2, <3>1 DEF Delete, TypeOK
  <2>3. QED BY <2>1, <2>2
<1>7. CASE WriteRefs
  <2>1. xr' \in XR
    BY <1>7 DEF WriteRefs, TypeOK, XR, NewRefs
  <2>2. forgotten' \in SUBSET Objects /\ todo' \in SUBSET Objects
    BY <1>7 DEF WriteRefs, TypeOK, Dropped, XR, Desires
  <2>3. QED BY <1>7, <2>1, <2>2 DEF WriteRefs, TypeOK
<1>8. ASSUME NEW o \in Objects, Apply(o) PROVE TypeOK'
  <2>1. objs' \in [Objects -> Object]
    BY <1>8, ObjectType DEF Apply, Write, TypeOK
  <2>2. QED BY <1>8, <2>1 DEF Apply, TypeOK
<1>9. CASE Finish
  BY <1>9, EndType DEF Finish, TypeOK
<1>10. CASE Abort
  BY <1>10, EndType DEF Abort, Trouble, TypeOK
<1>11. QED
  BY <1>1, <1>2, <1>3, <1>4, <1>5, <1>6, <1>7, <1>8, <1>9, <1>10 DEF Reconcile

\* The state stays well typed; in particular an XR refers to every resource name of
\* the composition at most once.
THEOREM TypeCorrectness == Spec => []TypeOK
<1>1. Init => TypeOK
  BY NothingType, ComposerAssumption DEF Init, TypeOK, XR
<1>2. TypeOK /\ [Next]_vars => TypeOK'
  <2> SUFFICES ASSUME TypeOK, [Next]_vars PROVE TypeOK'
    OBVIOUS
  <2>1. CASE UNCHANGED vars
    BY <2>1 DEF vars, server, caches, locals, TypeOK
  <2>2. CASE Next
    BY <2>2, OthersType, ReconcileType DEF Next
  <2>3. QED BY <2>1, <2>2
<1>3. QED
  BY <1>1, <1>2, PTL DEF Spec

-----------------------------------------------------------------------------
(* Each part of the invariant is kept by every step.                       *)

\* The steps that change neither the XR, nor its copies, nor where the reconcile is.
Quiet == UNCHANGED <<xr, xrCache, pc, got>>

LEMMA QuietSteps ==
    /\ \A S \in Desires : ChangeWanted(S) => Quiet
    /\ \A o \in Objects :
          /\ DeleteObject(o) \/ CreateObject(o) \/ LoseController(o) \/ RestoreController(o) => Quiet
          /\ RemoveObject(o) \/ SeeObject(o) \/ Apply(o) => Quiet
  BY DEF Quiet, ChangeWanted, DeleteObject, CreateObject, LoseController, RestoreController,
         RemoveObject, SeeObject, Apply, server, caches, locals

LEMMA LifeStep == ASSUME IndInv, Next PROVE LifeInv'
<1> USE DEF caches, locals, server
<1>0. TypeOK /\ LifeInv
  BY DEF IndInv
<1>1. CASE Quiet
  BY <1>0, <1>1 DEF LifeInv, Quiet, Exists
<1>2. CASE DeleteXR
  BY <1>0, <1>2 DEF LifeInv, DeleteXR, Exists, NoXR, TypeOK, XR
<1>3. CASE SeeXR
  BY <1>0, <1>3 DEF LifeInv, SeeXR, Exists, TypeOK, XR
<1>4. CASE Begin
  BY <1>0, <1>4 DEF LifeInv, Begin, Exists, NeedsFinalizer, TypeOK, XR
<1>5. CASE RemoveFinalizer
  BY <1>0, <1>5 DEF LifeInv, RemoveFinalizer, End, Exists, NoXR, TypeOK, XR
<1>6. CASE AddFinalizer
  BY <1>0, <1>6 DEF LifeInv, AddFinalizer, End, Exists, TypeOK, XR
<1>7. CASE Run
  BY <1>0, <1>7 DEF LifeInv, Run, Exists
<1>8. ASSUME NEW o \in Objects, Collect(o) PROVE LifeInv'
  BY <1>0, <1>8 DEF LifeInv, Collect, End, Exists
<1>9. ASSUME NEW o \in Objects, Delete(o) PROVE LifeInv'
  BY <1>0, <1>9 DEF LifeInv, Delete, End, Exists
<1>10. CASE WriteRefs
  BY <1>0, <1>10 DEF LifeInv, WriteRefs, Exists, TypeOK, XR
<1>11. CASE Finish \/ Abort
  BY <1>0, <1>11 DEF LifeInv, Finish, Abort, End, Exists
<1>12. QED
  BY <1>1, <1>2, <1>3, <1>4, <1>5, <1>6, <1>7, <1>8, <1>9, <1>10, <1>11, QuietSteps
     DEF Next, Reconcile, Others

LEMMA CollectStep == ASSUME IndInv, Next PROVE CollectInv'
<1> USE DEF caches, locals, server
<1>0. TypeOK /\ CollectInv
  BY DEF IndInv
<1>1. CASE UNCHANGED <<pc, todo, victim, copies>>
  BY <1>0, <1>1 DEF CollectInv
<1>2. CASE Begin
  BY <1>0, <1>2 DEF CollectInv, Begin
<1>3. CASE RemoveFinalizer \/ Finish \/ Abort
  BY <1>3 DEF CollectInv, RemoveFinalizer, Finish, Abort, End
<1>4. CASE AddFinalizer
  BY <1>0, <1>4 DEF CollectInv, AddFinalizer, End
<1>5. CASE Run
  BY <1>0, <1>5 DEF CollectInv, Run, Undesired
<1>6. ASSUME NEW o \in Objects, Collect(o) PROVE CollectInv'
  BY <1>0, <1>6 DEF CollectInv, Collect, End
<1>7. ASSUME NEW o \in Objects, Delete(o) PROVE CollectInv'
  BY <1>0, <1>7 DEF CollectInv, Delete, End
<1>8. CASE WriteRefs
  BY <1>0, <1>8 DEF CollectInv, WriteRefs
<1>9. ASSUME NEW o \in Objects, Apply(o) PROVE CollectInv'
  BY <1>0, <1>9 DEF CollectInv, Apply
<1>10. CASE Others \/ SeeXR \/ \E o \in Objects : RemoveObject(o) \/ SeeObject(o)
  BY <1>1, <1>10 DEF Others, ChangeWanted, DeleteXR, DeleteObject, CreateObject, LoseController,
                     RestoreController, RemoveObject, SeeObject, SeeXR
<1>11. QED
  BY <1>2, <1>3, <1>4, <1>5, <1>6, <1>7, <1>8, <1>9, <1>10 DEF Next, Reconcile

\* A write of one resource, and what it leaves alone.
LEMMA WriteOne ==
    ASSUME TypeOK, NEW o \in Objects, NEW r, Write(o, r)
    PROVE  objs'[o] = r /\ \A p \in Objects \ {o} : objs'[p] = objs[p]
  BY DEF TypeOK, Write

\* A step that only makes fewer resources the XR's keeps LeakInv.
LEMMA LeakKept ==
    ASSUME LeakInv, UNCHANGED <<xr, pc, got, copies, desired, todo, victim, forgotten>>,
           TypeOK, \A o \in Objects : Ours(o)' => Ours(o)
    PROVE  LeakInv'
<1>1. got.refs \subseteq Objects
  BY DEF TypeOK, XR, Desires
<1>2. (Exists(xr) => \A o \in Objects \ forgotten : Ours(o) => o \in xr.refs)'
  BY DEF LeakInv, Exists
<1>3. (pc = "apply" => todo \subseteq xr.refs)'
  BY DEF LeakInv
<1>4. ASSUME pc' \in {"collect", "delete"}, NEW o \in got'.refs \ (todo' \cup victim'),
             NameOf[o] \notin Names(desired'), Exists(copies'[o]) => copies'[o].controller = "xr"
      PROVE  ~Ours(o)'
  BY <1>1, <1>4 DEF LeakInv
<1>5. QED
  BY <1>2, <1>3, <1>4 DEF LeakInv

\* Outside changes to resources make none the XR's that was not.
LEMMA OutsideOurs ==
    ASSUME TypeOK, NEW o \in Objects, NEW p \in Objects,
           DeleteObject(o) \/ CreateObject(o) \/ LoseController(o) \/ RestoreController(o) \/ RemoveObject(o)
    PROVE  Ours(p)' => Ours(p)
<1> DEFINE c == objs[o]
<1>0. c \in Object
  BY DEF TypeOK
<1>1. CASE DeleteObject(o)
  BY <1>0, <1>1, WriteOne DEF DeleteObject, Ours, Object
<1>2. CASE CreateObject(o)
  BY <1>0, <1>2, WriteOne DEF CreateObject, Created, Ours
<1>3. CASE LoseController(o)
  BY <1>0, <1>3, WriteOne DEF LoseController, Ours, Object
<1>4. CASE RestoreController(o)
  BY <1>0, <1>4, WriteOne DEF RestoreController, Ours, Object
<1>5. CASE RemoveObject(o)
  <2>1. Removed(o).state = "none"
    BY <1>0 DEF Removed, Object
  <2>2. QED BY <1>5, <2>1, WriteOne DEF RemoveObject, Ours
<1>6. QED
  BY <1>1, <1>2, <1>3, <1>4, <1>5

\* Where the XR is done with a reconcile, or has not begun to collect, only the first
\* part of LeakInv says anything; it is kept if no resource or reference changes.
LEMMA LeakOutside ==
    ASSUME LeakInv, pc' \notin {"collect", "delete", "apply"}, UNCHANGED <<objs, forgotten>>,
           Exists(xr') => Exists(xr) /\ xr'.refs = xr.refs
    PROVE  LeakInv'
  BY DEF LeakInv, Ours, Exists

\* What may be lost track of is what WriteRefs drops: LeakInv says that by then it is
\* deleted, or was forgotten for one of the reasons in Dropped.
LEMMA LeakStep == ASSUME IndInv, Next PROVE LeakInv'
<1> USE DEF caches, locals, server
<1>0. TypeOK /\ LifeInv /\ CollectInv /\ LeakInv
  BY DEF IndInv
<1>1. ASSUME NEW S \in Desires, ChangeWanted(S) PROVE LeakInv'
  BY <1>0, <1>1, LeakKept DEF ChangeWanted, Ours
<1>2. CASE DeleteXR
  <2>1. CASE pc \in {"collect", "delete", "apply"}
    <3>1. Exists(xr) /\ xr'.refs = xr.refs
      BY <1>0, <1>2, <2>1 DEF LifeInv, DeleteXR, TypeOK, XR
    <3>2. QED BY <1>0, <1>2, <3>1 DEF LeakInv, DeleteXR, Ours, Exists
  <2>2. CASE pc \notin {"collect", "delete", "apply"}
    <3>1. Exists(xr') => Exists(xr) /\ xr'.refs = xr.refs
      BY <1>0, <1>2 DEF DeleteXR, TypeOK, XR, NoXR, Exists
    <3>2. QED BY <1>0, <1>2, <2>2, <3>1, LeakOutside DEF DeleteXR
  <2>3. QED BY <2>1, <2>2
<1>3. ASSUME NEW o \in Objects,
             DeleteObject(o) \/ CreateObject(o) \/ LoseController(o) \/ RestoreController(o) \/ RemoveObject(o)
      PROVE  LeakInv'
  <2>1. \A p \in Objects : Ours(p)' => Ours(p)
    BY <1>0, <1>3, OutsideOurs
  <2>2. UNCHANGED <<xr, pc, got, copies, desired, todo, victim, forgotten>>
    BY <1>3 DEF DeleteObject, CreateObject, LoseController, RestoreController, RemoveObject
  <2>3. QED BY <1>0, <2>1, <2>2, LeakKept
<1>4. CASE SeeXR \/ \E o \in Objects : SeeObject(o)
  BY <1>0, <1>4, LeakKept DEF SeeXR, SeeObject, Ours
<1>5. CASE Begin
  BY <1>0, <1>5, LeakOutside DEF Begin
<1>6. CASE RemoveFinalizer
  <2>1. Exists(xr') => Exists(xr) /\ xr'.refs = xr.refs
    BY <1>6 DEF RemoveFinalizer, NoXR, Exists
  <2>2. QED BY <1>0, <1>6, <2>1, LeakOutside DEF RemoveFinalizer, End
<1>7. CASE AddFinalizer
  <2>1. Exists(xr') => Exists(xr) /\ xr'.refs = xr.refs
    BY <1>0, <1>7 DEF AddFinalizer, Exists, TypeOK, XR
  <2>2. QED BY <1>0, <1>7, <2>1, LeakOutside DEF AddFinalizer, End
<1>8. CASE Finish \/ Abort
  BY <1>0, <1>8, LeakOutside DEF Finish, Abort, End
<1>9. CASE Run
  <2>1. ASSUME NEW o \in got.refs \ Undesired(wanted, Observed), NameOf[o] \notin Names(wanted),
               Exists(Observed[o]) => Observed[o].controller = "xr"
        PROVE  ~Exists(objs[o])
    <3>1. o \in Objects
      BY <1>0 DEF TypeOK, XR, Desires
    <3>2. ~Exists(Observed[o])
      BY <2>1, <3>1 DEF Undesired
    <3>3. Observed[o] = Copy(o)
      BY <3>1 DEF Observed
    <3>4. QED BY <3>2, <3>3 DEF Copy
  <2>2. QED BY <1>0, <1>9, <2>1 DEF LeakInv, Run, Ours, Exists
<1>10. ASSUME NEW o \in Objects, Collect(o) PROVE LeakInv'
  <2>1. CASE End
    BY <1>0, <1>10, <2>1, LeakOutside DEF Collect, End
  <2>2. CASE ~End
    <3>1. victim = {} /\ todo' \cup victim' = todo
      BY <1>0, <1>10, <2>2 DEF Collect, CollectInv
    <3>2. QED BY <1>0, <1>10, <2>2, <3>1 DEF LeakInv, Collect, Ours, Exists
  <2>3. QED BY <2>1, <2>2
<1>11. ASSUME NEW o \in Objects, Delete(o) PROVE LeakInv'
  <2>1. CASE End /\ UNCHANGED objs
    BY <1>0, <1>11, <2>1, LeakOutside DEF Delete, End
  <2>2. CASE ~(End /\ UNCHANGED objs)
    <3>1. victim = {o} /\ victim' = {} /\ todo' = todo /\ pc = "delete" /\ pc' = "collect"
      BY <1>0, <1>11, <2>2 DEF Delete, CollectInv
    <3>2. UNCHANGED <<xr, got, copies, desired, forgotten>>
      BY <1>11, <2>2 DEF Delete
    <3>3. ~Ours(o)' /\ \A p \in Objects \ {o} : Ours(p)' = Ours(p)
      <4>1. [objs[o] EXCEPT !.state = "deleting"].state = "deleting"
        BY <1>0 DEF TypeOK, Object
      <4>2. PICK r : Write(o, r) /\ r.state # "live"
        BY <1>11, <2>2, <4>1 DEF Delete, Exists
      <4>3. QED BY <1>0, <4>2, WriteOne DEF Ours
    <3>4. got.refs \subseteq Objects
      BY <1>0 DEF TypeOK, XR, Desires
    <3>5. (Exists(xr) => \A p \in Objects \ forgotten : Ours(p) => p \in xr.refs)'
      BY <1>0, <3>2, <3>3 DEF LeakInv, Exists
    <3>6. ASSUME NEW p \in got'.refs \ (todo' \cup victim'),
                 NameOf[p] \notin Names(desired'), Exists(copies'[p]) => copies'[p].controller = "xr"
          PROVE  ~Ours(p)'
      BY <1>0, <3>1, <3>2, <3>3, <3>4, <3>6 DEF LeakInv
    <3>7. QED BY <3>1, <3>5, <3>6 DEF LeakInv
  <2>3. QED BY <2>1, <2>2
<1>12. CASE WriteRefs
  <2>1. xr'.refs = desired /\ todo' = desired
    BY <1>0, <1>12 DEF WriteRefs, NewRefs, TypeOK, XR
  <2>2. Exists(xr) /\ todo = {} /\ victim = {}
    BY <1>0, <1>12 DEF WriteRefs, LifeInv, CollectInv
  <2>3. ASSUME NEW o \in Objects \ forgotten', Ours(o) PROVE o \in desired
    <3>1. SUFFICES ASSUME o \notin desired PROVE FALSE
      OBVIOUS
    <3>2. o \notin forgotten /\ o \notin Dropped
      BY <1>12, <3>1 DEF WriteRefs
    <3>3. o \in xr.refs
      BY <1>0, <2>2, <2>3, <3>2 DEF LeakInv
    <3>4. o \in got.refs /\ NameOf[o] \notin Names(desired)
          /\ (Exists(copies[o]) => copies[o].controller = "xr")
      BY <3>1, <3>2, <3>3 DEF Dropped
    <3>5. QED BY <1>0, <1>12, <2>2, <2>3, <3>4 DEF LeakInv, WriteRefs
  <2>4. pc' = "apply" /\ \A o \in Objects : Ours(o)' = Ours(o)
    BY <1>12 DEF WriteRefs, Ours
  <2>5. QED BY <2>1, <2>3, <2>4 DEF LeakInv
<1>13. ASSUME NEW o \in Objects, Apply(o) PROVE LeakInv'
  <2>1. o \in xr.refs
    BY <1>0, <1>13 DEF LeakInv, Apply
  <2>2. \A p \in Objects \ {o} : Ours(p)' = Ours(p)
    BY <1>0, <1>13, WriteOne DEF Apply, Ours
  <2>3. QED BY <1>0, <1>13, <2>1, <2>2 DEF LeakInv, Apply, Exists
<1>14. QED
  BY <1>1, <1>2, <1>3, <1>4, <1>5, <1>6, <1>7, <1>8, <1>9, <1>10, <1>11, <1>12, <1>13
     DEF Next, Reconcile, Others

\* What a write may make of the resource r: a newer one, or the same, not given to another.
Evolves(r, s) ==
    \/ s.uid = r.uid + 1
    \/ s.uid = r.uid /\ (s.controller = "other" => r.controller = "other")

LEMMA FollowsKept ==
    ASSUME NEW c \in Object, NEW r \in Object, NEW s \in Object, Follows(c, r), Evolves(r, s)
    PROVE  Follows(c, s)
  BY DEF Follows, Evolves, Object

LEMMA FollowsItself == ASSUME NEW r \in Object PROVE Follows(r, r)
  BY DEF Follows, Object

LEMMA FollowsNothing == ASSUME NEW o \in Objects, NEW r \in Object PROVE Follows(NoObjects[o], r)
  BY DEF Follows, NoObjects, Object, Exists

\* Every step only lets resources evolve.
LEMMA ResourcesEvolve ==
    ASSUME TypeOK, Next, NEW p \in Objects
    PROVE  Evolves(objs[p], objs'[p])
<1> USE DEF caches, locals, server
<1>0. objs[p] \in Object
  BY DEF TypeOK
<1>1. CASE objs'[p] = objs[p]
  BY <1>0, <1>1 DEF Evolves, Object
<1>2. ASSUME Write(p, [objs[p] EXCEPT !.state = "deleting"]) PROVE Evolves(objs[p], objs'[p])
  <2>1. objs'[p] = [objs[p] EXCEPT !.state = "deleting"]
    BY <1>2, WriteOne
  <2>2. objs'[p].uid = objs[p].uid /\ objs'[p].controller = objs[p].controller
    BY <1>0, <2>1 DEF Object
  <2>3. QED BY <2>2 DEF Evolves
<1>3. ASSUME NEW k, Write(p, Created(p, k)) PROVE Evolves(objs[p], objs'[p])
  BY <1>3, WriteOne DEF Created, Evolves
<1>4. ASSUME NEW k \in {"xr", "nobody"}, Write(p, [objs[p] EXCEPT !.controller = k])
      PROVE  Evolves(objs[p], objs'[p])
  <2>1. objs'[p] = [objs[p] EXCEPT !.controller = k]
    BY <1>4, WriteOne
  <2>2. objs'[p].uid = objs[p].uid /\ objs'[p].controller = k
    BY <1>0, <2>1 DEF Object
  <2>3. QED BY <2>2 DEF Evolves
<1>5. ASSUME Write(p, Removed(p)) PROVE Evolves(objs[p], objs'[p])
  <2>1. objs'[p] = Removed(p)
    BY <1>5, WriteOne
  <2>2. objs'[p].uid = objs[p].uid /\ objs'[p].controller = "nobody"
    BY <1>0, <2>1 DEF Object, Removed
  <2>3. QED BY <2>2 DEF Evolves
<1>6. ASSUME Write(p, objs[p]) PROVE Evolves(objs[p], objs'[p])
  BY <1>1, <1>6, WriteOne
<1>7. ASSUME NEW o \in Objects \ {p}, NEW r, Write(o, r) PROVE Evolves(objs[p], objs'[p])
  BY <1>1, <1>7, WriteOne
<1>8. ASSUME NEW o \in Objects, DeleteObject(o) PROVE Evolves(objs[p], objs'[p])
  BY <1>2, <1>7, <1>8 DEF DeleteObject
<1>9. ASSUME NEW o \in Objects, CreateObject(o) PROVE Evolves(objs[p], objs'[p])
  BY <1>3, <1>7, <1>9 DEF CreateObject
<1>10. ASSUME NEW o \in Objects, LoseController(o) \/ RestoreController(o) PROVE Evolves(objs[p], objs'[p])
  BY <1>4, <1>7, <1>10 DEF LoseController, RestoreController
<1>11. ASSUME NEW o \in Objects, RemoveObject(o) PROVE Evolves(objs[p], objs'[p])
  BY <1>5, <1>7, <1>11 DEF RemoveObject
<1>12. ASSUME NEW o \in Objects, Delete(o) PROVE Evolves(objs[p], objs'[p])
  BY <1>1, <1>2, <1>6, <1>7, <1>12 DEF Delete
<1>13. ASSUME NEW o \in Objects, Apply(o) PROVE Evolves(objs[p], objs'[p])
  BY <1>3, <1>4, <1>6, <1>7, <1>13 DEF Apply
<1>14. CASE UNCHANGED objs
  BY <1>1, <1>14
<1>15. QED
  BY <1>8, <1>9, <1>10, <1>11, <1>12, <1>13, <1>14
     DEF Next, Reconcile, Others, ChangeWanted, DeleteXR, SeeXR, SeeObject, Begin, RemoveFinalizer,
         AddFinalizer, Run, Collect, WriteRefs, Finish, Abort

\* Where the copies of the next state come from.
LEMMA CopiesFrom ==
    ASSUME TypeOK, Next, NEW o \in Objects
    PROVE  /\ cache'[o] \in {cache[o], objs[o]}
           /\ copies'[o] \in {copies[o], cache[o], objs[o], NoObjects[o]}
<1> USE DEF caches, locals, server
<1>1. cache'[o] \in {cache[o], objs[o]}
  BY DEF TypeOK, Next, Reconcile, Others, ChangeWanted, DeleteXR, DeleteObject, CreateObject,
         LoseController, RestoreController, RemoveObject, SeeXR, SeeObject, Begin, RemoveFinalizer,
         AddFinalizer, Run, Collect, Delete, WriteRefs, Apply, Finish, Abort
<1>2. Observed[o] \in {cache[o], objs[o], NoObjects[o]}
  BY DEF Observed, Copy
<1>3. copies' \in {copies, Observed, NoObjects}
  BY DEF Next, Reconcile, Others, ChangeWanted, DeleteXR, DeleteObject, CreateObject,
         LoseController, RestoreController, RemoveObject, SeeXR, SeeObject, Begin, RemoveFinalizer,
         AddFinalizer, Run, Collect, Delete, WriteRefs, Apply, Finish, Abort, End
<1>4. QED
  BY <1>1, <1>2, <1>3

LEMMA OwnStep == ASSUME IndInv, Next, TypeOK' PROVE OwnInv'
<1> SUFFICES ASSUME NEW o \in Objects
             PROVE  Follows(cache'[o], objs'[o]) /\ Follows(copies'[o], objs'[o])
  BY DEF OwnInv
<1>1. /\ objs[o] \in Object /\ objs'[o] \in Object
      /\ cache[o] \in Object /\ copies[o] \in Object /\ NoObjects[o] \in Object
  BY NothingType DEF IndInv, TypeOK
<1>2. Evolves(objs[o], objs'[o])
  BY ResourcesEvolve DEF IndInv
<1>3. /\ Follows(cache[o], objs[o]) /\ Follows(copies[o], objs[o])
      /\ Follows(objs[o], objs[o]) /\ Follows(NoObjects[o], objs[o])
  BY <1>1, FollowsItself, FollowsNothing DEF IndInv, OwnInv
<1>4. \A c \in {cache[o], copies[o], objs[o], NoObjects[o]} : Follows(c, objs'[o])
  BY <1>1, <1>2, <1>3, FollowsKept
<1>5. QED
  BY <1>4, CopiesFrom DEF IndInv

\* The invariant holds throughout.
THEOREM IndInvariance == Spec => []IndInv
<1>1. Init => IndInv
  <2> SUFFICES ASSUME Init PROVE IndInv
    OBVIOUS
  <2>1. TypeOK
    BY NothingType, ComposerAssumption DEF Init, TypeOK, XR
  <2>2. LifeInv /\ CollectInv
    BY DEF Init, LifeInv, CollectInv, Exists
  <2>3. LeakInv
    BY DEF Init, LeakInv, Ours, NoObjects
  <2>4. OwnInv
    BY FollowsNothing, NothingType DEF Init, OwnInv
  <2>5. QED BY <2>1, <2>2, <2>3, <2>4 DEF IndInv
<1>2. IndInv /\ [Next]_vars => IndInv'
  <2> SUFFICES ASSUME IndInv, [Next]_vars PROVE IndInv'
    OBVIOUS
  <2>1. CASE UNCHANGED vars
    BY <2>1 DEF vars, server, caches, locals, IndInv, TypeOK, LifeInv, CollectInv, LeakInv, OwnInv,
                Ours, Exists, Names, Follows
  <2>2. CASE Next
    <3>1. TypeOK'
      BY <2>2, OthersType, ReconcileType DEF Next, IndInv
    <3>2. QED BY <2>2, <3>1, LifeStep, CollectStep, LeakStep, OwnStep DEF IndInv
  <2>3. QED BY <2>1, <2>2
<1>3. QED
  BY <1>1, <1>2, PTL DEF Spec

-----------------------------------------------------------------------------
(* What follows.                                                           *)

\* A composed resource that the XR controls is one that the XR refers to, for as long
\* as the XR exists: references are saved before resources are applied, and dropped
\* only after the resources are deleted, whatever fails. Excepted are the resources that
\* were forgotten: by a reconcile with an old copy of the XR, by a change of kind, or
\* by a copy of the resource that did not show the XR as its controller.
THEOREM NothingLeaks == Spec => []NoResourceLeaks
<1>1. IndInv => NoResourceLeaks
  BY DEF IndInv, LeakInv, NoResourceLeaks, Ours
<1>2. QED
  BY <1>1, IndInvariance, PTL

\* Garbage collection deletes no resource that another controls: the UID that is the
\* precondition of the deletion is that of a copy that the XR controlled, and a
\* resource of the same UID does not pass to another.
THEOREM NoOtherIsDeleted == Spec => DeletesOnlyOwn
<1> DEFINE A == \A o \in victim :
                   objs[o].state = "live" /\ objs'[o].state = "deleting" /\ victim' = {}
                       => objs[o].controller # "other"
<1>1. IndInv /\ [Next]_vars => A
  <2> SUFFICES ASSUME IndInv, [Next]_vars, NEW o \in victim,
                      objs[o].state = "live", objs'[o].state = "deleting", victim' = {}
               PROVE  objs[o].controller # "other"
    OBVIOUS
  <2> USE DEF caches, locals, server
  <2>1. o \in Objects /\ pc = "delete"
    BY DEF IndInv, TypeOK, CollectInv
  <2>2. CASE \E p \in Objects : Delete(p)
    <3>1. PICK p \in Objects : Delete(p)
      BY <2>2
    <3>2. p = o
      BY <3>1 DEF IndInv, CollectInv, Delete
    <3>3. Deletable(o)
      BY <3>1, <3>2 DEF Delete, Exists
    <3>4. Exists(copies[o]) /\ copies[o].controller = "xr" /\ copies[o].uid = objs[o].uid
      BY <2>1, <3>3 DEF IndInv, CollectInv, Deletable
    <3>5. QED BY <2>1, <3>4 DEF IndInv, OwnInv, Follows
  <2>3. CASE Abort \/ UNCHANGED objs
    BY <2>3 DEF Abort
  <2>4. CASE UNCHANGED victim
    BY <2>4
  <2>5. QED
    BY <2>1, <2>2, <2>3, <2>4
       DEF vars, Next, Reconcile, Others, ChangeWanted, DeleteXR, DeleteObject, CreateObject,
           LoseController, RestoreController, RemoveObject, SeeXR, SeeObject, Begin,
           RemoveFinalizer, AddFinalizer, Run, Collect, WriteRefs, Apply, Finish
<1>2. QED
  BY <1>1, IndInvariance, PTL DEF Spec, DeletesOnlyOwn

\* An XR that is gone is not created again when a reconcile saves its references: until
\* then the XR has the finalizer that only a reconcile removes.
THEOREM GoneStaysGone == Spec => StaysDeleted
<1>1. IndInv /\ [Next]_vars => (~Exists(xr) => ~Exists(xr'))
  <2> SUFFICES ASSUME IndInv, [Next]_vars, ~Exists(xr) PROVE ~Exists(xr')
    OBVIOUS
  <2> USE DEF caches, locals, server
  <2>1. xr \in XR
    BY DEF IndInv, TypeOK
  <2>2. CASE AddFinalizer
    BY <2>1, <2>2 DEF IndInv, LifeInv, AddFinalizer, Exists
  <2>3. CASE WriteRefs
    BY <2>3 DEF IndInv, LifeInv, WriteRefs
  <2>4. CASE DeleteXR \/ RemoveFinalizer
    BY <2>4 DEF DeleteXR, RemoveFinalizer, Exists, NoXR
  <2>5. CASE UNCHANGED xr
    BY <2>5 DEF Exists
  <2>6. QED
    BY <2>2, <2>3, <2>4, <2>5
       DEF vars, Next, Reconcile, Others, ChangeWanted, DeleteObject, CreateObject, LoseController,
           RestoreController, RemoveObject, SeeXR, SeeObject, Begin, Run, Collect, Delete, Apply,
           Finish, Abort
<1>2. QED
  BY <1>1, IndInvariance, PTL DEF Spec, StaysDeleted
=============================================================================
