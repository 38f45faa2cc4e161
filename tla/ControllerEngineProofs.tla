----------------------- MODULE ControllerEngineProofs -----------------------
(***************************************************************************)
(* Proofs that the controller engine keeps one watch per watch ID and one  *)
(* controller per name, for any number of names, instances, callers, kinds *)
(* and watch types; and that the InformerTrackingCache below it, with its  *)
(* calls split at their locks, implements Informers, which is what the     *)
(* engine's model goes by.                                                 *)
(***************************************************************************)
EXTENDS ControllerEngine, InformerTrackingCache, TLAPS

\* A WatchID names a kind.
LEMMA WatchIDKind == \A w \in WatchID : w.gvk \in Gvks
  BY DEF WatchID

\* The initial state is well typed.
LEMMA InitTypeOK == Init => TypeOK
  <1> SUFFICES ASSUME Init PROVE TypeOK
    OBVIOUS
  <1>1. InformersTypeOK
    BY DEF Init, InformersInit, InformersTypeOK
  <1>2. /\ controllers \in [Names -> Instances \cup {None}]
        /\ eMx \in Threads \cup {None}
        /\ nameOf \in [Instances -> Names \cup {None}]
        /\ phase \in [Instances -> {"unused", "waiting", "running", "failed", "returned"}]
        /\ cancelled \in [Instances -> BOOLEAN]
        /\ elected \in BOOLEAN
    BY DEF Init
  <1>3. /\ cMx \in [Instances -> Threads \cup {None}]
        /\ sources \in [Instances -> [WatchID -> Nat]]
        /\ reg \in [Instances -> [WatchID -> BOOLEAN]]
        /\ dropped \in [Instances -> [WatchID -> Nat]]
        /\ handlers \in [Instances -> [WatchID -> Int]]
    BY DEF Init
  <1>4. /\ pc \in [Threads -> PcSet]
        /\ ctl \in [Threads -> Instances \cup {None}]
        /\ todo \in [Threads -> SUBSET WatchID]
        /\ snap \in [Threads -> SUBSET Gvks]
    BY DEF Init, PcSet
  <1>5. inf \in [Threads -> [wid : WatchID \cup {None}, gen : Nat]]
    <2>1. NoInf \in [wid : WatchID \cup {None}, gen : Nat]
      BY DEF NoInf
    <2> QED
      BY <2>1 DEF Init
  <1>6. \A t \in Threads : pc[t] = "idle"
    BY DEF Init
  <1> QED
    BY <1>1, <1>2, <1>3, <1>4, <1>5, <1>6 DEF TypeOK, EngineTypeOK

\* Returning from a call leaves the thread's locals well typed.
LEMMA ReturnTypeOK ==
  ASSUME TypeOK, NEW t \in Threads, Return(t)
  PROVE  /\ pc' \in [Threads -> PcSet]
         /\ ctl' \in [Threads -> Instances \cup {None}]
         /\ todo' \in [Threads -> SUBSET WatchID]
         /\ snap' \in [Threads -> SUBSET Gvks]
         /\ inf' \in [Threads -> [wid : WatchID \cup {None}, gen : Nat]]
         /\ \A u \in Threads :
              /\ pc'[u] \notin {"idle", "done"} => ctl'[u] \in Instances
              /\ pc'[u] = "sw_watch" => inf'[u].wid \in WatchID
  <1>1. pc' \in [Threads -> PcSet]
    BY DEF TypeOK, EngineTypeOK, Return, PcSet
  <1>2. /\ ctl' \in [Threads -> Instances \cup {None}]
        /\ todo' \in [Threads -> SUBSET WatchID]
        /\ snap' \in [Threads -> SUBSET Gvks]
    BY DEF TypeOK, EngineTypeOK, Return
  <1>3. inf' \in [Threads -> [wid : WatchID \cup {None}, gen : Nat]]
    <2>1. NoInf \in [wid : WatchID \cup {None}, gen : Nat]
      BY DEF NoInf
    <2> QED
      BY <2>1 DEF TypeOK, EngineTypeOK, Return
  <1>4. ASSUME NEW u \in Threads
        PROVE  /\ pc'[u] \notin {"idle", "done"} => ctl'[u] \in Instances
               /\ pc'[u] = "sw_watch" => inf'[u].wid \in WatchID
    BY DEF TypeOK, EngineTypeOK, Return
  <1> QED
    BY <1>1, <1>2, <1>3, <1>4

\* Stopping a source keeps the sources well typed.
LEMMA StopSourceTypeOK ==
  ASSUME TypeOK, NEW i \in Instances, NEW w \in WatchID, StopSource(i, w)
  PROVE  /\ sources' \in [Instances -> [WatchID -> Nat]]
         /\ reg' \in [Instances -> [WatchID -> BOOLEAN]]
         /\ dropped' \in [Instances -> [WatchID -> Nat]]
         /\ handlers' \in [Instances -> [WatchID -> Int]]
  <1> DEFINE h == IF Attached(i, w) /\ reg[i][w] THEN handlers[i][w] - 1 ELSE handlers[i][w]
             d == IF Attached(i, w) /\ phase[i] = "waiting"
                  THEN dropped[i][w] + 1 ELSE dropped[i][w]
  <1>1. /\ sources' = [sources EXCEPT ![i] = [sources[i] EXCEPT ![w] = 0]]
        /\ reg' = [reg EXCEPT ![i] = [reg[i] EXCEPT ![w] = FALSE]]
        /\ dropped' = [dropped EXCEPT ![i] = [dropped[i] EXCEPT ![w] = d]]
        /\ handlers' = [handlers EXCEPT ![i] = [handlers[i] EXCEPT ![w] = h]]
    BY DEF StopSource
  <1>2. /\ sources[i] \in [WatchID -> Nat] /\ reg[i] \in [WatchID -> BOOLEAN]
        /\ dropped[i] \in [WatchID -> Nat] /\ handlers[i] \in [WatchID -> Int]
    BY DEF TypeOK, EngineTypeOK
  <1>3. h \in Int /\ d \in Nat
    BY <1>2
  <1> HIDE DEF h, d
  <1>4. /\ [sources[i] EXCEPT ![w] = 0] \in [WatchID -> Nat]
        /\ [reg[i] EXCEPT ![w] = FALSE] \in [WatchID -> BOOLEAN]
        /\ [dropped[i] EXCEPT ![w] = d] \in [WatchID -> Nat]
        /\ [handlers[i] EXCEPT ![w] = h] \in [WatchID -> Int]
    BY <1>2, <1>3
  <1> QED
    BY <1>1, <1>4 DEF TypeOK, EngineTypeOK

\* A controller's start keeps handlers and registrations well typed.
LEMMA StartKeptTypeOK ==
  ASSUME TypeOK, NEW i \in Instances, NEW ws \in SUBSET WatchID, StartKept(i, ws)
  PROVE  /\ reg' \in [Instances -> [WatchID -> BOOLEAN]]
         /\ handlers' \in [Instances -> [WatchID -> Int]]
  <1> DEFINE hs == [w \in WatchID |->
                      IF w \in ws
                      THEN handlers[i][w] + dropped[i][w] + (IF Attached(i, w) THEN 1 ELSE 0)
                      ELSE handlers[i][w]]
             rs == [w \in WatchID |-> w \in ws /\ sources[i][w] # 0]
  <1>1. reg' = [reg EXCEPT ![i] = rs] /\ handlers' = [handlers EXCEPT ![i] = hs]
    BY DEF StartKept
  <1>2. \A w \in WatchID : handlers[i][w] \in Int /\ dropped[i][w] \in Nat
    BY DEF TypeOK, EngineTypeOK
  <1>3. \A w \in WatchID :
          (IF w \in ws
           THEN handlers[i][w] + dropped[i][w] + (IF Attached(i, w) THEN 1 ELSE 0)
           ELSE handlers[i][w]) \in Int
    BY <1>2
  <1>4. hs \in [WatchID -> Int]
    BY <1>3
  <1>5. rs \in [WatchID -> BOOLEAN]
    BY Zenon
  <1> HIDE DEF hs, rs
  <1>6. handlers' \in [Instances -> [WatchID -> Int]]
    BY <1>1, <1>4 DEF TypeOK, EngineTypeOK
  <1>7. reg' \in [Instances -> [WatchID -> BOOLEAN]]
    BY <1>1, <1>5 DEF TypeOK, EngineTypeOK
  <1> QED
    BY <1>6, <1>7

\* Starting a watch keeps the sources well typed.
LEMMA SWWatchTypeOK ==
  ASSUME TypeOK, NEW t \in Threads, SWWatch(t)
  PROVE  /\ sources' \in [Instances -> [WatchID -> Nat]]
         /\ reg' \in [Instances -> [WatchID -> BOOLEAN]]
         /\ handlers' \in [Instances -> [WatchID -> Int]]
         /\ inf' \in [Threads -> [wid : WatchID \cup {None}, gen : Nat]]
  <1> DEFINE i == ctl[t]
             w == inf[t].wid
             r == Started(i)
             h == IF Started(i) /\ w.gvk \in live /\ gen[w.gvk] = inf[t].gen
                  THEN handlers[i][w] + 1 ELSE handlers[i][w]
  <1>1. i \in Instances /\ w \in WatchID /\ inf[t].gen \in Nat
    BY DEF TypeOK, EngineTypeOK, SWWatch
  <1>2. /\ sources' = [sources EXCEPT ![i] = [sources[i] EXCEPT ![w] = inf[t].gen]]
        /\ reg' = [reg EXCEPT ![i] = [reg[i] EXCEPT ![w] = r]]
        /\ handlers' = [handlers EXCEPT ![i] = [handlers[i] EXCEPT ![w] = h]]
    BY DEF SWWatch
  <1>3. /\ sources[i] \in [WatchID -> Nat] /\ reg[i] \in [WatchID -> BOOLEAN]
        /\ handlers[i] \in [WatchID -> Int]
    BY <1>1 DEF TypeOK, EngineTypeOK
  <1>4. h \in Int
    BY <1>1, <1>3
  <1>5. r \in BOOLEAN
    BY DEF Started
  <1> HIDE DEF h, r
  <1>6. /\ [sources[i] EXCEPT ![w] = inf[t].gen] \in [WatchID -> Nat]
        /\ [reg[i] EXCEPT ![w] = r] \in [WatchID -> BOOLEAN]
        /\ [handlers[i] EXCEPT ![w] = h] \in [WatchID -> Int]
    BY <1>1, <1>3, <1>4, <1>5
  <1>7. /\ sources' \in [Instances -> [WatchID -> Nat]]
        /\ reg' \in [Instances -> [WatchID -> BOOLEAN]]
        /\ handlers' \in [Instances -> [WatchID -> Int]]
    BY <1>1, <1>2, <1>6 DEF TypeOK, EngineTypeOK
  <1>8. inf' \in [Threads -> [wid : WatchID \cup {None}, gen : Nat]]
    <2>1. NoInf \in [wid : WatchID \cup {None}, gen : Nat]
      BY DEF NoInf
    <2> QED
      BY <2>1 DEF SWWatch, TypeOK, EngineTypeOK
  <1> QED
    BY <1>7, <1>8

\* Getting an informer keeps the informers well typed.
LEMMA GetInformerTypeOK ==
  ASSUME InformersTypeOK, NEW g \in Gvks, GetInformer(g)
  PROVE  InformersTypeOK'
  BY DEF InformersTypeOK, GetInformer, StartInformer

\* Every step keeps the state well typed.
LEMMA NextTypeOK == TypeOK /\ [Next]_vars => TypeOK'
  <1> SUFFICES ASSUME TypeOK, [Next]_vars PROVE TypeOK'
    OBVIOUS
  <1> USE ThreadsAssumption DEF infVars, ctlVars, srcVars, locVars, IsRunning, UnlockController
  <1>1. CASE Elect
    BY <1>1 DEF TypeOK, InformersTypeOK, EngineTypeOK, Elect
  <1>2. ASSUME NEW n \in Names, NEW i \in Instances, Start(n, i) PROVE TypeOK'
    BY <1>2 DEF TypeOK, InformersTypeOK, EngineTypeOK, Start
  <1>3. ASSUME NEW i \in Instances, RunController(i) PROVE TypeOK'
    BY <1>3, StartKeptTypeOK DEF TypeOK, InformersTypeOK, EngineTypeOK, RunController
  <1>4. ASSUME NEW i \in Instances, ControllerReturns(i) PROVE TypeOK'
    BY <1>4 DEF TypeOK, InformersTypeOK, EngineTypeOK, ControllerReturns, Threads, PcSet
  <1>5. ASSUME NEW i \in Instances, NEW ws \in SUBSET WatchID, ControllerFails(i, ws)
        PROVE  TypeOK'
    BY <1>5, StartKeptTypeOK DEF TypeOK, InformersTypeOK, EngineTypeOK, ControllerFails
  <1>6. ASSUME NEW t \in Threads, NEW n \in Names, StopNoop(t, n) PROVE TypeOK'
    BY <1>6, ReturnTypeOK DEF TypeOK, InformersTypeOK, EngineTypeOK, StopNoop
  <1>7. ASSUME NEW t \in Threads, NEW n \in Names, StopBegin(t, n) PROVE TypeOK'
    BY <1>7 DEF TypeOK, InformersTypeOK, EngineTypeOK, StopBegin, MayStop, Goto, PcSet, StopPcs
  <1>8. ASSUME NEW t \in Threads, StopLock(t) PROVE TypeOK'
    BY <1>8 DEF TypeOK, InformersTypeOK, EngineTypeOK, StopLock, Goto, PcSet, StopPcs
  <1>9. ASSUME NEW t \in Threads, NEW w \in WatchID, StopOneSource(t, w) PROVE TypeOK'
    BY <1>9, StopSourceTypeOK DEF TypeOK, InformersTypeOK, EngineTypeOK, StopOneSource
  <1>10. ASSUME NEW t \in Threads, NEW w \in WatchID, StopOneSourceFails(t, w) PROVE TypeOK'
    BY <1>10, ReturnTypeOK DEF TypeOK, InformersTypeOK, EngineTypeOK, StopOneSourceFails
  <1>11. ASSUME NEW t \in Threads, StopDone(t) PROVE TypeOK'
    BY <1>11, ReturnTypeOK DEF TypeOK, InformersTypeOK, EngineTypeOK, StopDone
  <1>12. ASSUME NEW t \in Threads, NEW n \in Names, NEW ws \in SUBSET WatchID, SWBegin(t, n, ws) PROVE TypeOK'
    BY <1>12 DEF TypeOK, InformersTypeOK, EngineTypeOK, SWBegin, Goto, PcSet
  <1>13. ASSUME NEW t \in Threads, SWSnapshot(t) PROVE TypeOK'
    BY <1>13 DEF TypeOK, InformersTypeOK, EngineTypeOK, SWSnapshot, Goto, PcSet
  <1>14. ASSUME NEW t \in Threads, SWCheck(t) PROVE TypeOK'
    BY <1>14, ReturnTypeOK, ZenonT(40) DEF TypeOK, InformersTypeOK, EngineTypeOK, SWCheck, Goto, PcSet
  <1>15. ASSUME NEW t \in Threads, SWLock(t) PROVE TypeOK'
    BY <1>15 DEF TypeOK, InformersTypeOK, EngineTypeOK, SWLock, RefreshedSnapshot, Goto, PcSet, WritePcs
  <1>16. ASSUME NEW t \in Threads, NEW w \in WatchID, SWGetInformer(t, w) PROVE TypeOK'
    BY <1>16, GetInformerTypeOK, WatchIDKind DEF TypeOK, InformersTypeOK, EngineTypeOK, SWGetInformer, Goto, PcSet, WritePcs, GetInformer
  <1>17. ASSUME NEW t \in Threads, NEW w \in WatchID, SWGetInformerFails(t, w) PROVE TypeOK'
    BY <1>17, ReturnTypeOK, GetInformerTypeOK, WatchIDKind DEF TypeOK, InformersTypeOK, EngineTypeOK, SWGetInformerFails
  <1>18. ASSUME NEW t \in Threads, SWWatch(t) PROVE TypeOK'
    BY <1>18, SWWatchTypeOK, ZenonT(40) DEF TypeOK, InformersTypeOK, EngineTypeOK, SWWatch, Goto, PcSet, WritePcs
  <1>19. ASSUME NEW t \in Threads, SWWatchFails(t) PROVE TypeOK'
    BY <1>19, ReturnTypeOK DEF TypeOK, InformersTypeOK, EngineTypeOK, SWWatchFails
  <1>20. ASSUME NEW t \in Threads, SWDone(t) PROVE TypeOK'
    BY <1>20, ReturnTypeOK DEF TypeOK, InformersTypeOK, EngineTypeOK, SWDone
  <1>21. ASSUME NEW t \in Threads, NEW n \in Names, NEW ws \in SUBSET WatchID, TWBegin(t, n, ws) PROVE TypeOK'
    BY <1>21 DEF TypeOK, InformersTypeOK, EngineTypeOK, TWBegin, Goto, PcSet
  <1>22. ASSUME NEW t \in Threads, TWCheck(t) PROVE TypeOK'
    BY <1>22, ReturnTypeOK, ZenonT(40) DEF TypeOK, InformersTypeOK, EngineTypeOK, TWCheck, Goto, PcSet
  <1>23. ASSUME NEW t \in Threads, TWLock(t) PROVE TypeOK'
    BY <1>23 DEF TypeOK, InformersTypeOK, EngineTypeOK, TWLock, Goto, PcSet, WritePcs
  <1>24. ASSUME NEW t \in Threads, NEW w \in WatchID, TWStop(t, w) PROVE TypeOK'
    BY <1>24, StopSourceTypeOK DEF TypeOK, InformersTypeOK, EngineTypeOK, TWStop
  <1>25. ASSUME NEW t \in Threads, NEW w \in WatchID, TWStopFails(t, w) PROVE TypeOK'
    BY <1>25, ReturnTypeOK DEF TypeOK, InformersTypeOK, EngineTypeOK, TWStopFails
  <1>26. ASSUME NEW t \in Threads, TWDone(t) PROVE TypeOK'
    BY <1>26, ReturnTypeOK DEF TypeOK, InformersTypeOK, EngineTypeOK, TWDone
  <1>27. ASSUME NEW g \in Gvks, Read(g) PROVE TypeOK'
    BY <1>27, GetInformerTypeOK, WatchIDKind DEF TypeOK, InformersTypeOK, EngineTypeOK, Read
  <1>28. ASSUME NEW g \in Gvks, ChangeCRD(g) PROVE TypeOK'
    BY <1>28 DEF TypeOK, InformersTypeOK, EngineTypeOK, ChangeCRD, CreateCRD, DeleteCRD
  <1>29. ASSUME NEW g \in Gvks, GarbageCollectInformer(g) PROVE TypeOK'
    BY <1>29 DEF TypeOK, InformersTypeOK, EngineTypeOK, GarbageCollectInformer, RemoveInformer
  <1>30. CASE UNCHANGED vars
    BY <1>30 DEF TypeOK, InformersTypeOK, EngineTypeOK, vars
  <1> QED
    BY <1>1, <1>2, <1>3, <1>4, <1>5, <1>6, <1>7, <1>8, <1>9, <1>10, <1>11, <1>12, <1>13, <1>14, <1>15, <1>16, <1>17, <1>18, <1>19, <1>20, <1>21, <1>22, <1>23, <1>24, <1>25, <1>26, <1>27, <1>28, <1>29, <1>30 DEF Next, ControllerStep, StopStep, StartWatchesStep,
       StopWatchesStep, ThreadStep, Call, Threads

\* Type correctness of the controller engine.
THEOREM TypeCorrectness == Spec => []TypeOK
  BY InitTypeOK, NextTypeOK, PTL DEF Spec

\* A step of the engine is a step of one of its actions, or changes nothing.
LEMMA NextCases ==
  ASSUME [Next]_vars
  PROVE  \/ UNCHANGED vars
         \/ Elect
         \/ \E n \in Names, i \in Instances : Start(n, i)
         \/ \E i \in Instances : RunController(i)
         \/ \E i \in Instances : ControllerReturns(i)
         \/ \E i \in Instances, ws \in SUBSET WatchID : ControllerFails(i, ws)
         \/ \E t \in Threads, n \in Names : StopNoop(t, n)
         \/ \E t \in Threads, n \in Names : StopBegin(t, n)
         \/ \E t \in Threads : StopLock(t)
         \/ \E t \in Threads, w \in WatchID : StopOneSource(t, w)
         \/ \E t \in Threads, w \in WatchID : StopOneSourceFails(t, w)
         \/ \E t \in Threads : StopDone(t)
         \/ \E t \in Callers, n \in Names, ws \in SUBSET WatchID : SWBegin(t, n, ws)
         \/ \E t \in Threads : SWSnapshot(t)
         \/ \E t \in Threads : SWCheck(t)
         \/ \E t \in Threads : SWLock(t)
         \/ \E t \in Threads, w \in WatchID : SWGetInformer(t, w)
         \/ \E t \in Threads, w \in WatchID : SWGetInformerFails(t, w)
         \/ \E t \in Threads : SWWatch(t)
         \/ \E t \in Threads : SWWatchFails(t)
         \/ \E t \in Threads : SWDone(t)
         \/ \E t \in Callers, n \in Names, ws \in SUBSET WatchID : TWBegin(t, n, ws)
         \/ \E t \in Threads : TWCheck(t)
         \/ \E t \in Threads : TWLock(t)
         \/ \E t \in Threads, w \in WatchID : TWStop(t, w)
         \/ \E t \in Threads, w \in WatchID : TWStopFails(t, w)
         \/ \E t \in Threads : TWDone(t)
         \/ \E g \in Gvks : Read(g)
         \/ \E g \in Gvks : ChangeCRD(g)
         \/ \E g \in Gvks : GarbageCollectInformer(g)
  BY DEF Next, ControllerStep, StopStep, StartWatchesStep, StopWatchesStep, ThreadStep, Call

\* Every step keeps the locks owned by the threads whose program counters say so.
LEMMA LocksStep ==
  ASSUME TypeOK, LocksInv, [Next]_vars
  PROVE  LocksInv'
  <1>a. /\ Instances \subseteq Threads /\ Callers \subseteq Threads
        /\ None \notin Threads
        /\ \A t \in Callers : t \notin Instances
    BY ThreadsAssumption DEF Threads
  <1>b. /\ eMx \in Threads \cup {None}
        /\ phase \in [Instances -> {"unused", "waiting", "running", "failed", "returned"}]
        /\ cMx \in [Instances -> Threads \cup {None}]
        /\ pc \in [Threads -> PcSet]
        /\ ctl \in [Threads -> Instances \cup {None}]
        /\ \A t \in Threads : pc[t] \notin {"idle", "done"} => ctl[t] \in Instances
    BY DEF TypeOK, EngineTypeOK
  <1> USE DEF infVars, ctlVars, srcVars, locVars, IsRunning, UnlockController
  <1>1. ASSUME NEW i \in Instances, ControllerReturns(i) PROVE LocksInv'
    BY <1>1, <1>a, <1>b
       DEF LocksInv, StopPcs, WritePcs, ControllerReturns
  <1>2. ASSUME NEW i \in Instances, NEW ws \in SUBSET WatchID, ControllerFails(i, ws)
        PROVE  LocksInv'
    BY <1>2, <1>a, <1>b
       DEF LocksInv, StopPcs, WritePcs, ControllerFails
  <1>3. ASSUME NEW i \in Instances, RunController(i) PROVE LocksInv'
    BY <1>3, <1>a, <1>b
       DEF LocksInv, StopPcs, WritePcs, RunController
  <1>4. ASSUME NEW n \in Names, NEW i \in Instances, Start(n, i) PROVE LocksInv'
    BY <1>4, <1>a, <1>b
       DEF LocksInv, StopPcs, WritePcs, Start
  <1>5. ASSUME NEW t \in Threads, NEW n \in Names, StopNoop(t, n) PROVE LocksInv'
    BY <1>5, <1>a, <1>b
       DEF LocksInv, StopPcs, WritePcs, StopNoop, MayStop, Return
  <1>6. ASSUME NEW t \in Threads, NEW n \in Names, StopBegin(t, n) PROVE LocksInv'
    BY <1>6, <1>a, <1>b
       DEF LocksInv, StopPcs, WritePcs, StopBegin, MayStop, Goto
  <1>7. ASSUME NEW t \in Threads, StopLock(t) PROVE LocksInv'
    BY <1>7, <1>a, <1>b
       DEF LocksInv, StopPcs, WritePcs, StopLock, Goto
  <1>8. ASSUME NEW t \in Threads, NEW w \in WatchID, StopOneSourceFails(t, w) PROVE LocksInv'
    BY <1>8, <1>a, <1>b
       DEF LocksInv, StopPcs, WritePcs, StopOneSourceFails, Return
  <1>9. ASSUME NEW t \in Threads, StopDone(t) PROVE LocksInv'
    BY <1>9, <1>a, <1>b
       DEF LocksInv, StopPcs, WritePcs, StopDone, Return
  <1>10. ASSUME NEW t \in Callers, NEW n \in Names, NEW ws \in SUBSET WatchID, SWBegin(t, n, ws) PROVE LocksInv'
    BY <1>10, <1>a, <1>b
       DEF LocksInv, StopPcs, WritePcs, SWBegin, Goto
  <1>11. ASSUME NEW t \in Threads, SWSnapshot(t) PROVE LocksInv'
    BY <1>11, <1>a, <1>b
       DEF LocksInv, StopPcs, WritePcs, SWSnapshot, Goto
  <1>12. ASSUME NEW t \in Threads, SWCheck(t) PROVE LocksInv'
    BY <1>12, <1>a, <1>b
       DEF LocksInv, StopPcs, WritePcs, SWCheck, Goto, Return
  <1>13. ASSUME NEW t \in Threads, SWLock(t) PROVE LocksInv'
    BY <1>13, <1>a, <1>b
       DEF LocksInv, StopPcs, WritePcs, SWLock, Goto
  <1>14. ASSUME NEW t \in Threads, NEW w \in WatchID, SWGetInformer(t, w) PROVE LocksInv'
    BY <1>14, <1>a, <1>b
       DEF LocksInv, StopPcs, WritePcs, SWGetInformer, Goto
  <1>15. ASSUME NEW t \in Threads, NEW w \in WatchID, SWGetInformerFails(t, w) PROVE LocksInv'
    BY <1>15, <1>a, <1>b
       DEF LocksInv, StopPcs, WritePcs, SWGetInformerFails, Return
  <1>16. ASSUME NEW t \in Threads, SWWatch(t) PROVE LocksInv'
    BY <1>16, <1>a, <1>b
       DEF LocksInv, StopPcs, WritePcs, SWWatch, Goto
  <1>17. ASSUME NEW t \in Threads, SWWatchFails(t) PROVE LocksInv'
    BY <1>17, <1>a, <1>b
       DEF LocksInv, StopPcs, WritePcs, SWWatchFails, Return
  <1>18. ASSUME NEW t \in Threads, SWDone(t) PROVE LocksInv'
    BY <1>18, <1>a, <1>b
       DEF LocksInv, StopPcs, WritePcs, SWDone, Return
  <1>19. ASSUME NEW t \in Callers, NEW n \in Names, NEW ws \in SUBSET WatchID, TWBegin(t, n, ws) PROVE LocksInv'
    BY <1>19, <1>a, <1>b
       DEF LocksInv, StopPcs, WritePcs, TWBegin, Goto
  <1>20. ASSUME NEW t \in Threads, TWCheck(t) PROVE LocksInv'
    BY <1>20, <1>a, <1>b
       DEF LocksInv, StopPcs, WritePcs, TWCheck, Goto, Return
  <1>21. ASSUME NEW t \in Threads, TWLock(t) PROVE LocksInv'
    BY <1>21, <1>a, <1>b
       DEF LocksInv, StopPcs, WritePcs, TWLock, Goto
  <1>22. ASSUME NEW t \in Threads, NEW w \in WatchID, TWStopFails(t, w) PROVE LocksInv'
    BY <1>22, <1>a, <1>b
       DEF LocksInv, StopPcs, WritePcs, TWStopFails, Return
  <1>23. ASSUME NEW t \in Threads, TWDone(t) PROVE LocksInv'
    BY <1>23, <1>a, <1>b
       DEF LocksInv, StopPcs, WritePcs, TWDone, Return
  <1>24. CASE UNCHANGED <<eMx, cMx, pc, ctl, phase>>
    BY <1>24, <1>a, <1>b
       DEF LocksInv, StopPcs, WritePcs
  <1>25. ASSUME \/ UNCHANGED vars
                \/ Elect
                \/ \E t \in Threads, w \in WatchID : StopOneSource(t, w)
                \/ \E t \in Threads, w \in WatchID : TWStop(t, w)
                \/ \E g \in Gvks : Read(g)
                \/ \E g \in Gvks : ChangeCRD(g)
                \/ \E g \in Gvks : GarbageCollectInformer(g)
         PROVE  UNCHANGED <<eMx, cMx, pc, ctl, phase>>
    BY <1>25
       DEF vars, infVars, ctlVars, srcVars, locVars, Elect, StopOneSource, TWStop, Read,
          ChangeCRD, GarbageCollectInformer, GetInformer, CreateCRD, DeleteCRD,
          RemoveInformer
  <1> QED
    BY <1>1, <1>2, <1>3, <1>4, <1>5, <1>6, <1>7, <1>8, <1>9, <1>10, <1>11, <1>12, <1>13,
       <1>14, <1>15, <1>16, <1>17, <1>18, <1>19, <1>20, <1>21, <1>22, <1>23, <1>24,
       <1>25, NextCases

\* The instance a thread works on stays registered while the thread stops it, and
\* a name stays with the one instance that isn't cancelled.
LEMMA RegistryStep ==
  ASSUME TypeOK, LocksInv, RegistryInv, OneController, [Next]_vars
  PROVE  (RegistryInv /\ OneController)'
  <1>a. /\ Instances \subseteq Threads /\ Callers \subseteq Threads
        /\ None \notin Threads /\ None \notin Instances
        /\ \A t \in Callers : t \notin Instances
    BY ThreadsAssumption DEF Threads
  <1>b. /\ eMx \in Threads \cup {None}
        /\ controllers \in [Names -> Instances \cup {None}]
        /\ nameOf \in [Instances -> Names \cup {None}]
        /\ phase \in [Instances -> {"unused", "waiting", "running", "failed", "returned"}]
        /\ cancelled \in [Instances -> BOOLEAN]
        /\ pc \in [Threads -> PcSet]
        /\ ctl \in [Threads -> Instances \cup {None}]
        /\ \A t \in Threads : pc[t] \notin {"idle", "done"} => ctl[t] \in Instances
    BY DEF TypeOK, EngineTypeOK
  <1>c. \A t \in Threads : eMx = t <=> pc[t] \in StopPcs
    BY DEF LocksInv
  <1> USE DEF infVars, ctlVars, srcVars, locVars, IsRunning, UnlockController
  <1>1. ASSUME NEW n \in Names, NEW i \in Instances, Start(n, i) PROVE (RegistryInv /\ OneController)'
    BY <1>1, <1>a, <1>b, <1>c
       DEF RegistryInv, OneController, Start, StopPcs
  <1>2. ASSUME NEW i \in Instances, RunController(i) PROVE (RegistryInv /\ OneController)'
    BY <1>2, <1>a, <1>b, <1>c
       DEF RegistryInv, OneController, RunController, StopPcs
  <1>3. ASSUME NEW i \in Instances, ControllerReturns(i) PROVE (RegistryInv /\ OneController)'
    BY <1>3, <1>a, <1>b, <1>c
       DEF RegistryInv, OneController, ControllerReturns, StopPcs
  <1>4. ASSUME NEW i \in Instances, NEW ws \in SUBSET WatchID, ControllerFails(i, ws)
        PROVE  (RegistryInv /\ OneController)'
    BY <1>4, <1>a, <1>b, <1>c
       DEF RegistryInv, OneController, ControllerFails, StopPcs
  <1>5. ASSUME NEW t \in Threads, NEW n \in Names, StopNoop(t, n) PROVE (RegistryInv /\ OneController)'
    BY <1>5, <1>a, <1>b, <1>c
       DEF RegistryInv, OneController, StopNoop, Return, StopPcs
  <1>6. ASSUME NEW t \in Threads, NEW n \in Names, StopBegin(t, n) PROVE (RegistryInv /\ OneController)'
    BY <1>6, <1>a, <1>b, <1>c
       DEF RegistryInv, OneController, StopBegin, Goto, StopPcs
  <1>7. ASSUME NEW t \in Threads, StopLock(t) PROVE (RegistryInv /\ OneController)'
    BY <1>7, <1>a, <1>b, <1>c
       DEF RegistryInv, OneController, StopLock, Goto, StopPcs
  <1>8. ASSUME NEW t \in Threads, NEW w \in WatchID, StopOneSourceFails(t, w) PROVE (RegistryInv /\ OneController)'
    BY <1>8, <1>a, <1>b, <1>c
       DEF RegistryInv, OneController, StopOneSourceFails, Return, StopPcs
  <1>9. ASSUME NEW t \in Threads, StopDone(t) PROVE (RegistryInv /\ OneController)'
    BY <1>9, <1>a, <1>b, <1>c
       DEF RegistryInv, OneController, StopDone, Return, StopPcs
  <1>10. ASSUME NEW t \in Callers, NEW n \in Names, NEW ws \in SUBSET WatchID, SWBegin(t, n, ws) PROVE (RegistryInv /\ OneController)'
    BY <1>10, <1>a, <1>b, <1>c
       DEF RegistryInv, OneController, SWBegin, Goto, StopPcs
  <1>11. ASSUME NEW t \in Threads, SWSnapshot(t) PROVE (RegistryInv /\ OneController)'
    BY <1>11, <1>a, <1>b, <1>c
       DEF RegistryInv, OneController, SWSnapshot, Goto, StopPcs
  <1>12. ASSUME NEW t \in Threads, SWCheck(t) PROVE (RegistryInv /\ OneController)'
    BY <1>12, <1>a, <1>b, <1>c
       DEF RegistryInv, OneController, SWCheck, Goto, Return, StopPcs
  <1>13. ASSUME NEW t \in Threads, SWLock(t) PROVE (RegistryInv /\ OneController)'
    BY <1>13, <1>a, <1>b, <1>c
       DEF RegistryInv, OneController, SWLock, Goto, StopPcs
  <1>14. ASSUME NEW t \in Threads, NEW w \in WatchID, SWGetInformer(t, w) PROVE (RegistryInv /\ OneController)'
    BY <1>14, <1>a, <1>b, <1>c
       DEF RegistryInv, OneController, SWGetInformer, Goto, StopPcs
  <1>15. ASSUME NEW t \in Threads, NEW w \in WatchID, SWGetInformerFails(t, w) PROVE (RegistryInv /\ OneController)'
    BY <1>15, <1>a, <1>b, <1>c
       DEF RegistryInv, OneController, SWGetInformerFails, Return, StopPcs
  <1>16. ASSUME NEW t \in Threads, SWWatch(t) PROVE (RegistryInv /\ OneController)'
    BY <1>16, <1>a, <1>b, <1>c
       DEF RegistryInv, OneController, SWWatch, Goto, StopPcs
  <1>17. ASSUME NEW t \in Threads, SWWatchFails(t) PROVE (RegistryInv /\ OneController)'
    BY <1>17, <1>a, <1>b, <1>c
       DEF RegistryInv, OneController, SWWatchFails, Return, StopPcs
  <1>18. ASSUME NEW t \in Threads, SWDone(t) PROVE (RegistryInv /\ OneController)'
    BY <1>18, <1>a, <1>b, <1>c
       DEF RegistryInv, OneController, SWDone, Return, StopPcs
  <1>19. ASSUME NEW t \in Callers, NEW n \in Names, NEW ws \in SUBSET WatchID, TWBegin(t, n, ws) PROVE (RegistryInv /\ OneController)'
    BY <1>19, <1>a, <1>b, <1>c
       DEF RegistryInv, OneController, TWBegin, Goto, StopPcs
  <1>20. ASSUME NEW t \in Threads, TWCheck(t) PROVE (RegistryInv /\ OneController)'
    BY <1>20, <1>a, <1>b, <1>c
       DEF RegistryInv, OneController, TWCheck, Goto, Return, StopPcs
  <1>21. ASSUME NEW t \in Threads, TWLock(t) PROVE (RegistryInv /\ OneController)'
    BY <1>21, <1>a, <1>b, <1>c
       DEF RegistryInv, OneController, TWLock, Goto, StopPcs
  <1>22. ASSUME NEW t \in Threads, NEW w \in WatchID, TWStopFails(t, w) PROVE (RegistryInv /\ OneController)'
    BY <1>22, <1>a, <1>b, <1>c
       DEF RegistryInv, OneController, TWStopFails, Return, StopPcs
  <1>23. ASSUME NEW t \in Threads, TWDone(t) PROVE (RegistryInv /\ OneController)'
    BY <1>23, <1>a, <1>b, <1>c
       DEF RegistryInv, OneController, TWDone, Return, StopPcs
  <1>24. CASE UNCHANGED <<controllers, nameOf, phase, cancelled, pc, ctl>>
    BY <1>24, <1>a, <1>b, <1>c
       DEF RegistryInv, OneController
  <1>25. ASSUME \/ UNCHANGED vars
                \/ Elect
                \/ \E t \in Threads, w \in WatchID : StopOneSource(t, w)
                \/ \E t \in Threads, w \in WatchID : TWStop(t, w)
                \/ \E g \in Gvks : Read(g)
                \/ \E g \in Gvks : ChangeCRD(g)
                \/ \E g \in Gvks : GarbageCollectInformer(g)
         PROVE  UNCHANGED <<controllers, nameOf, phase, cancelled, pc, ctl>>
    BY <1>25
       DEF vars, infVars, ctlVars, srcVars, locVars, Elect, StopOneSource, TWStop, Read,
          ChangeCRD, GarbageCollectInformer, GetInformer, CreateCRD, DeleteCRD,
          RemoveInformer
  <1> QED
    BY <1>1, <1>2, <1>3, <1>4, <1>5, <1>6, <1>7, <1>8, <1>9, <1>10, <1>11, <1>12, <1>13,
       <1>14, <1>15, <1>16, <1>17, <1>18, <1>19, <1>20, <1>21, <1>22, <1>23, <1>24,
       <1>25, NextCases

\* What GetInformer does to incarnations: the running informers keep theirs, a new
\* informer has a higher one than any before it.
LEMMA GetInformerEffect ==
  ASSUME InformersTypeOK, NEW g \in Gvks, GetInformer(g)
  PROVE  /\ active' = active \cup {g}
         /\ live \subseteq live' /\ live' \subseteq live \cup {g}
         /\ \A h \in Gvks : gen'[h] \in Nat /\ gen'[h] >= gen[h]
         /\ \A h \in live : gen'[h] = gen[h]
         /\ \A h \in live' \ live : gen'[h] > gen[h]
  BY DEF InformersTypeOK, GetInformer, StartInformer

\* Getting an informer neither attaches nor detaches a recorded source: a source
\* bound to a removed informer isn't taken over by the one that replaces it.
LEMMA GetInformerKeepsAttached ==
  ASSUME TypeOK, SourcesInv, NEW g \in Gvks, GetInformer(g), UNCHANGED sources
  PROVE  \A i \in Instances, w \in WatchID : Attached(i, w)' <=> Attached(i, w)
  <1> SUFFICES ASSUME NEW i \in Instances, NEW w \in WatchID
               PROVE  Attached(i, w)' <=> Attached(i, w)
    OBVIOUS
  <1>1. w.gvk \in Gvks
    BY WatchIDKind
  <1>2. sources[i][w] \in Nat /\ gen[w.gvk] \in Nat /\ sources[i][w] <= gen[w.gvk]
    BY <1>1 DEF TypeOK, EngineTypeOK, InformersTypeOK, SourcesInv
  <1> QED
    BY <1>1, <1>2, GetInformerEffect DEF Attached, TypeOK

\* Removing an informer detaches exactly the sources bound to it.
LEMMA RemoveInformerDetaches ==
  ASSUME TypeOK, NEW g \in Gvks, RemoveInformer(g), UNCHANGED sources
  PROVE  \A i \in Instances, w \in WatchID :
            Attached(i, w)' <=> Attached(i, w) /\ w.gvk # g
  BY DEF Attached, RemoveInformer

\* Stopping a source leaves every other source and handler alone.
LEMMA StopSourceEffect ==
  ASSUME TypeOK, NEW i \in Instances, NEW w \in WatchID, StopSource(i, w)
  PROVE  \A j \in Instances, v \in WatchID :
            /\ sources'[j][v] = IF j = i /\ v = w THEN 0 ELSE sources[j][v]
            /\ reg'[j][v] <=> reg[j][v] /\ ~(j = i /\ v = w)
            /\ dropped'[j][v] = IF j = i /\ v = w /\ Attached(i, w) /\ phase[i] = "waiting"
                                THEN dropped[j][v] + 1 ELSE dropped[j][v]
            /\ handlers'[j][v] = IF j = i /\ v = w /\ Attached(i, w) /\ reg[i][w]
                                 THEN handlers[j][v] - 1 ELSE handlers[j][v]
  <1>1. ASSUME NEW j \in Instances, NEW v \in WatchID
        PROVE  sources'[j][v] = IF j = i /\ v = w THEN 0 ELSE sources[j][v]
    BY DEF StopSource, TypeOK, EngineTypeOK
  <1>2. ASSUME NEW j \in Instances, NEW v \in WatchID
        PROVE  reg'[j][v] <=> reg[j][v] /\ ~(j = i /\ v = w)
    BY DEF StopSource, TypeOK, EngineTypeOK
  <1>3. ASSUME NEW j \in Instances, NEW v \in WatchID
        PROVE  dropped'[j][v] = IF j = i /\ v = w /\ Attached(i, w) /\ phase[i] = "waiting"
                                THEN dropped[j][v] + 1 ELSE dropped[j][v]
    BY DEF StopSource, TypeOK, EngineTypeOK
  <1>4. ASSUME NEW j \in Instances, NEW v \in WatchID
        PROVE  handlers'[j][v] = IF j = i /\ v = w /\ Attached(i, w) /\ reg[i][w]
                                 THEN handlers[j][v] - 1 ELSE handlers[j][v]
    BY DEF StopSource, TypeOK, EngineTypeOK
  <1> QED
    BY <1>1, <1>2, <1>3, <1>4

\* A controller's start adds a handler for every source it kept.
LEMMA StartKeptEffect ==
  ASSUME TypeOK, NEW i \in Instances, NEW ws \in SUBSET WatchID, StartKept(i, ws)
  PROVE  /\ \A j \in Instances : j # i => reg'[j] = reg[j] /\ handlers'[j] = handlers[j]
         /\ \A w \in WatchID :
              /\ reg'[i][w] <=> w \in ws /\ sources[i][w] # 0
              /\ w \notin ws => handlers'[i][w] = handlers[i][w]
              /\ w \in ws => handlers'[i][w] = handlers[i][w] + dropped[i][w]
                                              + (IF Attached(i, w) THEN 1 ELSE 0)
  <1>1. \A j \in Instances : j # i => reg'[j] = reg[j] /\ handlers'[j] = handlers[j]
    BY DEF StartKept, TypeOK, EngineTypeOK
  <1>2. \A w \in WatchID : reg'[i][w] <=> w \in ws /\ sources[i][w] # 0
    BY DEF StartKept, TypeOK, EngineTypeOK
  <1>3. \A w \in WatchID :
          /\ w \notin ws => handlers'[i][w] = handlers[i][w]
          /\ w \in ws => handlers'[i][w] = handlers[i][w] + dropped[i][w]
                                          + (IF Attached(i, w) THEN 1 ELSE 0)
    BY DEF StartKept, TypeOK, EngineTypeOK
  <1> QED
    BY <1>1, <1>2, <1>3

\* Starting a watch leaves every other source and handler alone.
LEMMA SWWatchEffect ==
  ASSUME TypeOK, NEW t \in Threads, SWWatch(t)
  PROVE  /\ ctl[t] \in Instances /\ inf[t].wid \in WatchID /\ inf[t].gen \in Nat
         /\ \A j \in Instances, v \in WatchID :
            /\ sources'[j][v] = IF j = ctl[t] /\ v = inf[t].wid
                                THEN inf[t].gen ELSE sources[j][v]
            /\ reg'[j][v] <=> IF j = ctl[t] /\ v = inf[t].wid
                              THEN Started(ctl[t]) ELSE reg[j][v]
            /\ handlers'[j][v] = IF /\ j = ctl[t] /\ v = inf[t].wid /\ Started(ctl[t])
                                    /\ v.gvk \in live /\ gen[v.gvk] = inf[t].gen
                                 THEN handlers[j][v] + 1 ELSE handlers[j][v]
  <1>1. ctl[t] \in Instances /\ inf[t].wid \in WatchID /\ inf[t].gen \in Nat
    BY DEF TypeOK, EngineTypeOK, SWWatch
  <1>2. ASSUME NEW j \in Instances, NEW v \in WatchID
        PROVE  sources'[j][v] = IF j = ctl[t] /\ v = inf[t].wid
                                THEN inf[t].gen ELSE sources[j][v]
    BY <1>1 DEF SWWatch, TypeOK, EngineTypeOK
  <1>3. ASSUME NEW j \in Instances, NEW v \in WatchID
        PROVE  reg'[j][v] <=> IF j = ctl[t] /\ v = inf[t].wid
                              THEN Started(ctl[t]) ELSE reg[j][v]
    BY <1>1 DEF SWWatch, TypeOK, EngineTypeOK
  <1>4. ASSUME NEW j \in Instances, NEW v \in WatchID
        PROVE  handlers'[j][v] = IF /\ j = ctl[t] /\ v = inf[t].wid /\ Started(ctl[t])
                                    /\ v.gvk \in live /\ gen[v.gvk] = inf[t].gen
                                 THEN handlers[j][v] + 1 ELSE handlers[j][v]
    BY <1>1 DEF SWWatch, TypeOK, EngineTypeOK
  <1> QED
    BY <1>1, <1>2, <1>3, <1>4

\* Every step keeps sources bound to informers that exist or have existed.
LEMMA SourcesStep ==
  ASSUME TypeOK, SourcesInv, StartWatchesInv, [Next]_vars
  PROVE  SourcesInv'
  <1>a. \A i \in Instances, w \in WatchID :
          sources[i][w] \in Nat /\ w.gvk \in Gvks /\ gen[w.gvk] \in Nat
    BY WatchIDKind DEF TypeOK, EngineTypeOK, InformersTypeOK
  <1>b. InformersTypeOK /\ live \in SUBSET Gvks /\ active \in SUBSET Gvks
        /\ gen \in [Gvks -> Nat]
    BY DEF TypeOK, InformersTypeOK
  <1>c. \A t \in Threads : pc[t] \notin {"idle", "done"} => ctl[t] \in Instances
    BY DEF TypeOK
  <1> USE DEF infVars, ctlVars, srcVars, locVars, IsRunning, UnlockController
  <1>1. ASSUME NEW t \in Threads, NEW w \in WatchID, StopOneSource(t, w) PROVE SourcesInv'
    BY <1>1, <1>a, <1>b, <1>c, StopSourceEffect
       DEF SourcesInv, LiveIsActive, StopOneSource
  <1>2. ASSUME NEW t \in Threads, NEW w \in WatchID, TWStop(t, w) PROVE SourcesInv'
    BY <1>2, <1>a, <1>b, <1>c, StopSourceEffect
       DEF SourcesInv, LiveIsActive, TWStop
  <1>3. ASSUME NEW t \in Threads, NEW w \in WatchID, SWGetInformer(t, w) PROVE SourcesInv'
    BY <1>3, <1>a, <1>b, <1>c, GetInformerEffect
       DEF SourcesInv, LiveIsActive, SWGetInformer
  <1>4. ASSUME NEW t \in Threads, NEW w \in WatchID, SWGetInformerFails(t, w) PROVE SourcesInv'
    BY <1>4, <1>a, <1>b, <1>c, GetInformerEffect
       DEF SourcesInv, LiveIsActive, SWGetInformerFails
  <1>5. ASSUME NEW g \in Gvks, Read(g) PROVE SourcesInv'
    BY <1>5, <1>a, <1>b, <1>c, GetInformerEffect
       DEF SourcesInv, LiveIsActive, Read
  <1>6. ASSUME NEW t \in Threads, SWWatch(t) PROVE SourcesInv'
    <2>1. UNCHANGED <<active, live, gen>>
      BY <1>6 DEF SWWatch
    <2>2. inf[t].gen <= gen[inf[t].wid.gvk]
      BY <1>6 DEF SWWatch, StartWatchesInv
    <2>3. \A j \in Instances, v \in WatchID : sources'[j][v] <= gen[v.gvk]
      BY <1>6, <2>2, SWWatchEffect DEF SourcesInv
    <2> QED
      BY <2>1, <2>3 DEF SourcesInv, LiveIsActive
  <1>7. ASSUME NEW g \in Gvks, GarbageCollectInformer(g) PROVE SourcesInv'
    BY <1>7, <1>a, <1>b, <1>c
       DEF SourcesInv, LiveIsActive, GarbageCollectInformer, RemoveInformer
  <1>8. CASE UNCHANGED <<active, live, gen, sources>>
    BY <1>8, <1>a, <1>b, <1>c
       DEF SourcesInv, LiveIsActive
  <1>9. \/ UNCHANGED <<active, live, gen, sources>>
        \/ \E t \in Threads, w \in WatchID : StopOneSource(t, w)
        \/ \E t \in Threads, w \in WatchID : TWStop(t, w)
        \/ \E t \in Threads, w \in WatchID : SWGetInformer(t, w)
        \/ \E t \in Threads, w \in WatchID : SWGetInformerFails(t, w)
        \/ \E g \in Gvks : Read(g)
        \/ \E t \in Threads : SWWatch(t)
        \/ \E g \in Gvks : GarbageCollectInformer(g)
    BY NextCases
       DEF vars, infVars, ctlVars, srcVars, locVars, Elect, Start, RunController,
          ControllerReturns, ControllerFails, StopNoop, StopBegin, StopLock,
          StopOneSourceFails, StopDone, SWBegin, SWSnapshot, SWCheck, SWLock,
          SWWatchFails, SWDone, TWBegin, TWCheck, TWLock, TWStopFails, TWDone,
          ChangeCRD, CreateCRD, DeleteCRD
  <1> QED
    BY <1>1, <1>2, <1>3, <1>4, <1>5, <1>6, <1>7, <1>8, <1>9

\* A source stays as attached as it was when neither it nor the informers change.
LEMMA AttachedUnchanged ==
  ASSUME UNCHANGED <<live, gen, sources>>
  PROVE  \A i \in Instances, w \in WatchID : Attached(i, w)' <=> Attached(i, w)
  BY DEF Attached

\* Stopping a source detaches it and no other source.
LEMMA StopSourceDetaches ==
  ASSUME TypeOK, SourcesInv, NEW i \in Instances, NEW w \in WatchID, StopSource(i, w),
         UNCHANGED <<live, gen>>
  PROVE  \A j \in Instances, v \in WatchID :
            Attached(j, v)' <=> Attached(j, v) /\ ~(j = i /\ v = w)
  BY StopSourceEffect, WatchIDKind DEF Attached, SourcesInv, TypeOK, InformersTypeOK

\* Starting a watch attaches its source if the informer it was given still runs.
LEMMA SWWatchAttaches ==
  ASSUME TypeOK, NEW t \in Threads, SWWatch(t)
  PROVE  \A j \in Instances, v \in WatchID :
            Attached(j, v)' <=> IF j = ctl[t] /\ v = inf[t].wid
                                THEN v.gvk \in live /\ gen[v.gvk] = inf[t].gen
                                ELSE Attached(j, v)
  <1> SUFFICES ASSUME NEW j \in Instances, NEW v \in WatchID
               PROVE  Attached(j, v)' <=> IF j = ctl[t] /\ v = inf[t].wid
                                          THEN v.gvk \in live /\ gen[v.gvk] = inf[t].gen
                                          ELSE Attached(j, v)
    OBVIOUS
  <1>1. live' = live /\ gen' = gen
    BY DEF SWWatch, infVars
  <1>2. CASE j = ctl[t] /\ v = inf[t].wid
    <2>1. sources'[j][v] = inf[t].gen
      BY <1>2, SWWatchEffect
    <2> QED
      BY <1>1, <1>2, <2>1 DEF Attached
  <1>3. CASE ~(j = ctl[t] /\ v = inf[t].wid)
    <2>1. sources'[j][v] = sources[j][v]
      BY <1>3, SWWatchEffect
    <2> QED
      BY <1>1, <1>3, <2>1 DEF Attached
  <1> QED
    BY <1>2, <1>3

\* Every step keeps StartWatches from starting a watch that works.
LEMMA StartWatchesInvStep ==
  ASSUME TypeOK, LocksInv, SourcesInv, StartWatchesInv, [Next]_vars
  PROVE  StartWatchesInv'
  <1>a. /\ Instances \subseteq Threads /\ Callers \subseteq Threads
        /\ pc \in [Threads -> PcSet]
        /\ ctl \in [Threads -> Instances \cup {None}]
        /\ todo \in [Threads -> SUBSET WatchID]
        /\ snap \in [Threads -> SUBSET Gvks]
        /\ inf \in [Threads -> [wid : WatchID \cup {None}, gen : Nat]]
        /\ \A w \in WatchID : w.gvk \in Gvks
        /\ \A t \in Threads : /\ pc[t] \notin {"idle", "done"} => ctl[t] \in Instances
                              /\ pc[t] = "sw_watch" => inf[t].wid \in WatchID
    BY WatchIDKind DEF TypeOK, EngineTypeOK, Threads
  <1>b. gen \in [Gvks -> Nat] /\ live \in SUBSET Gvks /\ InformersTypeOK
    BY DEF TypeOK, InformersTypeOK
  <1>c. \A t, u \in Threads :
          pc[t] \in WritePcs /\ pc[u] \in WritePcs /\ ctl[t] = ctl[u] => t = u
    <2> SUFFICES ASSUME NEW t \in Threads, NEW u \in Threads,
                        pc[t] \in WritePcs, pc[u] \in WritePcs, ctl[t] = ctl[u]
                 PROVE  t = u
      OBVIOUS
    <2>1. ctl[t] \in Instances
      BY <1>a DEF WritePcs
    <2> QED
      BY <2>1 DEF LocksInv
  <1> USE DEF infVars, ctlVars, srcVars, locVars, IsRunning, UnlockController
  <1>1. ASSUME NEW i \in Instances, ControllerReturns(i) PROVE StartWatchesInv'
    BY <1>1, <1>a, <1>b, <1>c, AttachedUnchanged
       DEF StartWatchesInv, ControllerReturns
  <1>2. ASSUME NEW t \in Threads, NEW n \in Names, StopNoop(t, n) PROVE StartWatchesInv'
    BY <1>2, <1>a, <1>b, <1>c, AttachedUnchanged
       DEF StartWatchesInv, StopNoop, Return
  <1>3. ASSUME NEW t \in Threads, NEW n \in Names, StopBegin(t, n) PROVE StartWatchesInv'
    BY <1>3, <1>a, <1>b, <1>c, AttachedUnchanged
       DEF StartWatchesInv, StopBegin, Goto
  <1>4. ASSUME NEW t \in Threads, StopLock(t) PROVE StartWatchesInv'
    BY <1>4, <1>a, <1>b, <1>c, AttachedUnchanged
       DEF StartWatchesInv, StopLock, Goto
  <1>5. ASSUME NEW t \in Threads, NEW w \in WatchID, StopOneSource(t, w) PROVE StartWatchesInv'
    BY <1>5, <1>a, <1>b, <1>c, StopSourceDetaches
       DEF StartWatchesInv, StopOneSource, WritePcs
  <1>6. ASSUME NEW t \in Threads, NEW w \in WatchID, StopOneSourceFails(t, w) PROVE StartWatchesInv'
    BY <1>6, <1>a, <1>b, <1>c, AttachedUnchanged
       DEF StartWatchesInv, StopOneSourceFails, Return
  <1>7. ASSUME NEW t \in Threads, StopDone(t) PROVE StartWatchesInv'
    BY <1>7, <1>a, <1>b, <1>c, AttachedUnchanged
       DEF StartWatchesInv, StopDone, Return
  <1>8. ASSUME NEW t \in Callers, NEW n \in Names, NEW ws \in SUBSET WatchID, SWBegin(t, n, ws) PROVE StartWatchesInv'
    BY <1>8, <1>a, <1>b, <1>c, AttachedUnchanged
       DEF StartWatchesInv, SWBegin, Goto
  <1>9. ASSUME NEW t \in Threads, SWSnapshot(t) PROVE StartWatchesInv'
    BY <1>9, <1>a, <1>b, <1>c, AttachedUnchanged
       DEF StartWatchesInv, SWSnapshot, Goto
  <1>10. ASSUME NEW t \in Threads, SWCheck(t) PROVE StartWatchesInv'
    <2>1. pc'[t] \notin {"sw_loop", "sw_watch"}
      BY <1>10, <1>a DEF SWCheck, Goto, Return
    <2>2. \A u \in Threads \ {t} : /\ pc'[u] = pc[u] /\ inf'[u] = inf[u] /\ ctl'[u] = ctl[u]
                                 /\ todo'[u] = todo[u] /\ snap'[u] = snap[u]
      BY <1>10, <1>a DEF SWCheck, Goto, Return
    <2>3. live' = live /\ gen' = gen /\ sources' = sources
      BY <1>10 DEF SWCheck
    <2> QED
      BY <2>1, <2>2, <2>3, <1>a, AttachedUnchanged DEF StartWatchesInv, Attached
  <1>11. ASSUME NEW t \in Threads, SWLock(t) PROVE StartWatchesInv'
    BY <1>11, <1>a, <1>b, <1>c, AttachedUnchanged
       DEF StartWatchesInv, SWLock, Goto, RefreshedSnapshot, SourcesInv, LiveIsActive,
          Attached
  <1>12. ASSUME NEW t \in Threads, NEW w \in WatchID, SWGetInformer(t, w) PROVE StartWatchesInv'
    <2>1. w.gvk \in Gvks /\ ctl[t] \in Instances
      BY <1>12, <1>a DEF SWGetInformer
    <2>2. \A i \in Instances, v \in WatchID : Attached(i, v)' <=> Attached(i, v)
      BY <1>12, <2>1, GetInformerKeepsAttached DEF SWGetInformer
    <2>3. ~Attached(ctl[t], w)
      <3>1. CASE sources[ctl[t]][w] = 0
        BY <2>1, <3>1, <1>b DEF Attached, SourcesInv
      <3>2. CASE w.gvk \notin snap[t]
        BY <1>12, <3>2 DEF SWGetInformer, StartWatchesInv
      <3> QED
        BY <1>12, <3>1, <3>2 DEF SWGetInformer, IsWatching
    <2>4. \A g \in Gvks : gen'[g] \in Nat /\ gen'[g] >= gen[g]
      BY <1>12, <2>1, <1>b, GetInformerEffect DEF SWGetInformer
    <2>5. /\ pc'[t] = "sw_watch" /\ ctl' = ctl /\ inf'[t].wid = w
          /\ inf'[t].gen = gen'[w.gvk]
      BY <1>12, <1>a DEF SWGetInformer, Goto
    <2>8. gen'[w.gvk] > 0
      <3>1. w.gvk \in live'
        BY <1>12 DEF SWGetInformer
      <3> QED
        BY <1>12, <3>1, <2>1, <2>4, <1>b, GetInformerEffect DEF SWGetInformer, SourcesInv
    <2>6. \A u \in Threads \ {t} :
            pc'[u] = pc[u] /\ inf'[u] = inf[u] /\ todo'[u] = todo[u] /\ snap'[u] = snap[u]
      BY <1>12, <1>a DEF SWGetInformer, Goto
    <2>7. ASSUME NEW u \in Threads
          PROVE  /\ pc'[u] \in {"sw_loop", "sw_watch"} =>
                    \A v \in todo'[u] : v.gvk \notin snap'[u] => ~Attached(ctl[u], v)'
                 /\ pc'[u] = "sw_watch" =>
                    /\ ~Attached(ctl[u], inf[u].wid)'
                    /\ 0 < inf'[u].gen /\ inf'[u].gen <= gen'[inf'[u].wid.gvk]
      <3>1. CASE u = t
        <4>1. pc[t] = "sw_loop" /\ todo'[t] = todo[t] /\ snap'[t] = snap[t]
              /\ todo[t] \subseteq WatchID
          BY <1>12, <1>a DEF SWGetInformer
        <4> QED
          BY <3>1, <4>1, <2>1, <2>2, <2>3, <2>4, <2>5, <2>8 DEF StartWatchesInv
      <3>2. CASE u # t
        BY <3>2, <2>2, <2>4, <2>5, <2>6, <1>a, <1>b DEF StartWatchesInv
      <3> QED
        BY <3>1, <3>2
    <2> QED
      BY <2>7 DEF StartWatchesInv
  <1>13. ASSUME NEW t \in Threads, NEW w \in WatchID, SWGetInformerFails(t, w) PROVE StartWatchesInv'
    BY <1>13, <1>a, <1>b, <1>c, GetInformerKeepsAttached, GetInformerEffect, SMTT(30)
       DEF StartWatchesInv, SWGetInformerFails, Return
  <1>14. ASSUME NEW t \in Threads, SWWatch(t) PROVE StartWatchesInv'
    <2>1. \A u \in Threads \ {t} :
            pc'[u] = pc[u] /\ inf'[u] = inf[u] /\ todo'[u] = todo[u]
      BY <1>14, <1>a DEF SWWatch, Goto
    <2>2. /\ pc[t] = "sw_watch" /\ pc'[t] = "sw_loop" /\ ctl' = ctl /\ snap' = snap
          /\ todo'[t] = todo[t] \ {inf[t].wid} /\ gen' = gen /\ todo[t] \subseteq WatchID
      BY <1>14, <1>a DEF SWWatch, Goto
    <2>3. ASSUME NEW u \in Threads, u # t, pc[u] \in {"sw_loop", "sw_watch"},
                 NEW v \in WatchID
          PROVE  ctl[u] \in Instances /\ (Attached(ctl[u], v)' <=> Attached(ctl[u], v))
      BY <1>14, <2>2, <2>3, <1>a, <1>c, SWWatchAttaches DEF WritePcs
    <2>4. \A v \in todo'[t] : Attached(ctl[t], v)' <=> Attached(ctl[t], v)
      BY <1>14, <2>2, <1>a, SWWatchAttaches
    <2>5. ASSUME NEW u \in Threads
          PROVE  /\ pc'[u] \in {"sw_loop", "sw_watch"} =>
                    \A v \in todo'[u] : v.gvk \notin snap'[u] => ~Attached(ctl[u], v)'
                 /\ pc'[u] = "sw_watch" =>
                    /\ ~Attached(ctl[u], inf[u].wid)'
                    /\ 0 < inf'[u].gen /\ inf'[u].gen <= gen'[inf'[u].wid.gvk]
      <3>1. CASE u = t
        BY <3>1, <2>2, <2>4 DEF StartWatchesInv
      <3>2. CASE u # t
        BY <3>2, <2>1, <2>2, <2>3, <1>a DEF StartWatchesInv
      <3> QED
        BY <3>1, <3>2
    <2> QED
      BY <2>5 DEF StartWatchesInv
  <1>15. ASSUME NEW t \in Threads, SWWatchFails(t) PROVE StartWatchesInv'
    BY <1>15, <1>a, <1>b, <1>c, AttachedUnchanged
       DEF StartWatchesInv, SWWatchFails, Return
  <1>16. ASSUME NEW t \in Threads, SWDone(t) PROVE StartWatchesInv'
    BY <1>16, <1>a, <1>b, <1>c, AttachedUnchanged
       DEF StartWatchesInv, SWDone, Return
  <1>17. ASSUME NEW t \in Callers, NEW n \in Names, NEW ws \in SUBSET WatchID, TWBegin(t, n, ws) PROVE StartWatchesInv'
    BY <1>17, <1>a, <1>b, <1>c, AttachedUnchanged
       DEF StartWatchesInv, TWBegin, Goto
  <1>18. ASSUME NEW t \in Threads, TWCheck(t) PROVE StartWatchesInv'
    <2>1. pc'[t] \notin {"sw_loop", "sw_watch"}
      BY <1>18, <1>a DEF TWCheck, Goto, Return
    <2>2. \A u \in Threads \ {t} : /\ pc'[u] = pc[u] /\ inf'[u] = inf[u] /\ ctl'[u] = ctl[u]
                                 /\ todo'[u] = todo[u] /\ snap'[u] = snap[u]
      BY <1>18, <1>a DEF TWCheck, Goto, Return
    <2>3. live' = live /\ gen' = gen /\ sources' = sources
      BY <1>18 DEF TWCheck
    <2> QED
      BY <2>1, <2>2, <2>3, <1>a, AttachedUnchanged DEF StartWatchesInv, Attached
  <1>19. ASSUME NEW t \in Threads, TWLock(t) PROVE StartWatchesInv'
    BY <1>19, <1>a, <1>b, <1>c, AttachedUnchanged
       DEF StartWatchesInv, TWLock, Goto
  <1>20. ASSUME NEW t \in Threads, NEW w \in WatchID, TWStop(t, w) PROVE StartWatchesInv'
    BY <1>20, <1>a, <1>b, <1>c, StopSourceDetaches
       DEF StartWatchesInv, TWStop, WritePcs
  <1>21. ASSUME NEW t \in Threads, NEW w \in WatchID, TWStopFails(t, w) PROVE StartWatchesInv'
    BY <1>21, <1>a, <1>b, <1>c, AttachedUnchanged
       DEF StartWatchesInv, TWStopFails, Return
  <1>22. ASSUME NEW t \in Threads, TWDone(t) PROVE StartWatchesInv'
    BY <1>22, <1>a, <1>b, <1>c, AttachedUnchanged
       DEF StartWatchesInv, TWDone, Return
  <1>23. ASSUME NEW g \in Gvks, Read(g) PROVE StartWatchesInv'
    BY <1>23, <1>a, <1>b, <1>c, GetInformerKeepsAttached, GetInformerEffect
       DEF StartWatchesInv, Read
  <1>24. ASSUME NEW g \in Gvks, GarbageCollectInformer(g) PROVE StartWatchesInv'
    BY <1>24, <1>a, <1>b, <1>c, RemoveInformerDetaches
       DEF StartWatchesInv, GarbageCollectInformer, RemoveInformer
  <1>25. CASE UNCHANGED <<pc, ctl, todo, snap, inf, live, gen, sources>>
    BY <1>25, <1>a, <1>b, <1>c, AttachedUnchanged
       DEF StartWatchesInv
  <1>26. ASSUME \/ UNCHANGED vars
                \/ Elect
                \/ \E n \in Names, i \in Instances : Start(n, i)
                \/ \E i \in Instances : RunController(i)
                \/ \E i \in Instances, ws \in SUBSET WatchID : ControllerFails(i, ws)
                \/ \E g \in Gvks : ChangeCRD(g)
         PROVE  UNCHANGED <<pc, ctl, todo, snap, inf, live, gen, sources>>
    BY <1>26
       DEF vars, infVars, ctlVars, srcVars, locVars, Elect, Start, RunController,
          ControllerFails, ChangeCRD, CreateCRD, DeleteCRD
  <1> QED
    BY <1>1, <1>2, <1>3, <1>4, <1>5, <1>6, <1>7, <1>8, <1>9, <1>10, <1>11, <1>12, <1>13,
       <1>14, <1>15, <1>16, <1>17, <1>18, <1>19, <1>20, <1>21, <1>22, <1>23, <1>24,
       <1>25, <1>26, NextCases

\* Every step keeps the sources of a waiting controller unstarted, and a source
\* that isn't recorded no started one.
LEMMA StartedStep ==
  ASSUME TypeOK, StartedInv, StartWatchesInv, [Next]_vars
  PROVE  StartedInv'
  <1>a. /\ phase \in [Instances -> {"unused", "waiting", "running", "failed", "returned"}]
        /\ sources \in [Instances -> [WatchID -> Nat]]
        /\ reg \in [Instances -> [WatchID -> BOOLEAN]]
        /\ \A t \in Threads : pc[t] \notin {"idle", "done"} => ctl[t] \in Instances
    BY DEF TypeOK, EngineTypeOK
  <1> USE DEF infVars, ctlVars, srcVars, locVars, IsRunning, UnlockController
  <1>1. ASSUME NEW t \in Threads, NEW w \in WatchID, StopOneSource(t, w) PROVE StartedInv'
    BY <1>1, <1>a, StopSourceEffect DEF StartedInv, StopOneSource
  <1>2. ASSUME NEW t \in Threads, NEW w \in WatchID, TWStop(t, w) PROVE StartedInv'
    BY <1>2, <1>a, StopSourceEffect DEF StartedInv, TWStop
  <1>3. ASSUME NEW t \in Threads, SWWatch(t) PROVE StartedInv'
    <2>1. inf[t].gen # 0
      BY <1>3, SWWatchEffect DEF SWWatch, StartWatchesInv
    <2>2. phase' = phase
      BY <1>3 DEF SWWatch
    <2> QED
      BY <1>3, <1>a, <2>1, <2>2, SWWatchEffect DEF StartedInv, Started
  <1>4. ASSUME NEW n \in Names, NEW i \in Instances, Start(n, i) PROVE StartedInv'
    BY <1>4, <1>a DEF StartedInv, Start
  <1>5. ASSUME NEW i \in Instances, RunController(i) PROVE StartedInv'
    BY <1>5, <1>a, StartKeptEffect DEF StartedInv, RunController
  <1>6. ASSUME NEW i \in Instances, NEW ws \in SUBSET WatchID, ControllerFails(i, ws)
        PROVE  StartedInv'
    BY <1>6, <1>a, StartKeptEffect DEF StartedInv, ControllerFails
  <1>7. ASSUME NEW i \in Instances, ControllerReturns(i) PROVE StartedInv'
    BY <1>7, <1>a DEF StartedInv, ControllerReturns
  <1>8. CASE UNCHANGED <<phase, sources, reg>>
    BY <1>8 DEF StartedInv
  <1>9. \/ UNCHANGED <<phase, sources, reg>>
        \/ \E t \in Threads, w \in WatchID : StopOneSource(t, w)
        \/ \E t \in Threads, w \in WatchID : TWStop(t, w)
        \/ \E t \in Threads : SWWatch(t)
        \/ \E n \in Names, i \in Instances : Start(n, i)
        \/ \E i \in Instances : RunController(i)
        \/ \E i \in Instances, ws \in SUBSET WatchID : ControllerFails(i, ws)
        \/ \E i \in Instances : ControllerReturns(i)
    BY NextCases
       DEF vars, Elect, StopNoop, StopBegin, StopLock, StopOneSourceFails, StopDone,
          SWBegin, SWSnapshot, SWCheck, SWLock, SWGetInformer, SWGetInformerFails,
          SWWatchFails, SWDone, TWBegin, TWCheck, TWLock, TWStopFails, TWDone, Read,
          ChangeCRD, GarbageCollectInformer
  <1> QED
    BY <1>1, <1>2, <1>3, <1>4, <1>5, <1>6, <1>7, <1>8, <1>9

\* Starting the sources a waiting controller kept gives one handler to each
\* recorded source of the watches started, and one to each dropped source.
LEMMA StartKeptOneWatch ==
  ASSUME TypeOK, SourcesInv, StartedInv, OneWatch, NEW i \in Instances,
         NEW ws \in SUBSET WatchID, StartKept(i, ws), phase[i] = "waiting",
         UNCHANGED <<live, gen, sources>>,
         phase'[i] \notin {"unused", "waiting"},
         \A j \in Instances : j # i => phase'[j] = phase[j] /\ dropped'[j] = dropped[j],
         \A w \in WatchID : dropped'[i][w] = IF w \in ws THEN dropped[i][w] ELSE 0
  PROVE  OneWatch'
  <1>a. \A j \in Instances, w \in WatchID :
          handlers[j][w] \in Int /\ dropped[j][w] \in Nat /\ sources[j][w] \in Nat
    BY DEF TypeOK, EngineTypeOK
  <1>b. \A w \in WatchID : w.gvk \in Gvks /\ gen[w.gvk] \in Nat
    BY WatchIDKind DEF TypeOK, InformersTypeOK
  <1> SUFFICES ASSUME NEW j \in Instances, NEW w \in WatchID
               PROVE  handlers'[j][w] =
                        (IF Attached(j, w)' /\ reg'[j][w] THEN 1 ELSE 0)
                      + (IF phase'[j] \in {"unused", "waiting"} THEN 0 ELSE dropped'[j][w])
    BY DEF OneWatch
  <1>1. Attached(j, w)' <=> Attached(j, w)
    BY AttachedUnchanged
  <1>2. CASE j # i
    BY <1>1, <1>2, <1>a, StartKeptEffect DEF OneWatch
  <1>3. CASE j = i
    <2>1. handlers[i][w] = 0
      BY <1>3, <1>a DEF OneWatch, StartedInv
    <2>2. Attached(i, w) => sources[i][w] # 0
      BY <1>3, <1>a, <1>b DEF Attached, SourcesInv
    <2>3. CASE w \in ws
      <3>1. handlers'[i][w] = dropped[i][w] + (IF Attached(i, w) THEN 1 ELSE 0)
        BY <2>1, <2>3, <1>a, StartKeptEffect
      <3>2. Attached(i, w) => reg'[i][w]
        BY <2>2, <2>3, StartKeptEffect
      <3>3. dropped'[i][w] = dropped[i][w]
        BY <2>3
      <3> QED
        BY <1>1, <1>3, <3>1, <3>2, <3>3, <1>a
    <2>4. CASE w \notin ws
      <3>1. handlers'[i][w] = 0 /\ ~reg'[i][w] /\ dropped'[i][w] = 0
        BY <2>1, <2>4, StartKeptEffect
      <3> QED
        BY <1>3, <3>1
    <2> QED
      BY <2>3, <2>4
  <1> QED
    BY <1>2, <1>3

\* Stopping a source takes its handler away, if it has one.
LEMMA StopSourceOneWatch ==
  ASSUME TypeOK, SourcesInv, StartedInv, OneWatch, NEW i \in Instances,
         NEW w \in WatchID, StopSource(i, w), UNCHANGED <<live, gen, phase>>
  PROVE  OneWatch'
  <1>a. \A j \in Instances, v \in WatchID :
          handlers[j][v] \in Int /\ dropped[j][v] \in Nat /\ reg[j][v] \in BOOLEAN
    BY DEF TypeOK, EngineTypeOK
  <1> SUFFICES ASSUME NEW j \in Instances, NEW v \in WatchID
               PROVE  handlers'[j][v] =
                        (IF Attached(j, v)' /\ reg'[j][v] THEN 1 ELSE 0)
                      + (IF phase[j] \in {"unused", "waiting"} THEN 0 ELSE dropped'[j][v])
    BY DEF OneWatch
  <1>1. handlers[j][v] = (IF Attached(j, v) /\ reg[j][v] THEN 1 ELSE 0)
                       + (IF phase[j] \in {"unused", "waiting"} THEN 0 ELSE dropped[j][v])
    BY DEF OneWatch
  <1>2. CASE j = i /\ v = w
    <2>1. ~reg'[j][v]
      BY <1>2, StopSourceEffect
    <2>2. handlers'[j][v] = IF Attached(j, v) /\ reg[j][v]
                            THEN handlers[j][v] - 1 ELSE handlers[j][v]
      BY <1>2, StopSourceEffect
    <2>3. phase[j] # "waiting" => dropped'[j][v] = dropped[j][v]
      BY <1>2, StopSourceEffect
    <2> QED
      BY <1>1, <2>1, <2>2, <2>3, <1>a
  <1>3. CASE ~(j = i /\ v = w)
    <2>1. /\ handlers'[j][v] = handlers[j][v] /\ dropped'[j][v] = dropped[j][v]
          /\ reg'[j][v] <=> reg[j][v]
      BY <1>3, StopSourceEffect
    <2>2. Attached(j, v)' <=> Attached(j, v)
      BY <1>3, StopSourceDetaches
    <2> QED
      BY <1>1, <2>1, <2>2
  <1> QED
    BY <1>2, <1>3

\* Every step keeps one event handler per started source and one per source
\* dropped before its controller started, and no other.
LEMMA OneWatchStep ==
  ASSUME TypeOK, SourcesInv, StartWatchesInv, StartedInv, OneWatch, [Next]_vars
  PROVE  OneWatch'
  <1>a. /\ \A w \in WatchID : w.gvk \in Gvks
        /\ handlers \in [Instances -> [WatchID -> Int]]
        /\ dropped \in [Instances -> [WatchID -> Nat]]
        /\ phase \in [Instances -> {"unused", "waiting", "running", "failed", "returned"}]
        /\ \A t \in Threads : pc[t] \notin {"idle", "done"} => ctl[t] \in Instances
    BY WatchIDKind DEF TypeOK, EngineTypeOK
  <1> USE DEF infVars, ctlVars, srcVars, locVars, IsRunning, UnlockController
  <1>1. ASSUME NEW t \in Threads, NEW w \in WatchID, StopOneSource(t, w) PROVE OneWatch'
    BY <1>1, <1>a, StopSourceOneWatch DEF StopOneSource
  <1>2. ASSUME NEW t \in Threads, NEW w \in WatchID, TWStop(t, w) PROVE OneWatch'
    BY <1>2, <1>a, StopSourceOneWatch DEF TWStop
  <1>3. ASSUME NEW t \in Threads, SWWatch(t) PROVE OneWatch'
    <2>1. /\ ctl[t] \in Instances /\ inf[t].wid \in WatchID
          /\ phase' = phase /\ dropped' = dropped
      BY <1>3, SWWatchEffect DEF SWWatch
    <2>2. ~Attached(ctl[t], inf[t].wid)
      BY <1>3 DEF SWWatch, StartWatchesInv
    <2> SUFFICES ASSUME NEW j \in Instances, NEW v \in WatchID
                 PROVE  handlers'[j][v] =
                          (IF Attached(j, v)' /\ reg'[j][v] THEN 1 ELSE 0)
                        + (IF phase[j] \in {"unused", "waiting"} THEN 0 ELSE dropped[j][v])
      BY <2>1 DEF OneWatch
    <2>3. handlers[j][v] = (IF Attached(j, v) /\ reg[j][v] THEN 1 ELSE 0)
                         + (IF phase[j] \in {"unused", "waiting"} THEN 0 ELSE dropped[j][v])
      BY DEF OneWatch
    <2>4. CASE j = ctl[t] /\ v = inf[t].wid
      <3>1. handlers'[j][v] = IF Started(j) /\ v.gvk \in live /\ gen[v.gvk] = inf[t].gen
                              THEN handlers[j][v] + 1 ELSE handlers[j][v]
        BY <1>3, <2>4, SWWatchEffect
      <3>2. reg'[j][v] <=> Started(j)
        BY <1>3, <2>4, SWWatchEffect
      <3>3. Attached(j, v)' <=> v.gvk \in live /\ gen[v.gvk] = inf[t].gen
        BY <1>3, <2>4, SWWatchAttaches
      <3> QED
        BY <2>2, <2>3, <2>4, <3>1, <3>2, <3>3, <1>a
    <2>5. CASE ~(j = ctl[t] /\ v = inf[t].wid)
      <3>1. handlers'[j][v] = handlers[j][v] /\ (reg'[j][v] <=> reg[j][v])
        BY <1>3, <2>5, SWWatchEffect
      <3>2. Attached(j, v)' <=> Attached(j, v)
        BY <1>3, <2>5, SWWatchAttaches
      <3> QED
        BY <2>3, <3>1, <3>2
    <2> QED
      BY <2>4, <2>5
  <1>4. ASSUME NEW t \in Threads, NEW w \in WatchID, SWGetInformer(t, w) PROVE OneWatch'
    BY <1>4, <1>a, GetInformerKeepsAttached
       DEF OneWatch, SWGetInformer
  <1>5. ASSUME NEW t \in Threads, NEW w \in WatchID, SWGetInformerFails(t, w) PROVE OneWatch'
    BY <1>5, <1>a, GetInformerKeepsAttached
       DEF OneWatch, SWGetInformerFails
  <1>6. ASSUME NEW g \in Gvks, Read(g) PROVE OneWatch'
    BY <1>6, <1>a, GetInformerKeepsAttached
       DEF OneWatch, Read
  <1>7. ASSUME NEW g \in Gvks, GarbageCollectInformer(g) PROVE OneWatch'
    BY <1>7, <1>a, RemoveInformerDetaches
       DEF OneWatch, GarbageCollectInformer
  <1>8. CASE UNCHANGED <<live, gen, sources, reg, dropped, handlers, phase>>
    BY <1>8, <1>a, AttachedUnchanged
       DEF OneWatch
  <1>9. ASSUME NEW n \in Names, NEW i \in Instances, Start(n, i) PROVE OneWatch'
    BY <1>9, <1>a, AttachedUnchanged DEF OneWatch, Start
  <1>10. ASSUME NEW i \in Instances, ControllerReturns(i) PROVE OneWatch'
    BY <1>10, <1>a, AttachedUnchanged DEF OneWatch, ControllerReturns
  <1>11. ASSUME NEW i \in Instances, RunController(i) PROVE OneWatch'
    <2>1. /\ phase[i] = "waiting" /\ phase'[i] = "running"
          /\ \A j \in Instances : j # i => phase'[j] = phase[j]
      BY <1>11, <1>a DEF RunController
    <2>2. StartKept(i, WatchID) /\ UNCHANGED <<live, gen, sources, dropped>>
      BY <1>11 DEF RunController
    <2> QED
      BY <2>1, <2>2, StartKeptOneWatch
  <1>12. ASSUME NEW i \in Instances, NEW ws \in SUBSET WatchID, ControllerFails(i, ws)
         PROVE  OneWatch'
    <2>1. /\ phase[i] = "waiting" /\ phase'[i] = "failed"
          /\ \A j \in Instances : j # i => phase'[j] = phase[j]
      BY <1>12, <1>a DEF ControllerFails
    <2>2. StartKept(i, ws) /\ UNCHANGED <<live, gen, sources>>
      BY <1>12 DEF ControllerFails
    <2>3. /\ \A j \in Instances : j # i => dropped'[j] = dropped[j]
          /\ \A w \in WatchID : dropped'[i][w] = IF w \in ws THEN dropped[i][w] ELSE 0
      BY <1>12, <1>a DEF ControllerFails
    <2> QED
      BY <2>1, <2>2, <2>3, StartKeptOneWatch
  <1>13. \/ UNCHANGED <<live, gen, sources, reg, dropped, handlers, phase>>
         \/ \E t \in Threads, w \in WatchID : StopOneSource(t, w)
         \/ \E t \in Threads, w \in WatchID : TWStop(t, w)
         \/ \E t \in Threads : SWWatch(t)
         \/ \E t \in Threads, w \in WatchID : SWGetInformer(t, w)
         \/ \E t \in Threads, w \in WatchID : SWGetInformerFails(t, w)
         \/ \E g \in Gvks : Read(g)
         \/ \E g \in Gvks : GarbageCollectInformer(g)
         \/ \E n \in Names, i \in Instances : Start(n, i)
         \/ \E i \in Instances : ControllerReturns(i)
         \/ \E i \in Instances : RunController(i)
         \/ \E i \in Instances, ws \in SUBSET WatchID : ControllerFails(i, ws)
    BY NextCases
       DEF vars, infVars, ctlVars, srcVars, locVars, Elect, StopNoop, StopBegin,
          StopLock, StopOneSourceFails, StopDone, SWBegin, SWSnapshot, SWCheck, SWLock,
          SWWatchFails, SWDone, TWBegin, TWCheck, TWLock, TWStopFails, TWDone,
          ChangeCRD, CreateCRD, DeleteCRD
  <1> QED
    BY <1>1, <1>2, <1>3, <1>4, <1>5, <1>6, <1>7, <1>8, <1>9, <1>10, <1>11, <1>12, <1>13

\* The inductive invariant holds initially.
LEMMA InitIndInv == Init => IndInv
  <1> SUFFICES ASSUME Init PROVE IndInv
    OBVIOUS
  <1>1. TypeOK
    BY InitTypeOK
  <1>2. LocksInv
    BY ThreadsAssumption DEF Init, LocksInv, Threads, StopPcs, WritePcs
  <1>3. SourcesInv
    BY WatchIDKind DEF Init, InformersInit, SourcesInv, LiveIsActive
  <1>4. StartWatchesInv
    BY DEF Init, StartWatchesInv
  <1>5. RegistryInv /\ OneController
    BY DEF Init, RegistryInv, OneController, StopPcs
  <1>6. OneWatch
    BY DEF Init, InformersInit, OneWatch, Attached
  <1>7. StartedInv
    BY DEF Init, StartedInv
  <1> QED
    BY <1>1, <1>2, <1>3, <1>4, <1>5, <1>6, <1>7 DEF IndInv

\* Every step keeps the inductive invariant.
LEMMA NextIndInv == IndInv /\ [Next]_vars => IndInv'
  <1> SUFFICES ASSUME IndInv, [Next]_vars PROVE IndInv'
    OBVIOUS
  <1>1. TypeOK'
    BY NextTypeOK DEF IndInv
  <1>2. LocksInv'
    BY LocksStep DEF IndInv
  <1>3. SourcesInv'
    BY SourcesStep DEF IndInv
  <1>4. StartWatchesInv'
    BY StartWatchesInvStep DEF IndInv
  <1>5. RegistryInv' /\ OneController'
    BY RegistryStep DEF IndInv
  <1>6. OneWatch'
    BY OneWatchStep DEF IndInv
  <1>7. StartedInv'
    BY StartedStep DEF IndInv
  <1> QED
    BY <1>1, <1>2, <1>3, <1>4, <1>5, <1>6, <1>7 DEF IndInv

\* The inductive invariant holds in every reachable state.
THEOREM Invariance == Spec => []IndInv
  BY InitIndInv, NextIndInv, PTL DEF Spec

\* Whatever StartWatches, StopWatches, Stop and the informer garbage collector do
\* concurrently, and whenever the controllers are started, the running informer
\* calls one event handler for each recorded source started on it, one for each
\* source that was stopped before its controller started it, and no other.
THEOREM OneWatchAlways == Spec => []OneWatch
  BY Invariance, PTL DEF IndInv

\* Of the instances started under a name, only the registered one isn't cancelled.
THEOREM OneControllerAlways == Spec => []OneController
  BY Invariance, PTL DEF IndInv

\* Every running informer is one the tracking cache calls active.
THEOREM LiveIsActiveAlways == Spec => []LiveIsActive
  BY Invariance, PTL DEF IndInv, SourcesInv

\* A step that takes a name from its controller is the end of Stop, and leaves the
\* controller cancelled and without a source, and without a handler unless one of
\* its sources was dropped before the controller was started.
LEMMA StopReleasesStep ==
  ASSUME IndInv, [Next]_vars, NEW n \in Names,
         controllers[n] # None, controllers'[n] # controllers[n]
  PROVE  /\ controllers'[n] = None
         /\ cancelled'[controllers[n]]
         /\ \A w \in WatchID : /\ sources'[controllers[n]][w] = 0
                               /\ dropped'[controllers[n]][w] = 0 =>
                                     handlers'[controllers[n]][w] = 0
  <1>a. /\ controllers \in [Names -> Instances \cup {None}]
        /\ cancelled \in [Instances -> BOOLEAN]
        /\ gen \in [Gvks -> Nat]
        /\ \A w \in WatchID : w.gvk \in Gvks
    BY WatchIDKind DEF IndInv, TypeOK, EngineTypeOK, InformersTypeOK
  <1>1. ASSUME NEW t \in Threads, StopDone(t)
        PROVE  /\ controllers'[n] = None
               /\ cancelled'[controllers[n]]
               /\ \A w \in WatchID : /\ sources'[controllers[n]][w] = 0
                                     /\ dropped'[controllers[n]][w] = 0 =>
                                           handlers'[controllers[n]][w] = 0
    <2>1. controllers[nameOf[ctl[t]]] = ctl[t] /\ nameOf[ctl[t]] \in Names
      BY <1>1 DEF StopDone, IndInv, RegistryInv, StopPcs
    <2>2. n = nameOf[ctl[t]]
      BY <1>1, <1>a, <2>1 DEF StopDone
    <2>3. ctl[t] = controllers[n] /\ ctl[t] \in Instances
      BY <2>1, <2>2, <1>a
    <2>4. controllers'[n] = None /\ cancelled'[controllers[n]]
      BY <1>1, <2>2, <2>3, <1>a DEF StopDone
    <2>5. ASSUME NEW w \in WatchID
          PROVE  /\ sources'[controllers[n]][w] = 0
                 /\ dropped'[controllers[n]][w] = 0 => handlers'[controllers[n]][w] = 0
      <3>1. /\ sources[ctl[t]][w] = 0 /\ sources' = sources /\ handlers' = handlers
            /\ dropped' = dropped
        BY <1>1 DEF StopDone, AllStopped
      <3>2. ~Attached(ctl[t], w)
        BY <3>1, <1>a DEF Attached, IndInv, SourcesInv
      <3>3. dropped[ctl[t]][w] = 0 => handlers[ctl[t]][w] = 0
        BY <3>2, <2>3 DEF IndInv, OneWatch
      <3> QED
        BY <3>1, <3>3, <2>3
    <2> QED
      BY <2>4, <2>5
  <1>2. ASSUME NEW m \in Names, NEW i \in Instances, Start(m, i) PROVE FALSE
    BY <1>2, <1>a DEF Start, IsRunning
  <1>3. \/ UNCHANGED controllers
        \/ \E t \in Threads : StopDone(t)
        \/ \E m \in Names, i \in Instances : Start(m, i)
    BY NextCases
       DEF vars, infVars, ctlVars, srcVars, locVars, Elect, RunController,
          ControllerReturns, ControllerFails, StopNoop, StopBegin, StopLock,
          StopOneSource, StopOneSourceFails, SWBegin, SWSnapshot, SWCheck, SWLock,
          SWGetInformer, SWGetInformerFails, SWWatch, SWWatchFails, SWDone, TWBegin,
          TWCheck, TWLock, TWStop, TWStopFails, TWDone, Read, ChangeCRD,
          GarbageCollectInformer
  <1> QED
    BY <1>1, <1>2, <1>3

\* Only Stop takes a name from a controller, and then nothing recorded of it is
\* left: it's cancelled, and has no source, and no event handler either unless a
\* source was stopped before the controller was started.
THEOREM StopReleasesAlways == Spec => StopReleasesEverything
  <1>1. IndInv /\ [Next]_vars =>
          [\A n \in Names :
            LET i == controllers[n] IN
            i # None /\ controllers'[n] # i =>
                /\ controllers'[n] = None
                /\ cancelled'[i]
                /\ \A w \in WatchID :
                    /\ sources'[i][w] = 0
                    /\ dropped'[i][w] = 0 => handlers'[i][w] = 0]_vars
    BY StopReleasesStep
  <1> QED
    BY <1>1, Invariance, PTL DEF Spec, StopReleasesEverything

-----------------------------------------------------------------------------
(* The cache. *)

\* The collector isn't a reader, and Nobody is nobody.
LEMMA ProcsFacts ==
  /\ Readers \subseteq Procs /\ Collector \in Procs /\ Collector \notin Readers
  /\ Nobody \notin Procs /\ Nobody \notin Gvks
  BY CacheAssumption DEF Procs

\* The invariant holds initially.
LEMMA InitCacheInv == CacheInit => CacheInv
  BY ProcsFacts DEF CacheInit, InformersInit, CacheInv, CacheTypeOK, InformersTypeOK,
     AbstractActive

\* A step of the cache is a step of one of its actions, or changes nothing.
LEMMA CacheCases ==
  ASSUME [CacheNext]_cacheVars
  PROVE  \/ \E p \in Readers, g \in Gvks : GetRLock(p, g)
         \/ \E g \in Gvks : RemoveRLock(g)
         \/ \E p \in Procs : WantLock(p)
         \/ \E p \in Procs : Lock(p)
         \/ \E p \in Procs : CallGet(p)
         \/ CallRemove
         \/ \E p \in Procs : CallReturns(p)
         \/ \E g \in Gvks : CRDChanges(g)
         \/ UNCHANGED cacheVars
  BY DEF CacheNext, CacheStep

\* Every step keeps the types.
LEMMA CacheTypeStep ==
  ASSUME CacheTypeOK, [CacheNext]_cacheVars
  PROVE  CacheTypeOK'
  <1> USE ProcsFacts DEF CacheTypeOK, InformersTypeOK, infVars, lockVars, Held, Unlocked
  <1>1. ASSUME NEW p \in Readers, NEW g \in Gvks, GetRLock(p, g) PROVE CacheTypeOK'
    BY <1>1 DEF GetRLock, RLock
  <1>2. ASSUME NEW g \in Gvks, RemoveRLock(g) PROVE CacheTypeOK'
    BY <1>2 DEF RemoveRLock, RLock
  <1>3. ASSUME NEW p \in Procs, WantLock(p) PROVE CacheTypeOK'
    BY <1>3 DEF WantLock
  <1>4. ASSUME NEW p \in Procs, Lock(p) PROVE CacheTypeOK'
    BY <1>4 DEF Lock, Written
  <1>5. ASSUME NEW p \in Procs, CallGet(p) PROVE CacheTypeOK'
    BY <1>5 DEF CallGet, StartInformer, Called
  <1>6. CASE CallRemove
    BY <1>6 DEF CallRemove, Called
  <1>7. ASSUME NEW p \in Procs, CallReturns(p) PROVE CacheTypeOK'
    BY <1>7 DEF CallReturns
  <1>8. ASSUME NEW g \in Gvks, CRDChanges(g) PROVE CacheTypeOK'
    BY <1>8 DEF CRDChanges, CreateCRD, DeleteCRD
  <1>9. CASE UNCHANGED cacheVars
    BY <1>9 DEF cacheVars
  <1> QED
    BY <1>1, <1>2, <1>3, <1>4, <1>5, <1>6, <1>7, <1>8, <1>9, CacheCases

\* At most one goroutine is about to call the wrapped cache under the write lock,
\* and then nobody holds the read lock.
LEMMA OneWriter ==
  ASSUME CacheInv, NEW p \in Procs, at[p] = "wcall"
  PROVE  /\ \A q \in Procs : at[q] = "wcall" => q = p
         /\ \A q \in Procs : at[q] \notin {"rcall", "rwait"}
         /\ AbstractActive = before
  BY DEF CacheInv, AbstractActive

\* Without one, the abstract map is the map.
LEMMA NoWriter ==
  ASSUME \A q \in Procs : at[q] # "wcall"
  PROVE  AbstractActive = active
  BY DEF AbstractActive

\* Every step keeps the invariant.
LEMMA CacheInvStep ==
  ASSUME CacheInv, [CacheNext]_cacheVars
  PROVE  CacheInv'
  <1>a. CacheTypeOK'
    BY CacheTypeStep DEF CacheInv
  <1>b. /\ at \in [Procs -> {"idle", "lock", "drain", "rcall", "wcall", "rwait", "wwait"}]
        /\ arg \in [Procs -> Gvks \cup {Nobody}]
        /\ readers \in SUBSET Procs /\ writer \in Procs \cup {Nobody}
        /\ live \in SUBSET Gvks /\ active \in SUBSET Gvks
        /\ \A p \in Procs : at[p] # "idle" => arg[p] \in Gvks
    BY DEF CacheInv, CacheTypeOK, InformersTypeOK
  <1> USE ProcsFacts, <1>a, <1>b DEF infVars, lockVars, Held, Unlocked
  <1>1. ASSUME NEW p \in Readers, NEW g \in Gvks, GetRLock(p, g) PROVE CacheInv'
    BY <1>1 DEF CacheInv, GetRLock, RLock, AbstractActive
  <1>2. ASSUME NEW g \in Gvks, RemoveRLock(g) PROVE CacheInv'
    BY <1>2 DEF CacheInv, RemoveRLock, RLock, AbstractActive
  <1>3. ASSUME NEW p \in Procs, WantLock(p) PROVE CacheInv'
    BY <1>3 DEF CacheInv, WantLock, AbstractActive
  <1>4. ASSUME NEW p \in Procs, Lock(p) PROVE CacheInv'
    BY <1>4 DEF CacheInv, Lock, Written, AbstractActive
  <1>5. ASSUME NEW p \in Procs, CallGet(p) PROVE CacheInv'
    BY <1>5 DEF CacheInv, CallGet, StartInformer, Called, AbstractActive
  <1>6. CASE CallRemove
    BY <1>6 DEF CacheInv, CallRemove, Called, AbstractActive
  <1>7. ASSUME NEW p \in Procs, CallReturns(p) PROVE CacheInv'
    BY <1>7 DEF CacheInv, CallReturns, AbstractActive
  <1>8. ASSUME NEW g \in Gvks, CRDChanges(g) PROVE CacheInv'
    BY <1>8 DEF CacheInv, CRDChanges, CreateCRD, DeleteCRD, AbstractActive
  <1>9. CASE UNCHANGED cacheVars
    BY <1>9 DEF CacheInv, cacheVars, AbstractActive
  <1> QED
    BY <1>1, <1>2, <1>3, <1>4, <1>5, <1>6, <1>7, <1>8, <1>9, CacheCases

\* The invariant holds in every reachable state.
THEOREM CacheInvariance == CacheSpec => []CacheInv
  <1>1. CacheInv /\ [CacheNext]_cacheVars => CacheInv'
    BY CacheInvStep
  <1> QED
    BY <1>1, InitCacheInv, PTL DEF CacheSpec

\* Whoever holds the read lock sees every running informer in the active map.
THEOREM ActiveInformersCompleteAlways == CacheSpec => []ActiveInformersComplete
  <1>1. CacheInv => ActiveInformersComplete
    BY ProcsFacts DEF CacheInv, ActiveInformersComplete, AbstractActive
  <1> QED
    BY <1>1, CacheInvariance, PTL

\* Each step is one step of Informers under the mapping, or none.
LEMMA CacheStepRefines ==
  ASSUME CacheInv, [CacheNext]_cacheVars
  PROVE  [Abstract!InformersNext]_(Abstract!infVars)
  <1>b. /\ at \in [Procs -> {"idle", "lock", "drain", "rcall", "wcall", "rwait", "wwait"}]
        /\ arg \in [Procs -> Gvks \cup {Nobody}]
        /\ live \in SUBSET Gvks /\ active \in SUBSET Gvks
        /\ \A p \in Procs : at[p] # "idle" => arg[p] \in Gvks
    BY DEF CacheInv, CacheTypeOK, InformersTypeOK
  <1> USE ProcsFacts, <1>b DEF infVars, lockVars, Held, Unlocked
  <1> DEFINE Stutter == UNCHANGED <<AbstractActive, live, gen, crds, deleted>>
  <1>1. ASSUME NEW p \in Readers, NEW g \in Gvks, GetRLock(p, g) PROVE Stutter
    BY <1>1 DEF CacheInv, GetRLock, RLock, AbstractActive
  <1>2. ASSUME NEW g \in Gvks, RemoveRLock(g) PROVE Stutter
    BY <1>2 DEF CacheInv, RemoveRLock, RLock, AbstractActive
  <1>3. ASSUME NEW p \in Procs, WantLock(p) PROVE Stutter
    BY <1>3 DEF CacheInv, WantLock, AbstractActive
  <1>4. ASSUME NEW p \in Procs, Lock(p) PROVE Stutter
    BY <1>4 DEF CacheInv, Lock, AbstractActive
  <1>5. ASSUME NEW p \in Procs, CallGet(p) PROVE Abstract!GetInformer(arg[p])
    <2>1. AbstractActive' = AbstractActive \cup {arg[p]}
      BY <1>5 DEF CacheInv, CallGet, Called, AbstractActive
    <2> QED
      BY <1>5, <2>1 DEF CallGet, StartInformer, Abstract!GetInformer, Abstract!StartInformer
  <1>6. ASSUME CallRemove PROVE Abstract!RemoveInformer(arg[Collector])
    <2>1. AbstractActive' = AbstractActive \ {arg[Collector]}
      BY <1>6 DEF CacheInv, CallRemove, Called, AbstractActive
    <2> QED
      BY <1>6, <2>1 DEF CacheInv, CallRemove, Abstract!RemoveInformer
  <1>7. ASSUME NEW p \in Procs, CallReturns(p) PROVE Stutter
    BY <1>7 DEF CacheInv, CallReturns, AbstractActive
  <1>8. ASSUME NEW g \in Gvks, CRDChanges(g)
        PROVE  Abstract!CreateCRD(g) \/ Abstract!DeleteCRD(g)
    BY <1>8 DEF CRDChanges, CreateCRD, DeleteCRD, Abstract!CreateCRD, Abstract!DeleteCRD,
       AbstractActive
  <1>9. ASSUME UNCHANGED cacheVars PROVE Stutter
    BY <1>9 DEF cacheVars, AbstractActive
  <1>10. CASE Stutter
    BY <1>10 DEF Abstract!infVars
  <1>11. ASSUME NEW p \in Procs, CallGet(p) PROVE Abstract!InformersNext
    BY <1>5, <1>11 DEF Abstract!InformersNext, CallGet
  <1>12. ASSUME CallRemove PROVE Abstract!InformersNext
    BY <1>6, <1>12 DEF Abstract!InformersNext, CallRemove
  <1>13. ASSUME NEW g \in Gvks, CRDChanges(g) PROVE Abstract!InformersNext
    BY <1>8, <1>13 DEF Abstract!InformersNext
  <1> HIDE DEF Stutter
  <1> QED
    BY <1>1, <1>2, <1>3, <1>4, <1>7, <1>9, <1>10, <1>11, <1>12, <1>13, CacheCases

\* The cache, with its calls split at their locks, implements Informers: its calls
\* take effect one at a time, when they call the wrapped cache.
THEOREM CacheRefinement == CacheSpec => ImplementsInformers
  <1>1. CacheInit => Abstract!InformersInit
    BY DEF CacheInit, InformersInit, Abstract!InformersInit, AbstractActive
  <1>2. CacheInv /\ [CacheNext]_cacheVars => [Abstract!InformersNext]_(Abstract!infVars)
    BY CacheStepRefines
  <1> QED
    BY <1>1, <1>2, CacheInvariance, PTL DEF CacheSpec, ImplementsInformers, Abstract!InformersSpec

=============================================================================
