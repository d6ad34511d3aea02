------------------------- MODULE BuildDispatchProofs -------------------------
(***************************************************************************)
(* Theorems of BuildDispatch for every number of builds, handlers and      *)
(* build nodes, and every combination of faults.                           *)
(***************************************************************************)
EXTENDS BuildDispatch, FiniteSetTheorems, TLAPS

Typed == TypeOK /\ Labelled

(***************************************************************************)
(* Every variable keeps its type, and a process has a build and a node     *)
(* whenever the command it is about to run names them.                     *)
(***************************************************************************)
THEOREM Typing == Spec => []Typed
<1> USE BuildDispatchAssumption
<1>1. Init => Typed
  BY DEF Init, Typed, TypeOK, StoreTypeOK, LocalTypeOK, HistoryTypeOK, Labelled, Own,
         Labels, Procs, NeedsBuild, NeedsNode
<1>2. Typed /\ [Next]_vars => Typed'
  <2> SUFFICES ASSUME Typed, [Next]_vars
               PROVE  Typed'
    OBVIOUS
  <2> USE DEF Typed, TypeOK
  <2>1. ASSUME NEW b \in Builds, FindBuildNode(b)
        PROVE  Typed'
    <3>2. StoreTypeOK' /\ HistoryTypeOK'
      BY <2>1 DEF FindBuildNode, StoreTypeOK, HistoryTypeOK, LocalTypeOK,
         kvVars, envVars, histVars
    <3>3. LocalTypeOK' /\ Labelled'
      BY <2>1 DEF FindBuildNode, StoreTypeOK, LocalTypeOK, Labelled, Labels,
         NeedsBuild, NeedsNode, At, Become, Goto, ReadCount, ReadList, Return, Throw,
         Own, Procs
    <3>4. QED
      BY <3>2, <3>3
  <2>2. ASSUME NEW p \in Procs, ReadSlots(p)
        PROVE  Typed'
    <3>1. node[p] \in BuildNodes
      BY <2>2 DEF ReadSlots, At, Labelled, NeedsBuild, NeedsNode, Procs
    <3>2. StoreTypeOK' /\ HistoryTypeOK'
      BY <2>2, <3>1 DEF ReadSlots, StoreTypeOK, HistoryTypeOK, LocalTypeOK,
         kvVars, envVars, histVars
    <3>3. LocalTypeOK' /\ Labelled'
      BY <2>2, <3>1 DEF ReadSlots, StoreTypeOK, LocalTypeOK, Labelled, Labels,
         NeedsBuild, NeedsNode, At, Become, Goto, ReadCount, ReadList, Return, Throw,
         Own, Procs
    <3>4. QED
      BY <3>2, <3>3
  <2>3. ASSUME NEW p \in Procs, Dispatch(p)
        PROVE  Typed'
    <3>1. task[p] \in Builds /\ node[p] \in BuildNodes
      BY <2>3 DEF Dispatch, At, Labelled, NeedsBuild, NeedsNode, Procs
    <3>2. StoreTypeOK' /\ HistoryTypeOK'
      BY <2>3, <3>1 DEF Dispatch, Refuse, StoreTypeOK, HistoryTypeOK, LocalTypeOK,
         kvVars, envVars, histVars
    <3>3. LocalTypeOK' /\ Labelled'
      BY SMTT(30), <2>3, <3>1 DEF Dispatch, Refuse, StoreTypeOK, LocalTypeOK, Labelled, Labels,
         NeedsBuild, NeedsNode, At, Become, Goto, ReadCount, ReadList, Return, Throw,
         Own, Procs
    <3>4. QED
      BY <3>2, <3>3
  <2>4. ASSUME NEW p \in Procs, IncrementGet(p)
        PROVE  Typed'
    <3>1. node[p] \in BuildNodes
      BY <2>4 DEF IncrementGet, At, Labelled, NeedsBuild, NeedsNode, Procs
    <3>2. StoreTypeOK' /\ HistoryTypeOK'
      BY <2>4, <3>1 DEF IncrementGet, StoreTypeOK, HistoryTypeOK, LocalTypeOK,
         kvVars, envVars, histVars
    <3>3. LocalTypeOK' /\ Labelled'
      BY <2>4, <3>1 DEF IncrementGet, StoreTypeOK, LocalTypeOK, Labelled, Labels,
         NeedsBuild, NeedsNode, At, Become, Goto, ReadCount, ReadList, Return, Throw,
         Own, Procs
    <3>4. QED
      BY <3>2, <3>3
  <2>5. ASSUME NEW p \in Procs, IncrementPut(p)
        PROVE  Typed'
    <3>1. node[p] \in BuildNodes
      BY <2>5 DEF IncrementPut, At, Labelled, NeedsBuild, NeedsNode, Procs
    <3>2. StoreTypeOK' /\ HistoryTypeOK'
      BY <2>5, <3>1 DEF IncrementPut, StoreTypeOK, HistoryTypeOK, LocalTypeOK,
         kvVars, envVars, histVars
    <3>3. LocalTypeOK' /\ Labelled'
      BY <2>5, <3>1 DEF IncrementPut, StoreTypeOK, LocalTypeOK, Labelled, Labels,
         NeedsBuild, NeedsNode, At, Become, Goto, ReadCount, ReadList, Return, Throw,
         Own, Procs
    <3>4. QED
      BY <3>2, <3>3
  <2>6. ASSUME NEW p \in Procs, TrackGet(p)
        PROVE  Typed'
    <3>1. node[p] \in BuildNodes
      BY <2>6 DEF TrackGet, At, Labelled, NeedsBuild, NeedsNode, Procs
    <3>2. StoreTypeOK' /\ HistoryTypeOK'
      BY <2>6, <3>1 DEF TrackGet, StoreTypeOK, HistoryTypeOK, LocalTypeOK,
         kvVars, envVars, histVars
    <3>3. LocalTypeOK' /\ Labelled'
      BY <2>6, <3>1 DEF TrackGet, StoreTypeOK, LocalTypeOK, Labelled, Labels,
         NeedsBuild, NeedsNode, At, Become, Goto, ReadCount, ReadList, Return, Throw,
         Own, Procs
    <3>4. QED
      BY <3>2, <3>3
  <2>7. ASSUME NEW p \in Procs, TrackPut(p)
        PROVE  Typed'
    <3>1. task[p] \in Builds /\ node[p] \in BuildNodes
      BY <2>7 DEF TrackPut, At, Labelled, NeedsBuild, NeedsNode, Procs
    <3>2. StoreTypeOK' /\ HistoryTypeOK'
      BY <2>7, <3>1 DEF TrackPut, StoreTypeOK, HistoryTypeOK, LocalTypeOK,
         kvVars, envVars, histVars
    <3>3. LocalTypeOK' /\ Labelled'
      BY <2>7, <3>1 DEF TrackPut, StoreTypeOK, LocalTypeOK, Labelled, Labels,
         NeedsBuild, NeedsNode, At, Become, Goto, ReadCount, ReadList, Return, Throw,
         Own, Procs
    <3>4. QED
      BY <3>2, <3>3
  <2>8. ASSUME NEW p \in Procs, DequeueItem(p)
        PROVE  Typed'
    <3>1. task[p] \in Builds /\ node[p] \in BuildNodes
      BY <2>8 DEF DequeueItem, At, Labelled, NeedsBuild, NeedsNode, Procs
    <3>2. StoreTypeOK' /\ HistoryTypeOK'
      BY <2>8, <3>1 DEF DequeueItem, Without, StoreTypeOK, HistoryTypeOK, LocalTypeOK,
         kvVars, envVars, histVars
    <3>3. LocalTypeOK' /\ Labelled'
      BY <2>8, <3>1 DEF DequeueItem, Without, StoreTypeOK, LocalTypeOK, Labelled, Labels,
         NeedsBuild, NeedsNode, At, Become, Goto, ReadCount, ReadList, Return, Throw,
         Own, Procs
    <3>4. QED
      BY <3>2, <3>3
  <2>9. ASSUME NEW p \in Procs, DequeueGet(p)
        PROVE  Typed'
    <3>2. StoreTypeOK' /\ HistoryTypeOK'
      BY <2>9 DEF DequeueGet, StoreTypeOK, HistoryTypeOK, LocalTypeOK,
         kvVars, envVars, histVars
    <3>3. LocalTypeOK' /\ Labelled'
      BY <2>9 DEF DequeueGet, StoreTypeOK, LocalTypeOK, Labelled, Labels,
         NeedsBuild, NeedsNode, At, Become, Goto, ReadCount, ReadList, Return, Throw,
         Own, Procs
    <3>4. QED
      BY <3>2, <3>3
  <2>10. ASSUME NEW p \in Procs, DequeuePut(p)
        PROVE  Typed'
    <3>1. task[p] \in Builds /\ node[p] \in BuildNodes
      BY <2>10 DEF DequeuePut, At, Labelled, NeedsBuild, NeedsNode, Procs
    <3>2. StoreTypeOK' /\ HistoryTypeOK'
      BY <2>10, <3>1 DEF DequeuePut, StoreTypeOK, HistoryTypeOK, LocalTypeOK,
         kvVars, envVars, histVars
    <3>3. LocalTypeOK' /\ Labelled'
      BY <2>10, <3>1 DEF DequeuePut, StoreTypeOK, LocalTypeOK, Labelled, Labels,
         NeedsBuild, NeedsNode, At, Become, Goto, ReadCount, ReadList, Return, Throw,
         Own, Procs
    <3>4. QED
      BY <3>2, <3>3
  <2>11. ASSUME NEW p \in Procs, SaveCallback(p)
        PROVE  Typed'
    <3>1. task[p] \in Builds /\ node[p] \in BuildNodes
      BY <2>11 DEF SaveCallback, At, Labelled, NeedsBuild, NeedsNode, Procs
    <3>2. StoreTypeOK' /\ HistoryTypeOK'
      BY <2>11, <3>1 DEF SaveCallback, StoreTypeOK, HistoryTypeOK, LocalTypeOK,
         kvVars, envVars, histVars
    <3>3. LocalTypeOK' /\ Labelled'
      BY <2>11, <3>1 DEF SaveCallback, StoreTypeOK, LocalTypeOK, Labelled, Labels,
         NeedsBuild, NeedsNode, At, Become, Goto, ReadCount, ReadList, Return, Throw,
         Own, Procs
    <3>4. QED
      BY <3>2, <3>3
  <2>12. ASSUME NEW p \in Procs, EnqueueItem(p)
        PROVE  Typed'
    <3>1. task[p] \in Builds
      BY <2>12 DEF EnqueueItem, At, Labelled, NeedsBuild, NeedsNode, Procs
    <3>2. StoreTypeOK' /\ HistoryTypeOK'
      BY <2>12, <3>1 DEF EnqueueItem, Without, StoreTypeOK, HistoryTypeOK, LocalTypeOK,
         kvVars, envVars, histVars
    <3>3. LocalTypeOK' /\ Labelled'
      BY <2>12, <3>1 DEF EnqueueItem, Without, StoreTypeOK, LocalTypeOK, Labelled, Labels,
         NeedsBuild, NeedsNode, At, Become, Goto, ReadCount, ReadList, Return, Throw,
         Own, Procs
    <3>4. QED
      BY <3>2, <3>3
  <2>13. ASSUME NEW p \in Procs, EnqueueGet(p)
        PROVE  Typed'
    <3>2. StoreTypeOK' /\ HistoryTypeOK'
      BY <2>13 DEF EnqueueGet, StoreTypeOK, HistoryTypeOK, LocalTypeOK,
         kvVars, envVars, histVars
    <3>3. LocalTypeOK' /\ Labelled'
      BY <2>13 DEF EnqueueGet, StoreTypeOK, LocalTypeOK, Labelled, Labels,
         NeedsBuild, NeedsNode, At, Become, Goto, ReadCount, ReadList, Return, Throw,
         Own, Procs
    <3>4. QED
      BY <3>2, <3>3
  <2>14. ASSUME NEW p \in Procs, EnqueuePut(p)
        PROVE  Typed'
    <3>1. task[p] \in Builds
      BY <2>14 DEF EnqueuePut, At, Labelled, NeedsBuild, NeedsNode, Procs
    <3>2. StoreTypeOK' /\ HistoryTypeOK'
      BY <2>14, <3>1 DEF EnqueuePut, StoreTypeOK, HistoryTypeOK, LocalTypeOK,
         kvVars, envVars, histVars
    <3>3. LocalTypeOK' /\ Labelled'
      BY <2>14, <3>1 DEF EnqueuePut, StoreTypeOK, LocalTypeOK, Labelled, Labels,
         NeedsBuild, NeedsNode, At, Become, Goto, ReadCount, ReadList, Return, Throw,
         Own, Procs
    <3>4. QED
      BY <3>2, <3>3
  <2>15. ASSUME NEW h \in Handlers, ConsumeGet(h)
        PROVE  Typed'
    <3>1. task[h] \in Builds
      BY <2>15 DEF ConsumeGet, At, Labelled, NeedsBuild, NeedsNode, Procs
    <3>2. StoreTypeOK' /\ HistoryTypeOK'
      BY <2>15, <3>1 DEF ConsumeGet, StoreTypeOK, HistoryTypeOK, LocalTypeOK,
         kvVars, envVars, histVars
    <3>3. LocalTypeOK' /\ Labelled'
      BY <2>15, <3>1 DEF ConsumeGet, StoreTypeOK, LocalTypeOK, Labelled, Labels,
         NeedsBuild, NeedsNode, At, Become, Goto, ReadCount, ReadList, Return, Throw,
         Own, Procs
    <3>4. QED
      BY <3>2, <3>3
  <2>16. ASSUME NEW h \in Handlers, ConsumeDelete(h)
        PROVE  Typed'
    <3>1. task[h] \in Builds
      BY <2>16 DEF ConsumeDelete, At, Labelled, NeedsBuild, NeedsNode, Procs
    <3>2. StoreTypeOK' /\ HistoryTypeOK'
      BY <2>16, <3>1 DEF ConsumeDelete, StoreTypeOK, HistoryTypeOK, LocalTypeOK,
         kvVars, envVars, histVars
    <3>3. LocalTypeOK' /\ Labelled'
      BY SMTT(30), <2>16, <3>1 DEF ConsumeDelete, StoreTypeOK, LocalTypeOK, Labelled, Labels,
         NeedsBuild, NeedsNode, At, Become, Goto, ReadCount, ReadList, Return, Throw,
         Own, Procs
    <3>4. QED
      BY <3>2, <3>3
  <2>17. ASSUME NEW h \in Handlers, CompleteBuild(h)
        PROVE  Typed'
    <3>1. task[h] \in Builds /\ node[h] \in BuildNodes
      BY <2>17 DEF CompleteBuild, At, Labelled, NeedsBuild, NeedsNode, Procs
    <3>2. StoreTypeOK' /\ HistoryTypeOK'
      BY <2>17, <3>1 DEF CompleteBuild, StoreTypeOK, HistoryTypeOK, LocalTypeOK,
         kvVars, envVars, histVars
    <3>3. LocalTypeOK' /\ Labelled'
      BY <2>17, <3>1 DEF CompleteBuild, StoreTypeOK, LocalTypeOK, Labelled, Labels,
         NeedsBuild, NeedsNode, At, Become, Goto, ReadCount, ReadList, Return, Throw,
         Own, Procs
    <3>4. QED
      BY <3>2, <3>3
  <2>18. ASSUME NEW h \in Handlers, DecrementGet(h)
        PROVE  Typed'
    <3>1. node[h] \in BuildNodes
      BY <2>18 DEF DecrementGet, At, Labelled, NeedsBuild, NeedsNode, Procs
    <3>2. StoreTypeOK' /\ HistoryTypeOK'
      BY <2>18, <3>1 DEF DecrementGet, StoreTypeOK, HistoryTypeOK, LocalTypeOK,
         kvVars, envVars, histVars
    <3>3. LocalTypeOK' /\ Labelled'
      BY <2>18, <3>1 DEF DecrementGet, StoreTypeOK, LocalTypeOK, Labelled, Labels,
         NeedsBuild, NeedsNode, At, Become, Goto, ReadCount, ReadList, Return, Throw,
         Own, Procs
    <3>4. QED
      BY <3>2, <3>3
  <2>19. ASSUME NEW h \in Handlers, DecrementPut(h)
        PROVE  Typed'
    <3>1. h \in Procs /\ node[h] \in BuildNodes
      BY <2>19 DEF DecrementPut, Decremented, At, Labelled, NeedsBuild, NeedsNode, Procs
    <3>2. StoreTypeOK' /\ HistoryTypeOK'
      BY SMTT(30), <2>19, <3>1 DEF DecrementPut, Decremented, StoreTypeOK, HistoryTypeOK, LocalTypeOK,
         kvVars, envVars, histVars
    <3>3. LocalTypeOK' /\ Labelled'
      BY <2>19, <3>1 DEF DecrementPut, Decremented, StoreTypeOK, LocalTypeOK, Labelled, Labels,
         NeedsBuild, NeedsNode, At, Become, Goto, ReadCount, ReadList, Return, Throw,
         Own, Procs
    <3>4. QED
      BY <3>2, <3>3
  <2>20. ASSUME NEW h \in Handlers, UntrackGet(h)
        PROVE  Typed'
    <3>1. node[h] \in BuildNodes
      BY <2>20 DEF UntrackGet, At, Labelled, NeedsBuild, NeedsNode, Procs
    <3>2. StoreTypeOK' /\ HistoryTypeOK'
      BY <2>20, <3>1 DEF UntrackGet, StoreTypeOK, HistoryTypeOK, LocalTypeOK,
         kvVars, envVars, histVars
    <3>3. LocalTypeOK' /\ Labelled'
      BY <2>20, <3>1 DEF UntrackGet, StoreTypeOK, LocalTypeOK, Labelled, Labels,
         NeedsBuild, NeedsNode, At, Become, Goto, ReadCount, ReadList, Return, Throw,
         Own, Procs
    <3>4. QED
      BY <3>2, <3>3
  <2>21. ASSUME NEW h \in Handlers, UntrackPut(h)
        PROVE  Typed'
    <3>1. h \in Procs /\ task[h] \in Builds /\ node[h] \in BuildNodes
      BY <2>21 DEF UntrackPut, At, Labelled, NeedsBuild, NeedsNode, Procs
    <3>2. StoreTypeOK' /\ HistoryTypeOK'
      BY <2>21, <3>1 DEF UntrackPut, StoreTypeOK, HistoryTypeOK, LocalTypeOK,
         kvVars, envVars, histVars
    <3>3. LocalTypeOK' /\ Labelled'
      BY <2>21, <3>1 DEF UntrackPut, StoreTypeOK, LocalTypeOK, Labelled, Labels,
         NeedsBuild, NeedsNode, At, Become, Goto, ReadCount, ReadList, Return, Throw,
         Own, Procs
    <3>4. QED
      BY <3>2, <3>3
  <2>22. ASSUME NEW h \in Handlers, ListIndex(h)
        PROVE  Typed'
    <3>2. StoreTypeOK' /\ HistoryTypeOK'
      BY <2>22 DEF ListIndex, StoreTypeOK, HistoryTypeOK, LocalTypeOK,
         kvVars, envVars, histVars
    <3>3. LocalTypeOK' /\ Labelled'
      BY <2>22 DEF ListIndex, StoreTypeOK, LocalTypeOK, Labelled, Labels,
         NeedsBuild, NeedsNode, At, Become, Goto, ReadCount, ReadList, Return, Throw,
         Own, Procs
    <3>4. QED
      BY <3>2, <3>3
  <2>23. ASSUME NEW h \in Handlers, ListItems(h)
        PROVE  Typed'
    <3>2. StoreTypeOK' /\ HistoryTypeOK'
      BY <2>23 DEF ListItems, StoreTypeOK, HistoryTypeOK, LocalTypeOK,
         kvVars, envVars, histVars
    <3>3. LocalTypeOK' /\ Labelled'
      BY <2>23 DEF ListItems, StoreTypeOK, LocalTypeOK, Labelled, Labels,
         NeedsBuild, NeedsNode, At, Become, Goto, ReadCount, ReadList, Return, Throw,
         Own, Procs
    <3>4. QED
      BY <3>2, <3>3
  <2>24. ASSUME NEW h \in Handlers, NEW b \in Builds, ReceiveResponse(h, b)
        PROVE  Typed'
    <3>2. StoreTypeOK' /\ HistoryTypeOK'
      BY <2>24 DEF ReceiveResponse, Dispatching, Answered, StoreTypeOK, HistoryTypeOK,
         LocalTypeOK,
         kvVars, envVars, histVars
    <3>3. LocalTypeOK' /\ Labelled'
      BY <2>24 DEF ReceiveResponse, Dispatching, Answered, StoreTypeOK, LocalTypeOK, Labelled,
         Labels,
         NeedsBuild, NeedsNode, At, Become, Goto, ReadCount, ReadList, Return, Throw,
         Own, Procs
    <3>4. QED
      BY <3>2, <3>3
  <2>25. ASSUME NEW b \in Builds, DropResponse(b)
        PROVE  Typed'
    <3>2. StoreTypeOK' /\ HistoryTypeOK'
      BY <2>25 DEF DropResponse, Dispatching, Answered, StoreTypeOK, HistoryTypeOK, LocalTypeOK,
         kvVars, envVars, histVars
    <3>3. LocalTypeOK' /\ Labelled'
      BY <2>25 DEF DropResponse, Dispatching, Answered, LocalTypeOK, Labelled, locals
    <3>4. QED
      BY <3>2, <3>3
  <2>26. ASSUME ReconcileStart
        PROVE  Typed'
    <3>2. StoreTypeOK' /\ HistoryTypeOK'
      BY <2>26 DEF ReconcileStart, StoreTypeOK, HistoryTypeOK, LocalTypeOK,
         kvVars, envVars, histVars
    <3>3. LocalTypeOK' /\ Labelled'
      BY <2>26 DEF ReconcileStart, StoreTypeOK, LocalTypeOK, Labelled, Labels,
         NeedsBuild, NeedsNode, At, Become, Goto, ReadCount, ReadList, Return, Throw,
         Own, Procs
    <3>4. QED
      BY <3>2, <3>3
  <2>27. ASSUME ReconcileNode
        PROVE  Typed'
    <3>1. StoreTypeOK' /\ HistoryTypeOK'
      <4>1. \A n \in reconcile.nodes :
              [reconcile EXCEPT !.nodes = @ \ {n}, !.rest = inFlight[n]]
                \in [runs : Nat, nodes : SUBSET BuildNodes, rest : SUBSET Builds]
        BY DEF StoreTypeOK
      <4>2. reconcile' \in [runs : Nat, nodes : SUBSET BuildNodes, rest : SUBSET Builds]
        BY <2>27, <4>1 DEF ReconcileNode, StoreTypeOK
      <4>3. QED
        BY <2>27, <4>2 DEF ReconcileNode, StoreTypeOK, HistoryTypeOK, kvVars, envVars,
           histVars
    <3>2. LocalTypeOK' /\ Labelled'
      <4>1. CASE Return(Reconciler)
        BY <4>1, BuildDispatchAssumption DEF LocalTypeOK, Labelled, Labels, NeedsBuild,
           NeedsNode, Return, Become, Own, Procs
      <4>2. ASSUME NEW n \in reconcile.nodes,
                   NEW label \in {"nextNode", "nextEntry"},
                   Become(Reconciler, label, NoBuild, n, 0, {})
            PROVE  LocalTypeOK' /\ Labelled'
        <5>1. n \in BuildNodes
          BY DEF StoreTypeOK
        <5>2. QED
          BY <4>2, <5>1, BuildDispatchAssumption DEF LocalTypeOK, Labelled, Labels,
             NeedsBuild, NeedsNode, Become, Procs
      <4>3. QED
        BY <2>27, <4>1, <4>2 DEF ReconcileNode
    <3>3. QED
      BY <3>1, <3>2
  <2>28. ASSUME ReconcileEntry
        PROVE  Typed'
    <3>2. StoreTypeOK' /\ HistoryTypeOK'
      BY <2>28 DEF ReconcileEntry, StoreTypeOK, HistoryTypeOK, LocalTypeOK,
         kvVars, envVars, histVars
    <3>3. LocalTypeOK' /\ Labelled'
      BY <2>28 DEF ReconcileEntry, StoreTypeOK, LocalTypeOK, Labelled, Labels,
         NeedsBuild, NeedsNode, At, Become, Goto, ReadCount, ReadList, Return, Throw,
         Own, Procs
    <3>4. QED
      BY <3>2, <3>3
  <2>29. ASSUME ClearInFlight
        PROVE  Typed'
    <3>1. node[Reconciler] \in BuildNodes
      BY <2>29 DEF ClearInFlight, At, Labelled, NeedsBuild, NeedsNode, Procs
    <3>2. StoreTypeOK' /\ HistoryTypeOK'
      BY <2>29, <3>1 DEF ClearInFlight, StoreTypeOK, HistoryTypeOK, LocalTypeOK,
         kvVars, envVars, histVars
    <3>3. LocalTypeOK' /\ Labelled'
      BY <2>29, <3>1 DEF ClearInFlight, StoreTypeOK, LocalTypeOK, Labelled, Labels,
         NeedsBuild, NeedsNode, At, Become, Goto, ReadCount, ReadList, Return, Throw,
         Own, Procs
    <3>4. QED
      BY <3>2, <3>3
  <2>30. ASSUME ClearSlots
        PROVE  Typed'
    <3>1. node[Reconciler] \in BuildNodes
      BY <2>30 DEF ClearSlots, At, Labelled, NeedsBuild, NeedsNode, Procs
    <3>2. StoreTypeOK' /\ HistoryTypeOK'
      BY <2>30, <3>1 DEF ClearSlots, StoreTypeOK, HistoryTypeOK, LocalTypeOK,
         kvVars, envVars, histVars
    <3>3. LocalTypeOK' /\ Labelled'
      BY <2>30, <3>1 DEF ClearSlots, StoreTypeOK, LocalTypeOK, Labelled, Labels,
         NeedsBuild, NeedsNode, At, Become, Goto, ReadCount, ReadList, Return, Throw,
         Own, Procs
    <3>4. QED
      BY <3>2, <3>3
  <2>31. ASSUME ExpirePayload
        PROVE  Typed'
    <3>2. StoreTypeOK' /\ HistoryTypeOK'
      BY <2>31 DEF ExpirePayload, StoreTypeOK, HistoryTypeOK, LocalTypeOK,
         kvVars, envVars, histVars
    <3>3. LocalTypeOK' /\ Labelled'
      BY <2>31 DEF ExpirePayload, LocalTypeOK, Labelled, locals
    <3>4. QED
      BY <3>2, <3>3
  <2>32. ASSUME Restart
        PROVE  Typed'
    <3>1. reconcile' \in [runs : Nat, nodes : SUBSET BuildNodes, rest : SUBSET Builds]
      BY <2>32 DEF Restart, StoreTypeOK
    <3>2. connected' \in [BuildNodes -> BOOLEAN]
      BY <2>32 DEF Restart
    <3>3. restarts' \in Nat
      BY <2>32 DEF Restart, HistoryTypeOK
    <3>4. StoreTypeOK' /\ HistoryTypeOK'
      BY <2>32, <3>1, <3>2, <3>3 DEF Restart, StoreTypeOK, HistoryTypeOK, kvVars
    <3>5. LocalTypeOK' /\ Labelled'
      BY <2>32 DEF Restart, LocalTypeOK, Labelled, Labels, NeedsBuild, NeedsNode, Own, Procs
    <3>6. QED
      BY <3>4, <3>5
  <2>33. ASSUME NEW n \in BuildNodes, NodeDisconnect(n)
        PROVE  Typed'
    <3>2. StoreTypeOK' /\ HistoryTypeOK'
      BY <2>33 DEF NodeDisconnect, StoreTypeOK, HistoryTypeOK, LocalTypeOK,
         kvVars, envVars, histVars
    <3>3. LocalTypeOK' /\ Labelled'
      BY <2>33 DEF NodeDisconnect, LocalTypeOK, Labelled, locals
    <3>4. QED
      BY <3>2, <3>3
  <2>34. ASSUME NEW n \in BuildNodes, NodeConnect(n)
        PROVE  Typed'
    <3>2. StoreTypeOK' /\ HistoryTypeOK'
      BY <2>34 DEF NodeConnect, StoreTypeOK, HistoryTypeOK, LocalTypeOK,
         kvVars, envVars, histVars
    <3>3. LocalTypeOK' /\ Labelled'
      BY <2>34 DEF NodeConnect, LocalTypeOK, Labelled, locals
    <3>4. QED
      BY <3>2, <3>3
  <2>35. ASSUME NEW n \in BuildNodes, SetStatus(n)
        PROVE  Typed'
    <3>2. StoreTypeOK' /\ HistoryTypeOK'
      BY <2>35 DEF SetStatus, StoreTypeOK, HistoryTypeOK, LocalTypeOK,
         kvVars, envVars, histVars
    <3>3. LocalTypeOK' /\ Labelled'
      BY <2>35 DEF SetStatus, LocalTypeOK, Labelled, locals
    <3>4. QED
      BY <3>2, <3>3
  <2>36. ASSUME NEW n \in BuildNodes, ExpireAccounting(n)
        PROVE  Typed'
    <3>1. slots' \in [BuildNodes -> Nat]
      BY <2>36 DEF ExpireAccounting, StoreTypeOK
    <3>2. inFlight' \in [BuildNodes -> SUBSET Builds]
      BY <2>36 DEF ExpireAccounting, StoreTypeOK
    <3>3. StoreTypeOK' /\ HistoryTypeOK'
      BY <2>36, <3>1, <3>2 DEF ExpireAccounting, StoreTypeOK, HistoryTypeOK, envVars, histVars
    <3>4. LocalTypeOK' /\ Labelled'
      BY <2>36 DEF ExpireAccounting, LocalTypeOK, Labelled, locals
    <3>5. QED
      BY <3>3, <3>4
  <2>37. ASSUME NEW p \in Procs, StoreFails(p)
        PROVE  Typed'
    <3>2. StoreTypeOK' /\ HistoryTypeOK'
      BY <2>37 DEF StoreFails, StoreTypeOK, HistoryTypeOK, LocalTypeOK,
         kvVars, envVars, histVars
    <3>3. LocalTypeOK' /\ Labelled'
      BY <2>37 DEF StoreFails, StoreTypeOK, LocalTypeOK, Labelled, Labels,
         NeedsBuild, NeedsNode, At, Become, Goto, ReadCount, ReadList, Return, Throw,
         Own, Procs
    <3>4. QED
      BY <3>2, <3>3
  <2>38. CASE UNCHANGED vars
    BY <2>38 DEF vars, StoreTypeOK, LocalTypeOK, HistoryTypeOK, Labelled, kvVars, envVars,
       histVars, locals
  <2>39. QED
    BY <2>1, <2>2, <2>3, <2>4, <2>5, <2>6, <2>7, <2>8, <2>9, <2>10,
       <2>11, <2>12, <2>13, <2>14, <2>15, <2>16, <2>17, <2>18, <2>19,
       <2>20, <2>21, <2>22, <2>23, <2>24, <2>25, <2>26, <2>27, <2>28,
       <2>29, <2>30, <2>31, <2>32, <2>33, <2>34, <2>35, <2>36, <2>37,
       <2>38
    DEF Next, RequestStep, DispatchStep, EnqueueStep, HandlerStep, ReconcileStep,
        Environment, Procs
<1>3. QED
  BY <1>1, <1>2, PTL DEF Spec

(***************************************************************************)
(* No two calls of handleTaskResponse are ever between the get and the     *)
(* delete of consumeBuildCallback for the same build, and the build of one *)
(* that is there is in pendingBuildDispatches: across store failures,      *)
(* expiry and restarts.  The property is inductive given the types.        *)
(***************************************************************************)
THEOREM ConsumeExclusive == Spec => []ConsumeIsExclusive
<1> USE BuildDispatchAssumption
<1>1. Init => ConsumeIsExclusive
  BY DEF Init, ConsumeIsExclusive, Consuming, Own, Procs
<1>2. Typed /\ ConsumeIsExclusive /\ [Next]_vars => ConsumeIsExclusive'
  <2> SUFFICES ASSUME Typed, ConsumeIsExclusive, [Next]_vars
               PROVE  ConsumeIsExclusive'
    OBVIOUS
  <2> USE DEF Typed, TypeOK, LocalTypeOK, ConsumeIsExclusive, Consuming, At, Become,
              Goto, ReadCount, ReadList, Return, Throw, Own, Procs, kvVars, envVars,
              histVars, locals
  <2>1. ASSUME NEW b \in Builds, FindBuildNode(b)
        PROVE  ConsumeIsExclusive'
    BY <2>1 DEF FindBuildNode
  <2>2. ASSUME NEW p \in Procs, ReadSlots(p)
        PROVE  ConsumeIsExclusive'
    BY <2>2 DEF ReadSlots
  <2>3. ASSUME NEW p \in Procs, Dispatch(p)
        PROVE  ConsumeIsExclusive'
    BY <2>3 DEF Dispatch, Refuse
  <2>4. ASSUME NEW p \in Procs, IncrementGet(p)
        PROVE  ConsumeIsExclusive'
    BY <2>4 DEF IncrementGet
  <2>5. ASSUME NEW p \in Procs, IncrementPut(p)
        PROVE  ConsumeIsExclusive'
    BY <2>5 DEF IncrementPut
  <2>6. ASSUME NEW p \in Procs, TrackGet(p)
        PROVE  ConsumeIsExclusive'
    BY <2>6 DEF TrackGet
  <2>7. ASSUME NEW p \in Procs, TrackPut(p)
        PROVE  ConsumeIsExclusive'
    BY <2>7 DEF TrackPut
  <2>8. ASSUME NEW p \in Procs, DequeueItem(p)
        PROVE  ConsumeIsExclusive'
    BY <2>8 DEF DequeueItem, Without
  <2>9. ASSUME NEW p \in Procs, DequeueGet(p)
        PROVE  ConsumeIsExclusive'
    BY <2>9 DEF DequeueGet
  <2>10. ASSUME NEW p \in Procs, DequeuePut(p)
        PROVE  ConsumeIsExclusive'
    BY <2>10 DEF DequeuePut
  <2>11. ASSUME NEW p \in Procs, SaveCallback(p)
        PROVE  ConsumeIsExclusive'
    BY <2>11 DEF SaveCallback
  <2>12. ASSUME NEW p \in Procs, EnqueueItem(p)
        PROVE  ConsumeIsExclusive'
    BY <2>12 DEF EnqueueItem, Without
  <2>13. ASSUME NEW p \in Procs, EnqueueGet(p)
        PROVE  ConsumeIsExclusive'
    BY <2>13 DEF EnqueueGet
  <2>14. ASSUME NEW p \in Procs, EnqueuePut(p)
        PROVE  ConsumeIsExclusive'
    BY <2>14 DEF EnqueuePut
  <2>15. ASSUME NEW h \in Handlers, ConsumeGet(h)
        PROVE  ConsumeIsExclusive'
    BY <2>15 DEF ConsumeGet
  <2>16. ASSUME NEW h \in Handlers, ConsumeDelete(h)
        PROVE  ConsumeIsExclusive'
    BY <2>16 DEF ConsumeDelete
  <2>17. ASSUME NEW h \in Handlers, CompleteBuild(h)
        PROVE  ConsumeIsExclusive'
    BY <2>17 DEF CompleteBuild
  <2>18. ASSUME NEW h \in Handlers, DecrementGet(h)
        PROVE  ConsumeIsExclusive'
    BY <2>18 DEF DecrementGet
  <2>19. ASSUME NEW h \in Handlers, DecrementPut(h)
        PROVE  ConsumeIsExclusive'
    BY <2>19 DEF DecrementPut, Decremented
  <2>20. ASSUME NEW h \in Handlers, UntrackGet(h)
        PROVE  ConsumeIsExclusive'
    BY <2>20 DEF UntrackGet
  <2>21. ASSUME NEW h \in Handlers, UntrackPut(h)
        PROVE  ConsumeIsExclusive'
    BY <2>21 DEF UntrackPut
  <2>22. ASSUME NEW h \in Handlers, ListIndex(h)
        PROVE  ConsumeIsExclusive'
    BY <2>22 DEF ListIndex
  <2>23. ASSUME NEW h \in Handlers, ListItems(h)
        PROVE  ConsumeIsExclusive'
    BY <2>23 DEF ListItems
  <2>24. ASSUME NEW h \in Handlers, NEW b \in Builds, ReceiveResponse(h, b)
        PROVE  ConsumeIsExclusive'
    BY <2>24 DEF ReceiveResponse, Dispatching, Answered
  <2>25. ASSUME NEW b \in Builds, DropResponse(b)
        PROVE  ConsumeIsExclusive'
    BY <2>25 DEF DropResponse, Dispatching, Answered
  <2>26. ASSUME ReconcileStart
        PROVE  ConsumeIsExclusive'
    BY <2>26 DEF ReconcileStart
  <2>27. ASSUME ReconcileNode
        PROVE  ConsumeIsExclusive'
    BY <2>27 DEF ReconcileNode
  <2>28. ASSUME ReconcileEntry
        PROVE  ConsumeIsExclusive'
    BY <2>28 DEF ReconcileEntry
  <2>29. ASSUME ClearInFlight
        PROVE  ConsumeIsExclusive'
    BY <2>29 DEF ClearInFlight
  <2>30. ASSUME ClearSlots
        PROVE  ConsumeIsExclusive'
    BY <2>30 DEF ClearSlots
  <2>31. ASSUME ExpirePayload
        PROVE  ConsumeIsExclusive'
    BY <2>31 DEF ExpirePayload
  <2>32. ASSUME Restart
        PROVE  ConsumeIsExclusive'
    BY <2>32 DEF Restart
  <2>33. ASSUME NEW n \in BuildNodes, NodeDisconnect(n)
        PROVE  ConsumeIsExclusive'
    BY <2>33 DEF NodeDisconnect
  <2>34. ASSUME NEW n \in BuildNodes, NodeConnect(n)
        PROVE  ConsumeIsExclusive'
    BY <2>34 DEF NodeConnect
  <2>35. ASSUME NEW n \in BuildNodes, SetStatus(n)
        PROVE  ConsumeIsExclusive'
    BY <2>35 DEF SetStatus
  <2>36. ASSUME NEW n \in BuildNodes, ExpireAccounting(n)
        PROVE  ConsumeIsExclusive'
    BY <2>36 DEF ExpireAccounting
  <2>37. ASSUME NEW p \in Procs, StoreFails(p)
        PROVE  ConsumeIsExclusive'
    BY <2>37 DEF StoreFails
  <2>38. CASE UNCHANGED vars
    BY <2>38 DEF vars
  <2>39. QED
    BY <2>1, <2>2, <2>3, <2>4, <2>5, <2>6, <2>7, <2>8, <2>9, <2>10,
       <2>11, <2>12, <2>13, <2>14, <2>15, <2>16, <2>17, <2>18, <2>19,
       <2>20, <2>21, <2>22, <2>23, <2>24, <2>25, <2>26, <2>27, <2>28,
       <2>29, <2>30, <2>31, <2>32, <2>33, <2>34, <2>35, <2>36, <2>37,
       <2>38
    DEF Next, RequestStep, DispatchStep, EnqueueStep, HandlerStep, ReconcileStep,
        Environment
<1>3. QED
  BY <1>1, <1>2, Typing, PTL DEF Spec

Accounted == AccountedWasSent /\ WrittenBackWasSent

\* A dispatch accounts for nothing yet, and what it sends stays sent.
LEMMA DispatchAccounted ==
  ASSUME Typed, Accounted, NEW p \in Procs, Dispatch(p)
  PROVE  Accounted'
<1>1. pc[p] = "dispatch" /\ UNCHANGED <<inFlight, callback>>
  BY DEF Dispatch, At, kvVars
<1>2. task[p] \in Builds /\ node[p] \in BuildNodes
  BY <1>1 DEF Typed, Labelled, NeedsBuild, NeedsNode
<1>3. /\ sent \in [BuildNodes -> SUBSET Builds]
      /\ pc \in [Procs -> Labels] /\ list \in [Procs -> SUBSET Builds]
      /\ DOMAIN task = Procs /\ DOMAIN node = Procs
      /\ inFlight \in [BuildNodes -> SUBSET Builds]
      /\ callback \in [Builds -> BuildNodes \cup {NoNode}]
  BY DEF Typed, TypeOK, StoreTypeOK, LocalTypeOK, HistoryTypeOK
<1>4. \/ Refuse(p) /\ UNCHANGED sent
      \/ /\ sent' = [sent EXCEPT ![node[p]] = @ \cup {task[p]}]
         /\ Goto(p, "incGet")
  BY DEF Dispatch
<1>5. /\ pc'[p] = "incGet" => task'[p] \in sent'[node'[p]]
      /\ pc'[p] \in {"done", "failed", "idle", "enqueueItem", "incGet"}
      /\ \A q \in Procs \ {p} : /\ pc'[q] = pc[q] /\ task'[q] = task[q]
                               /\ node'[q] = node[q] /\ list'[q] = list[q]
  <2>1. CASE Refuse(p)
    BY <2>1, <1>3 DEF Refuse, Goto, Return, Become
  <2>2. CASE /\ sent' = [sent EXCEPT ![node[p]] = @ \cup {task[p]}]
             /\ Goto(p, "incGet")
    BY <2>2, <1>2, <1>3 DEF Goto, Become
  <2>3. QED
    BY <2>1, <2>2, <1>4
<1>6. \A n \in BuildNodes : sent[n] \subseteq sent'[n]
  BY <1>2, <1>3, <1>4
<1>7. (\A n \in BuildNodes : inFlight[n] \subseteq sent[n])'
  BY <1>1, <1>6 DEF Accounted, AccountedWasSent
<1>8. (\A x \in Builds : callback[x] # NoNode => x \in sent[callback[x]])'
  BY <1>1, <1>3, <1>6 DEF Accounted, AccountedWasSent
<1>9. ASSUME NEW q \in Procs
      PROVE  (pc[q] \in Accounting => task[q] \in sent[node[q]])'
  <2>1. CASE q = p
    BY <2>1, <1>5 DEF Accounting
  <2>2. CASE q # p /\ pc[q] \in Accounting
    <3>1. task[q] \in sent[node[q]] /\ node[q] \in BuildNodes
      BY <2>2 DEF Accounted, AccountedWasSent, Typed, Labelled, NeedsNode, Accounting
    <3>2. QED
      BY <3>1, <2>2, <1>5, <1>6
  <2>3. QED
    BY <2>1, <2>2, <1>5
<1>10. ASSUME NEW q \in Procs
       PROVE  (pc[q] \in {"trackPut", "untrackPut"} => list[q] \subseteq sent[node[q]])'
  <2>1. CASE q = p
    BY <2>1, <1>5
  <2>2. CASE q # p /\ pc[q] \in {"trackPut", "untrackPut"}
    <3>1. list[q] \subseteq sent[node[q]] /\ node[q] \in BuildNodes
      BY <2>2 DEF Accounted, WrittenBackWasSent, Typed, Labelled, NeedsNode
    <3>2. QED
      BY <3>1, <2>2, <1>5, <1>6
  <2>3. QED
    BY <2>1, <2>2, <1>5
<1>11. QED
  BY <1>7, <1>8, <1>9, <1>10 DEF Accounted, AccountedWasSent, WrittenBackWasSent

(***************************************************************************)
(* No in-flight list and no callback names a node that was not sent the    *)
(* build.  Inductive once the in-flight lists that calls have read and not *)
(* yet written back are included: a put may be of a list that a reconcile  *)
(* or an expiry has cleared since.                                         *)
(***************************************************************************)
THEOREM AccountedSent == Spec => []AccountedWasSent
<1> USE BuildDispatchAssumption
<1>1. Init => Accounted
  BY DEF Init, Accounted, AccountedWasSent, WrittenBackWasSent, Accounting, Own, Procs
<1>2. Typed /\ Accounted /\ [Next]_vars => Accounted'
  <2> SUFFICES ASSUME Typed, Accounted, [Next]_vars
               PROVE  Accounted'
    OBVIOUS
  <2> USE DEF Typed, TypeOK, StoreTypeOK, LocalTypeOK, HistoryTypeOK, Labelled,
              NeedsBuild, NeedsNode, Accounted, AccountedWasSent, WrittenBackWasSent, Accounting, At, Become,
              Goto, ReadCount, ReadList, Return, Throw, Own, Procs, kvVars, envVars,
              histVars, locals
  <2>1. ASSUME NEW b \in Builds, FindBuildNode(b)
        PROVE  Accounted'
    <3>1. (\A n \in BuildNodes : inFlight[n] \subseteq sent[n])'
      BY <2>1 DEF FindBuildNode
    <3>2. (\A x \in Builds : callback[x] # NoNode => x \in sent[callback[x]])'
      BY <2>1 DEF FindBuildNode
    <3>3. ASSUME NEW q \in Procs
          PROVE  (pc[q] \in Accounting => task[q] \in sent[node[q]])'
      <4>1. CASE q = b
        BY <2>1, <4>1 DEF FindBuildNode
      <4>2. CASE q # b
        BY <2>1, <4>2 DEF FindBuildNode
      <4>3. QED
        BY <4>1, <4>2
    <3>4. ASSUME NEW q \in Procs
          PROVE  (pc[q] \in {"trackPut", "untrackPut"} => list[q] \subseteq sent[node[q]])'
      <4>1. CASE q = b
        BY <2>1, <4>1 DEF FindBuildNode
      <4>2. CASE q # b
        BY <2>1, <4>2 DEF FindBuildNode
      <4>3. QED
        BY <4>1, <4>2
    <3>5. QED
      BY <3>1, <3>2, <3>3, <3>4
  <2>2. ASSUME NEW p \in Procs, ReadSlots(p)
        PROVE  Accounted'
    BY <2>2 DEF ReadSlots
  <2>3. ASSUME NEW p \in Procs, Dispatch(p)
        PROVE  Accounted'
    BY <2>3, DispatchAccounted
  <2>4. ASSUME NEW p \in Procs, IncrementGet(p)
        PROVE  Accounted'
    BY <2>4 DEF IncrementGet
  <2>5. ASSUME NEW p \in Procs, IncrementPut(p)
        PROVE  Accounted'
    BY <2>5 DEF IncrementPut
  <2>6. ASSUME NEW p \in Procs, TrackGet(p)
        PROVE  Accounted'
    BY <2>6 DEF TrackGet
  <2>7. ASSUME NEW p \in Procs, TrackPut(p)
        PROVE  Accounted'
    BY <2>7 DEF TrackPut
  <2>8. ASSUME NEW p \in Procs, DequeueItem(p)
        PROVE  Accounted'
    BY <2>8 DEF DequeueItem, Without
  <2>9. ASSUME NEW p \in Procs, DequeueGet(p)
        PROVE  Accounted'
    BY <2>9 DEF DequeueGet
  <2>10. ASSUME NEW p \in Procs, DequeuePut(p)
        PROVE  Accounted'
    BY <2>10 DEF DequeuePut
  <2>11. ASSUME NEW p \in Procs, SaveCallback(p)
        PROVE  Accounted'
    BY <2>11 DEF SaveCallback
  <2>12. ASSUME NEW p \in Procs, EnqueueItem(p)
        PROVE  Accounted'
    BY <2>12 DEF EnqueueItem, Without
  <2>13. ASSUME NEW p \in Procs, EnqueueGet(p)
        PROVE  Accounted'
    BY <2>13 DEF EnqueueGet
  <2>14. ASSUME NEW p \in Procs, EnqueuePut(p)
        PROVE  Accounted'
    <3>1. (\A n \in BuildNodes : inFlight[n] \subseteq sent[n])'
      BY <2>14 DEF EnqueuePut
    <3>2. (\A x \in Builds : callback[x] # NoNode => x \in sent[callback[x]])'
      BY <2>14 DEF EnqueuePut
    <3>3. ASSUME NEW q \in Procs
          PROVE  (pc[q] \in Accounting => task[q] \in sent[node[q]])'
      <4>1. CASE q = p
        BY <2>14, <4>1 DEF EnqueuePut
      <4>2. CASE q # p
        BY <2>14, <4>2 DEF EnqueuePut
      <4>3. QED
        BY <4>1, <4>2
    <3>4. ASSUME NEW q \in Procs
          PROVE  (pc[q] \in {"trackPut", "untrackPut"} => list[q] \subseteq sent[node[q]])'
      <4>1. CASE q = p
        BY <2>14, <4>1 DEF EnqueuePut
      <4>2. CASE q # p
        BY <2>14, <4>2 DEF EnqueuePut
      <4>3. QED
        BY <4>1, <4>2
    <3>5. QED
      BY <3>1, <3>2, <3>3, <3>4
  <2>15. ASSUME NEW h \in Handlers, ConsumeGet(h)
        PROVE  Accounted'
    BY <2>15 DEF ConsumeGet
  <2>16. ASSUME NEW h \in Handlers, ConsumeDelete(h)
        PROVE  Accounted'
    <3>1. (\A n \in BuildNodes : inFlight[n] \subseteq sent[n])'
      BY <2>16 DEF ConsumeDelete
    <3>2. (\A x \in Builds : callback[x] # NoNode => x \in sent[callback[x]])'
      BY <2>16 DEF ConsumeDelete
    <3>3. ASSUME NEW q \in Procs
          PROVE  (pc[q] \in Accounting => task[q] \in sent[node[q]])'
      <4>1. CASE q = h
        BY <2>16, <4>1 DEF ConsumeDelete
      <4>2. CASE q # h
        BY <2>16, <4>2 DEF ConsumeDelete
      <4>3. QED
        BY <4>1, <4>2
    <3>4. ASSUME NEW q \in Procs
          PROVE  (pc[q] \in {"trackPut", "untrackPut"} => list[q] \subseteq sent[node[q]])'
      <4>1. CASE q = h
        BY <2>16, <4>1 DEF ConsumeDelete
      <4>2. CASE q # h
        BY <2>16, <4>2 DEF ConsumeDelete
      <4>3. QED
        BY <4>1, <4>2
    <3>5. QED
      BY <3>1, <3>2, <3>3, <3>4
  <2>17. ASSUME NEW h \in Handlers, CompleteBuild(h)
        PROVE  Accounted'
    BY <2>17 DEF CompleteBuild
  <2>18. ASSUME NEW h \in Handlers, DecrementGet(h)
        PROVE  Accounted'
    BY <2>18 DEF DecrementGet
  <2>19. ASSUME NEW h \in Handlers, DecrementPut(h)
        PROVE  Accounted'
    BY <2>19 DEF DecrementPut, Decremented
  <2>20. ASSUME NEW h \in Handlers, UntrackGet(h)
        PROVE  Accounted'
    BY <2>20 DEF UntrackGet
  <2>21. ASSUME NEW h \in Handlers, UntrackPut(h)
        PROVE  Accounted'
    BY <2>21 DEF UntrackPut
  <2>22. ASSUME NEW h \in Handlers, ListIndex(h)
        PROVE  Accounted'
    BY <2>22 DEF ListIndex
  <2>23. ASSUME NEW h \in Handlers, ListItems(h)
        PROVE  Accounted'
    <3>1. (\A n \in BuildNodes : inFlight[n] \subseteq sent[n])'
      BY <2>23 DEF ListItems
    <3>2. (\A x \in Builds : callback[x] # NoNode => x \in sent[callback[x]])'
      BY <2>23 DEF ListItems
    <3>3. ASSUME NEW q \in Procs
          PROVE  (pc[q] \in Accounting => task[q] \in sent[node[q]])'
      <4>1. CASE q = h
        BY <2>23, <4>1 DEF ListItems
      <4>2. CASE q # h
        BY <2>23, <4>2 DEF ListItems
      <4>3. QED
        BY <4>1, <4>2
    <3>4. ASSUME NEW q \in Procs
          PROVE  (pc[q] \in {"trackPut", "untrackPut"} => list[q] \subseteq sent[node[q]])'
      <4>1. CASE q = h
        BY <2>23, <4>1 DEF ListItems
      <4>2. CASE q # h
        BY <2>23, <4>2 DEF ListItems
      <4>3. QED
        BY <4>1, <4>2
    <3>5. QED
      BY <3>1, <3>2, <3>3, <3>4
  <2>24. ASSUME NEW h \in Handlers, NEW b \in Builds, ReceiveResponse(h, b)
        PROVE  Accounted'
    BY <2>24 DEF ReceiveResponse, Dispatching, Answered
  <2>25. ASSUME NEW b \in Builds, DropResponse(b)
        PROVE  Accounted'
    BY <2>25 DEF DropResponse, Dispatching, Answered
  <2>26. ASSUME ReconcileStart
        PROVE  Accounted'
    BY <2>26 DEF ReconcileStart
  <2>27. ASSUME ReconcileNode
        PROVE  Accounted'
    <3>1. /\ pc'[Reconciler] \in {"idle", "nextNode", "nextEntry"}
          /\ \A q \in Procs \ {Reconciler} : /\ pc'[q] = pc[q] /\ task'[q] = task[q]
                                      /\ node'[q] = node[q] /\ list'[q] = list[q]
          /\ UNCHANGED <<inFlight, callback, sent>>
      <4>1. CASE Return(Reconciler)
        BY <2>27, <4>1 DEF ReconcileNode
      <4>2. ASSUME NEW n \in BuildNodes, NEW label \in {"nextNode", "nextEntry"},
                   Become(Reconciler, label, NoBuild, n, 0, {})
            PROVE  /\ pc'[Reconciler] \in {"idle", "nextNode", "nextEntry"}
                   /\ \A q \in Procs \ {Reconciler} : /\ pc'[q] = pc[q] /\ task'[q] = task[q]
                                               /\ node'[q] = node[q] /\ list'[q] = list[q]
        BY <4>2
      <4>3. QED
        BY <2>27, <4>1, <4>2 DEF ReconcileNode
    <3>2. QED
      BY <3>1 DEF Accounted
  <2>28. ASSUME ReconcileEntry
        PROVE  Accounted'
    BY <2>28 DEF ReconcileEntry
  <2>29. ASSUME ClearInFlight
        PROVE  Accounted'
    BY <2>29 DEF ClearInFlight
  <2>30. ASSUME ClearSlots
        PROVE  Accounted'
    BY <2>30 DEF ClearSlots
  <2>31. ASSUME ExpirePayload
        PROVE  Accounted'
    BY <2>31 DEF ExpirePayload
  <2>32. ASSUME Restart
        PROVE  Accounted'
    BY <2>32 DEF Restart
  <2>33. ASSUME NEW n \in BuildNodes, NodeDisconnect(n)
        PROVE  Accounted'
    BY <2>33 DEF NodeDisconnect
  <2>34. ASSUME NEW n \in BuildNodes, NodeConnect(n)
        PROVE  Accounted'
    BY <2>34 DEF NodeConnect
  <2>35. ASSUME NEW n \in BuildNodes, SetStatus(n)
        PROVE  Accounted'
    BY <2>35 DEF SetStatus
  <2>36. ASSUME NEW n \in BuildNodes, ExpireAccounting(n)
        PROVE  Accounted'
    BY <2>36 DEF ExpireAccounting
  <2>37. ASSUME NEW p \in Procs, StoreFails(p)
        PROVE  Accounted'
    BY <2>37 DEF StoreFails
  <2>38. CASE UNCHANGED vars
    BY <2>38 DEF vars
  <2>39. QED
    BY <2>1, <2>2, <2>3, <2>4, <2>5, <2>6, <2>7, <2>8, <2>9, <2>10,
       <2>11, <2>12, <2>13, <2>14, <2>15, <2>16, <2>17, <2>18, <2>19,
       <2>20, <2>21, <2>22, <2>23, <2>24, <2>25, <2>26, <2>27, <2>28,
       <2>29, <2>30, <2>31, <2>32, <2>33, <2>34, <2>35, <2>36, <2>37,
       <2>38
    DEF Next, RequestStep, DispatchStep, EnqueueStep, HandlerStep, ReconcileStep,
        Environment
<1>3. Accounted => AccountedWasSent
  BY DEF Accounted
<1>4. QED
  BY <1>1, <1>2, <1>3, Typing, PTL DEF Spec

(***************************************************************************)
(* The types of the variables alone, without what the labels say.          *)
(***************************************************************************)
THEOREM TypeCorrect == Spec => []TypeOK
<1>1. Typed => TypeOK
  BY DEF Typed
<1>2. QED
  BY <1>1, Typing, PTL

\* What accounts for a build has sent it, and a request past its enqueue has its
\* build in the queue or sent.
Kept ==
  /\ \A p \in Procs : pc[p] \in Accounting => dispatched[task[p]] > 0
  /\ \A b \in Builds : pc[b] \in {"enqueueGet", "enqueuePut", "done"} =>
       dispatched[b] > 0 \/ b \in items

(***************************************************************************)
(* As long as queue items do not expire, a request that returned a task id *)
(* has its build sent or queued: only a drain takes an item out, and it    *)
(* has sent the build before.                                              *)
(***************************************************************************)
THEOREM AcceptedKept ==
  ASSUME "queueExpires" \notin Faults
  PROVE  Spec => []AcceptedNotLost
<1> USE BuildDispatchAssumption
<1>1. Init => Kept
  BY DEF Init, Kept, Accounting, Own, Procs
<1>2. Typed /\ Kept /\ [Next]_vars => Kept'
  <2> SUFFICES ASSUME Typed, Kept, [Next]_vars
               PROVE  Kept'
    OBVIOUS
  <2> USE DEF Typed, TypeOK, StoreTypeOK, LocalTypeOK, HistoryTypeOK, Labelled, NeedsBuild,
              NeedsNode, Kept, Accounting, At, Become, Goto, ReadCount, ReadList,
              Return, Throw, Own, Procs, kvVars, envVars, histVars, locals
  <2>1. ASSUME NEW b \in Builds, FindBuildNode(b)
        PROVE  Kept'
    <3>1. ASSUME NEW q \in Procs
          PROVE  (pc[q] \in Accounting => dispatched[task[q]] > 0)'
      <4>1. CASE q = b
        BY <2>1, <4>1 DEF FindBuildNode
      <4>2. CASE q # b
        BY <2>1, <4>2 DEF FindBuildNode
      <4>3. QED
        BY <4>1, <4>2
    <3>2. ASSUME NEW x \in Builds
          PROVE  (pc[x] \in {"enqueueGet", "enqueuePut", "done"} => dispatched[x] > 0 \/ x \in items)'
      <4>1. CASE x = b
        BY <2>1, <4>1 DEF FindBuildNode
      <4>2. CASE x # b
        BY <2>1, <4>2 DEF FindBuildNode
      <4>3. QED
        BY <4>1, <4>2
    <3>3. QED
      BY <3>1, <3>2
  <2>2. ASSUME NEW p \in Procs, ReadSlots(p)
        PROVE  Kept'
    BY <2>2 DEF ReadSlots
  <2>3. ASSUME NEW p \in Procs, Dispatch(p)
        PROVE  Kept'
    <3>1. /\ pc[p] = "dispatch" /\ task[p] \in Builds
          /\ UNCHANGED <<items, owed>>
      BY <2>3 DEF Dispatch
    <3>2. CASE Refuse(p) /\ UNCHANGED dispatched
      <4>1. /\ pc'[p] \in {"done", "idle", "enqueueItem"}
            /\ p \in Builds => pc'[p] = "enqueueItem"
            /\ p \notin Builds => pc'[p] = "idle"
            /\ \A q \in Procs \ {p} : pc'[q] = pc[q] /\ task'[q] = task[q]
        BY <3>2 DEF Refuse
      <4>2. QED
        BY <3>1, <3>2, <4>1
    <3>3. CASE dispatched' = [dispatched EXCEPT ![task[p]] = @ + 1] /\ Goto(p, "incGet")
      <4>1. /\ pc'[p] = "incGet" /\ task'[p] = task[p]
            /\ \A q \in Procs \ {p} : pc'[q] = pc[q] /\ task'[q] = task[q]
        BY <3>3
      <4>2. dispatched'[task[p]] = dispatched[task[p]] + 1
        BY <3>1, <3>3
      <4>3. \A x \in Builds : dispatched'[x] >= dispatched[x] /\ dispatched'[x] \in Nat
        BY <3>1, <3>3
      <4>4. ASSUME NEW q \in Procs, pc'[q] \in Accounting
            PROVE  dispatched'[task'[q]] > 0
        <5>1. CASE q = p
          BY <5>1, <3>1, <4>1, <4>2
        <5>2. CASE q # p
          <6>1. task'[q] = task[q] /\ task[q] \in Builds /\ dispatched[task[q]] > 0
            BY <5>2, <4>1, <4>4
          <6>2. QED
            BY <6>1, <4>3
        <5>3. QED
          BY <5>1, <5>2
      <4>5. ASSUME NEW x \in Builds, pc'[x] \in {"enqueueGet", "enqueuePut", "done"}
            PROVE  dispatched'[x] > 0 \/ x \in items'
        <5>1. dispatched[x] > 0 \/ x \in items
          BY <4>1, <4>5
        <5>2. QED
          BY <5>1, <4>3, <3>1
      <4>6. QED
        BY <4>4, <4>5
    <3>4. QED
      BY <2>3, <3>2, <3>3 DEF Dispatch
  <2>4. ASSUME NEW p \in Procs, IncrementGet(p)
        PROVE  Kept'
    BY <2>4 DEF IncrementGet
  <2>5. ASSUME NEW p \in Procs, IncrementPut(p)
        PROVE  Kept'
    BY <2>5 DEF IncrementPut
  <2>6. ASSUME NEW p \in Procs, TrackGet(p)
        PROVE  Kept'
    BY <2>6 DEF TrackGet
  <2>7. ASSUME NEW p \in Procs, TrackPut(p)
        PROVE  Kept'
    BY <2>7 DEF TrackPut
  <2>8. ASSUME NEW p \in Procs, DequeueItem(p)
        PROVE  Kept'
    BY <2>8 DEF DequeueItem, Without
  <2>9. ASSUME NEW p \in Procs, DequeueGet(p)
        PROVE  Kept'
    BY <2>9 DEF DequeueGet
  <2>10. ASSUME NEW p \in Procs, DequeuePut(p)
         PROVE  Kept'
    BY <2>10 DEF DequeuePut
  <2>11. ASSUME NEW p \in Procs, SaveCallback(p)
         PROVE  Kept'
    BY <2>11 DEF SaveCallback
  <2>12. ASSUME NEW p \in Procs, EnqueueItem(p)
         PROVE  Kept'
    BY <2>12 DEF EnqueueItem, Without
  <2>13. ASSUME NEW p \in Procs, EnqueueGet(p)
         PROVE  Kept'
    BY <2>13 DEF EnqueueGet
  <2>14. ASSUME NEW p \in Procs, EnqueuePut(p)
         PROVE  Kept'
    <3>1. ASSUME NEW q \in Procs
          PROVE  (pc[q] \in Accounting => dispatched[task[q]] > 0)'
      <4>1. CASE q = p
        BY <2>14, <4>1 DEF EnqueuePut
      <4>2. CASE q # p
        BY <2>14, <4>2 DEF EnqueuePut
      <4>3. QED
        BY <4>1, <4>2
    <3>2. ASSUME NEW x \in Builds
          PROVE  (pc[x] \in {"enqueueGet", "enqueuePut", "done"} => dispatched[x] > 0 \/ x \in items)'
      <4>1. CASE x = p
        BY <2>14, <4>1 DEF EnqueuePut
      <4>2. CASE x # p
        BY <2>14, <4>2 DEF EnqueuePut
      <4>3. QED
        BY <4>1, <4>2
    <3>3. QED
      BY <3>1, <3>2
  <2>15. ASSUME NEW h \in Handlers, ConsumeGet(h)
         PROVE  Kept'
    BY <2>15 DEF ConsumeGet
  <2>16. ASSUME NEW h \in Handlers, ConsumeDelete(h)
         PROVE  Kept'
    <3>1. ASSUME NEW q \in Procs
          PROVE  (pc[q] \in Accounting => dispatched[task[q]] > 0)'
      <4>1. CASE q = h
        BY <2>16, <4>1 DEF ConsumeDelete
      <4>2. CASE q # h
        BY <2>16, <4>2 DEF ConsumeDelete
      <4>3. QED
        BY <4>1, <4>2
    <3>2. ASSUME NEW x \in Builds
          PROVE  (pc[x] \in {"enqueueGet", "enqueuePut", "done"} => dispatched[x] > 0 \/ x \in items)'
      <4>1. CASE x = h
        BY <2>16, <4>1 DEF ConsumeDelete
      <4>2. CASE x # h
        BY <2>16, <4>2 DEF ConsumeDelete
      <4>3. QED
        BY <4>1, <4>2
    <3>3. QED
      BY <3>1, <3>2
  <2>17. ASSUME NEW h \in Handlers, CompleteBuild(h)
         PROVE  Kept'
    BY <2>17 DEF CompleteBuild
  <2>18. ASSUME NEW h \in Handlers, DecrementGet(h)
         PROVE  Kept'
    BY <2>18 DEF DecrementGet
  <2>19. ASSUME NEW h \in Handlers, DecrementPut(h)
         PROVE  Kept'
    BY <2>19 DEF DecrementPut, Decremented
  <2>20. ASSUME NEW h \in Handlers, UntrackGet(h)
         PROVE  Kept'
    BY <2>20 DEF UntrackGet
  <2>21. ASSUME NEW h \in Handlers, UntrackPut(h)
         PROVE  Kept'
    BY <2>21 DEF UntrackPut
  <2>22. ASSUME NEW h \in Handlers, ListIndex(h)
         PROVE  Kept'
    BY <2>22 DEF ListIndex
  <2>23. ASSUME NEW h \in Handlers, ListItems(h)
         PROVE  Kept'
    <3>1. ASSUME NEW q \in Procs
          PROVE  (pc[q] \in Accounting => dispatched[task[q]] > 0)'
      <4>1. CASE q = h
        BY <2>23, <4>1 DEF ListItems
      <4>2. CASE q # h
        BY <2>23, <4>2 DEF ListItems
      <4>3. QED
        BY <4>1, <4>2
    <3>2. ASSUME NEW x \in Builds
          PROVE  (pc[x] \in {"enqueueGet", "enqueuePut", "done"} => dispatched[x] > 0 \/ x \in items)'
      <4>1. CASE x = h
        BY <2>23, <4>1 DEF ListItems
      <4>2. CASE x # h
        BY <2>23, <4>2 DEF ListItems
      <4>3. QED
        BY <4>1, <4>2
    <3>3. QED
      BY <3>1, <3>2
  <2>24. ASSUME NEW h \in Handlers, NEW b \in Builds, ReceiveResponse(h, b)
         PROVE  Kept'
    BY <2>24 DEF ReceiveResponse, Dispatching, Answered
  <2>25. ASSUME NEW b \in Builds, DropResponse(b)
         PROVE  Kept'
    BY <2>25 DEF DropResponse, Dispatching, Answered
  <2>26. ASSUME ReconcileStart
         PROVE  Kept'
    BY <2>26 DEF ReconcileStart
  <2>27. ASSUME ReconcileNode
         PROVE  Kept'
    <3>1. ASSUME NEW q \in Procs
          PROVE  (pc[q] \in Accounting => dispatched[task[q]] > 0)'
      <4>1. CASE q = Reconciler
        BY ZenonT(40), <2>27, <4>1 DEF ReconcileNode
      <4>2. CASE q # Reconciler
        BY ZenonT(40), <2>27, <4>2 DEF ReconcileNode
      <4>3. QED
        BY <4>1, <4>2
    <3>2. ASSUME NEW x \in Builds
          PROVE  (pc[x] \in {"enqueueGet", "enqueuePut", "done"} => dispatched[x] > 0 \/ x \in items)'
      <4>1. CASE x = Reconciler
        BY <2>27, <4>1 DEF ReconcileNode
      <4>2. CASE x # Reconciler
        BY <2>27, <4>2 DEF ReconcileNode
      <4>3. QED
        BY <4>1, <4>2
    <3>3. QED
      BY <3>1, <3>2
  <2>28. ASSUME ReconcileEntry
         PROVE  Kept'
    BY <2>28 DEF ReconcileEntry
  <2>29. ASSUME ClearInFlight
         PROVE  Kept'
    BY <2>29 DEF ClearInFlight
  <2>30. ASSUME ClearSlots
         PROVE  Kept'
    BY <2>30 DEF ClearSlots
  <2>31. ASSUME ExpirePayload
         PROVE  Kept'
    BY <2>31 DEF ExpirePayload
  <2>32. ASSUME Restart
         PROVE  Kept'
    BY <2>32 DEF Restart
  <2>33. ASSUME NEW n \in BuildNodes, NodeDisconnect(n)
         PROVE  Kept'
    BY <2>33 DEF NodeDisconnect
  <2>34. ASSUME NEW n \in BuildNodes, NodeConnect(n)
         PROVE  Kept'
    BY <2>34 DEF NodeConnect
  <2>35. ASSUME NEW n \in BuildNodes, SetStatus(n)
         PROVE  Kept'
    BY <2>35 DEF SetStatus
  <2>36. ASSUME NEW n \in BuildNodes, ExpireAccounting(n)
         PROVE  Kept'
    BY <2>36 DEF ExpireAccounting
  <2>37. ASSUME NEW p \in Procs, StoreFails(p)
         PROVE  Kept'
    BY <2>37 DEF StoreFails
  <2>38. CASE UNCHANGED vars
    BY <2>38 DEF vars
  <2>39. QED
    BY <2>1, <2>2, <2>3, <2>4, <2>5, <2>6, <2>7, <2>8, <2>9, <2>10, <2>11,
       <2>12, <2>13, <2>14, <2>15, <2>16, <2>17, <2>18, <2>19, <2>20, <2>21,
       <2>22, <2>23, <2>24, <2>25, <2>26, <2>27, <2>28, <2>29, <2>30, <2>31,
       <2>32, <2>33, <2>34, <2>35, <2>36, <2>37, <2>38
    DEF Next, RequestStep, DispatchStep, EnqueueStep, HandlerStep, ReconcileStep,
        Environment
<1>3. Kept => AcceptedNotLost
  BY DEF Kept, AcceptedNotLost, At
<1>4. QED
  BY <1>1, <1>2, <1>3, Typing, PTL DEF Spec

\* A drain that has sent its build and will dequeue it has sent what the queue owed,
\* unless the build was queued anew in between; only drains dequeue.
Undequeued == {"incGet", "incPut", "trackGet", "trackPut", "dequeueItem"}
Drained ==
  /\ \A h \in Handlers : pc[h] \in Undequeued =>
       task[h] \in raced \/ dispatched[task[h]] >= owed[task[h]]
  /\ \A p \in Procs \ Handlers : pc[p] # "dequeueItem"
  /\ \A b \in Builds : owed[b] <= dispatched[b] + 1

(***************************************************************************)
(* As long as queue items do not expire, an item goes only once its build  *)
(* was sent after it was queued, however many requests, drains and         *)
(* reconciles run, fail or are cut off by a restart; excepted is an item   *)
(* written over that of a drain that had sent the build and was still to   *)
(* dequeue it.                                                             *)
(***************************************************************************)
THEOREM EnqueuedKept ==
  ASSUME "queueExpires" \notin Faults
  PROVE  Spec => []EnqueuedUnlessRaced
<1> DEFINE Inv == EnqueuedUnlessRaced /\ Drained
<1> USE BuildDispatchAssumption
<1>1. Init => Inv
  BY DEF Init, EnqueuedUnlessRaced, Drained, Undequeued, Own, Procs
<1>2. Typed /\ Inv /\ [Next]_vars => Inv'
  <2> SUFFICES ASSUME Typed, Inv, [Next]_vars
               PROVE  Inv'
    OBVIOUS
  <2> USE DEF Typed, TypeOK, StoreTypeOK, LocalTypeOK, HistoryTypeOK, Labelled, NeedsBuild,
              NeedsNode, Drained, Undequeued, EnqueuedUnlessRaced, At, Become, Goto,
              ReadCount, ReadList, Return, Throw, Own, Procs, kvVars, envVars, histVars,
              locals
  <2>1. ASSUME NEW b \in Builds, FindBuildNode(b)
        PROVE  Inv'
    BY <2>1 DEF FindBuildNode
  <2>2. ASSUME NEW p \in Procs, ReadSlots(p)
        PROVE  Inv'
    BY <2>2 DEF ReadSlots
  <2>3. ASSUME NEW p \in Builds \cup Handlers, Dispatch(p)
        PROVE  Inv'
    <3>1. /\ pc[p] = "dispatch" /\ task[p] \in Builds
          /\ UNCHANGED <<items, owed, raced>>
      BY <2>3 DEF Dispatch
    <3>2. CASE Refuse(p) /\ UNCHANGED dispatched
      <4>1. /\ pc'[p] \in {"idle", "enqueueItem"}
            /\ \A q \in Procs \ {p} : pc'[q] = pc[q] /\ task'[q] = task[q]
        BY <3>2 DEF Refuse
      <4>2. QED
        BY <3>1, <3>2, <4>1
    <3>3. CASE dispatched' = [dispatched EXCEPT ![task[p]] = @ + 1] /\ Goto(p, "incGet")
      <4>1. /\ pc'[p] = "incGet" /\ task'[p] = task[p]
            /\ \A q \in Procs \ {p} : pc'[q] = pc[q] /\ task'[q] = task[q]
        BY <3>3
      <4>2. dispatched'[task[p]] = dispatched[task[p]] + 1
        BY <3>1, <3>3
      <4>3. \A x \in Builds : /\ dispatched[x] \in Nat /\ owed[x] \in Nat
                              /\ dispatched'[x] \in Nat
                              /\ dispatched'[x] >= dispatched[x]
        BY <3>1, <3>3
      <4>4. EnqueuedUnlessRaced'
        BY <3>1, <4>3
      <4>5. ASSUME NEW o \in Handlers, pc'[o] \in Undequeued
            PROVE  task'[o] \in raced' \/ dispatched'[task'[o]] >= owed'[task'[o]]
        <5>1. CASE o = p
          BY <5>1, <3>1, <4>1, <4>2, <4>3
        <5>2. CASE o # p
          <6>1. /\ task'[o] = task[o] /\ task[o] \in Builds
                /\ task[o] \in raced \/ dispatched[task[o]] >= owed[task[o]]
            BY <5>2, <4>1, <4>5
          <6>2. QED
            BY <6>1, <4>3, <3>1
        <5>3. QED
          BY <5>1, <5>2
      <4>6. \A q \in Procs \ Handlers : pc'[q] # "dequeueItem"
        BY <4>1
      <4>7. \A x \in Builds : owed'[x] <= dispatched'[x] + 1
        BY <3>1, <4>3
      <4>8. QED
        BY <4>4, <4>5, <4>6, <4>7
    <3>4. QED
      BY <2>3, <3>2, <3>3 DEF Dispatch
  <2>4. ASSUME NEW p \in Procs, IncrementGet(p)
        PROVE  Inv'
    BY <2>4 DEF IncrementGet
  <2>5. ASSUME NEW p \in Procs, IncrementPut(p)
        PROVE  Inv'
    BY <2>5 DEF IncrementPut
  <2>6. ASSUME NEW p \in Procs, TrackGet(p)
        PROVE  Inv'
    BY <2>6 DEF TrackGet
  <2>7. ASSUME NEW p \in Builds \cup Handlers, TrackPut(p)
        PROVE  Inv'
    BY <2>7 DEF TrackPut
  <2>8. ASSUME NEW p \in Builds \cup Handlers, DequeueItem(p)
        PROVE  Inv'
    BY <2>8 DEF DequeueItem, Without
  <2>9. ASSUME NEW p \in Procs, DequeueGet(p)
        PROVE  Inv'
    BY <2>9 DEF DequeueGet
  <2>10. ASSUME NEW p \in Procs, DequeuePut(p)
         PROVE  Inv'
    BY <2>10 DEF DequeuePut
  <2>11. ASSUME NEW p \in Procs, SaveCallback(p)
         PROVE  Inv'
    BY <2>11 DEF SaveCallback
  <2>12. ASSUME NEW p \in Builds \cup {Reconciler}, EnqueueItem(p)
         PROVE  Inv'
    BY <2>12 DEF EnqueueItem, ToDequeue
  <2>13. ASSUME NEW p \in Procs, EnqueueGet(p)
         PROVE  Inv'
    BY <2>13 DEF EnqueueGet
  <2>14. ASSUME NEW p \in Procs, EnqueuePut(p)
         PROVE  Inv'
    <3>1. /\ pc'[p] \notin Undequeued
          /\ \A q \in Procs \ {p} : pc'[q] = pc[q] /\ task'[q] = task[q]
          /\ UNCHANGED <<items, dispatched, owed, raced>>
      BY <2>14 DEF EnqueuePut
    <3>2. QED
      BY <3>1
  <2>15. ASSUME NEW h \in Handlers, ConsumeGet(h)
         PROVE  Inv'
    BY <2>15 DEF ConsumeGet
  <2>16. ASSUME NEW h \in Handlers, ConsumeDelete(h)
         PROVE  Inv'
    <3>1. /\ pc'[h] \notin Undequeued
          /\ \A q \in Procs \ {h} : pc'[q] = pc[q] /\ task'[q] = task[q]
          /\ UNCHANGED <<items, dispatched, owed, raced>>
      BY <2>16 DEF ConsumeDelete
    <3>2. QED
      BY <3>1
  <2>17. ASSUME NEW h \in Handlers, CompleteBuild(h)
         PROVE  Inv'
    BY <2>17 DEF CompleteBuild
  <2>18. ASSUME NEW h \in Handlers, DecrementGet(h)
         PROVE  Inv'
    BY <2>18 DEF DecrementGet
  <2>19. ASSUME NEW h \in Handlers, DecrementPut(h)
         PROVE  Inv'
    BY <2>19 DEF DecrementPut, Decremented
  <2>20. ASSUME NEW h \in Handlers, UntrackGet(h)
         PROVE  Inv'
    BY <2>20 DEF UntrackGet
  <2>21. ASSUME NEW h \in Handlers, UntrackPut(h)
         PROVE  Inv'
    BY <2>21 DEF UntrackPut
  <2>22. ASSUME NEW h \in Handlers, ListIndex(h)
         PROVE  Inv'
    BY <2>22 DEF ListIndex
  <2>23. ASSUME NEW h \in Handlers, ListItems(h)
         PROVE  Inv'
    BY <2>23 DEF ListItems
  <2>24. ASSUME NEW h \in Handlers, NEW b \in Builds, ReceiveResponse(h, b)
         PROVE  Inv'
    BY <2>24 DEF ReceiveResponse, Dispatching, Answered
  <2>25. ASSUME NEW b \in Builds, DropResponse(b)
         PROVE  Inv'
    BY <2>25 DEF DropResponse, Dispatching, Answered
  <2>26. ASSUME ReconcileStart
         PROVE  Inv'
    BY <2>26 DEF ReconcileStart
  <2>27. ASSUME ReconcileNode
         PROVE  Inv'
    <3>1. /\ pc'[Reconciler] \in {"idle", "nextNode", "nextEntry"}
          /\ \A q \in Procs \ {Reconciler} : pc'[q] = pc[q] /\ task'[q] = task[q]
          /\ UNCHANGED <<items, dispatched, owed, raced>>
      BY <2>27 DEF ReconcileNode
    <3>2. QED
      BY <3>1
  <2>28. ASSUME ReconcileEntry
         PROVE  Inv'
    BY <2>28 DEF ReconcileEntry
  <2>29. ASSUME ClearInFlight
         PROVE  Inv'
    BY <2>29 DEF ClearInFlight
  <2>30. ASSUME ClearSlots
         PROVE  Inv'
    BY <2>30 DEF ClearSlots
  <2>31. ASSUME ExpirePayload
         PROVE  Inv'
    BY <2>31 DEF ExpirePayload
  <2>32. ASSUME Restart
         PROVE  Inv'
    BY <2>32 DEF Restart
  <2>33. ASSUME NEW n \in BuildNodes, NodeDisconnect(n)
         PROVE  Inv'
    BY <2>33 DEF NodeDisconnect
  <2>34. ASSUME NEW n \in BuildNodes, NodeConnect(n)
         PROVE  Inv'
    BY <2>34 DEF NodeConnect
  <2>35. ASSUME NEW n \in BuildNodes, SetStatus(n)
         PROVE  Inv'
    BY <2>35 DEF SetStatus
  <2>36. ASSUME NEW n \in BuildNodes, ExpireAccounting(n)
         PROVE  Inv'
    BY <2>36 DEF ExpireAccounting
  <2>37. ASSUME NEW p \in Procs, StoreFails(p)
         PROVE  Inv'
    BY <2>37 DEF StoreFails
  <2>38. CASE UNCHANGED vars
    BY <2>38 DEF vars
  <2>39. QED
    BY <2>1, <2>2, <2>3, <2>4, <2>5, <2>6, <2>7, <2>8, <2>9, <2>10, <2>11,
       <2>12, <2>13, <2>14, <2>15, <2>16, <2>17, <2>18, <2>19, <2>20, <2>21,
       <2>22, <2>23, <2>24, <2>25, <2>26, <2>27, <2>28, <2>29, <2>30, <2>31,
       <2>32, <2>33, <2>34, <2>35, <2>36, <2>37, <2>38
    DEF Next, RequestStep, DispatchStep, EnqueueStep, HandlerStep, ReconcileStep,
        Environment
<1>3. Inv => EnqueuedUnlessRaced
  OBVIOUS
<1>4. QED
  BY <1>1, <1>2, <1>3, Typing, PTL DEF Spec

(***************************************************************************)
(* A build is published at most as often as it was sent. The argument      *)
(* counts: a dispatch makes one process hold the build, the process turns  *)
(* into a callback, whoever consumes the callback becomes a holder, and    *)
(* publishing ends the holding. What is held, recalled or published never  *)
(* exceeds what was dispatched; expiry, failures and restarts only lose.   *)
(***************************************************************************)
Holds(p, b) == pc[p] \in Accounting \cup {"complete"} /\ task[p] = b
Holders(b)  == {p \in Procs : Holds(p, b)}
Recalled(b) ==
  \/ callback[b] # NoNode
  \/ \E h \in Handlers : pc[h] = "consumeDelete" /\ task[h] = b /\ node[h] # NoNode
Recall(b) == IF Recalled(b) THEN 1 ELSE 0

Counted == \A b \in Builds : published[b] + Cardinality(Holders(b)) + Recall(b) <= dispatched[b]

\* There are finitely many holders.
LEMMA HoldersFinite ==
  ASSUME NEW b
  PROVE  IsFiniteSet(Holders(b)) /\ Cardinality(Holders(b)) \in Nat
<1>1. IsFiniteSet(Builds \cup Handlers \cup {Reconciler})
  BY BuildDispatchAssumption, FS_Union, FS_Singleton
<1>2. IsFiniteSet(Holders(b))
  BY <1>1, FS_Subset DEF Holders, Procs
<1>3. QED
  BY <1>2, FS_CardinalityType

\* So there are after a step.
LEMMA HoldersFiniteNext ==
  ASSUME NEW b
  PROVE  IsFiniteSet(Holders(b)') /\ Cardinality(Holders(b)') \in Nat
<1>1. IsFiniteSet(Builds \cup Handlers \cup {Reconciler})
  BY BuildDispatchAssumption, FS_Union, FS_Singleton
<1>2. Holders(b)' \subseteq Builds \cup Handlers \cup {Reconciler}
  BY DEF Holders, Procs
<1>3. QED
  BY <1>1, <1>2, FS_Subset, FS_CardinalityType

\* The count of a build when no process, or one, becomes a holder of it, and when
\* one ceases to be.
LEMMA HoldersKept ==
  ASSUME NEW b, Holders(b)' \subseteq Holders(b)
  PROVE  Cardinality(Holders(b)') <= Cardinality(Holders(b)) + 0
<1>1. Cardinality(Holders(b)') <= Cardinality(Holders(b))
  BY HoldersFinite, FS_Subset
<1>2. QED
  BY <1>1, HoldersFinite, HoldersFiniteNext

LEMMA HoldersMore ==
  ASSUME NEW b, NEW p, Holders(b)' \subseteq Holders(b) \cup {p}
  PROVE  Cardinality(Holders(b)') <= Cardinality(Holders(b)) + 1
<1> DEFINE H == Holders(b)
           After == Holders(b)'
<1>1. /\ IsFiniteSet(H) /\ Cardinality(H) \in Nat /\ Cardinality(After) \in Nat
      /\ After \subseteq H \cup {p}
  BY HoldersFinite, HoldersFiniteNext
<1> HIDE DEF H, After
<1>2. /\ IsFiniteSet(H \cup {p})
      /\ Cardinality(H \cup {p}) = IF p \in H THEN Cardinality(H) ELSE Cardinality(H) + 1
  BY <1>1, FS_AddElement
<1>3. Cardinality(After) <= Cardinality(H \cup {p})
  BY <1>1, <1>2, FS_Subset
<1>4. Cardinality(After) <= Cardinality(H) + 1
  BY <1>1, <1>2, <1>3
<1>5. QED
  BY <1>4 DEF H, After

LEMMA HoldersLess ==
  ASSUME NEW b, NEW p, p \in Holders(b), Holders(b)' \subseteq Holders(b) \ {p}
  PROVE  Cardinality(Holders(b)') <= Cardinality(Holders(b)) + (-1)
<1> DEFINE H == Holders(b)
           After == Holders(b)'
<1>1. /\ IsFiniteSet(H) /\ Cardinality(H) \in Nat /\ Cardinality(After) \in Nat
      /\ p \in H /\ After \subseteq H \ {p}
  BY HoldersFinite, HoldersFiniteNext
<1> HIDE DEF H, After
<1>2. /\ IsFiniteSet(H \ {p})
      /\ Cardinality(H \ {p}) = Cardinality(H) - 1
  BY <1>1, FS_RemoveElement
<1>3. Cardinality(After) <= Cardinality(H \ {p})
  BY <1>1, <1>2, FS_Subset
<1>4. Cardinality(After) <= Cardinality(H) + (-1)
  BY <1>1, <1>2, <1>3
<1>5. QED
  BY <1>4 DEF H, After

\* The sum for a build: what its parts gain is no more than what was dispatched.
LEMMA CountSum ==
  ASSUME TypeOK, Counted, NEW b \in Builds,
         published'[b] \in Nat, dispatched'[b] \in Nat,
         NEW held \in {-1, 0, 1}, NEW recall \in {-1, 0, 1}, NEW issued \in {0, 1}, NEW more \in {0, 1},
         Cardinality(Holders(b)') <= Cardinality(Holders(b)) + held,
         Recall(b)' <= Recall(b) + recall,
         published'[b] <= published[b] + issued,
         dispatched'[b] = dispatched[b] + more,
         held + recall + issued <= more
  PROVE  (published[b] + Cardinality(Holders(b)) + Recall(b) <= dispatched[b])'
<1>1. published[b] \in Nat /\ dispatched[b] \in Nat
  BY DEF TypeOK, HistoryTypeOK
<1>2. Cardinality(Holders(b)) \in Nat /\ Cardinality(Holders(b)') \in Nat
  BY HoldersFinite, HoldersFiniteNext
<1>3. Recall(b) \in {0, 1} /\ Recall(b)' \in {0, 1}
  BY DEF Recall
<1>4. published[b] + Cardinality(Holders(b)) + Recall(b) <= dispatched[b]
  BY DEF Counted
<1> DEFINE before1 == Cardinality(Holders(b))
           after1  == Cardinality(Holders(b)')
           before2 == Recall(b)
           after2  == Recall(b)'
<1>5. /\ before1 \in Nat /\ after1 \in Nat /\ before2 \in Nat /\ after2 \in Nat
      /\ after1 <= before1 + held /\ after2 <= before2 + recall
      /\ published[b] + before1 + before2 <= dispatched[b]
  BY <1>2, <1>3, <1>4
<1> HIDE DEF before1, after1, before2, after2
<1>6. published'[b] + after1 + after2 <= dispatched'[b]
  BY <1>1, <1>5
<1>7. QED
  BY <1>6 DEF after1, after2

\* A step that adds no holder, recalls nothing and publishes nothing.
LEMMA CountKept ==
  ASSUME TypeOK, Counted, UNCHANGED <<published, dispatched>>,
         \A b \in Builds : /\ \A p \in Procs : Holds(p, b)' => Holds(p, b)
                           /\ Recalled(b)' => Recalled(b)
  PROVE  Counted'
<1>1. ASSUME NEW b \in Builds
      PROVE  (published[b] + Cardinality(Holders(b)) + Recall(b) <= dispatched[b])'
  <2>1. published[b] \in Nat /\ dispatched[b] \in Nat
    BY DEF TypeOK, HistoryTypeOK
  <2>2. Cardinality(Holders(b)') <= Cardinality(Holders(b)) + 0
    <3>1. Holders(b)' \subseteq Holders(b)
      BY DEF Holders
    <3>2. QED
      BY <3>1, HoldersKept
  <2>3. Recall(b)' <= Recall(b) + 0
    BY DEF Recall
  <2>4. QED
    BY <2>1, <2>2, <2>3, CountSum
<1>2. QED
  BY <1>1 DEF Counted

\* Published builds were dispatched, one dispatch for each publication.
THEOREM PublishedDispatched == Spec => []PublishedAtMostDispatched
<1> USE BuildDispatchAssumption
<1>1. Init => Counted
  <2> SUFFICES ASSUME Init, NEW b \in Builds
               PROVE  published[b] + Cardinality(Holders(b)) + Recall(b) <= dispatched[b]
    BY DEF Counted
  <2>1. Holders(b) = {}
    BY DEF Init, Holders, Holds, Accounting
  <2>2. Recall(b) = 0
    BY DEF Init, Recall, Recalled, Procs
  <2>3. QED
    BY <2>1, <2>2, FS_EmptySet DEF Init
<1>2. Typed /\ ConsumeIsExclusive /\ Counted /\ [Next]_vars => Counted'
  <2> SUFFICES ASSUME Typed, ConsumeIsExclusive, Counted, [Next]_vars
               PROVE  Counted'
    OBVIOUS
  <2> USE DEF Typed, TypeOK, StoreTypeOK, LocalTypeOK, HistoryTypeOK, Labelled, NeedsBuild,
              NeedsNode, Holds, At, Become, Goto, ReadCount, ReadList,
              Return, Throw, Own, Procs, kvVars, envVars, histVars, locals, Accounting
  <2>1. ASSUME NEW b \in Builds, FindBuildNode(b)
        PROVE  Counted'
    <3>1. ASSUME NEW x \in Builds, NEW q \in Procs, Holds(q, x)'
          PROVE  Holds(q, x)
      BY <2>1, <3>1 DEF FindBuildNode
    <3>2. ASSUME NEW x \in Builds, Recalled(x)'
          PROVE  Recalled(x)
      BY <2>1, <3>2 DEF FindBuildNode, Recalled
    <3>3. UNCHANGED <<published, dispatched>>
      BY <2>1 DEF FindBuildNode
    <3>4. QED
      BY <3>1, <3>2, <3>3, CountKept
  <2>2. ASSUME NEW p \in Procs, ReadSlots(p)
        PROVE  Counted'
    <3>1. ASSUME NEW x \in Builds, NEW q \in Procs, Holds(q, x)'
          PROVE  Holds(q, x)
      BY <2>2, <3>1 DEF ReadSlots
    <3>2. ASSUME NEW x \in Builds, Recalled(x)'
          PROVE  Recalled(x)
      BY <2>2, <3>2 DEF ReadSlots, Recalled
    <3>3. UNCHANGED <<published, dispatched>>
      BY <2>2 DEF ReadSlots
    <3>4. QED
      BY <3>1, <3>2, <3>3, CountKept
  <2>3. ASSUME NEW p \in Procs, Dispatch(p)
        PROVE  Counted'
    <3>0. pc[p] = "dispatch" /\ task[p] \in Builds /\ UNCHANGED <<published, callback>>
      BY <2>3 DEF Dispatch
    <3>1. CASE Refuse(p) /\ UNCHANGED dispatched
      <4>1. /\ pc'[p] \in {"enqueueItem", "done", "idle"}
            /\ \A q \in Procs \ {p} : pc'[q] = pc[q] /\ task'[q] = task[q] /\ node'[q] = node[q]
        BY <3>1 DEF Refuse
      <4>2. ASSUME NEW x \in Builds, NEW q \in Procs, Holds(q, x)'
            PROVE  Holds(q, x)
        BY <4>1, <4>2
      <4>3. ASSUME NEW x \in Builds, Recalled(x)'
            PROVE  Recalled(x)
        BY <3>0, <4>1, <4>3 DEF Recalled
      <4>4. QED
        BY <3>0, <3>1, <4>2, <4>3, CountKept
    <3>2. CASE dispatched' = [dispatched EXCEPT ![task[p]] = @ + 1] /\ Goto(p, "incGet")
      <4>1. /\ pc'[p] = "incGet" /\ task'[p] = task[p]
            /\ \A q \in Procs \ {p} : pc'[q] = pc[q] /\ task'[q] = task[q] /\ node'[q] = node[q]
        BY <3>2
      <4>2. ASSUME NEW x \in Builds
            PROVE  Recall(x)' <= Recall(x) + 0
        <5>1. Recalled(x)' => Recalled(x)
          BY <3>0, <4>1 DEF Recalled
        <5>2. QED
          BY <5>1 DEF Recall
      <4>3. ASSUME NEW b \in Builds, b = task[p]
            PROVE  (published[b] + Cardinality(Holders(b)) + Recall(b) <= dispatched[b])'
        <5>1. Holders(b)' \subseteq Holders(b) \cup {p}
          BY <4>1 DEF Holders
        <5>2. Cardinality(Holders(b)') <= Cardinality(Holders(b)) + 1
          BY <5>1, HoldersMore
        <5>3. /\ published[b] \in Nat /\ dispatched[b] \in Nat
              /\ dispatched'[b] = dispatched[b] + 1 /\ dispatched'[b] \in Nat
          BY <3>2, <4>3
        <5>4. QED
          BY <3>0, <4>2, <5>2, <5>3, CountSum
      <4>4. ASSUME NEW x \in Builds, x # task[p]
            PROVE  (published[x] + Cardinality(Holders(x)) + Recall(x) <= dispatched[x])'
        <5>1. Holders(x)' \subseteq Holders(x)
          BY <4>1, <4>4 DEF Holders
        <5>2. Cardinality(Holders(x)') <= Cardinality(Holders(x)) + 0
          BY <5>1, HoldersKept
        <5>3. published[x] \in Nat /\ dispatched[x] \in Nat /\ dispatched'[x] = dispatched[x]
          BY <3>2, <4>4
        <5>4. QED
          BY SMTT(30), <3>0, <4>2, <5>2, <5>3, CountSum
      <4>5. QED
        BY <4>3, <4>4 DEF Counted
    <3>3. QED
      BY <2>3, <3>1, <3>2 DEF Dispatch
  <2>4. ASSUME NEW p \in Procs, IncrementGet(p)
        PROVE  Counted'
    <3>1. ASSUME NEW x \in Builds, NEW q \in Procs, Holds(q, x)'
          PROVE  Holds(q, x)
      BY <2>4, <3>1 DEF IncrementGet
    <3>2. ASSUME NEW x \in Builds, Recalled(x)'
          PROVE  Recalled(x)
      BY <2>4, <3>2 DEF IncrementGet, Recalled
    <3>3. UNCHANGED <<published, dispatched>>
      BY <2>4 DEF IncrementGet
    <3>4. QED
      BY <3>1, <3>2, <3>3, CountKept
  <2>5. ASSUME NEW p \in Procs, IncrementPut(p)
        PROVE  Counted'
    <3>1. ASSUME NEW x \in Builds, NEW q \in Procs, Holds(q, x)'
          PROVE  Holds(q, x)
      BY <2>5, <3>1 DEF IncrementPut
    <3>2. ASSUME NEW x \in Builds, Recalled(x)'
          PROVE  Recalled(x)
      BY <2>5, <3>2 DEF IncrementPut, Recalled
    <3>3. UNCHANGED <<published, dispatched>>
      BY <2>5 DEF IncrementPut
    <3>4. QED
      BY <3>1, <3>2, <3>3, CountKept
  <2>6. ASSUME NEW p \in Procs, TrackGet(p)
        PROVE  Counted'
    <3>1. ASSUME NEW x \in Builds, NEW q \in Procs, Holds(q, x)'
          PROVE  Holds(q, x)
      BY <2>6, <3>1 DEF TrackGet
    <3>2. ASSUME NEW x \in Builds, Recalled(x)'
          PROVE  Recalled(x)
      BY <2>6, <3>2 DEF TrackGet, Recalled
    <3>3. UNCHANGED <<published, dispatched>>
      BY <2>6 DEF TrackGet
    <3>4. QED
      BY <3>1, <3>2, <3>3, CountKept
  <2>7. ASSUME NEW p \in Procs, TrackPut(p)
        PROVE  Counted'
    <3>1. ASSUME NEW x \in Builds, NEW q \in Procs, Holds(q, x)'
          PROVE  Holds(q, x)
      BY <2>7, <3>1 DEF TrackPut
    <3>2. ASSUME NEW x \in Builds, Recalled(x)'
          PROVE  Recalled(x)
      BY <2>7, <3>2 DEF TrackPut, Recalled
    <3>3. UNCHANGED <<published, dispatched>>
      BY <2>7 DEF TrackPut
    <3>4. QED
      BY <3>1, <3>2, <3>3, CountKept
  <2>8. ASSUME NEW p \in Procs, DequeueItem(p)
        PROVE  Counted'
    <3>1. ASSUME NEW x \in Builds, NEW q \in Procs, Holds(q, x)'
          PROVE  Holds(q, x)
      BY <2>8, <3>1 DEF DequeueItem, Without
    <3>2. ASSUME NEW x \in Builds, Recalled(x)'
          PROVE  Recalled(x)
      BY <2>8, <3>2 DEF DequeueItem, Without, Recalled
    <3>3. UNCHANGED <<published, dispatched>>
      BY <2>8 DEF DequeueItem, Without
    <3>4. QED
      BY <3>1, <3>2, <3>3, CountKept
  <2>9. ASSUME NEW p \in Procs, DequeueGet(p)
        PROVE  Counted'
    <3>1. ASSUME NEW x \in Builds, NEW q \in Procs, Holds(q, x)'
          PROVE  Holds(q, x)
      BY <2>9, <3>1 DEF DequeueGet
    <3>2. ASSUME NEW x \in Builds, Recalled(x)'
          PROVE  Recalled(x)
      BY <2>9, <3>2 DEF DequeueGet, Recalled
    <3>3. UNCHANGED <<published, dispatched>>
      BY <2>9 DEF DequeueGet
    <3>4. QED
      BY <3>1, <3>2, <3>3, CountKept
  <2>10. ASSUME NEW p \in Procs, DequeuePut(p)
         PROVE  Counted'
    <3>1. ASSUME NEW x \in Builds, NEW q \in Procs, Holds(q, x)'
          PROVE  Holds(q, x)
      BY <2>10, <3>1 DEF DequeuePut
    <3>2. ASSUME NEW x \in Builds, Recalled(x)'
          PROVE  Recalled(x)
      BY <2>10, <3>2 DEF DequeuePut, Recalled
    <3>3. UNCHANGED <<published, dispatched>>
      BY <2>10 DEF DequeuePut
    <3>4. QED
      BY <3>1, <3>2, <3>3, CountKept
  <2>11. ASSUME NEW p \in Procs, SaveCallback(p)
         PROVE  Counted'
    <3>0. pc[p] = "saveCallback" /\ task[p] \in Builds /\ UNCHANGED <<published, dispatched>>
      BY <2>11 DEF SaveCallback
    <3>1. ASSUME NEW b \in Builds, b = task[p]
          PROVE  (published[b] + Cardinality(Holders(b)) + Recall(b) <= dispatched[b])'
      <4>1. p \in Holders(b) /\ Holders(b)' \subseteq Holders(b) \ {p}
        BY <2>11, <3>0, <3>1 DEF SaveCallback, Holders
      <4>2. Cardinality(Holders(b)') <= Cardinality(Holders(b)) + (-1)
        BY <4>1, HoldersLess
      <4>3. Recall(b)' <= Recall(b) + 1
        BY DEF Recall
      <4>4. published[b] \in Nat /\ dispatched[b] \in Nat
        OBVIOUS
      <4>5. QED
        BY <3>0, <4>2, <4>3, <4>4, CountSum
    <3>9. ASSUME NEW x \in Builds, x # task[p]
          PROVE  (published[x] + Cardinality(Holders(x)) + Recall(x) <= dispatched[x])'
      <4>1. Holders(x)' \subseteq Holders(x)
        BY <2>11, <3>9, <3>0 DEF Holders, SaveCallback
      <4>2. Recalled(x)' => Recalled(x)
        BY <2>11, <3>9, <3>0 DEF Recalled, SaveCallback
      <4>3. published'[x] = published[x] /\ dispatched'[x] = dispatched[x]
        BY <2>11, <3>9, <3>0 DEF SaveCallback
      <4>4. Cardinality(Holders(x)') <= Cardinality(Holders(x)) + 0
        BY <4>1, HoldersKept
      <4>5. Recall(x)' <= Recall(x) + 0
        BY <4>2 DEF Recall
      <4>6. published[x] \in Nat /\ dispatched[x] \in Nat
        OBVIOUS
      <4>7. QED
        BY SMTT(30), <4>3, <4>4, <4>5, <4>6, CountSum
    <3>10. QED
      BY <3>1, <3>9 DEF Counted
  <2>12. ASSUME NEW p \in Builds \cup {Reconciler}, EnqueueItem(p)
         PROVE  Counted'
    <3>1. ASSUME NEW x \in Builds, NEW q \in Procs, Holds(q, x)'
          PROVE  Holds(q, x)
      BY <2>12, <3>1 DEF EnqueueItem, Without
    <3>2. ASSUME NEW x \in Builds, Recalled(x)'
          PROVE  Recalled(x)
      BY <2>12, <3>2 DEF EnqueueItem, Without, Recalled
    <3>3. UNCHANGED <<published, dispatched>>
      BY <2>12 DEF EnqueueItem, Without
    <3>4. QED
      BY <3>1, <3>2, <3>3, CountKept
  <2>13. ASSUME NEW p \in Procs, EnqueueGet(p)
         PROVE  Counted'
    <3>1. ASSUME NEW x \in Builds, NEW q \in Procs, Holds(q, x)'
          PROVE  Holds(q, x)
      BY <2>13, <3>1 DEF EnqueueGet
    <3>2. ASSUME NEW x \in Builds, Recalled(x)'
          PROVE  Recalled(x)
      BY <2>13, <3>2 DEF EnqueueGet, Recalled
    <3>3. UNCHANGED <<published, dispatched>>
      BY <2>13 DEF EnqueueGet
    <3>4. QED
      BY <3>1, <3>2, <3>3, CountKept
  <2>14. ASSUME NEW p \in Procs, EnqueuePut(p)
         PROVE  Counted'
    <3>1. ASSUME NEW x \in Builds, NEW q \in Procs, Holds(q, x)'
          PROVE  Holds(q, x)
      BY <2>14, <3>1 DEF EnqueuePut
    <3>2. ASSUME NEW x \in Builds, Recalled(x)'
          PROVE  Recalled(x)
      BY <2>14, <3>2 DEF EnqueuePut, Recalled
    <3>3. UNCHANGED <<published, dispatched>>
      BY <2>14 DEF EnqueuePut
    <3>4. QED
      BY <3>1, <3>2, <3>3, CountKept
  <2>15. ASSUME NEW h \in Handlers, ConsumeGet(h)
         PROVE  Counted'
    <3>1. ASSUME NEW x \in Builds, NEW q \in Procs, Holds(q, x)'
          PROVE  Holds(q, x)
      BY <2>15, <3>1 DEF ConsumeGet
    <3>2. ASSUME NEW x \in Builds, Recalled(x)'
          PROVE  Recalled(x)
      BY <2>15, <3>2 DEF ConsumeGet, Recalled
    <3>3. UNCHANGED <<published, dispatched>>
      BY <2>15 DEF ConsumeGet
    <3>4. QED
      BY <3>1, <3>2, <3>3, CountKept
  <2>16. ASSUME NEW h \in Handlers, ConsumeDelete(h)
         PROVE  Counted'
    <3>0. pc[h] = "consumeDelete" /\ task[h] \in Builds /\ UNCHANGED <<published, dispatched>>
      BY <2>16 DEF ConsumeDelete
    <3>1. CASE node[h] = NoNode
      <4>1. ASSUME NEW x \in Builds, NEW q \in Procs, Holds(q, x)'
            PROVE  Holds(q, x)
        BY <2>16, <3>1, <4>1 DEF ConsumeDelete
      <4>2. ASSUME NEW x \in Builds, Recalled(x)'
            PROVE  Recalled(x)
        BY <2>16, <3>1, <4>2 DEF ConsumeDelete, Recalled
      <4>3. UNCHANGED <<published, dispatched>>
        BY <2>16, <3>1 DEF ConsumeDelete
      <4>4. QED
        BY <4>1, <4>2, <4>3, CountKept
    <3>2. CASE node[h] # NoNode
      <4>1. ASSUME NEW b \in Builds, b = task[h]
            PROVE  (published[b] + Cardinality(Holders(b)) + Recall(b) <= dispatched[b])'
        <5>1. Holders(b)' \subseteq Holders(b) \cup {h}
          BY <2>16, <3>0, <4>1 DEF ConsumeDelete, Holders
        <5>2. Cardinality(Holders(b)') <= Cardinality(Holders(b)) + 1
          BY <5>1, HoldersMore
        <5>3. Recalled(b)
          BY <3>0, <3>2, <4>1 DEF Recalled
        <5>4. ~Recalled(b)'
          <6>1. callback'[b] = NoNode
            BY <2>16, <4>1 DEF ConsumeDelete
          <6>2. pc'[h] # "consumeDelete"
            BY <2>16, <3>0 DEF ConsumeDelete
          <6>3. ASSUME NEW o \in Handlers \ {h}
                PROVE  pc'[o] = pc[o] /\ task'[o] = task[o]
            BY <2>16 DEF ConsumeDelete
          <6>4. ASSUME NEW o \in Handlers \ {h}, pc[o] = "consumeDelete"
                PROVE  task[o] # b
            BY <6>4, <3>0, <4>1 DEF ConsumeIsExclusive, Consuming
          <6>5. QED
            BY <6>1, <6>2, <6>3, <6>4 DEF Recalled
        <5>5. Recall(b)' <= Recall(b) + (-1)
          BY <5>3, <5>4 DEF Recall
        <5>6. published[b] \in Nat /\ dispatched[b] \in Nat
          OBVIOUS
        <5>7. QED
          BY <3>0, <5>2, <5>5, <5>6, CountSum
      <4>2. ASSUME NEW x \in Builds, x # task[h]
            PROVE  (published[x] + Cardinality(Holders(x)) + Recall(x) <= dispatched[x])'
        <5>1. Holders(x)' \subseteq Holders(x)
          BY <2>16, <4>2, <3>0, <3>2 DEF Holders, ConsumeDelete
        <5>2. Recalled(x)' => Recalled(x)
          BY <2>16, <4>2, <3>0, <3>2 DEF Recalled, ConsumeDelete
        <5>3. published'[x] = published[x] /\ dispatched'[x] = dispatched[x]
          BY <2>16, <4>2, <3>0, <3>2 DEF ConsumeDelete
        <5>4. Cardinality(Holders(x)') <= Cardinality(Holders(x)) + 0
          BY <5>1, HoldersKept
        <5>5. Recall(x)' <= Recall(x) + 0
          BY <5>2 DEF Recall
        <5>6. published[x] \in Nat /\ dispatched[x] \in Nat
          OBVIOUS
        <5>7. QED
          BY <5>3, <5>4, <5>5, <5>6, CountSum
      <4>3. QED
        BY <4>1, <4>2 DEF Counted
    <3>3. QED
      BY <3>1, <3>2
  <2>17. ASSUME NEW h \in Handlers, CompleteBuild(h)
         PROVE  Counted'
    <3>0. pc[h] = "complete" /\ task[h] \in Builds /\ UNCHANGED dispatched
      BY <2>17 DEF CompleteBuild
    <3>1. ASSUME NEW b \in Builds, b = task[h]
          PROVE  (published[b] + Cardinality(Holders(b)) + Recall(b) <= dispatched[b])'
      <4>1. h \in Holders(b) /\ Holders(b)' \subseteq Holders(b) \ {h}
        BY <2>17, <3>0, <3>1 DEF CompleteBuild, Holders
      <4>2. Cardinality(Holders(b)') <= Cardinality(Holders(b)) + (-1)
        BY <4>1, HoldersLess
      <4>3. Recall(b)' <= Recall(b) + 0
        <5>1. Recalled(b)' => Recalled(b)
          BY <2>17 DEF CompleteBuild, Recalled
        <5>2. QED
          BY <5>1 DEF Recall
      <4>4. /\ published[b] \in Nat /\ dispatched[b] \in Nat /\ published'[b] \in Nat
            /\ published'[b] <= published[b] + 1
        BY <2>17, <3>0, <3>1 DEF CompleteBuild
      <4>5. QED
        BY <3>0, <4>2, <4>3, <4>4, CountSum
    <3>9. ASSUME NEW x \in Builds, x # task[h]
          PROVE  (published[x] + Cardinality(Holders(x)) + Recall(x) <= dispatched[x])'
      <4>1. Holders(x)' \subseteq Holders(x)
        BY <2>17, <3>9, <3>0 DEF Holders, CompleteBuild
      <4>2. Recalled(x)' => Recalled(x)
        BY <2>17, <3>9, <3>0 DEF Recalled, CompleteBuild
      <4>3. published'[x] = published[x] /\ dispatched'[x] = dispatched[x]
        BY <2>17, <3>9, <3>0 DEF CompleteBuild
      <4>4. Cardinality(Holders(x)') <= Cardinality(Holders(x)) + 0
        BY <4>1, HoldersKept
      <4>5. Recall(x)' <= Recall(x) + 0
        BY <4>2 DEF Recall
      <4>6. published[x] \in Nat /\ dispatched[x] \in Nat
        OBVIOUS
      <4>7. QED
        BY <4>3, <4>4, <4>5, <4>6, CountSum
    <3>10. QED
      BY <3>1, <3>9 DEF Counted
  <2>18. ASSUME NEW h \in Handlers, DecrementGet(h)
         PROVE  Counted'
    <3>1. ASSUME NEW x \in Builds, NEW q \in Procs, Holds(q, x)'
          PROVE  Holds(q, x)
      BY <2>18, <3>1 DEF DecrementGet
    <3>2. ASSUME NEW x \in Builds, Recalled(x)'
          PROVE  Recalled(x)
      BY <2>18, <3>2 DEF DecrementGet, Recalled
    <3>3. UNCHANGED <<published, dispatched>>
      BY <2>18 DEF DecrementGet
    <3>4. QED
      BY <3>1, <3>2, <3>3, CountKept
  <2>19. ASSUME NEW h \in Handlers, DecrementPut(h)
         PROVE  Counted'
    <3>1. ASSUME NEW x \in Builds, NEW q \in Procs, Holds(q, x)'
          PROVE  Holds(q, x)
      BY <2>19, <3>1 DEF DecrementPut, Decremented
    <3>2. ASSUME NEW x \in Builds, Recalled(x)'
          PROVE  Recalled(x)
      BY <2>19, <3>2 DEF DecrementPut, Decremented, Recalled
    <3>3. UNCHANGED <<published, dispatched>>
      BY <2>19 DEF DecrementPut, Decremented
    <3>4. QED
      BY <3>1, <3>2, <3>3, CountKept
  <2>20. ASSUME NEW h \in Handlers, UntrackGet(h)
         PROVE  Counted'
    <3>1. ASSUME NEW x \in Builds, NEW q \in Procs, Holds(q, x)'
          PROVE  Holds(q, x)
      BY <2>20, <3>1 DEF UntrackGet
    <3>2. ASSUME NEW x \in Builds, Recalled(x)'
          PROVE  Recalled(x)
      BY <2>20, <3>2 DEF UntrackGet, Recalled
    <3>3. UNCHANGED <<published, dispatched>>
      BY <2>20 DEF UntrackGet
    <3>4. QED
      BY <3>1, <3>2, <3>3, CountKept
  <2>21. ASSUME NEW h \in Handlers, UntrackPut(h)
         PROVE  Counted'
    <3>1. ASSUME NEW x \in Builds, NEW q \in Procs, Holds(q, x)'
          PROVE  Holds(q, x)
      BY <2>21, <3>1 DEF UntrackPut
    <3>2. ASSUME NEW x \in Builds, Recalled(x)'
          PROVE  Recalled(x)
      BY <2>21, <3>2 DEF UntrackPut, Recalled
    <3>3. UNCHANGED <<published, dispatched>>
      BY <2>21 DEF UntrackPut
    <3>4. QED
      BY <3>1, <3>2, <3>3, CountKept
  <2>22. ASSUME NEW h \in Handlers, ListIndex(h)
         PROVE  Counted'
    <3>1. ASSUME NEW x \in Builds, NEW q \in Procs, Holds(q, x)'
          PROVE  Holds(q, x)
      BY <2>22, <3>1 DEF ListIndex
    <3>2. ASSUME NEW x \in Builds, Recalled(x)'
          PROVE  Recalled(x)
      BY <2>22, <3>2 DEF ListIndex, Recalled
    <3>3. UNCHANGED <<published, dispatched>>
      BY <2>22 DEF ListIndex
    <3>4. QED
      BY <3>1, <3>2, <3>3, CountKept
  <2>23. ASSUME NEW h \in Handlers, ListItems(h)
         PROVE  Counted'
    <3>1. ASSUME NEW x \in Builds, NEW q \in Procs, Holds(q, x)'
          PROVE  Holds(q, x)
      BY <2>23, <3>1 DEF ListItems
    <3>2. ASSUME NEW x \in Builds, Recalled(x)'
          PROVE  Recalled(x)
      BY <2>23, <3>2 DEF ListItems, Recalled
    <3>3. UNCHANGED <<published, dispatched>>
      BY <2>23 DEF ListItems
    <3>4. QED
      BY <3>1, <3>2, <3>3, CountKept
  <2>24. ASSUME NEW h \in Handlers, NEW b \in Builds, ReceiveResponse(h, b)
         PROVE  Counted'
    <3>1. ASSUME NEW x \in Builds, NEW q \in Procs, Holds(q, x)'
          PROVE  Holds(q, x)
      BY <2>24, <3>1 DEF ReceiveResponse, Dispatching, Answered
    <3>2. ASSUME NEW x \in Builds, Recalled(x)'
          PROVE  Recalled(x)
      BY <2>24, <3>2 DEF ReceiveResponse, Dispatching, Answered, Recalled
    <3>3. UNCHANGED <<published, dispatched>>
      BY <2>24 DEF ReceiveResponse, Dispatching, Answered
    <3>4. QED
      BY <3>1, <3>2, <3>3, CountKept
  <2>25. ASSUME NEW b \in Builds, DropResponse(b)
         PROVE  Counted'
    <3>1. ASSUME NEW x \in Builds, NEW q \in Procs, Holds(q, x)'
          PROVE  Holds(q, x)
      BY <2>25, <3>1 DEF DropResponse, Dispatching, Answered
    <3>2. ASSUME NEW x \in Builds, Recalled(x)'
          PROVE  Recalled(x)
      BY <2>25, <3>2 DEF DropResponse, Dispatching, Answered, Recalled
    <3>3. UNCHANGED <<published, dispatched>>
      BY <2>25 DEF DropResponse, Dispatching, Answered
    <3>4. QED
      BY <3>1, <3>2, <3>3, CountKept
  <2>26. ASSUME ReconcileStart
         PROVE  Counted'
    <3>1. ASSUME NEW x \in Builds, NEW q \in Procs, Holds(q, x)'
          PROVE  Holds(q, x)
      BY <2>26, <3>1 DEF ReconcileStart
    <3>2. ASSUME NEW x \in Builds, Recalled(x)'
          PROVE  Recalled(x)
      BY <2>26, <3>2 DEF ReconcileStart, Recalled
    <3>3. UNCHANGED <<published, dispatched>>
      BY <2>26 DEF ReconcileStart
    <3>4. QED
      BY <3>1, <3>2, <3>3, CountKept
  <2>27. ASSUME ReconcileNode
         PROVE  Counted'
    <3>1. ASSUME NEW x \in Builds, NEW q \in Procs, Holds(q, x)'
          PROVE  Holds(q, x)
      BY ZenonT(40), <2>27, <3>1 DEF ReconcileNode
    <3>2. ASSUME NEW x \in Builds, Recalled(x)'
          PROVE  Recalled(x)
      BY ZenonT(40), <2>27, <3>2 DEF ReconcileNode, Recalled
    <3>3. UNCHANGED <<published, dispatched>>
      BY <2>27 DEF ReconcileNode
    <3>4. QED
      BY <3>1, <3>2, <3>3, CountKept
  <2>28. ASSUME ReconcileEntry
         PROVE  Counted'
    <3>1. ASSUME NEW x \in Builds, NEW q \in Procs, Holds(q, x)'
          PROVE  Holds(q, x)
      BY <2>28, <3>1 DEF ReconcileEntry
    <3>2. ASSUME NEW x \in Builds, Recalled(x)'
          PROVE  Recalled(x)
      BY <2>28, <3>2 DEF ReconcileEntry, Recalled
    <3>3. UNCHANGED <<published, dispatched>>
      BY <2>28 DEF ReconcileEntry
    <3>4. QED
      BY <3>1, <3>2, <3>3, CountKept
  <2>29. ASSUME ClearInFlight
         PROVE  Counted'
    <3>1. ASSUME NEW x \in Builds, NEW q \in Procs, Holds(q, x)'
          PROVE  Holds(q, x)
      BY <2>29, <3>1 DEF ClearInFlight
    <3>2. ASSUME NEW x \in Builds, Recalled(x)'
          PROVE  Recalled(x)
      BY <2>29, <3>2 DEF ClearInFlight, Recalled
    <3>3. UNCHANGED <<published, dispatched>>
      BY <2>29 DEF ClearInFlight
    <3>4. QED
      BY <3>1, <3>2, <3>3, CountKept
  <2>30. ASSUME ClearSlots
         PROVE  Counted'
    <3>1. ASSUME NEW x \in Builds, NEW q \in Procs, Holds(q, x)'
          PROVE  Holds(q, x)
      BY <2>30, <3>1 DEF ClearSlots
    <3>2. ASSUME NEW x \in Builds, Recalled(x)'
          PROVE  Recalled(x)
      BY <2>30, <3>2 DEF ClearSlots, Recalled
    <3>3. UNCHANGED <<published, dispatched>>
      BY <2>30 DEF ClearSlots
    <3>4. QED
      BY <3>1, <3>2, <3>3, CountKept
  <2>31. ASSUME ExpirePayload
         PROVE  Counted'
    <3>1. ASSUME NEW x \in Builds, NEW q \in Procs, Holds(q, x)'
          PROVE  Holds(q, x)
      BY <2>31, <3>1 DEF ExpirePayload
    <3>2. ASSUME NEW x \in Builds, Recalled(x)'
          PROVE  Recalled(x)
      BY <2>31, <3>2 DEF ExpirePayload, Recalled
    <3>3. UNCHANGED <<published, dispatched>>
      BY <2>31 DEF ExpirePayload
    <3>4. QED
      BY <3>1, <3>2, <3>3, CountKept
  <2>32. ASSUME Restart
         PROVE  Counted'
    <3>1. ASSUME NEW x \in Builds, NEW q \in Procs, Holds(q, x)'
          PROVE  Holds(q, x)
      BY <2>32, <3>1 DEF Restart
    <3>2. ASSUME NEW x \in Builds, Recalled(x)'
          PROVE  Recalled(x)
      BY <2>32, <3>2 DEF Restart, Recalled
    <3>3. UNCHANGED <<published, dispatched>>
      BY <2>32 DEF Restart
    <3>4. QED
      BY <3>1, <3>2, <3>3, CountKept
  <2>33. ASSUME NEW n \in BuildNodes, NodeDisconnect(n)
         PROVE  Counted'
    <3>1. ASSUME NEW x \in Builds, NEW q \in Procs, Holds(q, x)'
          PROVE  Holds(q, x)
      BY <2>33, <3>1 DEF NodeDisconnect
    <3>2. ASSUME NEW x \in Builds, Recalled(x)'
          PROVE  Recalled(x)
      BY <2>33, <3>2 DEF NodeDisconnect, Recalled
    <3>3. UNCHANGED <<published, dispatched>>
      BY <2>33 DEF NodeDisconnect
    <3>4. QED
      BY <3>1, <3>2, <3>3, CountKept
  <2>34. ASSUME NEW n \in BuildNodes, NodeConnect(n)
         PROVE  Counted'
    <3>1. ASSUME NEW x \in Builds, NEW q \in Procs, Holds(q, x)'
          PROVE  Holds(q, x)
      BY <2>34, <3>1 DEF NodeConnect
    <3>2. ASSUME NEW x \in Builds, Recalled(x)'
          PROVE  Recalled(x)
      BY <2>34, <3>2 DEF NodeConnect, Recalled
    <3>3. UNCHANGED <<published, dispatched>>
      BY <2>34 DEF NodeConnect
    <3>4. QED
      BY <3>1, <3>2, <3>3, CountKept
  <2>35. ASSUME NEW n \in BuildNodes, SetStatus(n)
         PROVE  Counted'
    <3>1. ASSUME NEW x \in Builds, NEW q \in Procs, Holds(q, x)'
          PROVE  Holds(q, x)
      BY <2>35, <3>1 DEF SetStatus
    <3>2. ASSUME NEW x \in Builds, Recalled(x)'
          PROVE  Recalled(x)
      BY <2>35, <3>2 DEF SetStatus, Recalled
    <3>3. UNCHANGED <<published, dispatched>>
      BY <2>35 DEF SetStatus
    <3>4. QED
      BY <3>1, <3>2, <3>3, CountKept
  <2>36. ASSUME NEW n \in BuildNodes, ExpireAccounting(n)
         PROVE  Counted'
    <3>1. ASSUME NEW x \in Builds, NEW q \in Procs, Holds(q, x)'
          PROVE  Holds(q, x)
      BY <2>36, <3>1 DEF ExpireAccounting
    <3>2. ASSUME NEW x \in Builds, Recalled(x)'
          PROVE  Recalled(x)
      BY <2>36, <3>2 DEF ExpireAccounting, Recalled
    <3>3. UNCHANGED <<published, dispatched>>
      BY <2>36 DEF ExpireAccounting
    <3>4. QED
      BY <3>1, <3>2, <3>3, CountKept
  <2>37. ASSUME NEW p \in Procs, StoreFails(p)
         PROVE  Counted'
    <3>1. ASSUME NEW x \in Builds, NEW q \in Procs, Holds(q, x)'
          PROVE  Holds(q, x)
      BY <2>37, <3>1 DEF StoreFails
    <3>2. ASSUME NEW x \in Builds, Recalled(x)'
          PROVE  Recalled(x)
      BY <2>37, <3>2 DEF StoreFails, Recalled
    <3>3. UNCHANGED <<published, dispatched>>
      BY <2>37 DEF StoreFails
    <3>4. QED
      BY <3>1, <3>2, <3>3, CountKept
  <2>38. CASE UNCHANGED vars
    <3>1. ASSUME NEW x \in Builds, NEW q \in Procs, Holds(q, x)'
          PROVE  Holds(q, x)
      BY <2>38, <3>1 DEF vars
    <3>2. ASSUME NEW x \in Builds, Recalled(x)'
          PROVE  Recalled(x)
      BY <2>38, <3>2 DEF vars, Recalled
    <3>3. UNCHANGED <<published, dispatched>>
      BY <2>38 DEF vars
    <3>4. QED
      BY <3>1, <3>2, <3>3, CountKept
  <2>39. QED
    BY <2>1, <2>2, <2>3, <2>4, <2>5, <2>6, <2>7, <2>8, <2>9, <2>10, <2>11,
       <2>12, <2>13, <2>14, <2>15, <2>16, <2>17, <2>18, <2>19, <2>20, <2>21,
       <2>22, <2>23, <2>24, <2>25, <2>26, <2>27, <2>28, <2>29, <2>30, <2>31,
       <2>32, <2>33, <2>34, <2>35, <2>36, <2>37, <2>38
    DEF Next, RequestStep, DispatchStep, EnqueueStep, HandlerStep, ReconcileStep,
        Environment
<1>3. Typed /\ Counted => PublishedAtMostDispatched
  <2> SUFFICES ASSUME Typed, Counted, NEW b \in Builds
               PROVE  published[b] <= dispatched[b]
    BY DEF PublishedAtMostDispatched
  <2>1. published[b] \in Nat /\ dispatched[b] \in Nat
    BY DEF Typed, TypeOK, HistoryTypeOK
  <2>2. Cardinality(Holders(b)) \in Nat /\ Recall(b) \in Nat
    BY HoldersFinite DEF Recall
  <2>3. published[b] + Cardinality(Holders(b)) + Recall(b) <= dispatched[b]
    BY DEF Counted
  <2>4. QED
    BY <2>1, <2>2, <2>3
<1>4. QED
  BY <1>1, <1>2, <1>3, Typing, ConsumeExclusive, PTL DEF Spec

============================================================================
