------------------------- MODULE InstancePoolProofs -------------------------
(***************************************************************************)
(* Theorems about InstancePool, for any instances, clusters, plans and     *)
(* number of overlapping calls.                                            *)
(***************************************************************************)
EXTENDS InstancePool, TLAPS

\* The steps at which a call works on a cluster, on an instance, and at which a
\* drain has a victim.
WithCluster  == AllocationLabels \cup {"find", "evict"}
WithInstance == {"assign", "insert", "token", "insertDedicated", "tokenDedicated"}
WithVictim   == AllocationLabels \cup {"evict", "migrate", "destroy", "forget"}

CallsHold ==
  /\ pc \in [Procs -> Labels]
  /\ at \in [Procs -> Clusters \cup {NoCluster}]
  /\ inst \in [Procs -> Instances \cup {NoInstance}]
  /\ victim \in [Drains -> Instances \cup {NoInstance}]
  /\ \A p \in Procs :
       /\ pc[p] \in WithCluster => at[p] \in Clusters
       /\ pc[p] \in WithInstance => inst[p] \in Instances
       /\ p \in Drains /\ pc[p] \in WithVictim => victim[p] \in Instances

\* A step that moves one call and changes none of the victims.
LEMMA AllocateHolds ==
  ASSUME CallsHold, NEW p \in Procs, NEW label \in Labels,
         NEW c \in Clusters \cup {NoCluster}, NEW i \in Instances \cup {NoInstance},
         Allocate(p, label, c, i), victim' = victim,
         label \in WithCluster => c \in Clusters,
         label \in WithInstance => i \in Instances,
         p \in Drains /\ label \in WithVictim => victim[p] \in Instances
  PROVE  CallsHold'
  BY DEF CallsHold, Allocate, Goto

\* A step that moves one call, which keeps what it holds.
LEMMA GotoHolds ==
  ASSUME CallsHold, NEW p \in Procs, NEW label \in Labels,
         Goto(p, label), UNCHANGED <<at, inst, victim>>,
         label \in WithCluster => at[p] \in Clusters,
         label \in WithInstance => inst[p] \in Instances,
         p \in Drains /\ label \in WithVictim => victim[p] \in Instances
  PROVE  CallsHold'
  BY DEF CallsHold, Goto

\* An allocation returns to the loop that called it.
LEMMA ReturnHolds ==
  ASSUME CallsHold, NEW p \in Procs,
         pc[p] \in AllocationLabels \/ p \notin Drains,
         Allocate(p, Onward(p), NoCluster, NoInstance), victim' = victim
  PROVE  CallsHold'
<1> USE InstancePoolAssumption
<1>1. Onward(p) \in {"next", "migrate", "done"} /\ (Onward(p) = "migrate" => p \in Drains)
  BY DEF Onward
<1>2. Onward(p) \in Labels
  BY <1>1 DEF Labels
<1>3. Onward(p) \notin WithCluster
  BY <1>1 DEF AllocationLabels, WithCluster
<1>4. Onward(p) = "migrate" => victim[p] \in Instances
  BY <1>1 DEF CallsHold, WithVictim
<1>5. Onward(p) \in {"evict", "destroy", "forget"} => FALSE
  BY <1>1
<1>6. Onward(p) \in WithInstance => FALSE
  BY <1>1 DEF WithInstance
<1>7. QED
  BY <1>1, <1>2, <1>3, <1>4, <1>5, <1>6, AllocateHolds DEF AllocationLabels, WithVictim

Typed == TypeOK /\ CallsHold

(***************************************************************************)
(* A step keeps what the calls hold.                                       *)
(***************************************************************************)
LEMMA HoldStep ==
  ASSUME TypeOK, CallsHold, [Next]_vars
  PROVE  CallsHold'
<1> USE InstancePoolAssumption
<1>1. ASSUME NEW p \in Procs, BeginAllocation(p)
        PROVE  CallsHold'
    <2>1. CASE Plan[at[p]] = "pro"
      BY <1>1, <2>1, GotoHolds
      DEF BeginAllocation, Labels, AllocationLabels, WithCluster, WithInstance,
          WithVictim, CallsHold, drainVars
    <2>2. CASE ~(Plan[at[p]] = "pro")
      BY <1>1, <2>2, GotoHolds
      DEF BeginAllocation, Labels, AllocationLabels, WithCluster, WithInstance,
          WithVictim, CallsHold, drainVars
    <2>3. QED
      BY <2>1, <2>2
<1>2. ASSUME NEW p \in Procs, Release(p)
        PROVE  CallsHold'
    <2>1. CASE pc[p] = "evict"
      BY <1>2, <2>1, GotoHolds
      DEF Release, Labels, AllocationLabels, WithCluster, WithInstance, WithVictim,
          CallsHold, drainVars
    <2>2. CASE ~(pc[p] = "evict")
      BY <1>2, <2>2, GotoHolds
      DEF Release, Labels, AllocationLabels, WithCluster, WithInstance, WithVictim,
          CallsHold, drainVars
    <2>3. QED
      BY <2>1, <2>2
<1>3. ASSUME NEW p \in Procs, ChooseInstance(p)
        PROVE  CallsHold'
    <2>1. PICK i \in Instances : Allocate(p, "assign", at[p], i)
      BY <1>3 DEF ChooseInstance, Candidates
    <2>2. QED
      BY <1>3, <2>1, AllocateHolds
      DEF ChooseInstance, Labels, AllocationLabels, WithCluster, WithInstance,
          WithVictim, CallsHold, drainVars
<1>4. ASSUME NEW p \in Procs, AssignInstance(p)
        PROVE  CallsHold'
    BY <1>4, ReturnHolds
    DEF AssignInstance, Return, AllocationLabels, WithCluster, WithInstance,
        WithVictim
<1>5. ASSUME NEW p \in Procs, ExceedCapacity(p)
        PROVE  CallsHold'
    <2>1. CASE pc[p] = "rechoose"
      BY <1>5, <2>1, ReturnHolds
      DEF ExceedCapacity, Return, AllocationLabels, WithCluster, WithInstance,
          WithVictim
    <2>2. CASE pc[p] = "choose" /\ p \in Logins
      BY <1>5, <2>2, AllocateHolds
      DEF ExceedCapacity, Labels, AllocationLabels, WithCluster, WithInstance,
          WithVictim, CallsHold
    <2>3. CASE pc[p] = "choose" /\ p \notin Logins
      BY <1>5, <2>3, AllocateHolds
      DEF ExceedCapacity, Labels, AllocationLabels, WithCluster, WithInstance,
          WithVictim, CallsHold
    <2>4. QED
      BY <1>5, <2>1, <2>2, <2>3 DEF ExceedCapacity
<1>6. ASSUME NEW p \in Procs, TakePoolLock(p)
        PROVE  CallsHold'
    <2>1. CASE poolLock
      BY <1>6, <2>1, ReturnHolds
      DEF TakePoolLock, Labels, AllocationLabels, WithCluster, WithInstance,
          WithVictim, CallsHold, Return
    <2>2. CASE ~(poolLock)
      BY <1>6, <2>2, GotoHolds
      DEF TakePoolLock, Labels, AllocationLabels, WithCluster, WithInstance,
          WithVictim, CallsHold
    <2>3. QED
      BY <2>1, <2>2
<1>7. ASSUME NEW p \in Procs, CreateDroplet(p)
        PROVE  CallsHold'
    <2>1. PICK i \in Instances :
            Allocate(p, IF pc[p] = "create" THEN "insert" ELSE "insertDedicated", at[p], i)
      BY <1>7 DEF CreateDroplet
    <2>2. CASE pc[p] = "create"
      BY <1>7, <2>1, <2>2, AllocateHolds
      DEF CreateDroplet, Labels, AllocationLabels, WithCluster, WithInstance,
          WithVictim, CallsHold, drainVars
    <2>3. CASE pc[p] = "createDedicated"
      BY <1>7, <2>1, <2>3, AllocateHolds
      DEF CreateDroplet, Labels, AllocationLabels, WithCluster, WithInstance,
          WithVictim, CallsHold, drainVars
    <2>4. QED
      BY <1>7, <2>2, <2>3 DEF CreateDroplet
<1>8. ASSUME NEW p \in Procs, CreateFails(p)
        PROVE  CallsHold'
    <2>1. CASE pc[p] = "create"
      BY <1>8, <2>1, ReturnHolds
      DEF CreateFails, Labels, AllocationLabels, WithCluster, WithInstance, WithVictim,
          CallsHold, Throw
    <2>2. CASE ~(pc[p] = "create")
      BY <1>8, <2>2, GotoHolds
      DEF CreateFails, Labels, AllocationLabels, WithCluster, WithInstance, WithVictim,
          CallsHold
    <2>3. QED
      BY <2>1, <2>2
<1>9. ASSUME NEW p \in Procs, InsertPool(p)
        PROVE  CallsHold'
    BY <1>9, GotoHolds
    DEF InsertPool, Labels, AllocationLabels, WithCluster, WithInstance, WithVictim,
        CallsHold, drainVars
<1>10. ASSUME NEW p \in Procs, CreateToken(p)
         PROVE  CallsHold'
    <2>1. CASE Throw(p)
      BY <1>10, <2>1, ReturnHolds
      DEF CreateToken, Throw, AllocationLabels, WithCluster, WithInstance, WithVictim
    <2>2. CASE p \in Logins /\ ~Throw(p)
      BY <1>10, <2>2, AllocateHolds
      DEF CreateToken, Labels, AllocationLabels, WithCluster, WithInstance, WithVictim,
          CallsHold
    <2>3. CASE p \notin Logins /\ ~Throw(p)
      BY <1>10, <2>3, AllocateHolds
      DEF CreateToken, Labels, AllocationLabels, WithCluster, WithInstance, WithVictim,
          CallsHold
    <2>4. QED
      BY <2>1, <2>2, <2>3
<1>11. ASSUME NEW p \in Procs, Recheck(p)
         PROVE  CallsHold'
    <2>1. CASE assigned[at[p]] = NoInstance
      BY <1>11, <2>1, GotoHolds
      DEF Recheck, Labels, AllocationLabels, WithCluster, WithInstance, WithVictim,
          CallsHold
    <2>2. CASE ~(assigned[at[p]] = NoInstance)
      BY <1>11, <2>2, ReturnHolds
      DEF Recheck, Labels, AllocationLabels, WithCluster, WithInstance, WithVictim,
          CallsHold, Return
    <2>3. QED
      BY <2>1, <2>2
<1>12. ASSUME NEW p \in Procs, TakeDedicatedLock(p)
         PROVE  CallsHold'
    <2>1. CASE IsHeld(at[p])
      BY <1>12, <2>1, ReturnHolds
      DEF TakeDedicatedLock, Labels, AllocationLabels, WithCluster, WithInstance,
          WithVictim, CallsHold, Return
    <2>2. CASE ~(IsHeld(at[p]))
      BY <1>12, <2>2, GotoHolds
      DEF TakeDedicatedLock, Labels, AllocationLabels, WithCluster, WithInstance,
          WithVictim, CallsHold
    <2>3. QED
      BY <2>1, <2>2
<1>13. ASSUME NEW p \in Procs, InsertDedicated(p)
         PROVE  CallsHold'
    <2>1. CASE kind[inst[p]] = "none"
      BY <1>13, <2>1, GotoHolds
      DEF InsertDedicated, Labels, AllocationLabels, WithCluster, WithInstance,
          WithVictim, CallsHold, drainVars
    <2>2. CASE ~(kind[inst[p]] = "none")
      BY <1>13, <2>2, GotoHolds
      DEF InsertDedicated, Labels, AllocationLabels, WithCluster, WithInstance,
          WithVictim, CallsHold, drainVars
    <2>3. QED
      BY <2>1, <2>2
<1>14. ASSUME NEW p \in Procs, TokenDedicated(p)
         PROVE  CallsHold'
    <2>1. CASE Return(p)
      BY <1>14, <2>1, ReturnHolds
      DEF TokenDedicated, Labels, AllocationLabels, WithCluster, WithInstance,
          WithVictim, CallsHold, Return
    <2>2. CASE ~(Return(p))
      BY <1>14, <2>2, GotoHolds
      DEF TokenDedicated, Labels, AllocationLabels, WithCluster, WithInstance,
          WithVictim, CallsHold
    <2>3. QED
      BY <2>1, <2>2
<1>15. ASSUME NEW p \in Procs, Unlock(p)
         PROVE  CallsHold'
    BY <1>15, ReturnHolds
    DEF Unlock, Throw, AllocationLabels, WithCluster, WithInstance, WithVictim
<1>16. ASSUME NEW l \in Logins, NEW c \in Clusters, Login(l, c)
         PROVE  CallsHold'
    BY <1>16, AllocateHolds
    DEF Login, Labels, AllocationLabels, WithCluster, WithInstance, WithVictim, Procs,
        drainVars
<1>17. ASSUME NEW l \in Logins, FindDedicated(l)
         PROVE  CallsHold'
    <2>1. CASE HasDedicated(at[l])
      BY <1>17, <2>1, ReturnHolds DEF FindDedicated, Return, Procs
    <2>2. CASE ~HasDedicated(at[l])
      BY <1>17, <2>2, GotoHolds
      DEF FindDedicated, Labels, AllocationLabels, WithCluster, WithInstance,
          WithVictim, CallsHold, Procs
    <2>3. QED
      BY <2>1, <2>2
<1>18. ASSUME NEW s \in Syncs, StartSync(s)
         PROVE  CallsHold'
    BY <1>18, GotoHolds
    DEF StartSync, Phase, Labels, AllocationLabels, WithCluster, WithInstance,
        WithVictim, Procs, drainVars
<1>19. ASSUME NEW s \in Syncs, ListDroplets(s)
         PROVE  CallsHold'
    <2>1. CASE pc[s] = "list"
      BY <1>19, <2>1, GotoHolds
      DEF ListDroplets, Labels, AllocationLabels, WithCluster, WithInstance,
          WithVictim, CallsHold, Phase, Procs, drainVars
    <2>2. CASE ~(pc[s] = "list")
      BY <1>19, <2>2, GotoHolds
      DEF ListDroplets, Labels, AllocationLabels, WithCluster, WithInstance,
          WithVictim, CallsHold, Phase, Procs, drainVars
    <2>3. QED
      BY <2>1, <2>2
<1>20. ASSUME NEW s \in Syncs, ListRows(s)
         PROVE  CallsHold'
    <2>1. CASE pc[s] = "list"
      BY <1>20, <2>1, GotoHolds
      DEF ListRows, Labels, AllocationLabels, WithCluster, WithInstance, WithVictim,
          CallsHold, Phase, Procs, drainVars
    <2>2. CASE ~(pc[s] = "list")
      BY <1>20, <2>2, GotoHolds
      DEF ListRows, Labels, AllocationLabels, WithCluster, WithInstance, WithVictim,
          CallsHold, Phase, Procs, drainVars
    <2>3. QED
      BY <2>1, <2>2
<1>21. ASSUME NEW s \in Syncs, Adopt(s)
         PROVE  CallsHold'
    BY <1>21 DEF Adopt, CallsHold, Take, drainVars
<1>22. ASSUME NEW s \in Syncs, EndAdopt(s)
         PROVE  CallsHold'
    BY <1>22, GotoHolds
    DEF EndAdopt, Phase, Labels, AllocationLabels, WithCluster, WithInstance,
        WithVictim, Procs, drainVars
<1>23. ASSUME NEW s \in Syncs, RemoveStale(s)
         PROVE  CallsHold'
    BY <1>23 DEF RemoveStale, CallsHold, Take, drainVars
<1>24. ASSUME NEW s \in Syncs, EndRemove(s)
         PROVE  CallsHold'
    BY <1>24, GotoHolds
    DEF EndRemove, Phase, Labels, AllocationLabels, WithCluster, WithInstance,
        WithVictim, Procs, drainVars
<1>25. ASSUME NEW s \in Syncs, Demote(s)
         PROVE  CallsHold'
    BY <1>25 DEF Demote, CallsHold, Take, drainVars
<1>26. ASSUME NEW s \in Syncs, EndDemote(s)
         PROVE  CallsHold'
    BY <1>26, GotoHolds
    DEF EndDemote, Phase, Labels, AllocationLabels, WithCluster, WithInstance,
        WithVictim, Procs, drainVars
<1>27. ASSUME NEW s \in Syncs, AllocateUnassigned(s)
         PROVE  CallsHold'
    <2>1. CASE Goto(s, "lost")
      BY <1>27, <2>1, GotoHolds
      DEF AllocateUnassigned, Labels, AllocationLabels, WithCluster, WithInstance,
          WithVictim, CallsHold, Procs, drainVars
    <2>2. CASE Goto(s, "next")
      BY <1>27, <2>2, GotoHolds
      DEF AllocateUnassigned, Labels, AllocationLabels, WithCluster, WithInstance,
          WithVictim, CallsHold, Procs, drainVars
    <2>3. QED
      BY <1>27, <2>1, <2>2 DEF AllocateUnassigned
<1>28. ASSUME NEW s \in Syncs, NextUnassigned(s)
         PROVE  CallsHold'
    <2>1. CASE todo[s] = {}
      BY <1>28, <2>1, GotoHolds
      DEF NextUnassigned, Labels, AllocationLabels, WithCluster, WithInstance,
          WithVictim, CallsHold, Procs, drainVars
    <2>2. ASSUME NEW c \in todo[s], Allocate(s, "begin", c, NoInstance)
          PROVE  CallsHold'
      BY <1>28, <2>2, AllocateHolds
      DEF NextUnassigned, Labels, AllocationLabels, WithCluster, WithInstance,
          WithVictim, Procs, drainVars, TypeOK, CallTypeOK
    <2>3. QED
      BY <1>28, <2>1, <2>2 DEF NextUnassigned
<1>29. ASSUME NEW s \in Syncs, MarkLost(s)
         PROVE  CallsHold'
    BY <1>29 DEF MarkLost, CallsHold, Take, drainVars
<1>30. ASSUME NEW s \in Syncs, EndSync(s)
         PROVE  CallsHold'
    BY <1>30
    DEF EndSync, Goto, CallsHold, AllocationLabels, WithCluster, WithInstance,
        WithVictim, Labels, Procs, drainVars
<1>31. ASSUME NEW d \in Drains, ReadMap(d)
         PROVE  CallsHold'
    BY <1>31, GotoHolds
    DEF ReadMap, Labels, AllocationLabels, WithCluster, WithInstance, WithVictim,
        Procs
<1>32. ASSUME NEW d \in Drains, NextVictim(d)
         PROVE  CallsHold'
    BY <1>32
    DEF NextVictim, Goto, CallsHold, AllocationLabels, WithCluster, WithInstance,
        WithVictim, Labels, Procs, TypeOK, CallTypeOK
<1>33. ASSUME NEW d \in Drains, Migrate(d)
         PROVE  CallsHold'
    <2>1. PICK c \in todo[d] : Allocate(d, "evict", c, NoInstance)
      BY <1>33 DEF Migrate
    <2>2. QED
      BY <1>33, <2>1, AllocateHolds
      DEF Migrate, Labels, AllocationLabels, WithCluster, WithInstance, WithVictim,
          CallsHold, Procs, drainVars, TypeOK, CallTypeOK
<1>34. ASSUME NEW d \in Drains, EndMigration(d)
         PROVE  CallsHold'
    BY <1>34
    DEF EndMigration, Goto, NextDrained, CallsHold, AllocationLabels, WithCluster,
        WithInstance, WithVictim, Labels, Procs
<1>35. ASSUME NEW d \in Drains, DestroyDroplet(d)
         PROVE  CallsHold'
    BY <1>35
    DEF DestroyDroplet, Goto, NextDrained, CallsHold, AllocationLabels, WithCluster,
        WithInstance, WithVictim, Labels, Procs
<1>36. ASSUME NEW d \in Drains, ForgetDestroyed(d)
         PROVE  CallsHold'
    BY <1>36
    DEF ForgetDestroyed, Goto, NextDrained, CallsHold, AllocationLabels, WithCluster,
        WithInstance, WithVictim, Labels, Procs
<1>37. ASSUME NEW d \in Drains, EndDrain(d)
         PROVE  CallsHold'
    BY <1>37
    DEF EndDrain, Goto, CallsHold, AllocationLabels, WithCluster, WithInstance,
        WithVictim, Labels, Procs
<1>38. ASSUME NEW i \in Instances, HealthCheck(i)
         PROVE  CallsHold'
    BY <1>38 DEF HealthCheck, CallsHold, Take, drainVars
<1>39. ASSUME NEW i \in Instances, LoseDroplet(i)
         PROVE  CallsHold'
    BY <1>39 DEF LoseDroplet, CallsHold, Take, drainVars
<1>40. CASE ExpirePoolLock
    BY <1>40 DEF ExpirePoolLock, CallsHold, Take, drainVars
<1>41. ASSUME NEW c \in Clusters, ExpireDedicatedLock(c)
         PROVE  CallsHold'
    BY <1>41 DEF ExpireDedicatedLock, CallsHold, Take, drainVars
<1>42. CASE UNCHANGED vars
    BY <1>42 DEF vars, CallsHold, drainVars
<1>43. QED
    BY <1>1, <1>2, <1>3, <1>4, <1>5, <1>6, <1>7, <1>8, <1>9, <1>10, <1>11, <1>12,
       <1>13, <1>14, <1>15, <1>16, <1>17, <1>18, <1>19, <1>20, <1>21, <1>22, <1>23,
       <1>24, <1>25, <1>26, <1>27, <1>28, <1>29, <1>30, <1>31, <1>32, <1>33, <1>34,
       <1>35, <1>36, <1>37, <1>38, <1>39, <1>40, <1>41, <1>42
    DEF Next, AllocationStep, SyncStep, DrainStep

(***************************************************************************)
(* A step keeps the rows consistent: a row has a status, and it has an     *)
(* owner exactly when it is dedicated.                                     *)
(***************************************************************************)
LEMMA DatabaseStep ==
  ASSUME TypeOK, CallsHold, [Next]_vars
  PROVE  /\ DatabaseTypeOK'
         /\ droplets' \in SUBSET Instances
         /\ poolLock' \in BOOLEAN
         /\ dedicatedLock' \in SUBSET Clusters
<1> DEFINE Kept == /\ DatabaseTypeOK'
                   /\ droplets' \in SUBSET Instances
                   /\ poolLock' \in BOOLEAN
                   /\ dedicatedLock' \in SUBSET Clusters
<1> SUFFICES Kept
  OBVIOUS
<1> USE InstancePoolAssumption
    DEF TypeOK, DatabaseTypeOK, Statuses, UpdateRow, Updated, AddPool, RemovePool,
        AssignedWithout, dbVars, kvVars
<1>1. ASSUME NEW p \in Procs, BeginAllocation(p)
        PROVE  Kept
    BY <1>1 DEF BeginAllocation
<1>2. ASSUME NEW p \in Procs, Release(p)
        PROVE  Kept
    BY <1>2
    DEF Release, CallsHold, AllocationLabels, WithCluster, WithInstance, WithVictim
<1>3. ASSUME NEW p \in Procs, ChooseInstance(p)
        PROVE  Kept
    BY <1>3 DEF ChooseInstance
<1>4. ASSUME NEW p \in Procs, AssignInstance(p)
        PROVE  Kept
    BY <1>4
    DEF AssignInstance, CallsHold, AllocationLabels, WithCluster, WithInstance,
        WithVictim
<1>5. ASSUME NEW p \in Procs, ExceedCapacity(p)
        PROVE  Kept
    BY <1>5 DEF ExceedCapacity
<1>6. ASSUME NEW p \in Procs, TakePoolLock(p)
        PROVE  Kept
    BY <1>6
    DEF TakePoolLock, CallsHold, AllocationLabels, WithCluster, WithInstance,
        WithVictim
<1>7. ASSUME NEW p \in Procs, CreateDroplet(p)
        PROVE  Kept
    BY <1>7
    DEF CreateDroplet, CallsHold, AllocationLabels, WithCluster, WithInstance,
        WithVictim
<1>8. ASSUME NEW p \in Procs, CreateFails(p)
        PROVE  Kept
    BY <1>8 DEF CreateFails
<1>9. ASSUME NEW p \in Procs, InsertPool(p)
        PROVE  Kept
    BY <1>9
    DEF InsertPool, CallsHold, AllocationLabels, WithCluster, WithInstance, WithVictim
<1>10. ASSUME NEW p \in Procs, CreateToken(p)
         PROVE  Kept
    BY <1>10 DEF CreateToken
<1>11. ASSUME NEW p \in Procs, Recheck(p)
         PROVE  Kept
    BY <1>11 DEF Recheck
<1>12. ASSUME NEW p \in Procs, TakeDedicatedLock(p)
         PROVE  Kept
    BY <1>12
    DEF TakeDedicatedLock, CallsHold, AllocationLabels, WithCluster, WithInstance,
        WithVictim
<1>13. ASSUME NEW p \in Procs, InsertDedicated(p)
         PROVE  Kept
    BY <1>13
    DEF InsertDedicated, CallsHold, AllocationLabels, WithCluster, WithInstance,
        WithVictim
<1>14. ASSUME NEW p \in Procs, TokenDedicated(p)
         PROVE  Kept
    BY <1>14 DEF TokenDedicated
<1>15. ASSUME NEW p \in Procs, Unlock(p)
         PROVE  Kept
    BY <1>15 DEF Unlock
<1>16. ASSUME NEW l \in Logins, NEW c \in Clusters, Login(l, c)
         PROVE  Kept
    BY <1>16 DEF Login
<1>17. ASSUME NEW l \in Logins, FindDedicated(l)
         PROVE  Kept
    BY <1>17 DEF FindDedicated
<1>18. ASSUME NEW s \in Syncs, StartSync(s)
         PROVE  Kept
    BY <1>18 DEF StartSync
<1>19. ASSUME NEW s \in Syncs, ListDroplets(s)
         PROVE  Kept
    BY <1>19 DEF ListDroplets
<1>20. ASSUME NEW s \in Syncs, ListRows(s)
         PROVE  Kept
    BY <1>20 DEF ListRows
<1>21. ASSUME NEW s \in Syncs, Adopt(s)
         PROVE  Kept
    <2>1. PICK i \in left[s], st \in {"degraded", "offline"} : AddPool(i, st)
      BY <1>21 DEF Adopt
    <2>2. i \in Instances
      BY DEF CallTypeOK, Procs
    <2>3. QED
      BY <1>21, <2>1, <2>2 DEF Adopt
<1>22. ASSUME NEW s \in Syncs, EndAdopt(s)
         PROVE  Kept
    BY <1>22 DEF EndAdopt
<1>23. ASSUME NEW s \in Syncs, RemoveStale(s)
         PROVE  Kept
    BY <1>23 DEF RemoveStale, CallTypeOK, Take
<1>24. ASSUME NEW s \in Syncs, EndRemove(s)
         PROVE  Kept
    BY <1>24 DEF EndRemove
<1>25. ASSUME NEW s \in Syncs, Demote(s)
         PROVE  Kept
    BY <1>25 DEF Demote, CallTypeOK, Take
<1>26. ASSUME NEW s \in Syncs, EndDemote(s)
         PROVE  Kept
    BY <1>26 DEF EndDemote
<1>27. ASSUME NEW s \in Syncs, AllocateUnassigned(s)
         PROVE  Kept
    BY <1>27 DEF AllocateUnassigned
<1>28. ASSUME NEW s \in Syncs, NextUnassigned(s)
         PROVE  Kept
    BY <1>28 DEF NextUnassigned
<1>29. ASSUME NEW s \in Syncs, MarkLost(s)
         PROVE  Kept
    BY <1>29 DEF MarkLost, CallTypeOK, Take
<1>30. ASSUME NEW s \in Syncs, EndSync(s)
         PROVE  Kept
    BY <1>30 DEF EndSync
<1>31. ASSUME NEW d \in Drains, ReadMap(d)
         PROVE  Kept
    BY <1>31 DEF ReadMap
<1>32. ASSUME NEW d \in Drains, NextVictim(d)
         PROVE  Kept
    BY <1>32 DEF NextVictim
<1>33. ASSUME NEW d \in Drains, Migrate(d)
         PROVE  Kept
    BY <1>33 DEF Migrate
<1>34. ASSUME NEW d \in Drains, EndMigration(d)
         PROVE  Kept
    BY <1>34 DEF EndMigration
<1>35. ASSUME NEW d \in Drains, DestroyDroplet(d)
         PROVE  Kept
    BY <1>35 DEF DestroyDroplet
<1>36. ASSUME NEW d \in Drains, ForgetDestroyed(d)
         PROVE  Kept
    BY <1>36
    DEF ForgetDestroyed, CallsHold, AllocationLabels, WithCluster, WithInstance,
        WithVictim
<1>37. ASSUME NEW d \in Drains, EndDrain(d)
         PROVE  Kept
    BY <1>37 DEF EndDrain
<1>38. ASSUME NEW i \in Instances, HealthCheck(i)
         PROVE  Kept
    BY <1>38 DEF HealthCheck
<1>39. ASSUME NEW i \in Instances, LoseDroplet(i)
         PROVE  Kept
    BY <1>39 DEF LoseDroplet
<1>40. CASE ExpirePoolLock
    BY <1>40 DEF ExpirePoolLock
<1>41. ASSUME NEW c \in Clusters, ExpireDedicatedLock(c)
         PROVE  Kept
    BY <1>41 DEF ExpireDedicatedLock
<1>42. CASE UNCHANGED vars
    BY <1>42 DEF vars
<1>43. QED
    BY <1>1, <1>2, <1>3, <1>4, <1>5, <1>6, <1>7, <1>8, <1>9, <1>10, <1>11, <1>12,
       <1>13, <1>14, <1>15, <1>16, <1>17, <1>18, <1>19, <1>20, <1>21, <1>22, <1>23,
       <1>24, <1>25, <1>26, <1>27, <1>28, <1>29, <1>30, <1>31, <1>32, <1>33, <1>34,
       <1>35, <1>36, <1>37, <1>38, <1>39, <1>40, <1>41, <1>42
    DEF Next, AllocationStep, SyncStep, DrainStep

(***************************************************************************)
(* A step keeps the types of what a sync or a drain listed.                *)
(***************************************************************************)
\* What a sync or a drain listed.
Listed ==
  /\ left \in [Procs -> SUBSET Instances]
  /\ todo \in [Procs -> SUBSET Clusters]
  /\ found \in [Procs -> SUBSET Instances]
  /\ rows \in [Syncs -> [Instances -> Statuses \cup {"absent"}]]
  /\ pooled \in [Syncs -> SUBSET Instances]
  /\ doomed \in [Syncs -> SUBSET Instances]
  /\ listed \in [Drains -> [Clusters -> Instances \cup {NoInstance}]]
  /\ ok \in [Drains -> BOOLEAN]

\* A step keeps the types of what was listed.
LEMMA ListedStep ==
  ASSUME Listed, DatabaseTypeOK, droplets \in SUBSET Instances, [Next]_vars
  PROVE  Listed'
<1> USE InstancePoolAssumption DEF Listed
<1>1. ASSUME NEW p \in Procs, BeginAllocation(p)
        PROVE  Listed'
    BY <1>1 DEF BeginAllocation, loopVars, syncVars, drainVars
<1>2. ASSUME NEW p \in Procs, Release(p)
        PROVE  Listed'
    BY <1>2 DEF Release, loopVars, syncVars, drainVars
<1>3. ASSUME NEW p \in Procs, ChooseInstance(p)
        PROVE  Listed'
    BY <1>3 DEF ChooseInstance, loopVars, syncVars, drainVars
<1>4. ASSUME NEW p \in Procs, AssignInstance(p)
        PROVE  Listed'
    BY <1>4 DEF AssignInstance, Return, loopVars, syncVars, drainVars
<1>5. ASSUME NEW p \in Procs, ExceedCapacity(p)
        PROVE  Listed'
    BY <1>5 DEF ExceedCapacity, Return, loopVars, syncVars, drainVars
<1>6. ASSUME NEW p \in Procs, TakePoolLock(p)
        PROVE  Listed'
    BY <1>6 DEF TakePoolLock, Return, loopVars, syncVars, drainVars
<1>7. ASSUME NEW p \in Procs, CreateDroplet(p)
        PROVE  Listed'
    BY <1>7 DEF CreateDroplet, loopVars, syncVars, drainVars
<1>8. ASSUME NEW p \in Procs, CreateFails(p)
        PROVE  Listed'
    BY <1>8 DEF CreateFails, Throw, loopVars, syncVars, drainVars
<1>9. ASSUME NEW p \in Procs, InsertPool(p)
        PROVE  Listed'
    BY <1>9 DEF InsertPool, loopVars, syncVars, drainVars
<1>10. ASSUME NEW p \in Procs, CreateToken(p)
         PROVE  Listed'
    BY <1>10 DEF CreateToken, Throw, Return, loopVars, syncVars, drainVars
<1>11. ASSUME NEW p \in Procs, Recheck(p)
         PROVE  Listed'
    BY <1>11 DEF Recheck, Return, loopVars, syncVars, drainVars
<1>12. ASSUME NEW p \in Procs, TakeDedicatedLock(p)
         PROVE  Listed'
    BY <1>12 DEF TakeDedicatedLock, Return, loopVars, syncVars, drainVars
<1>13. ASSUME NEW p \in Procs, InsertDedicated(p)
         PROVE  Listed'
    BY <1>13 DEF InsertDedicated, loopVars, syncVars, drainVars
<1>14. ASSUME NEW p \in Procs, TokenDedicated(p)
         PROVE  Listed'
    BY <1>14 DEF TokenDedicated, Return, loopVars, syncVars, drainVars
<1>15. ASSUME NEW p \in Procs, Unlock(p)
         PROVE  Listed'
    BY <1>15 DEF Unlock, Throw, loopVars, syncVars, drainVars
<1>16. ASSUME NEW l \in Logins, NEW c \in Clusters, Login(l, c)
         PROVE  Listed'
    BY <1>16 DEF Login, loopVars, syncVars, drainVars
<1>17. ASSUME NEW l \in Logins, FindDedicated(l)
         PROVE  Listed'
    BY <1>17 DEF FindDedicated, Return, loopVars, syncVars, drainVars
<1>18. ASSUME NEW s \in Syncs, StartSync(s)
         PROVE  Listed'
    BY <1>18 DEF StartSync, loopVars, syncVars, drainVars
<1>19. ASSUME NEW s \in Syncs, ListDroplets(s)
         PROVE  Listed'
    <2>1. found' = [found EXCEPT ![s] = droplets]
      BY <1>19 DEF ListDroplets
    <2>2. left' \in [Procs -> SUBSET Instances]
      <3>1. Untracked(droplets, pooled[s]) \in SUBSET Instances
        BY DEF Untracked
      <3>2. left' = left \/ left' = [left EXCEPT ![s] = Untracked(droplets, pooled[s])]
        BY <1>19 DEF ListDroplets, Phase
      <3>3. QED
        BY <3>1, <3>2
    <2>3. QED
      BY <1>19, <2>1, <2>2 DEF ListDroplets, syncVars, drainVars
<1>20. ASSUME NEW s \in Syncs, ListRows(s)
         PROVE  Listed'
    BY <1>20
    DEF ListRows, Untracked, PoolRows, DatabaseTypeOK, Procs, Phase, loopVars,
        syncVars, drainVars
<1>21. ASSUME NEW s \in Syncs, Adopt(s)
         PROVE  Listed'
    BY <1>21 DEF Adopt, Take, loopVars, syncVars, drainVars, Statuses, Procs
<1>22. ASSUME NEW s \in Syncs, EndAdopt(s)
         PROVE  Listed'
    BY <1>22 DEF EndAdopt, Phase, loopVars, syncVars, drainVars, Stale, Procs
<1>23. ASSUME NEW s \in Syncs, RemoveStale(s)
         PROVE  Listed'
    BY <1>23 DEF RemoveStale, Take, loopVars, syncVars, drainVars, Procs
<1>24. ASSUME NEW s \in Syncs, EndRemove(s)
         PROVE  Listed'
    BY <1>24 DEF EndRemove, Phase, loopVars, syncVars, drainVars, Procs
<1>25. ASSUME NEW s \in Syncs, Demote(s)
         PROVE  Listed'
    BY <1>25 DEF Demote, Take, loopVars, syncVars, drainVars, Procs
<1>26. ASSUME NEW s \in Syncs, EndDemote(s)
         PROVE  Listed'
    BY <1>26 DEF EndDemote, Phase, loopVars, syncVars, drainVars, Lost, NoRows, Procs
<1>27. ASSUME NEW s \in Syncs, AllocateUnassigned(s)
         PROVE  Listed'
    <2>1. todo' \in [Procs -> SUBSET Clusters]
      <3>1. Unassigned \in SUBSET Clusters
        BY DEF Unassigned
      <3>2. todo' = todo \/ todo' = [todo EXCEPT ![s] = Unassigned]
        BY <1>27 DEF AllocateUnassigned
      <3>3. QED
        BY <3>1, <3>2
    <2>2. found' \in [Procs -> SUBSET Instances]
      BY <1>27 DEF AllocateUnassigned
    <2>3. QED
      BY <1>27, <2>1, <2>2 DEF AllocateUnassigned, syncVars, drainVars
<1>28. ASSUME NEW s \in Syncs, NextUnassigned(s)
         PROVE  Listed'
    <2>1. todo' = todo \/ \E c \in todo[s] : todo' = [todo EXCEPT ![s] = todo[s] \ {c}]
      BY <1>28 DEF NextUnassigned
    <2>2. todo' \in [Procs -> SUBSET Clusters]
      <3>1. CASE todo' = todo
        BY <3>1
      <3>2. CASE todo' # todo
        <4>1. PICK c \in todo[s] : todo' = [todo EXCEPT ![s] = todo[s] \ {c}]
          BY <2>1, <3>2
        <4>2. todo[s] \ {c} \in SUBSET Clusters
          BY DEF Procs
        <4>3. QED
          BY <4>1, <4>2
      <3>3. QED
        BY <3>1, <3>2
    <2>3. QED
      BY <1>28, <2>2 DEF NextUnassigned, syncVars, drainVars
<1>29. ASSUME NEW s \in Syncs, MarkLost(s)
         PROVE  Listed'
    BY <1>29 DEF MarkLost, Take, loopVars, syncVars, drainVars, Procs
<1>30. ASSUME NEW s \in Syncs, EndSync(s)
         PROVE  Listed'
    BY <1>30 DEF EndSync, loopVars, syncVars, drainVars, Procs
<1>31. ASSUME NEW d \in Drains, ReadMap(d)
         PROVE  Listed'
    BY <1>31 DEF ReadMap, loopVars, syncVars, drainVars, DatabaseTypeOK, Procs
<1>32. ASSUME NEW d \in Drains, NextVictim(d)
         PROVE  Listed'
    BY <1>32 DEF NextVictim, loopVars, syncVars, drainVars, Procs
<1>33. ASSUME NEW d \in Drains, Migrate(d)
         PROVE  Listed'
    BY <1>33 DEF Migrate, loopVars, syncVars, drainVars, Procs
<1>34. ASSUME NEW d \in Drains, EndMigration(d)
         PROVE  Listed'
    BY <1>34 DEF EndMigration, NextDrained, loopVars, syncVars, drainVars
<1>35. ASSUME NEW d \in Drains, DestroyDroplet(d)
         PROVE  Listed'
    BY <1>35 DEF DestroyDroplet, NextDrained, loopVars, syncVars, drainVars
<1>36. ASSUME NEW d \in Drains, ForgetDestroyed(d)
         PROVE  Listed'
    BY <1>36 DEF ForgetDestroyed, NextDrained, loopVars, syncVars, drainVars
<1>37. ASSUME NEW d \in Drains, EndDrain(d)
         PROVE  Listed'
    BY <1>37 DEF EndDrain, loopVars, syncVars, drainVars, NoAssignments, Procs
<1>38. ASSUME NEW i \in Instances, HealthCheck(i)
         PROVE  Listed'
    BY <1>38 DEF HealthCheck, loopVars, syncVars, drainVars
<1>39. ASSUME NEW i \in Instances, LoseDroplet(i)
         PROVE  Listed'
    BY <1>39 DEF LoseDroplet, loopVars, syncVars, drainVars
<1>40. CASE ExpirePoolLock
    BY <1>40 DEF ExpirePoolLock, loopVars, syncVars, drainVars
<1>41. ASSUME NEW c \in Clusters, ExpireDedicatedLock(c)
         PROVE  Listed'
    BY <1>41 DEF ExpireDedicatedLock, loopVars, syncVars, drainVars
<1>42. CASE UNCHANGED vars
    BY <1>42 DEF vars, loopVars, syncVars, drainVars
<1>43. QED
    BY <1>1, <1>2, <1>3, <1>4, <1>5, <1>6, <1>7, <1>8, <1>9, <1>10, <1>11, <1>12,
       <1>13, <1>14, <1>15, <1>16, <1>17, <1>18, <1>19, <1>20, <1>21, <1>22, <1>23,
       <1>24, <1>25, <1>26, <1>27, <1>28, <1>29, <1>30, <1>31, <1>32, <1>33, <1>34,
       <1>35, <1>36, <1>37, <1>38, <1>39, <1>40, <1>41, <1>42
    DEF Next, AllocationStep, SyncStep, DrainStep

\* Every reachable state has its type: the rows are consistent, and a call holds
\* the cluster and the instance its next step works on.
THEOREM Typing == Spec => []Typed
<1>1. Init => Typed
  <2> SUFFICES ASSUME Init PROVE Typed
    OBVIOUS
  <2> USE InstancePoolAssumption DEF Init
  <2>1. DatabaseTypeOK
    BY DEF DatabaseTypeOK, Statuses
  <2>2. CallTypeOK
    BY DEF CallTypeOK, Labels, NoRows, NoAssignments
  <2>3. CallsHold
    BY DEF CallsHold, Labels, AllocationLabels, WithCluster, WithInstance, WithVictim
  <2>4. QED
    BY <2>1, <2>2, <2>3 DEF Typed, TypeOK
<1>2. Typed /\ [Next]_vars => Typed'
  <2> SUFFICES ASSUME Typed, [Next]_vars PROVE Typed'
    OBVIOUS
  <2>1. Listed
    BY DEF Typed, TypeOK, CallTypeOK, Listed
  <2>2. /\ CallsHold' /\ DatabaseTypeOK'
        /\ droplets' \in SUBSET Instances
        /\ poolLock' \in BOOLEAN
        /\ dedicatedLock' \in SUBSET Clusters
    BY HoldStep, DatabaseStep DEF Typed
  <2>3. Listed'
    BY <2>1, ListedStep DEF Typed, TypeOK
  <2>4. CallTypeOK'
    BY <2>2, <2>3 DEF CallTypeOK, Listed, CallsHold
  <2>5. QED
    BY <2>2, <2>4 DEF Typed, TypeOK
<1>3. QED
  BY <1>1, <1>2, PTL DEF Spec

\* The theorem on TypeOK.
THEOREM TypeCorrect == Spec => []TypeOK
<1>1. Typed => TypeOK
  BY DEF Typed
<1>2. QED
  BY <1>1, Typing, PTL

(***************************************************************************)
(* An instance that carries a cluster is a pool instance.  The transaction *)
(* of assignPool holds the row it chose, so the row is still there when it *)
(* commits; and the foreign key clears the assignments of a removed row.   *)
(***************************************************************************)
ChosenIsPool == \A p \in Procs : pc[p] = "assign" => kind[inst[p]] = "pool"

Placed == AssignedIsPool /\ ChosenIsPool

\* A row that a transaction chose is not removed before it commits.
LEMMA PlacedStep ==
  ASSUME TypeOK, CallsHold, Placed, [Next]_vars
  PROVE  Placed'
<1> USE InstancePoolAssumption
    DEF Placed, AssignedIsPool, ChosenIsPool, Goto, Allocate, dbVars
<1>1. ASSUME NEW p \in Procs, BeginAllocation(p)
        PROVE  Placed'
    BY <1>1 DEF BeginAllocation, TypeOK, DatabaseTypeOK, CallTypeOK
<1>2. ASSUME NEW p \in Procs, Release(p)
        PROVE  Placed'
    BY <1>2 DEF Release, TypeOK, DatabaseTypeOK, CallTypeOK
<1>3. ASSUME NEW p \in Procs, ChooseInstance(p)
        PROVE  Placed'
    BY <1>3 DEF ChooseInstance, TypeOK, DatabaseTypeOK, CallTypeOK, Candidates
<1>4. ASSUME NEW p \in Procs, AssignInstance(p)
        PROVE  Placed'
    BY <1>4
    DEF AssignInstance, Return, Onward, TypeOK, DatabaseTypeOK, CallTypeOK, CallsHold
<1>5. ASSUME NEW p \in Procs, ExceedCapacity(p)
        PROVE  Placed'
    BY <1>5 DEF ExceedCapacity, Return, Onward, TypeOK, DatabaseTypeOK, CallTypeOK
<1>6. ASSUME NEW p \in Procs, TakePoolLock(p)
        PROVE  Placed'
    BY ZenonT(40), <1>6 DEF TakePoolLock, Return, Onward, TypeOK, DatabaseTypeOK, CallTypeOK
<1>7. ASSUME NEW p \in Procs, CreateDroplet(p)
        PROVE  Placed'
    BY <1>7 DEF CreateDroplet, TypeOK, DatabaseTypeOK, CallTypeOK
<1>8. ASSUME NEW p \in Procs, CreateFails(p)
        PROVE  Placed'
    BY <1>8 DEF CreateFails, Throw, Onward, TypeOK, DatabaseTypeOK, CallTypeOK
<1>9. ASSUME NEW p \in Procs, InsertPool(p)
        PROVE  Placed'
    BY <1>9 DEF InsertPool, AddPool, Locked, TypeOK, DatabaseTypeOK, CallTypeOK
<1>10. ASSUME NEW p \in Procs, CreateToken(p)
         PROVE  Placed'
    BY SMTT(30), <1>10
    DEF CreateToken, Throw, Onward, Return, Onward, TypeOK, DatabaseTypeOK, CallTypeOK
<1>11. ASSUME NEW p \in Procs, Recheck(p)
         PROVE  Placed'
    BY <1>11 DEF Recheck, Return, Onward, TypeOK, DatabaseTypeOK, CallTypeOK
<1>12. ASSUME NEW p \in Procs, TakeDedicatedLock(p)
         PROVE  Placed'
    BY <1>12 DEF TakeDedicatedLock, Return, Onward, TypeOK, DatabaseTypeOK, CallTypeOK
<1>13. ASSUME NEW p \in Procs, InsertDedicated(p)
         PROVE  Placed'
    <2>1. CASE kind[inst[p]] = "none"
      <3>1. kind' = [kind EXCEPT ![inst[p]] = "dedicated"] /\ assigned' = assigned
        BY <1>13, <2>1 DEF InsertDedicated
      <3>2. AssignedIsPool'
        BY <2>1, <3>1 DEF TypeOK, DatabaseTypeOK
      <3>3. ChosenIsPool'
        BY <1>13, <2>1, <3>1 DEF InsertDedicated, TypeOK, DatabaseTypeOK, CallTypeOK
      <3>4. QED
        BY <3>2, <3>3
    <2>2. CASE kind[inst[p]] # "none"
      BY <1>13, <2>2 DEF InsertDedicated, TypeOK, CallTypeOK
    <2>3. QED
      BY <2>1, <2>2
<1>14. ASSUME NEW p \in Procs, TokenDedicated(p)
         PROVE  Placed'
    BY ZenonT(40), <1>14 DEF TokenDedicated, Return, Onward, TypeOK, DatabaseTypeOK, CallTypeOK
<1>15. ASSUME NEW p \in Procs, Unlock(p)
         PROVE  Placed'
    BY <1>15 DEF Unlock, Throw, Onward, TypeOK, DatabaseTypeOK, CallTypeOK
<1>16. ASSUME NEW l \in Logins, NEW c \in Clusters, Login(l, c)
         PROVE  Placed'
    BY <1>16 DEF Login, TypeOK, DatabaseTypeOK, CallTypeOK
<1>17. ASSUME NEW l \in Logins, FindDedicated(l)
         PROVE  Placed'
    BY <1>17 DEF FindDedicated, Return, Onward, TypeOK, DatabaseTypeOK, CallTypeOK
<1>18. ASSUME NEW s \in Syncs, StartSync(s)
         PROVE  Placed'
    BY <1>18 DEF StartSync, Phase, TypeOK, DatabaseTypeOK, CallTypeOK
<1>19. ASSUME NEW s \in Syncs, ListDroplets(s)
         PROVE  Placed'
    BY <1>19 DEF ListDroplets, Phase, TypeOK, DatabaseTypeOK, CallTypeOK
<1>20. ASSUME NEW s \in Syncs, ListRows(s)
         PROVE  Placed'
    BY <1>20 DEF ListRows, Phase, TypeOK, DatabaseTypeOK, CallTypeOK
<1>21. ASSUME NEW s \in Syncs, Adopt(s)
         PROVE  Placed'
    BY <1>21 DEF Adopt, AddPool, Locked, Take, TypeOK, DatabaseTypeOK, CallTypeOK
<1>22. ASSUME NEW s \in Syncs, EndAdopt(s)
         PROVE  Placed'
    BY <1>22 DEF EndAdopt, Phase, TypeOK, DatabaseTypeOK, CallTypeOK
<1>23. ASSUME NEW s \in Syncs, RemoveStale(s)
         PROVE  Placed'
    <2>1. PICK i \in Instances : RemovePool(i)
      BY <1>23 DEF RemoveStale, TypeOK, CallTypeOK, Procs
    <2>2. pc' = pc \/ pc' = [pc EXCEPT ![s] = "victims"]
      BY <1>23 DEF RemoveStale, Take, NextDrained
    <2>3. inst' = inst
      BY <1>23 DEF RemoveStale
    <2>4. AssignedIsPool'
      BY <2>1 DEF RemovePool, AssignedWithout, TypeOK, DatabaseTypeOK
    <2>5. ASSUME NEW p \in Procs, pc'[p] = "assign"
          PROVE  kind'[inst[p]] = "pool"
      <3>1. pc[p] = "assign"
        BY <2>2, <2>5 DEF TypeOK, CallTypeOK
      <3>2. inst[p] # i
        BY <2>1, <3>1 DEF RemovePool, Locked
      <3>3. QED
        BY <2>1, <3>1, <3>2
        DEF RemovePool, TypeOK, DatabaseTypeOK, CallsHold, WithInstance
    <2>6. QED
      BY <2>3, <2>4, <2>5
<1>24. ASSUME NEW s \in Syncs, EndRemove(s)
         PROVE  Placed'
    BY <1>24 DEF EndRemove, Phase, TypeOK, DatabaseTypeOK, CallTypeOK
<1>25. ASSUME NEW s \in Syncs, Demote(s)
         PROVE  Placed'
    BY <1>25 DEF Demote, UpdateRow, Take, TypeOK, DatabaseTypeOK, CallTypeOK
<1>26. ASSUME NEW s \in Syncs, EndDemote(s)
         PROVE  Placed'
    BY <1>26 DEF EndDemote, Phase, TypeOK, DatabaseTypeOK, CallTypeOK
<1>27. ASSUME NEW s \in Syncs, AllocateUnassigned(s)
         PROVE  Placed'
    BY <1>27 DEF AllocateUnassigned, TypeOK, DatabaseTypeOK, CallTypeOK
<1>28. ASSUME NEW s \in Syncs, NextUnassigned(s)
         PROVE  Placed'
    BY <1>28 DEF NextUnassigned, TypeOK, DatabaseTypeOK, CallTypeOK
<1>29. ASSUME NEW s \in Syncs, MarkLost(s)
         PROVE  Placed'
    BY <1>29 DEF MarkLost, UpdateRow, Take, TypeOK, DatabaseTypeOK, CallTypeOK
<1>30. ASSUME NEW s \in Syncs, EndSync(s)
         PROVE  Placed'
    BY <1>30 DEF EndSync, TypeOK, DatabaseTypeOK, CallTypeOK
<1>31. ASSUME NEW d \in Drains, ReadMap(d)
         PROVE  Placed'
    BY <1>31 DEF ReadMap, TypeOK, DatabaseTypeOK, CallTypeOK
<1>32. ASSUME NEW d \in Drains, NextVictim(d)
         PROVE  Placed'
    BY <1>32 DEF NextVictim, TypeOK, DatabaseTypeOK, CallTypeOK
<1>33. ASSUME NEW d \in Drains, Migrate(d)
         PROVE  Placed'
    BY <1>33 DEF Migrate, TypeOK, DatabaseTypeOK, CallTypeOK
<1>34. ASSUME NEW d \in Drains, EndMigration(d)
         PROVE  Placed'
    BY <1>34 DEF EndMigration, NextDrained, TypeOK, DatabaseTypeOK, CallTypeOK
<1>35. ASSUME NEW d \in Drains, DestroyDroplet(d)
         PROVE  Placed'
    BY <1>35 DEF DestroyDroplet, NextDrained, TypeOK, DatabaseTypeOK, CallTypeOK
<1>36. ASSUME NEW d \in Drains, ForgetDestroyed(d)
         PROVE  Placed'
    <2>1. PICK i \in Instances : RemovePool(i)
      BY <1>36 DEF ForgetDestroyed, CallsHold, WithVictim, Procs
    <2>2. pc' = pc \/ pc' = [pc EXCEPT ![d] = "victims"]
      BY <1>36 DEF ForgetDestroyed, Take, NextDrained
    <2>3. inst' = inst
      BY <1>36 DEF ForgetDestroyed
    <2>4. AssignedIsPool'
      BY <2>1 DEF RemovePool, AssignedWithout, TypeOK, DatabaseTypeOK
    <2>5. ASSUME NEW p \in Procs, pc'[p] = "assign"
          PROVE  kind'[inst[p]] = "pool"
      <3>1. pc[p] = "assign"
        BY <2>2, <2>5 DEF TypeOK, CallTypeOK
      <3>2. inst[p] # i
        BY <2>1, <3>1 DEF RemovePool, Locked
      <3>3. QED
        BY <2>1, <3>1, <3>2
        DEF RemovePool, TypeOK, DatabaseTypeOK, CallsHold, WithInstance
    <2>6. QED
      BY <2>3, <2>4, <2>5
<1>37. ASSUME NEW d \in Drains, EndDrain(d)
         PROVE  Placed'
    BY <1>37 DEF EndDrain, TypeOK, DatabaseTypeOK, CallTypeOK
<1>38. ASSUME NEW i \in Instances, HealthCheck(i)
         PROVE  Placed'
    BY <1>38 DEF HealthCheck, UpdateRow, TypeOK, DatabaseTypeOK, CallTypeOK
<1>39. ASSUME NEW i \in Instances, LoseDroplet(i)
         PROVE  Placed'
    BY <1>39 DEF LoseDroplet
<1>40. CASE ExpirePoolLock
    BY <1>40 DEF ExpirePoolLock
<1>41. ASSUME NEW c \in Clusters, ExpireDedicatedLock(c)
         PROVE  Placed'
    BY <1>41 DEF ExpireDedicatedLock
<1>42. CASE UNCHANGED vars
    BY <1>42 DEF vars
<1>43. QED
    BY <1>1, <1>2, <1>3, <1>4, <1>5, <1>6, <1>7, <1>8, <1>9, <1>10, <1>11, <1>12,
       <1>13, <1>14, <1>15, <1>16, <1>17, <1>18, <1>19, <1>20, <1>21, <1>22, <1>23,
       <1>24, <1>25, <1>26, <1>27, <1>28, <1>29, <1>30, <1>31, <1>32, <1>33, <1>34,
       <1>35, <1>36, <1>37, <1>38, <1>39, <1>40, <1>41, <1>42
    DEF Next, AllocationStep, SyncStep, DrainStep

\* The theorem on AssignedIsPool: syncs and drains remove rows, logins and
\* allocations choose them, and no cluster is left on a row that is gone.
THEOREM AssignedPool == Spec => []AssignedIsPool
<1>1. Init => Placed
  BY InstancePoolAssumption DEF Init, Placed, AssignedIsPool, ChosenIsPool
<1>2. Typed /\ Placed /\ [Next]_vars => Placed'
  BY PlacedStep DEF Typed
<1>3. Placed => AssignedIsPool
  BY DEF Placed
<1>4. QED
  BY <1>1, <1>2, <1>3, Typing, PTL DEF Spec

(***************************************************************************)
(* No two calls provision a dedicated instance for one cluster, as long as *)
(* no call outlasts the TTL of the lock it took.                           *)
(***************************************************************************)
HoldsLock == \A p \in Procs : Provisions(p) => at[p] \in dedicatedLock

Locking == ProvisioningIsExclusive /\ HoldsLock

Provisioning == {"createDedicated", "insertDedicated", "tokenDedicated", "unlock"}

\* A step that moves one call, but not past the lock.
LEMMA MoveLocking ==
  ASSUME CallTypeOK, Locking, NEW p \in Procs, NEW label,
         Goto(p, label), \A q \in Procs : q # p => at'[q] = at[q],
         label \in Provisioning => Provisions(p) /\ at'[p] = at[p],
         dedicatedLock' = dedicatedLock
  PROVE  Locking'
  BY
  DEF CallTypeOK, Locking, ProvisioningIsExclusive, HoldsLock, Provisions, Goto,
      Provisioning

\* A call returns to the loop that called it.
LEMMA ReturnLocking ==
  ASSUME CallTypeOK, Locking, NEW p \in Procs,
         Allocate(p, Onward(p), NoCluster, NoInstance),
         dedicatedLock' = dedicatedLock
  PROVE  Locking'
<1>1. Onward(p) \notin Provisioning
  BY DEF Onward, Provisioning
<1>2. Goto(p, Onward(p)) /\ \A q \in Procs : q # p => at'[q] = at[q]
  BY DEF Allocate, CallTypeOK
<1>3. QED
  BY <1>1, <1>2, MoveLocking

\* No step lets a second call past the lock of a cluster.
LEMMA LockingStep ==
  ASSUME "slowCall" \notin Faults, TypeOK, CallsHold, Locking, [Next]_vars
  PROVE  Locking'
<1> USE InstancePoolAssumption
    DEF Locking, ProvisioningIsExclusive, HoldsLock, Provisions, Goto, Allocate, kvVars
<1>1. ASSUME NEW p \in Procs, BeginAllocation(p)
        PROVE  Locking'
    BY <1>1 DEF BeginAllocation, TypeOK, CallTypeOK
<1>2. ASSUME NEW p \in Procs, Release(p)
        PROVE  Locking'
    BY <1>2 DEF Release, TypeOK, CallTypeOK
<1>3. ASSUME NEW p \in Procs, ChooseInstance(p)
        PROVE  Locking'
    BY <1>3 DEF ChooseInstance, TypeOK, CallTypeOK
<1>4. ASSUME NEW p \in Procs, AssignInstance(p)
        PROVE  Locking'
    BY <1>4 DEF AssignInstance, Return, Onward, TypeOK, CallTypeOK
<1>5. ASSUME NEW p \in Procs, ExceedCapacity(p)
        PROVE  Locking'
    <2>1. CASE pc[p] = "rechoose"
      BY <1>5, <2>1, ReturnLocking DEF ExceedCapacity, TypeOK, Return
    <2>2. CASE pc[p] # "rechoose"
      <3>1. PICK label \in {"create", "lock"} : Allocate(p, label, at[p], NoInstance)
        BY <1>5, <2>2 DEF ExceedCapacity
      <3>2. QED
        BY <1>5, <3>1, MoveLocking
        DEF ExceedCapacity, TypeOK, CallTypeOK, Provisioning, Allocate
    <2>3. QED
      BY <2>1, <2>2
<1>6. ASSUME NEW p \in Procs, TakePoolLock(p)
        PROVE  Locking'
    <2>1. CASE poolLock
      BY <1>6, <2>1, ReturnLocking
      DEF TakePoolLock, TypeOK, Provisioning, Provisions, Return
    <2>2. CASE ~(poolLock)
      BY <1>6, <2>2, MoveLocking DEF TakePoolLock, TypeOK, Provisioning, Provisions
    <2>3. QED
      BY <2>1, <2>2
<1>7. ASSUME NEW p \in Procs, CreateDroplet(p)
        PROVE  Locking'
    BY <1>7 DEF CreateDroplet, TypeOK, CallTypeOK
<1>8. ASSUME NEW p \in Procs, CreateFails(p)
        PROVE  Locking'
    <2>1. CASE pc[p] = "create"
      BY <1>8, <2>1, ReturnLocking
      DEF CreateFails, TypeOK, Provisioning, Provisions, Throw
    <2>2. CASE ~(pc[p] = "create")
      BY <1>8, <2>2, MoveLocking DEF CreateFails, TypeOK, Provisioning, Provisions
    <2>3. QED
      BY <2>1, <2>2
<1>9. ASSUME NEW p \in Procs, InsertPool(p)
        PROVE  Locking'
    BY <1>9 DEF InsertPool, TypeOK, CallTypeOK
<1>10. ASSUME NEW p \in Procs, CreateToken(p)
         PROVE  Locking'
    <2>1. CASE Throw(p)
      BY <1>10, <2>1, ReturnLocking DEF CreateToken, TypeOK, Throw
    <2>2. CASE ~Throw(p)
      <3>1. PICK label \in {"rechoose", "recheck"} : Allocate(p, label, at[p], NoInstance)
        BY <1>10, <2>2 DEF CreateToken
      <3>2. QED
        BY <1>10, <3>1, MoveLocking
        DEF CreateToken, TypeOK, CallTypeOK, Provisioning, Allocate
    <2>3. QED
      BY <2>1, <2>2
<1>11. ASSUME NEW p \in Procs, Recheck(p)
         PROVE  Locking'
    <2>1. CASE assigned[at[p]] = NoInstance
      BY <1>11, <2>1, MoveLocking DEF Recheck, TypeOK, Provisioning, Provisions
    <2>2. CASE ~(assigned[at[p]] = NoInstance)
      BY <1>11, <2>2, ReturnLocking DEF Recheck, TypeOK, Provisioning, Provisions, Return
    <2>3. QED
      BY <2>1, <2>2
<1>12. ASSUME NEW p \in Procs, TakeDedicatedLock(p)
         PROVE  Locking'
    <2>1. CASE at[p] \in dedicatedLock
      <3>1. dedicatedLock' = dedicatedLock
        BY <1>12, <2>1 DEF TakeDedicatedLock
      <3>2. QED
        BY <1>12, <2>1, <3>1, ReturnLocking DEF TakeDedicatedLock, IsHeld, TypeOK, Return
    <2>2. CASE at[p] \notin dedicatedLock
      <3>1. /\ pc' = [pc EXCEPT ![p] = "createDedicated"] /\ at' = at
            /\ dedicatedLock' = dedicatedLock \cup {at[p]}
        BY <1>12, <2>2 DEF TakeDedicatedLock, IsHeld
      <3>2. \A q \in Procs : Provisions(q)' => q = p \/ (Provisions(q) /\ at[q] # at[p])
        BY <2>2, <3>1 DEF TypeOK, CallTypeOK
      <3>3. ProvisioningIsExclusive'
        BY <3>1, <3>2
      <3>4. HoldsLock'
        BY <3>1, <3>2
      <3>5. QED
        BY <3>3, <3>4
    <2>3. QED
      BY <2>1, <2>2
<1>13. ASSUME NEW p \in Procs, InsertDedicated(p)
         PROVE  Locking'
    BY <1>13 DEF InsertDedicated, TypeOK, CallTypeOK
<1>14. ASSUME NEW p \in Procs, TokenDedicated(p)
         PROVE  Locking'
    BY ZenonT(40), <1>14 DEF TokenDedicated, Return, Onward, TypeOK, CallTypeOK
<1>15. ASSUME NEW p \in Procs, Unlock(p)
         PROVE  Locking'
    BY <1>15 DEF Unlock, Throw, Onward, TypeOK, CallTypeOK
<1>16. ASSUME NEW l \in Logins, NEW c \in Clusters, Login(l, c)
         PROVE  Locking'
    BY <1>16 DEF Login, TypeOK, CallTypeOK
<1>17. ASSUME NEW l \in Logins, FindDedicated(l)
         PROVE  Locking'
    <2>1. CASE HasDedicated(at[l])
      BY <1>17, <2>1, ReturnLocking
      DEF FindDedicated, Procs, TypeOK, Provisioning, Provisions, Return
    <2>2. CASE ~(HasDedicated(at[l]))
      BY <1>17, <2>2, MoveLocking
      DEF FindDedicated, Procs, TypeOK, Provisioning, Provisions
    <2>3. QED
      BY <2>1, <2>2
<1>18. ASSUME NEW s \in Syncs, StartSync(s)
         PROVE  Locking'
    BY <1>18 DEF StartSync, Phase, TypeOK, CallTypeOK
<1>19. ASSUME NEW s \in Syncs, ListDroplets(s)
         PROVE  Locking'
    <2>1. CASE pc[s] = "list"
      BY <1>19, <2>1, MoveLocking
      DEF ListDroplets, Procs, TypeOK, Provisioning, Provisions
    <2>2. CASE ~(pc[s] = "list")
      BY <1>19, <2>2, MoveLocking
      DEF ListDroplets, Procs, TypeOK, Provisioning, Provisions, Phase
    <2>3. QED
      BY <2>1, <2>2
<1>20. ASSUME NEW s \in Syncs, ListRows(s)
         PROVE  Locking'
    <2>1. CASE pc[s] = "list"
      BY <1>20, <2>1, MoveLocking DEF ListRows, Procs, TypeOK, Provisioning, Provisions
    <2>2. CASE ~(pc[s] = "list")
      BY <1>20, <2>2, MoveLocking
      DEF ListRows, Procs, TypeOK, Provisioning, Provisions, Phase
    <2>3. QED
      BY <2>1, <2>2
<1>21. ASSUME NEW s \in Syncs, Adopt(s)
         PROVE  Locking'
    BY <1>21 DEF Adopt, Take, TypeOK, CallTypeOK
<1>22. ASSUME NEW s \in Syncs, EndAdopt(s)
         PROVE  Locking'
    BY <1>22 DEF EndAdopt, Phase, TypeOK, CallTypeOK
<1>23. ASSUME NEW s \in Syncs, RemoveStale(s)
         PROVE  Locking'
    BY <1>23 DEF RemoveStale, Take, TypeOK, CallTypeOK
<1>24. ASSUME NEW s \in Syncs, EndRemove(s)
         PROVE  Locking'
    BY <1>24 DEF EndRemove, Phase, TypeOK, CallTypeOK
<1>25. ASSUME NEW s \in Syncs, Demote(s)
         PROVE  Locking'
    BY <1>25 DEF Demote, Take, TypeOK, CallTypeOK
<1>26. ASSUME NEW s \in Syncs, EndDemote(s)
         PROVE  Locking'
    BY <1>26 DEF EndDemote, Phase, TypeOK, CallTypeOK
<1>27. ASSUME NEW s \in Syncs, AllocateUnassigned(s)
         PROVE  Locking'
    <2>1. PICK label \in {"lost", "next"} : Goto(s, label)
      BY <1>27 DEF AllocateUnassigned
    <2>2. QED
      BY <1>27, <2>1, MoveLocking DEF AllocateUnassigned, TypeOK, Procs, Provisioning
<1>28. ASSUME NEW s \in Syncs, NextUnassigned(s)
         PROVE  Locking'
    BY ZenonT(40), <1>28 DEF NextUnassigned, TypeOK, CallTypeOK
<1>29. ASSUME NEW s \in Syncs, MarkLost(s)
         PROVE  Locking'
    BY <1>29 DEF MarkLost, Take, TypeOK, CallTypeOK
<1>30. ASSUME NEW s \in Syncs, EndSync(s)
         PROVE  Locking'
    BY ZenonT(40), <1>30 DEF EndSync, TypeOK, CallTypeOK
<1>31. ASSUME NEW d \in Drains, ReadMap(d)
         PROVE  Locking'
    BY <1>31 DEF ReadMap, TypeOK, CallTypeOK
<1>32. ASSUME NEW d \in Drains, NextVictim(d)
         PROVE  Locking'
    BY <1>32 DEF NextVictim, TypeOK, CallTypeOK
<1>33. ASSUME NEW d \in Drains, Migrate(d)
         PROVE  Locking'
    BY <1>33 DEF Migrate, TypeOK, CallTypeOK
<1>34. ASSUME NEW d \in Drains, EndMigration(d)
         PROVE  Locking'
    <2>1. CASE ok[d]
      BY <1>34, <2>1, MoveLocking
      DEF EndMigration, Procs, NextDrained, TypeOK, Provisioning, Provisions
    <2>2. CASE ~(ok[d])
      BY <1>34, <2>2, MoveLocking
      DEF EndMigration, Procs, NextDrained, TypeOK, Provisioning, Provisions
    <2>3. QED
      BY <2>1, <2>2
<1>35. ASSUME NEW d \in Drains, DestroyDroplet(d)
         PROVE  Locking'
    BY ZenonT(40), <1>35 DEF DestroyDroplet, NextDrained, TypeOK, CallTypeOK
<1>36. ASSUME NEW d \in Drains, ForgetDestroyed(d)
         PROVE  Locking'
    BY <1>36 DEF ForgetDestroyed, NextDrained, TypeOK, CallTypeOK
<1>37. ASSUME NEW d \in Drains, EndDrain(d)
         PROVE  Locking'
    BY <1>37 DEF EndDrain, TypeOK, CallTypeOK
<1>38. ASSUME NEW i \in Instances, HealthCheck(i)
         PROVE  Locking'
    BY <1>38 DEF HealthCheck
<1>39. ASSUME NEW i \in Instances, LoseDroplet(i)
         PROVE  Locking'
    BY <1>39 DEF LoseDroplet
<1>40. CASE ExpirePoolLock
    BY <1>40 DEF ExpirePoolLock
<1>41. ASSUME NEW c \in Clusters, ExpireDedicatedLock(c)
         PROVE  Locking'
    BY <1>41 DEF ExpireDedicatedLock, TypeOK, CallTypeOK
<1>42. CASE UNCHANGED vars
    BY <1>42 DEF vars
<1>43. QED
    BY <1>1, <1>2, <1>3, <1>4, <1>5, <1>6, <1>7, <1>8, <1>9, <1>10, <1>11, <1>12,
       <1>13, <1>14, <1>15, <1>16, <1>17, <1>18, <1>19, <1>20, <1>21, <1>22, <1>23,
       <1>24, <1>25, <1>26, <1>27, <1>28, <1>29, <1>30, <1>31, <1>32, <1>33, <1>34,
       <1>35, <1>36, <1>37, <1>38, <1>39, <1>40, <1>41, <1>42
    DEF Next, AllocationStep, SyncStep, DrainStep

\* The theorem on ProvisioningIsExclusive.
THEOREM Exclusive ==
  ASSUME "slowCall" \notin Faults
  PROVE  Spec => []ProvisioningIsExclusive
<1>1. Init => Locking
  BY InstancePoolAssumption
  DEF Init, Locking, ProvisioningIsExclusive, HoldsLock, Provisions
<1>2. Typed /\ Locking /\ [Next]_vars => Locking'
  BY LockingStep DEF Typed
<1>3. Locking => ProvisioningIsExclusive
  BY DEF Locking
<1>4. QED
  BY <1>1, <1>2, <1>3, Typing, PTL DEF Spec
=============================================================================
