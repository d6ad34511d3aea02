---------------------------- MODULE InstancePool ----------------------------
(***************************************************************************)
(* Placement of clusters on instances.                                     *)
(*                                                                         *)
(* A cluster of a shared plan is assigned to a pool instance of its tier   *)
(* (clusters.pool_instance_id), one of the pro plan gets a dedicated       *)
(* instance (instances.cluster_id).  Three parts of the control plane move *)
(* clusters, each in calls that await the database, the key-value store or *)
(* the provider of virtual machines at every step: the login of a user     *)
(* (AuthService.provisionCluster), the periodic or triggered sync of       *)
(* NodeDoctor.nodesSync, and the drain of instances in maintenance that a  *)
(* sync starts and does not await.  InstancePool (services/pool.ts) is the *)
(* allocation they share.  Health checks (NodeDoctor.nodeHeartbeat) change *)
(* the status of the instances meanwhile.                                  *)
(*                                                                         *)
(* A process is one call; a step of it is one query, transaction, command  *)
(* or provider request with the synchronous code that follows it.          *)
(***************************************************************************)
EXTENDS Integers, FiniteSets

CONSTANTS
  Instances,   (* tags of instances: existing ones and fresh ones           *)
  Clusters,
  Plan,        (* getEffectivePlan of each cluster                          *)
  Tier,        (* metadata.tier of the instances                            *)
  Capacity,    (* instances.capacity                                        *)
  Logins,      (* calls of provisionCluster                                 *)
  Syncs,       (* runs of nodesSync that may overlap                        *)
  Drains,      (* drains that may overlap                                   *)
  Initial,     (* the pool instances that exist at the start                *)
  Placement,   (* their clusters at the start                               *)
  Ailing,      (* those that are in maintenance at the start                *)
  NoInstance,
  NoCluster,
  Quota,       (* INSTANCE_POOL_QUOTA                                       *)
  Faults       (* which faults of the environment may occur                 *)

Plans == {"hobby", "indie", "pro"}

FaultKinds ==
  {"nodeDown", "portClosed", "dropletLost", "vmFails", "storeFails",
   "slowCall"}

ASSUME InstancePoolAssumption ==
  /\ Plan \in [Clusters -> Plans]
  /\ Tier \in [Instances -> Plans]
  /\ Capacity \in [Instances -> Nat]
  /\ Initial \subseteq Instances /\ Ailing \subseteq Initial
  /\ Placement \in [Clusters -> Initial \cup {NoInstance}]
  /\ NoInstance \notin Instances
  /\ NoCluster \notin Clusters
  /\ Logins \cap Syncs = {} /\ Logins \cap Drains = {} /\ Syncs \cap Drains = {}
  /\ Quota \in Nat
  /\ Faults \subseteq FaultKinds

VARIABLES
  (* Database. *)
  kind,          (* instances.kind: "none" stands for no row                *)
  status,        (* instances.status                                        *)
  owner,         (* instances.cluster_id                                    *)
  assigned,      (* clusters.pool_instance_id                               *)
  (* Provider. *)
  droplets,      (* virtual machines that exist                             *)
  (* Key-value store. *)
  poolLock,      (* KV_KEYS.POOL.PROVISION_LOCK                             *)
  dedicatedLock, (* KV_KEYS.CLUSTER.DEDICATED_PROVISIONING                  *)
  (* The local state of each call. *)
  pc,            (* the step it takes next                                  *)
  at,            (* the cluster it allocates for                            *)
  inst,          (* the instance it chose or created                        *)
  left,          (* the instances its loop has left                         *)
  todo,          (* the clusters its loop has left                          *)
  found,         (* the droplets it listed                                  *)
  rows,          (* the statuses it listed                                  *)
  pooled,        (* the keys of a sync's poolMap                            *)
  doomed,        (* the instances a sync will drain                         *)
  listed,        (* the assignments a drain listed                          *)
  victim,        (* the instance a drain is migrating                       *)
  ok             (* allMigrated of a drain                                  *)

dbVars     == <<kind, status, owner, assigned>>
kvVars     == <<poolLock, dedicatedLock>>
loopVars   == <<left, todo>>
syncVars   == <<rows, pooled, doomed>>
drainVars  == <<listed, victim, ok>>
vars == <<dbVars, droplets, kvVars, pc, at, inst, loopVars, found, syncVars,
          drainVars>>

Procs == Logins \cup Syncs \cup Drains

Statuses ==
  {"provisioning", "healthy", "degraded", "unreachable", "offline", "maintenance"}

AllocationLabels ==
  {"begin", "release", "choose", "assign", "lock", "create", "insert", "token",
   "recheck", "rechoose",
   "takeLock", "createDedicated", "insertDedicated", "tokenDedicated", "unlock"}

Labels ==
  AllocationLabels \cup
  {"idle", "done", "find",                                       (* a login        *)
   "list", "listRows", "listDroplets", "adopt", "remove", "demote", "allocate",
   "next", "lost",                                        (* a sync         *)
   "map", "victims", "migrate", "evict", "destroy", "forget"} (* a drain    *)

DatabaseTypeOK ==
  /\ kind \in [Instances -> {"none", "pool", "dedicated"}]
  /\ status \in [Instances -> Statuses \cup {"absent"}]
  /\ owner \in [Instances -> Clusters \cup {NoCluster}]
  /\ assigned \in [Clusters -> Instances \cup {NoInstance}]
  \* a row has a status; CONSTRAINT instances_kind_cluster_check
  /\ \A i \in Instances : /\ kind[i] = "none" <=> status[i] = "absent"
                          /\ kind[i] = "dedicated" <=> owner[i] # NoCluster

CallTypeOK ==
  /\ pc \in [Procs -> Labels]
  /\ at \in [Procs -> Clusters \cup {NoCluster}]
  /\ inst \in [Procs -> Instances \cup {NoInstance}]
  /\ left \in [Procs -> SUBSET Instances]
  /\ todo \in [Procs -> SUBSET Clusters]
  /\ found \in [Procs -> SUBSET Instances]
  /\ rows \in [Syncs -> [Instances -> Statuses \cup {"absent"}]]
  /\ pooled \in [Syncs -> SUBSET Instances]
  /\ doomed \in [Syncs -> SUBSET Instances]
  /\ listed \in [Drains -> [Clusters -> Instances \cup {NoInstance}]]
  /\ victim \in [Drains -> Instances \cup {NoInstance}]
  /\ ok \in [Drains -> BOOLEAN]

TypeOK ==
  /\ DatabaseTypeOK
  /\ CallTypeOK
  /\ droplets \in SUBSET Instances
  /\ poolLock \in BOOLEAN
  /\ dedicatedLock \in SUBSET Clusters

NoRows == [i \in Instances |-> "absent"]
NoAssignments == [c \in Clusters |-> NoInstance]

Init ==
  /\ kind = [i \in Instances |-> IF i \in Initial THEN "pool" ELSE "none"]
  /\ status = [i \in Instances |-> IF i \in Ailing THEN "maintenance"
                                   ELSE IF i \in Initial THEN "healthy" ELSE "absent"]
  /\ owner = [i \in Instances |-> NoCluster]
  /\ assigned = Placement
  /\ droplets = Initial
  \* an earlier call may have left the lock, whose TTL runs
  /\ poolLock \in BOOLEAN
  /\ dedicatedLock = {}
  /\ pc = [p \in Procs |-> "idle"]
  /\ at = [p \in Procs |-> NoCluster]
  /\ inst = [p \in Procs |-> NoInstance]
  /\ left = [p \in Procs |-> {}]
  /\ todo = [p \in Procs |-> {}]
  /\ found = [p \in Procs |-> {}]
  /\ rows = [s \in Syncs |-> NoRows]
  /\ pooled = [s \in Syncs |-> {}]
  /\ doomed = [s \in Syncs |-> {}]
  /\ listed = [d \in Drains |-> NoAssignments]
  /\ victim = [d \in Drains |-> NoInstance]
  /\ ok = [d \in Drains |-> TRUE]

Goto(p, label) == pc' = [pc EXCEPT ![p] = label]

Allocate(p, label, c, i) ==
  /\ Goto(p, label)
  /\ at' = [at EXCEPT ![p] = c]
  /\ inst' = [inst EXCEPT ![p] = i]

\* Where a call goes on once it is done with a cluster: the loop of a sync over
\* the unassigned clusters, or of a drain over the clusters of its victim.
Onward(p) ==
  IF p \in Syncs THEN "next" ELSE IF p \in Drains THEN "migrate" ELSE "done"

\* The allocation returns.
Return(p) == Allocate(p, Onward(p), NoCluster, NoInstance) /\ UNCHANGED ok

\* The allocation throws, and the loop that called it catches the error.
Throw(p) ==
  /\ Allocate(p, Onward(p), NoCluster, NoInstance)
  /\ ok' = [d \in Drains |-> ok[d] /\ d # p]

----------------------------------------------------------------------------
(***************************************************************************)
(* The tables.                                                             *)
(***************************************************************************)

On(i) == {c \in Clusters : assigned[c] = i}

\* The row is locked FOR UPDATE by a transaction of assignPool: updates and
\* deletions of it wait for the commit.
Locked(i) == \E p \in Procs : pc[p] = "assign" /\ inst[p] = i

HasDedicated(c) == \E i \in Instances : owner[i] = c

\* listUnassignedClusters.
Unassigned ==
  {c \in Clusters : /\ ~HasDedicated(c)
                    /\ assigned[c] = NoInstance \/ Plan[c] = "pro"}

\* instances.update: a row that is gone is not an error.
Updated(i, s) == [status EXCEPT ![i] = IF kind[i] = "none" THEN "absent" ELSE s]

UpdateRow(i, s) ==
  /\ ~Locked(i)
  /\ status' = Updated(i, s)
  /\ UNCHANGED <<kind, owner, assigned>>

\* addPool: a row with the tag keeps its kind and takes the status.
AddPool(i, s) ==
  /\ ~Locked(i)
  /\ kind' = [kind EXCEPT ![i] = IF @ = "none" THEN "pool" ELSE @]
  /\ status' = [status EXCEPT ![i] = s]
  /\ UNCHANGED <<owner, assigned>>

\* Variant with a bug: the assignments of a removed instance stay.
AssignedKept(i) == assigned

\* FOREIGN KEY (pool_instance_id) ... ON DELETE SET NULL.
AssignedWithout(i) == [c \in Clusters |-> IF assigned[c] = i THEN NoInstance ELSE assigned[c]]

\* removePool.
RemovePool(i) ==
  /\ ~Locked(i)
  /\ IF kind[i] = "pool"
     THEN /\ kind' = [kind EXCEPT ![i] = "none"]
          /\ status' = [status EXCEPT ![i] = "absent"]
          /\ assigned' = AssignedWithout(i)
     ELSE UNCHANGED <<kind, status, assigned>>
  /\ UNCHANGED owner

----------------------------------------------------------------------------
(***************************************************************************)
(* Allocation: allocateForPlan, allocateSharedPool, createPoolInstance,    *)
(* spawnPoolInstance and spawnDedicatedInstance.                           *)
(***************************************************************************)

\* provisionCluster always asks for a hobby instance.
TierFor(p) == IF p \in Logins THEN "hobby" ELSE Plan[at[p]]

BeginAllocation(p) ==
  /\ pc[p] = "begin"
  /\ Goto(p, IF Plan[at[p]] = "pro" THEN "release" ELSE "choose")
  /\ UNCHANGED <<dbVars, droplets, kvVars, at, inst, loopVars, found, syncVars, drainVars>>

\* releasePoolInstance, of a pro cluster or of a cluster that is drained.
Release(p) ==
  /\ pc[p] \in {"release", "evict"}
  /\ assigned' = [assigned EXCEPT ![at[p]] = NoInstance]
  /\ Goto(p, IF pc[p] = "evict" THEN "begin" ELSE "takeLock")
  /\ UNCHANGED <<kind, status, owner, droplets, kvVars, at, inst, loopVars, found,
                 syncVars, drainVars>>

HasRoom(i) == Cardinality(On(i)) < Capacity[i]

Candidates(tier) ==
  {i \in Instances : /\ kind[i] = "pool" /\ status[i] = "healthy"
                     /\ Tier[i] = tier /\ HasRoom(i)}

\* assignPool selects and locks the row of the least loaded instance.  A second
\* transaction that selects the same row waits for the first to commit, but
\* does not count the clusters again: the row it waited for has not changed.
ChooseInstance(p) ==
  /\ pc[p] \in {"choose", "rechoose"}
  /\ \E i \in Candidates(TierFor(p)) :
       /\ \A j \in Candidates(TierFor(p)) : Cardinality(On(i)) <= Cardinality(On(j))
       /\ Allocate(p, "assign", at[p], i)
  /\ UNCHANGED <<dbVars, droplets, kvVars, loopVars, found, syncVars, drainVars>>

AssignInstance(p) ==
  /\ pc[p] = "assign"
  /\ assigned' = [assigned EXCEPT ![at[p]] = inst[p]]
  /\ Return(p)
  /\ UNCHANGED <<kind, status, owner, droplets, kvVars, loopVars, found, syncVars,
                 listed, victim>>

\* PoolCapacityExceededError: allocateSharedPool goes for the provisioning lock,
\* spawnPoolInstance creates an instance without it.  The second time the
\* cluster is left to a later sync.
ExceedCapacity(p) ==
  /\ pc[p] \in {"choose", "rechoose"}
  /\ Candidates(TierFor(p)) = {}
  /\ IF pc[p] = "rechoose"
     THEN Return(p)
     ELSE Allocate(p, IF p \in Logins THEN "create" ELSE "lock", at[p], NoInstance)
          /\ UNCHANGED ok
  /\ UNCHANGED <<dbVars, droplets, kvVars, loopVars, found, syncVars, listed, victim>>

\* kv.incr of the provisioning lock, which only its TTL releases.
TakePoolLock(p) ==
  /\ pc[p] = "lock"
  /\ poolLock' = TRUE
  /\ IF poolLock
     THEN Return(p)
     ELSE Goto(p, "create") /\ UNCHANGED <<at, inst, ok>>
  /\ UNCHANGED <<dbVars, droplets, dedicatedLock, loopVars, found, syncVars,
                 listed, victim>>

\* A tag nobody knows yet.  Tags are drawn at random and rows have ids of their
\* own, so a tag is used again here only once nothing refers to it any more.
Fresh(i) ==
  /\ kind[i] = "none" /\ i \notin droplets
  /\ \A p \in Procs : inst[p] # i /\ i \notin left[p] /\ i \notin found[p]
  /\ \A s \in Syncs : rows[s][i] = "absent" /\ i \notin doomed[s]
  /\ \A d \in Drains : victim[d] # i /\ \A c \in Clusters : listed[d][c] # i

\* vm.create.
CreateDroplet(p) ==
  /\ pc[p] \in {"create", "createDedicated"}
  /\ \E i \in Instances :
       /\ Fresh(i)
       /\ Tier[i] = IF pc[p] = "create" THEN TierFor(p) ELSE "pro"
       /\ droplets' = droplets \cup {i}
       /\ Allocate(p, IF pc[p] = "create" THEN "insert" ELSE "insertDedicated", at[p], i)
  /\ UNCHANGED <<dbVars, kvVars, loopVars, found, syncVars, drainVars>>

\* The provider refuses, or the bound on instances is reached.
CreateFails(p) ==
  /\ pc[p] \in {"create", "createDedicated"}
  /\ \/ "vmFails" \in Faults
     \/ ~\E i \in Instances : Fresh(i) /\ Tier[i] = IF pc[p] = "create" THEN TierFor(p) ELSE "pro"
  /\ IF pc[p] = "create"
     THEN Throw(p)
     ELSE Goto(p, "unlock") /\ UNCHANGED <<at, inst, ok>>
  /\ UNCHANGED <<dbVars, droplets, kvVars, loopVars, found, syncVars, listed, victim>>

InsertPool(p) ==
  /\ pc[p] = "insert"
  /\ AddPool(inst[p], "provisioning")
  /\ Goto(p, "token")
  /\ UNCHANGED <<droplets, kvVars, at, inst, loopVars, found, syncVars, drainVars>>

\* bootstrapTokens.create, whose foreign key fails if the row is gone again.
CreateToken(p) ==
  /\ pc[p] = "token"
  /\ \/ /\ kind[inst[p]] # "none"
        /\ Allocate(p, IF p \in Logins THEN "rechoose" ELSE "recheck", at[p], NoInstance)
        /\ UNCHANGED ok
     \/ /\ kind[inst[p]] = "none" \/ "storeFails" \in Faults
        /\ Throw(p)
  /\ UNCHANGED <<dbVars, droplets, kvVars, loopVars, found, syncVars, listed, victim>>

\* getClusterPoolInstance: another call may have placed the cluster meanwhile.
Recheck(p) ==
  /\ pc[p] = "recheck"
  /\ IF assigned[at[p]] = NoInstance
     THEN Goto(p, "rechoose") /\ UNCHANGED <<at, inst, ok>>
     ELSE Return(p)
  /\ UNCHANGED <<dbVars, droplets, kvVars, loopVars, found, syncVars, listed, victim>>

\* Variant with a bug: the lock of the cluster is read but not respected.
IsHeldIgnored(c) == FALSE

IsHeld(c) == c \in dedicatedLock

\* kv.incr of the lock of a cluster's dedicated instance.
TakeDedicatedLock(p) ==
  /\ pc[p] = "takeLock"
  /\ dedicatedLock' = dedicatedLock \cup {at[p]}
  /\ IF IsHeld(at[p])
     THEN Return(p)
     ELSE Goto(p, "createDedicated") /\ UNCHANGED <<at, inst, ok>>
  /\ UNCHANGED <<dbVars, droplets, poolLock, loopVars, found, syncVars, listed, victim>>

\* instances.create; the status is the column's default.  It violates the unique
\* tag when a sync has already adopted the droplet.
InsertDedicated(p) ==
  LET i == inst[p]
  IN /\ pc[p] = "insertDedicated"
     /\ \/ /\ kind[i] = "none"
           /\ kind' = [kind EXCEPT ![i] = "dedicated"]
           /\ status' = [status EXCEPT ![i] = "healthy"]
           /\ owner' = [owner EXCEPT ![i] = at[p]]
           /\ Goto(p, "tokenDedicated")
        \/ /\ kind[i] # "none"
           /\ Goto(p, "unlock")
           /\ UNCHANGED <<kind, status, owner>>
     /\ UNCHANGED <<assigned, droplets, kvVars, at, inst, loopVars, found, syncVars,
                    drainVars>>

\* The lock is kept when all went well.
TokenDedicated(p) ==
  /\ pc[p] = "tokenDedicated"
  /\ \/ Return(p)
     \/ /\ "storeFails" \in Faults
        /\ Goto(p, "unlock") /\ UNCHANGED <<at, inst, ok>>
  /\ UNCHANGED <<dbVars, droplets, kvVars, loopVars, found, syncVars, listed, victim>>

\* The catch of spawnDedicatedInstance.
Unlock(p) ==
  /\ pc[p] = "unlock"
  /\ dedicatedLock' = dedicatedLock \ {at[p]}
  /\ Throw(p)
  /\ UNCHANGED <<dbVars, droplets, poolLock, loopVars, found, syncVars, listed, victim>>

AllocationStep(p) ==
  \/ BeginAllocation(p) \/ Release(p) \/ ChooseInstance(p) \/ AssignInstance(p)
  \/ ExceedCapacity(p) \/ TakePoolLock(p) \/ CreateDroplet(p) \/ CreateFails(p)
  \/ InsertPool(p) \/ CreateToken(p) \/ Recheck(p) \/ TakeDedicatedLock(p)
  \/ InsertDedicated(p) \/ TokenDedicated(p) \/ Unlock(p)

----------------------------------------------------------------------------
(***************************************************************************)
(* A login: AuthService.provisionCluster.                                  *)
(***************************************************************************)

\* clusters.upsert returns the cluster as it is then.
Login(l, c) ==
  /\ pc[l] = "idle"
  /\ assigned[c] = NoInstance
  /\ Allocate(l, "find", c, NoInstance)
  /\ UNCHANGED <<dbVars, droplets, kvVars, loopVars, found, syncVars, drainVars>>

\* "Skip pool assignment if the cluster already has a dedicated instance".
FindDedicated(l) ==
  /\ pc[l] = "find"
  /\ IF HasDedicated(at[l])
     THEN Return(l)
     ELSE Goto(l, "choose") /\ UNCHANGED <<at, inst, ok>>
  /\ UNCHANGED <<dbVars, droplets, kvVars, loopVars, found, syncVars, listed, victim>>

----------------------------------------------------------------------------
(***************************************************************************)
(* A sync: NodeDoctor.nodesSync.  Its phases work on what it listed at the *)
(* start, one await per instance or cluster.                               *)
(***************************************************************************)

\* The next phase, with the instances its loop is over.
Phase(s, label, is) ==
  /\ Goto(s, label)
  /\ left' = [left EXCEPT ![s] = is]

Take(p, i) == i \in left[p] /\ left' = [left EXCEPT ![p] = @ \ {i}] /\ UNCHANGED pc

StartSync(s) ==
  /\ pc[s] = "idle"
  /\ Goto(s, "list")
  /\ UNCHANGED <<dbVars, droplets, kvVars, at, inst, loopVars, found, syncVars, drainVars>>

\* Droplets that are not in poolMap, which dedicated ones never are.
Untracked(ds, is) == ds \ is

PoolRows == {i \in Instances : kind[i] = "pool"}

\* The provider and the database are asked at the same time (Promise.all).
ListDroplets(s) ==
  /\ pc[s] \in {"list", "listDroplets"}
  /\ found' = [found EXCEPT ![s] = droplets]
  /\ IF pc[s] = "list"
     THEN Goto(s, "listRows") /\ UNCHANGED left
     ELSE Phase(s, "adopt", Untracked(droplets, pooled[s]))
  /\ UNCHANGED <<dbVars, droplets, kvVars, at, inst, todo, syncVars, drainVars>>

ListRows(s) ==
  /\ pc[s] \in {"list", "listRows"}
  /\ rows' = [rows EXCEPT ![s] = status]
  /\ pooled' = [pooled EXCEPT ![s] = PoolRows]
  /\ IF pc[s] = "list"
     THEN Goto(s, "listDroplets") /\ UNCHANGED left
     ELSE Phase(s, "adopt", Untracked(found[s], PoolRows))
  /\ UNCHANGED <<dbVars, droplets, kvVars, at, inst, todo, found, doomed, drainVars>>

\* syncDropletsAndInstances: a droplet without an entry in poolMap is added, with
\* what the provider says of it; addPool overwrites the status of a row that
\* exists.  (A changed address or metadata of a known droplet changes nothing
\* here.)
Adopt(s) ==
  /\ pc[s] = "adopt"
  /\ \E i \in left[s], st \in {"degraded", "offline"} :
       /\ Take(s, i)
       /\ AddPool(i, st)
       /\ rows' = [rows EXCEPT ![s][i] = st]
       /\ pooled' = [pooled EXCEPT ![s] = @ \cup {i}]
  /\ UNCHANGED <<droplets, kvVars, at, inst, todo, found, doomed, drainVars>>

\* Variant with a bug: only rows in maintenance are compared with the provider.
StaleAiling(s) == {i \in pooled[s] \ found[s] : rows[s][i] = "maintenance"}

Stale(s) == pooled[s] \ found[s]

EndAdopt(s) ==
  /\ pc[s] = "adopt" /\ left[s] = {}
  /\ Phase(s, "remove", Stale(s))
  /\ UNCHANGED <<dbVars, droplets, kvVars, at, inst, todo, found, syncVars, drainVars>>

\* removeStaleInstances.
RemoveStale(s) ==
  /\ pc[s] = "remove"
  /\ \E i \in left[s] : Take(s, i) /\ RemovePool(i)
  /\ UNCHANGED <<droplets, kvVars, at, inst, todo, found, syncVars, drainVars>>

Demotable == {"offline", "unreachable", "degraded"}

EndRemove(s) ==
  /\ pc[s] = "remove" /\ left[s] = {}
  /\ Phase(s, "demote", {i \in pooled[s] : rows[s][i] \in Demotable})
  /\ UNCHANGED <<dbVars, droplets, kvVars, at, inst, todo, found, syncVars, drainVars>>

\* demoteUnhealthyInstancesToMaintenance, by the listed status.  A degraded
\* instance is left alone within thirty seconds of its decommission flag.
Demote(s) ==
  /\ pc[s] = "demote"
  /\ \E i \in left[s] :
       /\ Take(s, i)
       /\ \/ UpdateRow(i, "maintenance")
          \/ rows[s][i] = "degraded" /\ UNCHANGED dbVars
  /\ UNCHANGED <<droplets, kvVars, at, inst, todo, found, syncVars, drainVars>>

\* The dedicated rows it listed whose droplet is gone.
Lost(s) ==
  {i \in Instances \ (found[s] \cup pooled[s]) : rows[s][i] \notin {"absent", "offline"}}

\* What the later phases need of the lists: the lost dedicated rows, and the
\* pool rows that were in maintenance, for nodesDrain.
EndDemote(s) ==
  /\ pc[s] = "demote" /\ left[s] = {}
  /\ Phase(s, "allocate", Lost(s))
  /\ doomed' = [doomed EXCEPT ![s] = {i \in pooled[s] : rows[s][i] = "maintenance"}]
  /\ rows' = [rows EXCEPT ![s] = NoRows]
  /\ pooled' = [pooled EXCEPT ![s] = {}]
  /\ UNCHANGED <<dbVars, droplets, kvVars, at, inst, todo, found, drainVars>>

\* allocateUnassignedCapacity.
AllocateUnassigned(s) ==
  /\ pc[s] = "allocate"
  /\ IF Cardinality(found[s]) >= Quota \/ poolLock
     THEN Goto(s, "lost") /\ UNCHANGED todo
     ELSE Goto(s, "next") /\ todo' = [todo EXCEPT ![s] = Unassigned]
  /\ found' = [found EXCEPT ![s] = {}]
  /\ UNCHANGED <<dbVars, droplets, kvVars, at, inst, left, syncVars, drainVars>>

NextUnassigned(s) ==
  /\ pc[s] = "next"
  /\ \/ \E c \in todo[s] :
          /\ todo' = [todo EXCEPT ![s] = @ \ {c}]
          /\ Allocate(s, "begin", c, NoInstance)
     \/ /\ todo[s] = {}
        /\ Goto(s, "lost")
        /\ UNCHANGED <<todo, at, inst>>
  /\ UNCHANGED <<dbVars, droplets, kvVars, left, found, syncVars, drainVars>>

\* syncDedicatedInstances: no droplet means offline.  (A droplet that is not
\* active is only a different status.)
MarkLost(s) ==
  /\ pc[s] = "lost"
  /\ \E i \in left[s] : Take(s, i) /\ UpdateRow(i, "offline")
  /\ UNCHANGED <<droplets, kvVars, at, inst, todo, found, syncVars, drainVars>>

\* nodesDrain is called with the listed pool entries, and not awaited.
EndSync(s) ==
  /\ pc[s] = "lost" /\ left[s] = {}
  /\ \/ /\ doomed[s] = {}
        /\ Goto(s, "idle")
        /\ UNCHANGED left
     \/ \E d \in Drains :
          /\ doomed[s] # {} /\ pc[d] = "idle"
          /\ pc' = [pc EXCEPT ![s] = "idle", ![d] = "map"]
          /\ left' = [left EXCEPT ![d] = doomed[s]]
  /\ doomed' = [doomed EXCEPT ![s] = {}]
  /\ UNCHANGED <<dbVars, droplets, kvVars, at, inst, todo, found, rows, pooled, drainVars>>

SyncStep(s) ==
  \/ ListDroplets(s) \/ ListRows(s) \/ Adopt(s) \/ EndAdopt(s) \/ RemoveStale(s)
  \/ EndRemove(s) \/ Demote(s) \/ EndDemote(s) \/ AllocateUnassigned(s)
  \/ NextUnassigned(s) \/ MarkLost(s) \/ EndSync(s)

----------------------------------------------------------------------------
(***************************************************************************)
(* A drain: NodeDoctor.nodesDrain, migrateClusters and destroyDroplet.     *)
(***************************************************************************)

\* getPoolClustersMap and vm.list.
ReadMap(d) ==
  /\ pc[d] = "map"
  /\ listed' = [listed EXCEPT ![d] = assigned]
  /\ found' = [found EXCEPT ![d] = droplets]
  /\ Goto(d, "victims")
  /\ UNCHANGED <<dbVars, droplets, kvVars, at, inst, loopVars, syncVars, victim, ok>>

NextVictim(d) ==
  /\ pc[d] = "victims"
  /\ \E i \in left[d] :
       /\ left' = [left EXCEPT ![d] = @ \ {i}]
       /\ victim' = [victim EXCEPT ![d] = i]
       /\ todo' = [todo EXCEPT ![d] = {c \in Clusters : listed[d][c] = i}]
  /\ Goto(d, "migrate")
  /\ ok' = [ok EXCEPT ![d] = TRUE]
  /\ UNCHANGED <<dbVars, droplets, kvVars, at, inst, found, syncVars, listed>>

\* The next cluster of the victim is released and allocated anew.
Migrate(d) ==
  /\ pc[d] = "migrate"
  /\ \E c \in todo[d] :
       /\ todo' = [todo EXCEPT ![d] = @ \ {c}]
       /\ Allocate(d, "evict", c, NoInstance)
  /\ UNCHANGED <<dbVars, droplets, kvVars, left, found, syncVars, drainVars>>

NextDrained(d) ==
  /\ Goto(d, "victims")
  /\ victim' = [victim EXCEPT ![d] = NoInstance]

EndMigration(d) ==
  /\ pc[d] = "migrate" /\ todo[d] = {}
  /\ IF ok[d] THEN Goto(d, "destroy") /\ UNCHANGED <<victim, ok>>
              ELSE NextDrained(d) /\ ok' = [ok EXCEPT ![d] = TRUE]
  /\ UNCHANGED <<dbVars, droplets, kvVars, at, inst, loopVars, found, syncVars, listed>>

\* vm.delete, of a droplet that was listed and may be gone since; when the
\* provider refuses, the row is kept.
DestroyDroplet(d) ==
  /\ pc[d] = "destroy"
  /\ \/ /\ droplets' = IF victim[d] \in found[d] THEN droplets \ {victim[d]} ELSE droplets
        /\ Goto(d, "forget")
        /\ UNCHANGED victim
     \/ /\ victim[d] \in found[d] /\ "vmFails" \in Faults
        /\ NextDrained(d)
        /\ UNCHANGED droplets
  /\ UNCHANGED <<dbVars, kvVars, at, inst, loopVars, found, syncVars, listed, ok>>

ForgetDestroyed(d) ==
  /\ pc[d] = "forget"
  /\ RemovePool(victim[d])
  /\ NextDrained(d)
  /\ UNCHANGED <<droplets, kvVars, at, inst, loopVars, found, syncVars, listed, ok>>

EndDrain(d) ==
  /\ pc[d] = "victims" /\ left[d] = {}
  /\ Goto(d, "idle")
  /\ found' = [found EXCEPT ![d] = {}]
  /\ listed' = [listed EXCEPT ![d] = NoAssignments]
  /\ UNCHANGED <<dbVars, droplets, kvVars, at, inst, loopVars, syncVars, victim, ok>>

DrainStep(d) ==
  \/ ReadMap(d) \/ NextVictim(d) \/ Migrate(d) \/ EndMigration(d)
  \/ DestroyDroplet(d) \/ ForgetDestroyed(d) \/ EndDrain(d)

----------------------------------------------------------------------------
(***************************************************************************)
(* Health checks, the nodes, the provider and the clock.                   *)
(***************************************************************************)

\* nodeHeartbeat for one instance.  The verdict on the node's connection and
\* reports, and the TCP probe that confirms it, may come out either way when
\* nodes go down; a node without a droplet is never found well.  An instance
\* within its startup grace is not checked.  The statuses the check listed may
\* be old, but what it writes does not depend on them.
HealthCheck(i) ==
  /\ kind[i] # "none"
  /\ \E verdict \in {"healthy", "degraded", "unreachable"} :
       /\ verdict # status[i]
       /\ verdict = "healthy" => i \in droplets
       /\ verdict # "healthy" => "nodeDown" \in Faults \/ i \notin droplets
       /\ verdict = "unreachable" => "portClosed" \in Faults \/ i \notin droplets
       /\ UpdateRow(i, verdict)
  /\ UNCHANGED <<droplets, kvVars, pc, at, inst, loopVars, found, syncVars, drainVars>>

\* A droplet is deleted at the provider.
LoseDroplet(i) ==
  /\ "dropletLost" \in Faults /\ i \in droplets
  /\ droplets' = droplets \ {i}
  /\ UNCHANGED <<dbVars, kvVars, pc, at, inst, loopVars, found, syncVars, drainVars>>

ExpirePoolLock ==
  /\ poolLock
  /\ poolLock' = FALSE
  /\ UNCHANGED <<dbVars, droplets, dedicatedLock, pc, at, inst, loopVars, found,
                 syncVars, drainVars>>

\* The TTL (ten minutes) outlasts a call that is about to take or took the lock,
\* unless calls are slow.
ExpireDedicatedLock(c) ==
  /\ c \in dedicatedLock
  /\ (\A p \in Procs : at[p] # c /\ c \notin todo[p]) \/ "slowCall" \in Faults
  /\ dedicatedLock' = dedicatedLock \ {c}
  /\ UNCHANGED <<dbVars, droplets, poolLock, pc, at, inst, loopVars, found,
                 syncVars, drainVars>>

----------------------------------------------------------------------------

Next ==
  \/ \E p \in Procs : AllocationStep(p)
  \/ \E l \in Logins : FindDedicated(l) \/ \E c \in Clusters : Login(l, c)
  \/ \E s \in Syncs : StartSync(s) \/ SyncStep(s)
  \/ \E d \in Drains : DrainStep(d)
  \/ \E i \in Instances : HealthCheck(i) \/ LoseDroplet(i)
  \/ ExpirePoolLock
  \/ \E c \in Clusters : ExpireDedicatedLock(c)

Spec == Init /\ [][Next]_vars

(***************************************************************************)
(* Calls run to their end and the sync is started again by its interval    *)
(* (background/index.ts).  An update that waits for a row lock gets it:    *)
(* the database queues the waiting transactions, hence strong fairness.    *)
(***************************************************************************)
Fairness ==
  /\ \A l \in Logins : WF_vars(FindDedicated(l) \/ AllocationStep(l))
  /\ \A s \in Syncs : SF_vars(StartSync(s) \/ SyncStep(s) \/ AllocationStep(s))
  /\ \A d \in Drains : SF_vars(DrainStep(d) \/ AllocationStep(d))

FairSpec == Spec /\ Fairness

----------------------------------------------------------------------------
(***************************************************************************)
(* Properties.                                                             *)
(***************************************************************************)

\* A cluster is assigned to a pool instance whose row exists, although rows are
\* removed by syncs and drains while transactions of assignPool choose them.
AssignedIsPool ==
  \A c \in Clusters : assigned[c] # NoInstance => kind[assigned[c]] = "pool"

\* Past the lock of the cluster at[p].
Provisions(p) ==
  pc[p] \in {"createDedicated", "insertDedicated", "tokenDedicated", "unlock"}

\* Two calls never provision a dedicated instance for one cluster at a time,
\* however many syncs and drains work on stale lists of unassigned clusters, and
\* although the catch of spawnDedicatedInstance deletes the lock without asking
\* whose it is: each machine is paid for.
ProvisioningIsExclusive ==
  \A p, q \in Procs : Provisions(p) /\ Provisions(q) /\ at[p] = at[q] => p = q

\* A pool row without its droplet, or a droplet without a row.
Mismatched(i) ==
  \/ kind[i] = "pool" /\ i \notin droplets
  \/ kind[i] = "none" /\ i \in droplets

\* The table of instances and the provider agree in the end: a row is removed
\* whose droplet a half finished drain or the provider's owner deleted, and a
\* droplet is adopted whose creator failed before it inserted the row, so that
\* no machine is paid for unnoticed.
MismatchIsRepaired ==
  \A i \in Instances : Mismatched(i) ~> ~Mismatched(i)

\* What the code does not keep.

\* "Returns true only when every cluster migrated successfully"
\* (node-doctor.ts:269): an instance is destroyed only when each cluster it
\* carried has a place.
MigratedIsPlaced ==
  \A d \in Drains, c \in Clusters :
    pc[d] = "destroy" /\ listed[d][c] = victim[d] =>
      HasDedicated(c) \/ assigned[c] # NoInstance
============================================================================
