--------------------------- MODULE ServiceTraffic ---------------------------
(***************************************************************************)
(* The flags that say whether a service sleeps, wakes or was deleted, the  *)
(* route that leads its visitors to the node or to the loading page, and   *)
(* the job that compares the services of a cluster with what its nodes     *)
(* report (lib/node/workload-supervisor.ts).  The job goes through the     *)
(* services phase by phase; here its work on one service is one request,   *)
(* so that the phases of different services run in any order.              *)
(***************************************************************************)
EXTENDS ServiceRecords

CONSTANT Hobby   (* the clusters whose effective plan is hobby              *)

ASSUME ServiceTrafficAssumption == Hobby \subseteq Clusters

VARIABLES
  sleeping,     (* SERVICE.SLEEPING                                         *)
  waking,       (* SERVICE.WAKING                                           *)
  tombstone,    (* SERVICE.DELETED                                          *)
  route,        (* TRAEFIK.SERVICE_URL: none, the stub or the node          *)
  reported,     (* INSTANCE.ENTITY(node, workloads): the services it runs   *)
  cooling,      (* reprovisionSentAt, within the cooldown; in memory        *)
  reprovisions  (* history: deploy tasks the job sent or queued since the   *)
                (* cooldown of a service was last over, without those whose *)
                (* enqueueBuild failed after it                             *)

flagVars    == <<sleeping, waking, tombstone>>
trafficVars == <<flagVars, route, reported, cooling, reprovisions>>

Routes == {"none", "stub", "node"}

\* What the other steps of a request leave alone.
Keep(r) == UNCHANGED recordVars /\ UNCHANGED trafficVars

\* sendTask: TRUE when the node of the cluster is connected.  A task has no
\* other effect here: what the node makes of it, it reports.
Sends(r, next) == Goto(r, next) \/ Return(r)

(* --- Stopping, starting and waking a service ------------------------------ *)

StopService(r, n)  == BeginOn(r, "stop", n, "sendSleep") /\ Keep(r)
StartService(r, n) == BeginOn(r, "start", n, "sendWake") /\ Keep(r)
\* hobbySleepSupervisor: the services listed when the job began.
SleepJob(r, n) ==
  BeginOn(r, "sleepJob", n, "skipAsleep") /\ services[n].cluster \in Hobby /\ Keep(r)
SkipAsleep(r) ==
  /\ At(r, "skipAsleep")
  /\ IF req[r].name \in sleeping THEN Return(r) ELSE Goto(r, "sendSleep") \/ Return(r)
  /\ Keep(r)
SendSleep(r) == At(r, "sendSleep") /\ Sends(r, "markSleeping") /\ Keep(r)

\* setServicesLoadingMode, when the socket of the node of a cluster is gone: the
\* services are listed, then marked.
NodeLost(r, n) == BeginOn(r, "nodeLost", n, "markSleeping") /\ Keep(r)

\* Only the job leaves the route alone.
MarkSleeping(r) ==
  LET n == req[r].name IN
  /\ At(r, "markSleeping")
  /\ sleeping' = sleeping \cup {n}
  /\ route' = IF req[r].op # "sleepJob" THEN [route EXCEPT ![n] = "stub"] ELSE route
  /\ Return(r)
  /\ UNCHANGED <<recordVars, waking, tombstone, reported, cooling, reprovisions>>

\* hobbyIceSupervisor.
IceJob(r, n) ==
  BeginOn(r, "iceJob", n, "sendIce") /\ services[n].cluster \in Hobby /\ ~services[n].iced /\ Keep(r)
SendIce(r) == At(r, "sendIce") /\ Sends(r, "markIced") /\ Keep(r)
MarkIced(r) ==
  LET n == req[r].name IN
  /\ At(r, "markIced")
  /\ IF services[n] # None /\ mayWrite(services[n].cluster, n, None)
       THEN WriteService(n, [services[n] EXCEPT !.iced = TRUE])
       ELSE UNCHANGED <<services, lapsed>>
  /\ Return(r)
  /\ UNCHANGED <<mix, deployments, lobby, settings, trafficVars>>

\* The poll of the loading page wakes the service it waits for.
Status(r, n) == BeginOn(r, "status", n, "isWaking") /\ Keep(r)
IsWaking(r) ==
  /\ At(r, "isWaking")
  /\ IF req[r].name \in waking THEN Return(r) ELSE Goto(r, "isSleeping")
  /\ Keep(r)
IsSleeping(r) ==
  /\ At(r, "isSleeping")
  /\ IF req[r].name \in sleeping THEN Goto(r, "sendWake") ELSE Return(r)
  /\ Keep(r)
SendWake(r) == At(r, "sendWake") /\ Sends(r, "unsetSleeping") /\ Keep(r)
UnsetSleeping(r) ==
  LET n == req[r].name IN
  /\ At(r, "unsetSleeping")
  /\ sleeping' = sleeping \ {n}
  /\ IF req[r].op = "start" THEN waking' = waking \cup {n} /\ Return(r)
                            ELSE Goto(r, "setWaking") /\ UNCHANGED waking
  /\ UNCHANGED <<recordVars, tombstone, route, reported, cooling, reprovisions>>
SetWaking(r) ==
  /\ At(r, "setWaking")
  /\ waking' = waking \cup {req[r].name}
  /\ Return(r)
  /\ UNCHANGED <<recordVars, sleeping, tombstone, route, reported, cooling, reprovisions>>

(* --- DELETE /services/:id -------------------------------------------------- *)

\* The task is fire-and-forget.
RemoveService(r, n) == BeginOn(r, "delete", n, "unregisterRoute") /\ Keep(r)
UnregisterRoute(r) ==
  /\ At(r, "unregisterRoute")
  /\ route' = [route EXCEPT ![req[r].name] = "none"]
  /\ Goto(r, "cleanFlags")
  /\ UNCHANGED <<recordVars, flagVars, reported, cooling, reprovisions>>
\* With the flags go HEALTH (CleanHealth of module Watchdog) and LAST_ACTIVE, a
\* time that decides only what hobbySleepSupervisor and hobbyIceSupervisor choose.
CleanFlags(r) ==
  LET n == req[r].name IN
  /\ At(r, "cleanFlags")
  /\ sleeping' = sleeping \ {n} /\ waking' = waking \ {n} /\ tombstone' = tombstone \cup {n}
  /\ Goto(r, "deleteService")
  /\ UNCHANGED <<recordVars, route, reported, cooling, reprovisions>>

(* --- The workload supervisor ------------------------------------------------ *)

\* Variant with a bug: a tick starts while the run before it is under way.
notRunningUnguarded(c, n) == TRUE
\* BackgroundWorker skips a tick while the run before it is under way.
notRunning(c, n) ==
  ~\E r \in Requests : req[r].op = "supervise" /\ req[r].cluster = c /\ req[r].name = n

\* superviseCluster, for one name.  A cluster without a connected node is handed
\* to nodesSync (module InstancePool).
Supervise(r, c, n) ==
  /\ Begin(r, "supervise", c, n, "aggregate") /\ notRunning(c, n)
  /\ Keep(r)

ownsDeployment(c, n) == deployments[n] # None /\ deployments[n].cluster = c

\* getAggregatedWorkloads: a pool node runs services of every cluster, and the
\* names of its deployments tell which are of this one; ...
Aggregate(r) ==
  LET q == req[r] IN
  /\ At(r, "aggregate")
  /\ Set(r, [q EXCEPT !.seen = ownsDeployment(q.cluster, q.name)], "workloads") \/ Return(r)
  /\ Keep(r)
Workloads(r) ==
  LET q == req[r] IN
  /\ At(r, "workloads")
  /\ Set(r, [q EXCEPT !.seen = q.seen /\ q.name \in reported], "listServices")
  /\ Keep(r)

\* ... then the rows: a name is to be created, checked or provisioned again.
ListServices(r) ==
  LET q == req[r]
      s == services[q.name] IN
  /\ At(r, "listServices")
  /\ IF foundIn(q.cluster, q.name)
       THEN Set(r, [q EXCEPT !.service = s.id, !.dep = s.dep], "sleepingFlag")
     ELSE IF q.seen THEN Goto(r, "deletedFlag") ELSE Return(r)
  /\ Keep(r)

\* What the job does with a service that has a row, once its flag is settled.
afterFlags(q) == IF ~q.seen THEN "cooldown" ELSE IF q.dep = None THEN "findDeployment" ELSE "compareRoute"

\* reconcileSleepingSet: the flag is read, ...
SleepingFlag(r) ==
  /\ At(r, "sleepingFlag")
  /\ Goto(r, IF req[r].name \in sleeping THEN "settleFlag" ELSE afterFlags(req[r]))
  /\ Keep(r)
\* ... cleared for a service that runs and is healthy, or whose plan has no
\* sleeping; else the route is to lead to the loading page.
SettleFlag(r) ==
  LET q == req[r] IN
  /\ At(r, "settleFlag")
  /\ \/ /\ q.seen \/ q.cluster \notin Hobby
        /\ sleeping' = sleeping \ {q.name}
        /\ Goto(r, afterFlags(q))
     \/ /\ q.cluster \in Hobby
        /\ Goto(r, IF route[q.name] = "node" THEN "stubRoute" ELSE afterFlags(q))
        /\ UNCHANGED sleeping
  /\ UNCHANGED <<recordVars, waking, tombstone, route, reported, cooling, reprovisions>>
StubRoute(r) ==
  LET q == req[r] IN
  /\ At(r, "stubRoute")
  /\ route' = [route EXCEPT ![q.name] = "stub"]
  /\ Goto(r, afterFlags(q))
  /\ UNCHANGED <<recordVars, flagVars, reported, cooling, reprovisions>>

\* createMissingServices: not a service that was deleted a short while ago.
DeletedFlag(r) ==
  /\ At(r, "deletedFlag")
  /\ Goto(r, IF req[r].name \in tombstone THEN "compareRoute" ELSE "findDeployment")
  /\ Keep(r)
\* findDeployment, for a missing row and for backfillDeploymentLinks.
FindDeployment(r) ==
  LET q == req[r]
      own == ownsDeployment(q.cluster, q.name) IN
  /\ At(r, "findDeployment")
  /\ IF q.service # None /\ ~own THEN Goto(r, "compareRoute")
     ELSE Set(r, [q EXCEPT !.dep = IF own THEN deployments[q.name].id ELSE None], "createService")
  /\ Keep(r)
\* A conflict ends the work on the name, or for backfillDeploymentLinks the run.
CreateService(r) ==
  LET q == req[r] IN
  /\ At(r, "createService")
  /\ IF mayWrite(q.cluster, q.name, q.dep)
       THEN /\ UpsertService(q.cluster, q.name, q.dep)
            /\ Goto(r, IF q.service = None THEN "registerRoute" ELSE "compareRoute")
       ELSE /\ IF q.service = None THEN Goto(r, "compareRoute") ELSE Return(r)
            /\ UNCHANGED <<services, lapsed>>
  /\ UNCHANGED <<mix, deployments, lobby, settings, trafficVars>>
RegisterRoute(r) ==
  LET n == req[r].name IN
  /\ At(r, "registerRoute")
  /\ route' = IF n \in reported THEN [route EXCEPT ![n] = "node"] ELSE route
  /\ Goto(r, "compareRoute")
  /\ UNCHANGED <<recordVars, flagVars, reported, cooling, reprovisions>>

\* reconcileTraefikRoutes: the route is compared with what the node reports,
\* then the flag is read, then the route is written.
CompareRoute(r) ==
  LET n == req[r].name IN
  /\ At(r, "compareRoute")
  /\ IF n \in reported /\ route[n] # "node" THEN Goto(r, "awake") ELSE Return(r)
  /\ Keep(r)
Awake(r) ==
  /\ At(r, "awake")
  /\ IF req[r].name \in sleeping THEN Return(r) ELSE Goto(r, "putRoute")
  /\ Keep(r)
PutRoute(r) ==
  /\ At(r, "putRoute")
  /\ route' = [route EXCEPT ![req[r].name] = "node"]
  /\ Return(r)
  /\ UNCHANGED <<recordVars, flagVars, reported, cooling, reprovisions>>

\* reprovisionService.
pair(r) == <<req[r].cluster, req[r].name>>
Cooldown(r) ==
  /\ At(r, "cooldown")
  /\ IF pair(r) \in cooling THEN Return(r) ELSE Goto(r, "mayReprovision")
  /\ Keep(r)
MayReprovision(r) ==
  /\ At(r, "mayReprovision")
  /\ IF req[r].name \in sleeping \cup waking THEN Return(r)
     ELSE Goto(r, "findBlueprint") \/ Return(r)   \* a deployment is in flight
  /\ Keep(r)
FindBlueprint(r) ==
  LET q == req[r] IN
  /\ At(r, "findBlueprint")
  /\ IF ownsDeployment(q.cluster, q.name)
       THEN \E next \in {"sendDeploy", "enqueueDeploy"} : Goto(r, next) ELSE Return(r)
  /\ Keep(r)
count(r) == reprovisions' = [reprovisions EXCEPT ![pair(r)] = @ + 1]
arm(r)   == cooling' = cooling \cup {pair(r)}
\* An image: the cooldown starts with the task.
SendDeploy(r) ==
  /\ At(r, "sendDeploy")
  /\ \/ count(r) /\ arm(r) /\ Goto(r, "loadingMode")
     \/ Return(r) /\ UNCHANGED <<cooling, reprovisions>>
  /\ UNCHANGED <<recordVars, flagVars, route, reported>>
\* A build: enqueueBuild sends the task or queues it, or finds no build node.
EnqueueDeploy(r) ==
  /\ At(r, "enqueueDeploy")
  /\ \/ count(r) /\ (Goto(r, "recordBuild") \/ Goto(r, "arm"))
     \/ Return(r) /\ UNCHANGED reprovisions
  /\ UNCHANGED <<recordVars, flagVars, route, reported, cooling>>
\* What was sent is recorded by four awaited writes (module BuildDispatch), that
\* of the payload the last one.  One that fails ends the work on the service
\* before the cooldown starts: the next run may send the task again.
RecordBuild(r) ==
  /\ At(r, "recordBuild")
  /\ \/ Waits(req[r]) /\ Goto(r, "arm") /\ UNCHANGED reprovisions
     \/ /\ UNCHANGED lobby \/ Waits(req[r])
        /\ Return(r)
        /\ reprovisions' = [reprovisions EXCEPT ![pair(r)] = 0]
  /\ UNCHANGED <<mix, services, deployments, settings, lapsed>>
  /\ UNCHANGED <<flagVars, route, reported, cooling>>
Arm(r) ==
  /\ At(r, "arm")
  /\ arm(r)
  /\ Goto(r, "loadingMode")
  /\ UNCHANGED <<recordVars, flagVars, route, reported, reprovisions>>
\* Visitors see the loading page until the node reports the service.
LoadingMode(r) ==
  /\ At(r, "loadingMode")
  /\ route' = [route EXCEPT ![req[r].name] = "stub"]
  /\ Return(r)
  /\ UNCHANGED <<recordVars, flagVars, reported, cooling, reprovisions>>

(* --- The node, the clocks and the process ----------------------------------- *)

NodeReports ==
  /\ "supervise" \in mix.ops
  /\ reported' \in SUBSET mix.names
  /\ UNCHANGED <<recordVars, req, flagVars, route, cooling, reprovisions>>
CooldownOver(p) ==
  /\ p \in cooling
  /\ cooling' = cooling \ {p}
  /\ reprovisions' = [reprovisions EXCEPT ![p] = 0]
  /\ UNCHANGED <<recordVars, req, flagVars, route, reported>>
WakingExpires(n) ==
  /\ n \in waking
  /\ waking' = waking \ {n}
  /\ UNCHANGED <<recordVars, req, sleeping, tombstone, route, reported, cooling, reprovisions>>
TombstoneExpires(n) ==
  /\ n \in tombstone
  /\ tombstone' = tombstone \ {n}
  /\ UNCHANGED <<recordVars, req, sleeping, waking, route, reported, cooling, reprovisions>>
\* The process restarts: requests end where they are, and the cooldowns with them.
Crash ==
  /\ "crash" \in mix.ops
  /\ req' = [r \in Requests |-> Idle]
  /\ cooling' = {}
  /\ reprovisions' = [p \in Clusters \X Names |-> 0]
  /\ UNCHANGED <<recordVars, flagVars, route, reported>>

TrafficInit ==
  /\ sleeping = {} /\ waking = {} /\ tombstone = {} /\ cooling = {}
  /\ reported = {n \in Names : services[n] # None}
  /\ route = [n \in Names |-> IF n \in reported THEN "node" ELSE "none"]
  /\ reprovisions = [p \in Clusters \X Names |-> 0]

TrafficStep(r) ==
  \/ \E n \in Names :
       \/ StopService(r, n) \/ StartService(r, n) \/ SleepJob(r, n) \/ IceJob(r, n)
       \/ NodeLost(r, n)
       \/ Status(r, n) \/ RemoveService(r, n)
       \/ \E c \in Clusters : Supervise(r, c, n)
  \/ SkipAsleep(r) \/ SendSleep(r) \/ MarkSleeping(r) \/ SendIce(r) \/ MarkIced(r)
  \/ IsWaking(r) \/ IsSleeping(r) \/ SendWake(r) \/ UnsetSleeping(r) \/ SetWaking(r)
  \/ UnregisterRoute(r)
  \/ Aggregate(r) \/ Workloads(r) \/ ListServices(r) \/ SleepingFlag(r) \/ SettleFlag(r)
  \/ StubRoute(r) \/ DeletedFlag(r) \/ FindDeployment(r) \/ CreateService(r) \/ RegisterRoute(r)
  \/ CompareRoute(r) \/ Awake(r) \/ PutRoute(r)
  \/ Cooldown(r) \/ MayReprovision(r) \/ FindBlueprint(r) \/ SendDeploy(r)
  \/ EnqueueDeploy(r) \/ RecordBuild(r) \/ Arm(r) \/ LoadingMode(r)
=============================================================================
