--------------------------- MODULE ServiceRecords ---------------------------
(***************************************************************************)
(* The rows of services and deployments, the lobby of payloads that wait   *)
(* for a node, and the environment and secrets ("settings") they end up    *)
(* in.  POST /deployments, POST /deployments/finish, a node's report, the  *)
(* PATCH of a service and the removal of a deployment write them, with an  *)
(* await between any two accesses; a statement, a transaction and the      *)
(* triggers it fires are one step.  Names are unique over all clusters.    *)
(***************************************************************************)
EXTENDS Integers, FiniteSets

CONSTANTS
  Clusters,
  Names,        (* names of services; a deployment has its service's name   *)
  ServiceIds,   (* random identifiers of rows; none is drawn twice while    *)
  DepIds,       (* anything still refers to it                              *)
  Requests,     (* the requests that may be under way at once               *)
  ServiceLimit, (* SERVICE_LIMIT_BY_TIER of the plan of a cluster           *)
  Mixes,        (* bounds of the model: each behaviour runs the operations  *)
                (* of one mix on the names of it                            *)
  None

Operations == {"create", "finish", "report", "patch", "removeDeployment", "delete",
               "supervise", "stop", "start", "status", "nodeLost", "sleepJob", "iceJob",
               "addDomain", "verifyDomain", "verifyJob", "removeDomain", "watch", "crash"}

ASSUME ServiceRecordsAssumption ==
  /\ Mixes \subseteq [ops : SUBSET Operations, names : SUBSET Names]
  /\ ServiceLimit \in [Clusters -> Nat]
  /\ ServiceIds \cap DepIds = {}
  /\ None \notin Operations \cup Clusters \cup Names \cup ServiceIds \cup DepIds

VARIABLES
  mix,          (* the bounds of this behaviour                             *)
  services,     (* the services row of a name                               *)
  deployments,  (* the deployments row of a name                            *)
  lobby,        (* PAYLOAD.DEPLOYMENT of a cluster: the names in it         *)
  settings,     (* service_envs and service_secrets: the row they hang on,  *)
                (* and (history) the cluster whose request they come from   *)
  req,          (* what each request does next, and its local variables     *)
  lapsed        (* history: services whose deployment was deleted since     *)
                (* their row was last written                               *)

recordVars == <<mix, services, deployments, lobby, settings, lapsed>>

\* asked: the name a finish or a report gives, under which its payload waits.
Idle == [op |-> None, pc |-> "idle", cluster |-> None, name |-> None, service |-> None,
         dep |-> None, asked |-> None, payload |-> FALSE, seen |-> FALSE]

At(r, pc)   == req[r].pc = pc
Goto(r, pc) == req' = [req EXCEPT ![r].pc = pc]
Return(r)   == req' = [req EXCEPT ![r] = Idle]
Set(r, fields, pc) == req' = [req EXCEPT ![r] = [fields EXCEPT !.pc = pc]]

Begin(r, op, c, n, pc) ==
  /\ At(r, "idle") /\ op \in mix.ops /\ n \in mix.names \cup {None}
  /\ Set(r, [Idle EXCEPT !.op = op, !.cluster = c, !.name = n], pc)

\* resolveCluster and services.find: a request that names a service by its id.
BeginOn(r, op, n, pc) ==
  /\ services[n] # None
  /\ At(r, "idle") /\ op \in mix.ops
  /\ Set(r, [Idle EXCEPT !.op = op, !.cluster = services[n].cluster, !.name = n,
                         !.service = services[n].id, !.dep = services[n].dep], pc)

(* --- Rows --------------------------------------------------------------- *)

liveServices == {services[n].id : n \in {m \in Names : services[m] # None}}
liveDeps     == {deployments[n].id : n \in {m \in Names : deployments[m] # None}}
linked       == {services[n].dep : n \in {m \in Names : services[m] # None}}
heldServices == {req[r].service : r \in Requests} \cup {x.at : x \in settings}
heldDeps     == {req[r].dep : r \in Requests} \cup {x.at : x \in settings}
                  \cup linked
FreshService == ServiceIds \ (liveServices \cup heldServices)
FreshDep     == DepIds \ (liveDeps \cup heldDeps)

\* The row that holds an id, as deployments.get(id) finds it.
nameOfDep(id) == {n \in Names : deployments[n] # None /\ deployments[n].id = id}

\* services.upsert: COALESCE keeps the link when none is given.
link(n, dep) == IF dep # None \/ services[n] = None THEN dep ELSE services[n].dep

\* enforce_service_name_global_uniqueness, and validate_service_deployment_cluster,
\* which looks at the link the row will have, a new one or the one it keeps.
ownsLink(c, dep) ==
  dep = None \/ \E m \in Names : /\ deployments[m] # None /\ deployments[m].id = dep
                               /\ deployments[m].cluster = c
mayWrite(c, n, dep) ==
  (services[n] = None \/ services[n].cluster = c) /\ ownsLink(c, link(n, dep))

WriteService(n, row) ==
  services' = [services EXCEPT ![n] = row] /\ lapsed' = lapsed \ {n}
UpsertService(c, n, dep) ==
  \E id \in IF services[n] = None THEN FreshService ELSE {services[n].id} :
    WriteService(n, [id |-> id, cluster |-> c, dep |-> link(n, dep),
                     iced |-> services[n] # None /\ services[n].iced])

\* Variant with a bug: the row takes the cluster of the request.
upsertedTakeover(c, n, id, finished) ==
  [id |-> IF deployments[n] = None THEN id ELSE deployments[n].id,
   cluster |-> c, finished |-> finished]

\* deployments.upsert, ON CONFLICT (name): the row keeps its id and cluster, and
\* its configuration too once it is finished.
upserted(c, n, id, finished) ==
  LET old == deployments[n] IN
  IF old = None THEN [id |-> id, cluster |-> c, finished |-> finished]
  ELSE [old EXCEPT !.finished = old.finished \/ finished]

\* The primary key: a new row cannot take the id of another one.
mayInsert(n, id) == deployments[n] # None \/ nameOfDep(id) = {}

\* The foreign keys of settings, set and replaceSelective of both tables.
exists(at) == at \in liveServices \cup liveDeps
without(at) == {x \in settings : x.at # at}
saved(at, c) == settings \cup {[at |-> at, of |-> c]}
replaced(q) == {x \in settings : x.at \notin {q.service, q.dep}}
                 \cup {[at |-> q.service, of |-> q.cluster]}

(* --- POST /deployments ---------------------------------------------------- *)

Create(r, c, n) == Begin(r, "create", c, n, "nameTaken") /\ UNCHANGED recordVars

\* routes/deployments.ts: a name another cluster has a service of is taken.
NameTaken(r) ==
  LET s == services[req[r].name] IN
  /\ At(r, "nameTaken")
  /\ IF s # None /\ s.cluster # req[r].cluster THEN Return(r) ELSE Goto(r, "limit")
  /\ UNCHANGED recordVars

\* create: a redeployment needs no room; nothing is reserved for the others.
hasRoom(c, n) == \/ services[n] # None /\ services[n].cluster = c
                 \/ Cardinality({m \in Names : services[m] # None /\ services[m].cluster = c})
                      < ServiceLimit[c]
\* Without an instance, with an image (its own or that of the last build of the
\* same fingerprint), or with a build.
Ways == {"reserve", "savePayload", "enqueue"}
CheckLimit(r) ==
  /\ At(r, "limit")
  /\ IF hasRoom(req[r].cluster, req[r].name)
       THEN \E way \in Ways : Goto(r, way) ELSE Return(r)
  /\ UNCHANGED recordVars

\* No instance yet: the service is created at once.
Reserve(r) ==
  LET q == req[r] IN
  /\ At(r, "reserve")
  /\ IF mayWrite(q.cluster, q.name, None)
       THEN UpsertService(q.cluster, q.name, None) /\ Goto(r, "notifyPending")
       ELSE Return(r) /\ UNCHANGED <<services, lapsed>>
  /\ UNCHANGED <<mix, deployments, lobby, settings>>

Waits(q) == lobby' = [lobby EXCEPT ![q.cluster] = @ \cup {q.name}]

\* The payload waits in the lobby whether or not the node is there to take the
\* task.
SavePayload(r) ==
  /\ At(r, "savePayload")
  /\ Waits(req[r])
  /\ Goto(r, "dispatch")
  /\ UNCHANGED <<mix, services, deployments, settings, lapsed>>
Dispatch(r) ==
  /\ At(r, "dispatch")
  /\ Goto(r, "notifyPending") \/ Return(r)
  /\ UNCHANGED recordVars

\* enqueueBuild keeps the build (module BuildDispatch) and, when it dispatches
\* at once, the payload.  It throws without a build node, and when a write of
\* the store fails, the last one of which is the payload's.
Enqueue(r) ==
  /\ At(r, "enqueue")
  /\ UNCHANGED lobby \/ Waits(req[r])
  /\ Return(r) \/ (req[r].op = "create" /\ Goto(r, "notifyPending"))
  /\ UNCHANGED <<mix, services, deployments, settings, lapsed>>

\* notifyPending: the row is looked up by its name alone, ...
NotifyPending(r) ==
  /\ At(r, "notifyPending")
  /\ Goto(r, IF deployments[req[r].name] # None THEN "patchConfig" ELSE "insertPending")
  /\ UNCHANGED recordVars

\* ... patchConfig rewrites whichever row has it by now, ...  (PATCH /services/:id
\* goes on to a build when the deployment has a remote.)
PatchConfig(r) ==
  LET n == req[r].name IN
  /\ At(r, "patchConfig")
  /\ deployments' = IF deployments[n] = None THEN deployments
                    ELSE [deployments EXCEPT ![n].finished = FALSE]
  /\ \/ Return(r)
     \/ req[r].op = "patch" /\ deployments[n] # None /\ Goto(r, "enqueue")
  /\ UNCHANGED <<mix, services, lobby, settings, lapsed>>

\* ... and a new row takes the id of the task.
InsertPending(r) ==
  LET q == req[r] IN
  /\ At(r, "insertPending")
  /\ \E id \in FreshDep :
       deployments' = [deployments EXCEPT ![q.name] = upserted(q.cluster, q.name, id, FALSE)]
  /\ Return(r)
  /\ UNCHANGED <<mix, services, lobby, settings, lapsed>>

(* --- POST /deployments/finish and the report of a node --------------------- *)

\* Both name an id, of a row or of none: one the node has still to report for the
\* first time, or that of a row which was deleted since.
Submit(r, op, c, n, id, pc) ==
  /\ At(r, "idle") /\ op \in mix.ops /\ n \in mix.names
  /\ Set(r, [Idle EXCEPT !.op = op, !.cluster = c, !.name = n, !.dep = id, !.asked = n], pc)
  /\ UNCHANGED recordVars

\* finish: the cluster of the row, if there is one, or else the first of those
\* that are on the node.
Finish(r, c, n, id) == Submit(r, "finish", c, n, id, "getDeployment")
GetDeployment(r) ==
  LET found == nameOfDep(req[r].dep) IN
  /\ At(r, "getDeployment")
  /\ IF found = {} THEN Goto(r, "getPayload")
     ELSE \E m \in found :
            Set(r, [req[r] EXCEPT !.name = m, !.cluster = deployments[m].cluster, !.seen = TRUE],
                "getPayload")
  /\ UNCHANGED recordVars

\* syncDeployments: the cluster its user owns, or that of the row it names.
Report(r, c, n, id) == Submit(r, "report", c, n, id, "getPayload")

\* consumeDeploymentPayload reads the payload, ...
GetPayload(r) ==
  LET q == req[r] IN
  /\ At(r, "getPayload")
  /\ Set(r, [q EXCEPT !.payload = q.asked \in lobby[q.cluster]], "deletePayload")
  /\ UNCHANGED recordVars

\* ... and then deletes what the lobby holds by then.
DeletePayload(r) ==
  LET q == req[r] IN
  /\ At(r, "deletePayload")
  /\ lobby' = [lobby EXCEPT ![q.cluster] = @ \ {q.asked}]
  /\ Set(r, [q EXCEPT !.asked = None], IF q.seen THEN "upsertService" ELSE "upsertDeployment")
  /\ UNCHANGED <<mix, services, deployments, settings, lapsed>>

\* A report without type, source or user writes no row, nor does one whose id is
\* the row's of another name by now, and the payload is lost.
UpsertDeployment(r) ==
  LET q == req[r] IN
  /\ At(r, "upsertDeployment")
  /\ \/ Return(r) /\ UNCHANGED deployments
     \/ \E finished \in IF q.op = "report" THEN BOOLEAN ELSE {FALSE} :
          LET row == upserted(q.cluster, q.name, q.dep, finished) IN
          /\ mayInsert(q.name, q.dep)
          /\ deployments' = [deployments EXCEPT ![q.name] = row]
          /\ Set(r, [q EXCEPT !.dep = row.id],
                 IF q.op = "report" THEN "findService" ELSE "upsertService")
  /\ UNCHANGED <<mix, services, lobby, settings, lapsed>>

\* finish: a service that cannot be written leaves the deployment to hang the
\* settings on.
UpsertFinished(r) ==
  LET q == req[r] IN
  /\ At(r, "upsertService")
  /\ IF mayWrite(q.cluster, q.name, q.dep)
       THEN /\ UpsertService(q.cluster, q.name, q.dep)
            /\ Set(r, [q EXCEPT !.service = services'[q.name].id], "saveSettings")
       ELSE Goto(r, "saveSettings") /\ UNCHANGED <<services, lapsed>>
  /\ UNCHANGED <<mix, deployments, lobby, settings>>

\* Variant with a bug: the lookup is not limited to the cluster.
foundAnywhere(c, n) == services[n] # None
foundIn(c, n) == services[n] # None /\ services[n].cluster = c
FindService(r) ==
  LET q == req[r] IN
  /\ At(r, "findService")
  /\ Set(r, [q EXCEPT !.service = IF foundIn(q.cluster, q.name) THEN services[q.name].id ELSE None],
         "saveSettings")
  /\ UNCHANGED recordVars

\* serviceEnvs.set, serviceSecrets.set; the payload may have neither, and a
\* violated foreign key is only logged.
SaveSettings(r) ==
  LET q == req[r]
      at == IF q.service # None THEN q.service ELSE q.dep IN
  /\ At(r, "saveSettings")
  /\ \/ q.payload /\ exists(at) /\ settings' = saved(at, q.cluster)
     \/ UNCHANGED settings
  /\ Return(r)
  /\ UNCHANGED <<mix, services, deployments, lobby, lapsed>>

(* --- PATCH /services/:id, DELETE /deployments/:id, DELETE /services/:id ----- *)

PatchService(r, n) == BeginOn(r, "patch", n, "getLinked") /\ UNCHANGED recordVars

GetLinked(r) ==
  /\ At(r, "getLinked")
  /\ \/ Return(r)        \* no instance of that name
     \/ Set(r, [req[r] EXCEPT !.seen = nameOfDep(req[r].dep) # {}], "replaceSettings")
  /\ UNCHANGED recordVars

\* replace, replaceSelective: one batch clears the rows of the service and of
\* its deployment and writes those of the service.  The request goes on without
\* it when it names no settings, and fails only now without a deployment.
ReplaceSettings(r) ==
  LET q == req[r] IN
  /\ At(r, "replaceSettings")
  /\ \/ UNCHANGED settings /\ IF q.seen THEN Goto(r, "patchConfig") ELSE Return(r)
     \/ /\ q.service \in liveServices
        /\ settings' = replaced(q)
        /\ IF q.seen THEN Goto(r, "patchConfig") ELSE Return(r)
     \/ q.service \notin liveServices /\ Return(r) /\ UNCHANGED settings
  /\ UNCHANGED <<mix, services, deployments, lobby, lapsed>>

\* DELETE /deployments/:id; a running one is refused.
RemoveDeployment(r, c, n) ==
  /\ At(r, "idle") /\ "removeDeployment" \in mix.ops
  /\ deployments[n] # None /\ deployments[n].cluster = c
  /\ Set(r, [Idle EXCEPT !.op = "removeDeployment", !.cluster = c, !.name = n,
                         !.dep = deployments[n].id], "deleteDeployment")
  /\ UNCHANGED recordVars

\* DELETE ... WHERE id, and the settings that hang on the row.  No foreign key
\* keeps the links to it.
DeleteDeployment(r) ==
  LET id == req[r].dep IN
  /\ At(r, "deleteDeployment")
  /\ deployments' = [n \in Names |-> IF n \in nameOfDep(id) THEN None ELSE deployments[n]]
  /\ settings' = without(id)
  /\ lapsed' = lapsed \cup {n \in Names : services[n] # None /\ services[n].dep = id}
  /\ Return(r)
  /\ UNCHANGED <<mix, services, lobby>>

\* services.delete by id.
DeleteService(r) ==
  LET q == req[r] IN
  /\ At(r, "deleteService")
  /\ services' = [n \in Names |-> IF services[n] # None /\ services[n].id = q.service
                                    THEN None ELSE services[n]]
  /\ lapsed' = {n \in lapsed : services'[n] # None}
  /\ settings' = without(q.service)
  /\ IF q.dep # None THEN Goto(r, "deleteDeployment") ELSE Return(r)
  /\ UNCHANGED <<mix, deployments, lobby>>

(* --- Specification -------------------------------------------------------- *)

\* Nothing is deployed yet, or one service is and runs.
RecordsInit ==
  /\ mix \in Mixes
  /\ \/ /\ services = [n \in Names |-> None]
        /\ deployments = [n \in Names |-> None]
     \/ \E c \in Clusters, n \in mix.names, s \in ServiceIds, d \in DepIds :
          /\ services = [m \in Names |->
               IF m = n THEN [id |-> s, cluster |-> c, iced |-> FALSE, dep |-> d] ELSE None]
          /\ deployments = [m \in Names |->
               IF m = n THEN [id |-> d, cluster |-> c, finished |-> TRUE] ELSE None]
  /\ lobby = [c \in Clusters |-> {}]
  /\ settings = {}
  /\ req = [r \in Requests |-> Idle]
  /\ lapsed = {}

RecordsStep(r) ==
  \/ \E c \in Clusters, n \in Names :
       \/ Create(r, c, n) \/ RemoveDeployment(r, c, n)
       \/ \E id \in DepIds : Finish(r, c, n, id) \/ Report(r, c, n, id)
  \/ \E n \in Names : PatchService(r, n)
  \/ NameTaken(r) \/ CheckLimit(r) \/ Reserve(r) \/ SavePayload(r) \/ Dispatch(r) \/ Enqueue(r)
  \/ NotifyPending(r) \/ PatchConfig(r) \/ InsertPending(r)
  \/ GetDeployment(r) \/ GetPayload(r) \/ DeletePayload(r) \/ UpsertDeployment(r)
  \/ UpsertFinished(r) \/ FindService(r) \/ SaveSettings(r)
  \/ GetLinked(r) \/ ReplaceSettings(r) \/ DeleteDeployment(r)
=============================================================================
