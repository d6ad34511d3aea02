# Formal models of dployr-base

TLA+ specifications of the dployr control plane, the TLC configurations that
model-check them on small instances, and proofs that TLAPS checks for every
value of the constants. All paths below are relative to the repository root.

The control plane is one Node.js process: an HTTP API (Hono) and a WebSocket
server for clients and for `dployrd`, the daemon on every node. Its state is in
PostgreSQL, in Redis (through the `kv` adapter) and in memory. Concurrency comes
from `await`: between two awaits a handler runs alone, at every await any other
handler, job, timer or socket event may run. A database statement or transaction
and a single key-value command are atomic; a read and a later write of the same
key are not, and only `incr` reads and writes at once. The models therefore have
one process per running handler or job, and one step per await: a query or a
command together with the synchronous code that follows it.

## 1. Inventory

Parts that are left out of a component are named in section 2 and in
`PROJECT.json`; components without a model are at the end of this section.

### Build dispatch

`src/src/services/deployments.ts` (`enqueueBuild`),
`src/src/services/websocket/handlers/node-handler.ts` (`handleTaskResponse`,
`dispatchBuildComplete`, `drainBuildQueue`),
`src/src/lib/db/store/kv/instance-cache.ts` and `payload.ts` (build slots,
in-flight lists, queue, callbacks) and `buildNodeReconcile` of
`src/src/lib/node/node-doctor.ts`.

* State: a slot counter and an in-flight list for each build node, queue items
  and a queue index, a callback for each build, all in Redis; the set
  `pendingBuildDispatches` in memory; the image in the deployment's row.
* Operations: a request dispatches its build or queues it; the node's response
  consumes the callback, publishes the image, frees the slot and drains one
  entry of the queue; a reconcile re-queues the builds of a degraded node.
* Hard: every key is read with one command and written with another; responses
  are repeated; any command may fail; keys expire; the process restarts.
* Correct when: a build that was accepted is dispatched or queued, a queue entry
  is dropped only for a dispatch, a completion is published once, the guard
  against duplicates is lifted, and the in-flight lists never name a build that
  the node was not sent.

### Connection manager and client handlers

`src/src/services/websocket/connection-manager.ts`, and the handlers of
`handlers/client-handler.ts` that use it.

* State: maps in memory for connections, pending requests, file watches and log
  streams, most of them with a second map in the other direction.
* Operations: connect, disconnect (an `error` and a `close` event may both
  arrive), limit, add, answer and time out requests; watch and unwatch files;
  join, leave and sweep log streams; the clean-up timer.
* Hard: handlers await a token and the database between one method and the
  next. Clients and nodes leave at every one of these awaits, and answers race
  timeouts.
* Correct when: the indexes are each other's inverse, requests are answered at
  most once and do not wait for ever, the limit holds, a departed client is not
  fanned out to for ever, a stream is removed only by the call that added it.

### Instance pool and node doctor

`src/src/services/pool.ts`, `provisionCluster` of `src/src/services/auth/index.ts`,
`nodesSync`, `nodesDrain`, `migrateClusters`, `destroyDroplet` and
`nodeHeartbeat` of `src/src/lib/node/node-doctor.ts`, `instances.ts` and
`clusters.ts` under `src/src/lib/db/store/db/`.

* State: rows of instances (kind, status, owner) and the pool assignment of each
  cluster, the provider's droplets, a lock on pool provisioning and a lock for
  each cluster's dedicated instance in Redis.
* Operations: a login places its cluster; a sync lists droplets and rows, adopts,
  removes, demotes and allocates; it starts a drain, without awaiting it, that
  moves clusters off instances in maintenance and destroys these; health checks
  change statuses.
* Hard: syncs and drains work on lists they read many awaits earlier; locks
  expire; a droplet and its row are created and deleted in two steps.
* Correct when: an assignment always points to a pool row, two calls never
  provision for one cluster, rows and droplets agree in the end, and no
  instance is destroyed while a cluster it carried has nowhere to go.

### Sessions, authentication and the second factor

`src/src/routes/auth.ts`, `twofa.ts`, `oidc.ts`, `auth-tokens.ts`,
`src/src/services/auth/`, `src/src/lib/db/store/kv/session.ts`,
`src/src/lib/db/store/db/user-2fa.ts` and `api-tokens.ts`.

* State: a session is three keys of Redis (the record, the user's latest session,
  an entry of the user's list); one-time codes with a count of attempts, pending
  TOTP setups, OAuth states; rows of second factors and API tokens.
* Operations: login by code, by OAuth and by an OIDC exchange; code, TOTP and
  backup code as second factor; setup, confirmation and removal of TOTP; logout,
  revocation; tokens.
* Hard: every check and every write is a separate command, and requests of one
  user overlap. A refresh writes back a record it read earlier.
* Correct when: logout finds every live session, a session is verified only by a
  right code given beside its cookie, an enabled secret was shown, guesses are
  limited.

### Clusters, users and invitations; integrations and notifications

`src/src/routes/clusters.ts`, `users.ts`, `integrations.ts`, `notifications.ts`,
their stores, `src/src/services/notifications/`, `services/integrations/` and
`services/background/jobs/notify.ts`.

* State: users, memberships with roles, history of renames; `clusters.metadata`
  with one key for each channel or remote; the pending GitHub installation of a
  user; the copy of the memberships in each session.
* Operations: login that creates a cluster, invitation, acceptance, removal,
  role updates, transfer of ownership, rename; set up a channel or a remote,
  change its events, install the GitHub app over a redirect, notify.
* Hard: a handler checks the caller's role and acts some awaits later; removal,
  transfer and invitation overlap in PostgreSQL at READ COMMITTED; sessions are
  refreshed last, from lists read before.
* Correct when: every cluster has one owner, sessions carry only roles that were
  held, a membership ends only where somebody entitled to it asked for that, a
  cluster is linked only to what its members chose, and messages go only there.

### Services, deployments, supervisor, domains

`src/src/services/deployments.ts`, `src/src/routes/services.ts`,
`deployments.ts`, `domains.ts`, `src/src/lib/node/update-processor.ts`,
`workload-supervisor.ts`, `sleeping.ts`, the sleep, ice and domain jobs,
`src/src/services/traefik-router.ts` and the stores of services, deployments,
environments, secrets and domains.

* State: rows of services and deployments (names are unique over all clusters),
  settings that hang on either, the lobby of payloads, flags for sleeping,
  waking and deleted services, routes, cooldowns in memory, rows of domains.
* Operations: deploy, finish, a node's report, PATCH, DELETE, stop, start;
  the supervisor compares each service with what the node reports and deploys it
  again; sleep, wake and ice; a domain is added, verified by request or by job,
  routed and removed; the watchdog counts failed probes and alerts.
* Hard: rows are found by name in one query and used by id in another, while
  another cluster may take the name; the flags and rows a decision rests on
  change before it is carried out.
* Correct when: rows refer to rows of their own cluster, settings come from the
  owner, a service is provisioned at most once in a cooldown, a domain is active
  only for a token that was found.

### Billing

`src/src/services/billing/index.ts`, `src/src/lib/db/store/db/billing.ts`.

* State: one row of billing for each cluster (plan, status, subscription, end);
  where the cluster is placed.
* Operations: one handler for each type of webhook; transitions between plans.
* Hard: the provider repeats, delays and reorders events; most handlers find the
  cluster by the subscription its row names; a transition is several statements.
* Correct when: events in order leave the row and the placement they announce,
  and no order of events mixes the subscriptions of two clusters.

### Streams of nodes and clients

`src/src/services/websocket/` (`index.ts`, `instance-handler.ts`,
`handlers/node-handler.ts`, `handlers/client-handler.ts`,
`handlers/client-notifier.ts`, `terminal-manager.ts`),
`src/src/lib/db/store/kv/entity.ts`.

* State: sockets, versioned entities for each cluster, versions clients reported,
  a cache of each cluster's service names, expected and established terminals.
* Operations: an update is cut for each cluster, stored and broadcast;
  heartbeats report versions and are answered; a terminal is expected, dialled
  back, relayed and closed.
* Hard: updates overlap, caches and rows age, sockets close at every await, the
  node dials back late.
* Correct when: a client sees its own cluster only, input goes to the terminal
  the client opened, and the wait for a node ends.

### Node enrollment and operator calls

`src/src/services/instances.ts`, `src/src/lib/instances/instance-helpers.ts`,
`src/src/services/auth/jwt.ts`, `src/src/lib/db/store/db/bootstrap-tokens.ts`,
`src/src/lib/db/store/kv/key.ts`, `src/src/routes/node.ts`, `routes/instances.ts`,
`routes/admin/`.

* State: rows of instances, bootstrap records, tokens, the key pair and its key
  id, certificates, connected nodes.
* Operations: create by several routes, rotate, register, upgrade to a WebSocket,
  certify, install, reboot, restart, remove.
* Hard: nonces are presented twice, instances deleted and tags used again between
  the steps of a registration; first use of the key is a get and a put.
* Correct when: a bootstrap token enrolls its instance, once.

### Not modelled

| Component | Why |
| --- | --- |
| Logs and metrics (`services/loki.ts`, `routes/logs.ts`, `routes/metrics.ts`, the scraper job) | queries and appended samples; one reader and one writer |
| Virtual machine provider (`services/vm/`, `services/dployrd.ts`) | HTTP calls and task constructors; the models take it as calls that may fail |
| Storage adapters, migrations (`lib/storage/`, `lib/db/`) | the primitives the models take as atomic; constraints and triggers are part of the steps that meet them |
| Configuration, bootstrap | runs once |
| CORS, rate limit, types, constants, validators, crypto | stateless; the rate limit is one atomic counter |
| The worker's timers and running flags (`services/background/index.ts`) | `InstancePool` allows what they allow: any job may overlap another run of itself through a trigger |
| OIDC bindings, checkout, invoices, mail templates, event log | one statement or one external call each, read by nothing that is modelled |
| `proxy/traffic-router.ts` | nothing calls `resolveRoute` |

### How the components interact

    HTTP / WebSocket client                       node daemon (dployrd)
        |  requests, watches, logs                    |  task_response, updates
        v                                             v
    client-handler --> ConnectionManager       node-handler --> update processor
        |                                             |
        |  deployments.ts: enqueueBuild               |  dispatchBuildComplete,
        |                                             |  drainBuildQueue
        +--------------> Redis (slots, in-flight lists, <---+
                         queue, callbacks, locks)
                              ^             ^
       nodes:sync, nodes:drain, reconcile   |  provisionCluster (login),
       (background jobs -> NodeDoctor)      |  billing transitions
                              |             |
                         PostgreSQL (instances, clusters, deployments)

Build dispatch and the connection manager share the node's socket and nothing
else. Build dispatch and the instance pool share `instances.status` of build
nodes, which the pool module excludes (it has role "pool" and "dedicated" only);
`BuildDispatch` keeps it as a variable that the environment changes.

    HTTP routes                      background jobs              provider
       | sessions: every request        | supervisor, sleep, ice,    | webhooks
       v authenticates with one         | watchdog, domains, notify  v
    Sessions --> Clusters (roles) --> Services (rows, flags, routes)  Billing
                    |                      ^         |                 | plan
                    v                      | report  | task            v
             ClusterIntegrations        node streams (updates,     InstancePool
             (channels, notify)         terminals, enrollment)

Sessions carry a copy of the memberships, which `Clusters` has as the variable
`sessions`; `Sessions` models how the records are created, verified and revoked,
`Clusters` what they carry. `Billing` has the placement of `InstancePool` in
coarse form. The rows of services are written in `ServiceRecords`; `DeltaSync`
has their names only.

### Hazards

`PROJECT.json` lists each hazard at the line where it bites, with the properties
that would catch it. They fall into these groups: read-then-write of one key
across an await (slots, in-flight list, queue index, sessions, codes, entities,
channels); work on lists read earlier (sync, drain, reconcile, cached names);
checks before an await that are used after it (request limit, unwatch, decision
to queue, role of a member, row of a domain); lookups by a name that another
cluster may take; handlers that go on after their client left; locks, counters
and callbacks that expire; a failure between two steps (droplet and row, dispatch
and accounting, guard and its removal, release and placement); repeated or late
messages (responses, answers, webhooks, reports, redirects, tokens).

## 2. Modules

| Module | What it is |
| --- | --- |
| `BuildDispatch` | requests, responses, reconcile, key expiry, restart |
| `ConnectionManager` | sockets, requests, watches, streams and the calls that use them |
| `InstancePool` | logins, syncs, drains, allocation, health checks |
| `Sessions` | logins, sessions, one-time codes, second factors, tokens |
| `Clusters` | users, memberships, invitations, ownership, copies in sessions |
| `ClusterIntegrations` | extends `Clusters` with channels, remotes, the GitHub installation and the notify job |
| `ServiceRecords` | rows of services and deployments, lobby, settings |
| `ServiceTraffic` | extends it with flags, routes, the supervisor, sleep and ice |
| `CustomDomains`, `Watchdog` | extend it with domains, and with failed probes and alerts |
| `Services` | composes the four over the requests they share |
| `Billing` | the provider, webhooks, rows, transitions, the placement by the doctor |
| `ClientSockets` | sockets of clients and the process, shared by the next three |
| `DeltaSync` | updates of a node, entities, broadcasts, heartbeats |
| `Terminals` | the terminal manager |
| `TerminalLife` | the abstract specification of a terminal session |
| `RequestLife` | the abstract specification of a client's request to a node, which `ConnectionManager` implements |
| `NodeEnrollment` | creation, tokens, keys, registration, upgrades and calls of instances |
| `NodeStreams` | composes `DeltaSync`, `Terminals` and `NodeEnrollment`; refinement of `TerminalLife` |
| `MC...` | values of the constants for TLC |
| `BuildDispatchProofs`, `ConnectionManagerProofs`, `InstancePoolProofs`, `SessionsProofs`, `ClustersProofs`, `ServicesProofs`, `BillingProofs`, `NodeStreamsProofs` | theorems and their proofs, one module for each composition |

Each specification composes all the actors that touch its state. Definitions
marked "Variant with a bug" are used nowhere in a specification; substituted for
the definition that follows them, they show that a property would notice the
mistake. The map from definitions to source lines is in `PROJECT.json`.

The newer modules share one form. A request is a process with a record `req[r]`:
`pc` names what it does next, the other fields are the locals of the handler
that survive an await. One action is what runs between two awaits. Where several
handlers issue the same store call, the call is one action and `op` says where
it continues. Validation that rejects a request before any state is touched is
not a step. A constant `Mixes` (or `Scenarios`) lists which operations may run
beside each other in one behaviour; a behaviour picks one and stays with it.
Every operation is in a mix with the operations that write what it reads.

### BuildDispatch

A process is a request (`Builds`), a response handler (`Handlers`) or the
reconcile. `pc` names the command it issues next, `task`, `node`, `seen` and
`list` are the locals of the handler that survive the await. The key-value store
is `slots`, `inFlight`, `items`, `index`, `before`, `callback`; memory is `guard`
(`pendingBuildDispatches`) and `reconcile`.

| Actions | Code |
| --- | --- |
| `FindBuildNode`, `ReadSlots`, `Dispatch`, `Refuse` | `enqueueBuild` and the dispatch inside `drainBuildQueue` |
| `IncrementGet/Put`, `TrackGet/Put`, `SaveCallback` | `incrementBuildSlots`, `addInFlightBuild`, `saveBuildCallback` |
| `EnqueueItem`, `EnqueueGet/Put`, `DequeueItem`, `DequeueGet/Put`, `ListIndex`, `ListItems` | the build queue |
| `ReceiveResponse`, `DropResponse`, `ConsumeGet`, `ConsumeDelete`, `CompleteBuild` | `handleTaskResponse`, `consumeBuildCallback`, `dispatchBuildComplete` |
| `DecrementGet/Put`, `UntrackGet/Put` | release of the slot |
| `ReconcileStart/Node/Entry`, `ClearInFlight`, `ClearSlots` | `buildNodeReconcile` |
| `NodeConnect/Disconnect`, `SetStatus`, `ExpireAccounting`, `ExpirePayload`, `StoreFails`, `Restart` | the environment |

`sent`, `dispatched`, `owed`, `answers`, `published` and `restarts` are history
variables; no guard of the code's actions reads them except to bound the run.
`owed` is what `dispatched` must reach before an entry written now may be
dropped; `raced` are the builds whose entry was written over that of a drain that
had sent the build and was yet to dequeue it. `connected` is the node's entry in
the maps of the connection manager, which `sendTask` looks at.

Abstracted: log streams of a build, `saveDeploymentPayload`, and the half of the
reconcile that spawns build nodes (it touches nothing here). A failed response
changes no state that is kept here. `listBuildQueue` reads its items in one step.
The order among entries that a reconcile re-queues is nondeterministic, because
their `enqueuedAt` may be equal. The Redis index is a set, its order is `before`.

### ConnectionManager

A call is one run of a handler: `request`, `watch`, `unwatch`, `subscribe`
(a log stream for a client) or `background` (one for the control plane itself).
`pc` is "found" after the lookups that precede the change of the maps and
"token" after those that follow it. `connections`, `connectionById`,
`connectionByWs`, `nodesByClusterId` and `lastActivity` are always written
together and are the one set `registered`. `pending`/`byClient`,
`subscribers`/`watches` and `streams`/`streamIndex` are the pairs of maps.

| Actions | Code |
| --- | --- |
| `AddConnection`, `CloseSocket`, `HandleDisconnect`, `CleanupDeadConnection`, `RemoveConnection` | the socket's life; `HandleDisconnect` may run twice |
| `Begin`, `NotFound`, `AwaitRejects` | the common head of the handlers and a rejected await |
| `AddPendingRequest`, `SendRequest`, `NodeAnswers`, `TimeOut` | a request |
| `AddFileWatch`, `SendWatch`, `RemoveFileWatch`, `Unwatch`, `SendUnwatch` | file watches |
| `JoinStream`, `SendStream`, `LogUnsubscribe`, `CleanupLogStreams` | log streams |
| `NodeConnectivity` | the node's socket opens or closes |

A node keeps its watches over a loss of its socket (`watching`, external: it is
modelled from what the handlers assume of the daemon). Unacknowledged messages
are left out because no caller stores one; terminal sessions and client versions
are in `Terminals` and `DeltaSync`.

`RequestLife` says what a request promises: it is unmade, handled, waiting, or
over, it is over with one final message (an answer, a refusal or a timeout) or
with none because its client left or its handler failed, and what is over stays
so. `stageOf` reads the stage from the pending map and the step of the handler, and
the instance `Life` maps the abstract variables to them; `LifeOfRequests` is the
specification of `RequestLife`, liveness included, seen through that mapping.

### InstancePool

A process is a login, a sync or a drain. `kind`, `status`, `owner` and `assigned`
are the tables, `droplets` the provider, `poolLock` and `dedicatedLock` the locks.
`at`, `inst`, `left`, `todo`, `found`, `rows`, `pooled`, `doomed`, `listed`,
`victim` and `ok` are the variables the code carries across awaits: what it
listed, what its loops have left, what it is working on.

| Actions | Code |
| --- | --- |
| `BeginAllocation`, `Release`, `ChooseInstance`, `AssignInstance`, `ExceedCapacity`, `TakePoolLock`, `CreateDroplet`, `CreateFails`, `InsertPool`, `CreateToken`, `Recheck` | `allocateForPlan`, `allocateSharedPool`, `createPoolInstance`, `spawnPoolInstance`, `assignPool` |
| `TakeDedicatedLock`, `InsertDedicated`, `TokenDedicated`, `Unlock` | `spawnDedicatedInstance` |
| `Login`, `FindDedicated` | `provisionCluster` |
| `StartSync` to `EndSync` | `nodesSync`, one action for each phase and one for each loop's end |
| `ReadMap` to `EndDrain` | `nodesDrain`, `migrateClusters`, `destroyDroplet` |
| `HealthCheck` | `nodeHeartbeat` |
| `LoseDroplet`, `ExpirePoolLock`, `ExpireDedicatedLock` | the environment |

`assignPool` is a transaction with `SELECT ... FOR UPDATE`. `ChooseInstance` locks
the row and `AssignInstance` commits, and updates and deletions of the row wait
(`Locked`). Two such transactions may choose the same row, as PostgreSQL permits
when the row itself does not change: then an instance exceeds its capacity.

Abstracted: node connectivity is the verdict of a health check; the decommission
flag and its recovery window are a choice in `Demote`; addresses, metadata, list
paging, disk pressure, setup tasks, protected tags and build nodes are left out.
The orphan clean-up (node-doctor.ts:447-455) is left out because a dedicated row
without a cluster violates a CHECK constraint. `Plan` is a constant: transitions
of plan are in `Billing`. A tag may be used again only when nothing
refers to it, which stands for an unlimited supply of tags; in the code tags are
random and rows have ids of their own.

### Sessions

`byId`, `byUser` and `listed` are the three keys of a session, `otp`, `setup` and
`states` the other keys with a TTL, `twofa` and `tokens` the tables. `revoked`,
`stepped`, `shown`, `guesses` and `spent` are history; `stepped` says who gave a
right code beside which session's cookie, and how the request was authenticated.
A request may bring a cookie and a Bearer token: the token, if there is one,
decides the user (`user`), and the cookie still decides the session that a second
factor marks (`session`).

| Actions | Code |
| --- | --- |
| `CreateOTP`, `GetOTP`, `Attempt`, `DiscardOTP`, `ConsumeOTP` | `createOTP`, `validateOTP` and their second-factor twins |
| `Account`, `CreateSession`, `Login`, `HasTotp` | login by code, OAuth callback, OIDC exchange |
| `GetSession`, `PutSession` | `refreshSession` |
| `GetTarget`, `DeleteGet`, `DeleteKey`, `ListUserSessions`, `LogoutGone` | `deleteSession`, logout of all sessions |
| `SaveSetup`, `GetSetup`, `CheckTOTP`, `EnableTOTP`, `DeleteSetup`, `DisableTOTP`, `FindFactor` | `routes/twofa.ts` |
| `GetBackupCodes`, `PutBackupCodes`, `RegenerateBackupCodes` | `consumeBackupCode`, regenerate |
| `CreateState`, `GetState`, `ValidateState`, `ExchangeCode` | OAuth redirects |
| `BeginByCookie`, `BeginByBearer` | `authenticate`: cookie, personal access token, token of a node |
| `Require2FA`, `RefuseScoped`, `CreateToken`, `RevokeToken` | `require2FA` and the API tokens |
| `Expire...`, `LapseSecondFactor` | TTLs and the age limit of a second factor |

The provider's exchange succeeds or fails; the content of tokens, cookies and
mails is left out, as are identifiers that would be drawn twice.

### Clusters and ClusterIntegrations

`role` is the table of memberships, `accounts` the users with a row, `sessions`
the memberships a session carries, `history` the months of renames, `metadata`
the JSON column by key, `pending` the pending installation. `joined`, `owned`,
`raced` and `sent` are history.

| Actions | Code |
| --- | --- |
| `FindOwned`, `InsertCluster`, `ListForLogin`, `CreateSession` | login and the cluster it creates |
| `RequireRole` | the permission check every route begins with |
| `AddUsers`, `AcceptInvite`, `DeclineInvite`, `UpdateRoles`, `GetOwner`, `TransferOwnership` | `lib/db/store/db/clusters.ts` |
| `RemoveCheck`, `RemoveRow`, `FindUnused`, `DropAccount` | the statements of `removeUsers` |
| `Renamed`, `RecordRename`, `PutRename`, `Tick` | the rename quota |
| `FindSession`, `ListForRefresh`, `RefreshSession` | copies of memberships |
| `TryAccess`, `WriteSetup`, `GetSettings`, `PutEvents` | setup and events of a channel |
| `SetPending`, `CallbackBegin`, `GetPending`, `GetInstallation`, `Link`, `DeletePending` | the GitHub installation |
| `ListIntegrations`, `GetRecipient`, `Mail` | the notify job |

`removeUsers` is a transaction at READ COMMITTED whose statements see what others
commit in between. Its check of the role, its deletion of the row, the look for
other memberships and the deletion of the account with its `ON DELETE CASCADE`
are separate steps; the row it has deleted is seen by others, and locked
(`Locked`), until the last of them commits. The other writes of the store are one
statement or one batch and one step. A membership is in `raced`, with its role,
when it was given while a removal that had looked was still to delete.

### ServiceRecords, ServiceTraffic, CustomDomains, Watchdog, Services

`services` and `deployments` are the rows by name, `settings` environment and
secrets by the row they hang on (`of` is history: the cluster they came from),
`lobby` the payloads, `sleeping`, `waking`, `tombstone` the flags, `route` what
the proxy serves, `reported` what the node lists, `cooling` the cooldowns,
`lapsed` (history) the services whose deployment was deleted since they were last
written, and `asked` the blueprint name of a finish, whose payload it consumes.

| Actions | Code |
| --- | --- |
| `NameTaken`, `CheckLimit`, `Reserve`, `SavePayload`, `Enqueue`, `Dispatch`, `NotifyPending` | `POST /deployments`, `deployments.ts: create` |
| `GetDeployment`, `GetPayload`, `DeletePayload`, `UpsertDeployment`, `SaveSettings`, `FindService` | a node's report, `update-processor.ts` |
| `Submit`, `Finish`, `Report`, `UpsertFinished`, `GetLinked` | a finish or a report arrives, under a free id, that of a row or one deleted since; `POST /deployments/finish` |
| `WriteService`, `link`, `ownsLink`, `mayWrite`, `mayInsert` | the upsert of a service, which keeps its link when given none, with the trigger that checks it (000_init.ts:137-147), and the foreign key and unique name of a deployment |
| `PatchConfig`, `ReplaceSettings` | `PATCH /services/:id` |
| `DeleteService`, `CleanHealth`, `CleanFlags`, `UnregisterRoute`, `RemoveDeployment` | removals |
| `Supervise`, `ListServices`, `Workloads`, `...Flag`, `CompareRoute`, `Cooldown`, `MayReprovision`, `FindBlueprint`, `SendDeploy`, `EnqueueDeploy`, `RecordBuild`, `Arm`, `LoadingMode` | `WorkloadSupervisor` for one service |
| `SetWaking`, `MarkSleeping`, `SleepJob`, `IceJob`, `MarkIced`, `Awake`, `IsSleeping`, `IsWaking` | stop, start, status, `sleeping.ts`, the hobby jobs |
| `InsertDomain`, `FindDomain`, `CheckTxtRecord`, `Activate`, `RouteDomain`, `DeleteDomain`, `UnrouteDomain` | domains by request and by job |
| `GetHealth` to `DispatchAlert` | the watchdog |
| `NodeReports`, `...Expires`, `CooldownOver`, `Crash` | the environment |

The supervisor works on the services of a cluster phase by phase; here its work
on one service is a request of its own, which allows every order of the phases.
A statement, a transaction and the triggers it fires are one step. A
deployment has the name of its service.

### Billing

`sold`, `elapsed` and `log` are the provider: one subscription of a cluster at a
time, with the events each change causes. `Deliver` hands any event of the log to
a webhook call, the next one or again an earlier or a later one. `bill`, `pool`
and `dedicated` are the tables; `handled` and `orderly` are history.

| Actions | Code |
| --- | --- |
| `Subscribe`, `ChangePlan`, `Cancel`, `Uncancel`, `FailPayment`, `RetryPayment`, `Revoke`, `PeriodEnds` | external |
| `Resolve`, `ResolveByCustomer`, `FindRow`, `GetRow`, `ReadPreviousPlan`, `WriteRow` | the handlers of `handleWebhook` |
| `ReleasePool`, `ReleaseDedicated`, `TransitionToSharedPool`, `AssignPool` | `transitionPlan` |
| `DoctorLists`, `DoctorReadsPlan`, `DoctorAllocates`, `DoctorSpawns` | the placing phase of `nodesSync` |

### ClientSockets, DeltaSync, Terminals, NodeStreams

`workloads` is the entity of a cluster with its version, `meta` the cache of its
names, `clientVersion` what a client reported, `shown` (history) what it was
sent. `update` and `notify` are one message of the node and its part for each
cluster; `beat` is a heartbeat. The section modelled is "workloads", the only one
that is cut for each cluster.

| Actions | Code |
| --- | --- |
| `ReceiveUpdate`, `RegisterClusterNode`, `ListClusters`, `CachedMeta`, `Fetch`, `FillMeta`, `ListDeployments` | `handleUpdate`, `processUpdate` |
| `GetEntity`, `PutEntity`, `Ready`, `Send` | `setEntity`, `notifyCluster` |
| `ReceiveHeartbeat`, `GetWorkloads`, `BuildWorkloadsFromDB`, `SendHeartbeat` | `handleHeartbeat` |
| `NodeConnects`, `NodeCloses`, `DeregisterClusterNode` | the node's sockets |
| `OpenTerminal`, `Permit`, `Refuse`, `NoNode`, `NoToken`, `RouteFails`, `ExpectSession`, `SendTask` | `handleTerminalOpen` |
| `AcceptNode`, `CloseSession`, `SweepExpected`, `Shutdown`, `Exit` | `TerminalManager` |

`TerminalLife` says what the manager promises: an id that was handed out is
waited for, relays at most once, stays over when it is over, and the wait ends.
`NodeStreams!LifeOfTerminals` is that specification with its fairness, under the
mapping `lifeOf` from the manager's maps; TLC checks that `Terminals`, with
everything around it, implements it.

### NodeEnrollment

`rows` and `records` are instances and their bootstrap records, `tokens` what
nodes and users were given, `keys` the stored key pair, `connections` the node's
sockets by tag. A call is one run of a route; the shared steps are
`GetPrivateKey`, `PutKeys`, `GetPublicKey`, `PutKid` (`kv/key.ts`),
`SignBootstrapToken`, `RecordToken`, `Verified`, `MarkUsed`,
`RotateBootstrapToken`, `InsertInstance`, `UpdateCert`, `SaveDomain`,
`ResolveConnection`, `AcceptWebSocket`, `EvictNodeByTag`, `DeleteInstance`,
`SendOperatorTask`. Tokens carry a tag and rows an id, as in the code, and a tag
may be used again.

## 3. What the runs check

| Run | Question and result |
| --- | --- |
| `BuildDispatchFaults` | Two requests, two handlers, one slot; commands fail, builds fail, callbacks expire, the socket drops, one restart. Types hold; a callback is consumed by one handler at a time (`ConsumeIsExclusive`); repeated responses publish nothing twice (`PublishedAtMostDispatched`); an accepted request is dispatched or queued (`AcceptedNotLost`). |
| `BuildDispatchReconcile` | A reconcile among requests and a drain while counters and lists expire and the socket drops: stale lists written over newer ones never name a build the node was not sent (`AccountedWasSent`), and an entry goes only after its build was sent, unless it was written over that of a drain that had yet to dequeue it (`EnqueuedUnlessRaced`). |
| `BuildDispatchFair` | Under fairness and without failing commands, while queue keys expire: a build leaves the guard (`GuardIsLifted`). |
| `Connections` | In one scenario two requests of one client at a limit of one, a log subscription of another client and a background stream of the same log; in the other two clients that watch a file one of them unwatches. Clients and node leave at every await, awaits reject. All indexes agree, requests are answered at most once (`AnsweredAtMostOnce`) and live the life of `RequestLife` with its liveness (`LifeOfRequests`), departed clients are swept. |
| `InstancePool` | A login, a sync and its drain, a hobby cluster and a pro cluster on a pool instance in maintenance, nodes that go down and come back, and a provisioning lock that an earlier call may have left: `AssignedIsPool` and `ProvisioningIsExclusive` hold. |
| `InstancePoolFaults` | Droplets vanish, the provider and the store fail, ports close. Under fairness every row without a droplet and every droplet without a row is repaired (`MismatchIsRepaired`). |
| `Sessions` | Two requests at a time of two users, in nine mixes, two of them with Bearer tokens beside the cookie. A session no revocation touched is where logout looks (`NeverRevokedIsListed`); a session is verified only if a right code was given beside its cookie, by its own user unless the request had a Bearer token (`VerifiedWasEarned`); an enabled secret was shown (`EnabledWasShown`); a code is compared at most nine times with two requests at once, although three attempts are meant (`GuessesAreBounded`); a session that is gone with no write to it under way stays gone (`GoneForGood`). |
| `Clusters` | Two requests at a time of three users, in nine mixes. One owner for each cluster but for the race named in the property (`OwnedUnlessRaced`), who changes only in the transfer of a user who once owned it (`OwnersChangeByTransfer`); sessions carry roles that were held (`CachedRoleWasHeld`); a membership ends by a decline, or by a removal or role update of one who owned the cluster, and the cascade takes others only if they were given after the clean-up looked (`MembershipsEndByRequest`); links and messages are what members of the cluster chose (`LinkedByMembers`). |
| `Services` | Two clusters that use the same names, two requests at a time, in eighteen mixes. References lead to rows (`TypeOK`), a service links to a deployment of its own cluster unless that was deleted since the service was written (`LinkIsOwn`), its settings came from its own cluster (`ServiceSettingsAreOwn`), it is deployed again once in a cooldown, tasks that were sent and could not be recorded excepted (`ReprovisionedOncePerWindow`), and an active domain had its token found (`ActiveWasProved`). |
| `Billing` | Two clusters, three subscriptions, up to five events, in five mixes: long histories in order, repeated and reordered events two at a time, the doctor among events. The row says what the last event did (`RecordedInOrder`), subscriptions stay with their buyers in every order (`BilledToItsBuyer`), pool tiers follow plans (`PlacedByPlan`). |
| `NodeStreams` | Streams of two clients and a node, and enrollment with up to four calls, in seventeen scenarios. Clients are shown names of their own cluster (`ShownWasOwned`), typed input goes to a live terminal of the client (`MappedIsLive`), a token enrolls its instance once (`TokensEnrollOnce`), and the terminal manager implements `TerminalLife` with its liveness (`LifeOfTerminals`). |
| `BillingDowngrade` | Violated: `DowngradeLeavesDedicated`. |

### Disagreements between the code and what it says

The run that is expected to fail:

* **A downgrade from pro never happens** (billing/index.ts:334,
  db/instances.ts:302). Both statements that release a dedicated instance set its
  owner to NULL, which the CHECK on the table (000_init.ts:60) rejects; the error
  is logged, the cluster keeps the dedicated instance and gets no other.

The configurations below are kept beside the runs and show one disagreement each;
run them by hand (section 6) to see the trace.

| Configuration | Violated | What happens |
| --- | --- | --- |
| `BuildGuardStuck` | `GuardMeansInProgress` | If a store command inside `consumeBuildCallback` rejects, the build stays in `pendingBuildDispatches` (node-handler.ts:152); later responses are dropped as duplicates until the process restarts. |
| `BuildRequeuedLost` | `EnqueuedNotLost` | A drain has dispatched a queued build and not yet dequeued it (node-handler.ts:298); a reconcile queues it again; the late dequeue deletes the new item. |
| `BuildQueueStuck` | `QueueWaitsForSlot` | A request reads a full slot counter, the running build ends and drains an empty queue, and only then the request queues its build (deployments.ts:463). |
| `ConnectionUnwatchRace` | `UnwatchOnlyWithoutSubscribers` | `handleFileUnwatch` tests for other subscribers, awaits twice, and tells the node to stop although another client has subscribed (client-handler.ts:962). |
| `InstanceDrainLoses` | `MigratedIsPlaced` | When another call holds the provisioning lock, `allocateSharedPool` returns without assigning and without an error, and `migrateClusters` counts that as a migration (pool.ts:221, node-doctor.ts:269); the droplet is destroyed. |
| `ServiceSettings` | `DeploymentSettingsAreOwn` | A report consumes the payload of the lobby by cluster and name after it found the deployment by name; the name has changed hands in between, and settings of one cluster hang on a deployment of another (update-processor.ts:101-165). |
| `ServiceWatchdog` | `AlertedOncePerCooldown` | Two clusters of a pool node run the watchdog of one service at once and both read no cooldown before one arms it (workload-supervisor.ts:292), which the comment at 295 means to prevent. |
| `ClusterOwnerless` | `AlwaysOwned` | `removeUsers` has looked at the role of a member, a transfer makes him the owner, and the removal deletes the owner (db/clusters.ts:513-523; "exactly one owner", 605). |
| `ClusterChannelUndone` | `EventsKeepTheChannel` | A change of the subscribed events writes back the settings it read before a setup of the same channel finished (routes/notifications.ts:48-71). |

Further properties are stated in the modules, say in their comment that they do
not hold, and are violated when added to the `.cfg` of their module:
`SpentBackupCodeIsGone` (user-2fa.ts:119: two uses of backup codes restore one
another), `VersionsIncrease` (entity.ts:47), `OpenIsMarked`
(instance-handler.ts:193), `EstablishedIsMapped` (terminal-manager.ts:187),
`KeysAreKept` (key.ts:32), `SpentWasAnswered` (instances.ts:291) and
`ConnectedHasRow` (an upgrade resolved before a removal is accepted after it).

### Other observations

Met while modelling, each at the code that the model of it is mapped to:

* Sessions: the comment of logout says API tokens are revoked too; they are not.
  The session of an OIDC exchange is not checked against current memberships.
  With a Bearer token beside a cookie the code checked is the token's user's and
  the session marked as verified is the cookie's (twofa.ts:111, 191), so that the
  user who gave the code need not be the session's own; `VerifiedWasEarned` says
  so, and its form without that distinction does not hold.
* Clusters: PATCH of users hands e-mail addresses to a statement that wants ids.
  The clean-up of `removeUsers` means accounts "with no remaining clusters"
  (clusters.ts:525), but a cluster or an invitation the user got after its look is
  deleted with the account, and two removals of a user's last two memberships at
  once each still see the other's row and leave the account.
* Integrations: `events/setup` for a webhook writes `metadata.webhook`, while
  setup and delivery use `customWebhook`, so a webhook's events never change.
  `email/setup` without events falls back to the defaults. The GitHub callback
  deletes whatever installation is pending by then.
* Services: PATCH lists secrets of the linked deployment but reads only those of
  the service. A report without user, type or source consumes the payload and
  then fails. PATCH replaces settings before it finds that the service has no
  deployment. The sleep job can mark a service asleep after DELETE cleaned its
  flags, and the supervisor can register its route again. `clearIced` and
  `resolveRoute` are never called. `DELETE /deployments/:id` leaves services that
  link to the row, and the node's next report inserts the id again
  (update-processor.ts:119), under whichever cluster its user is found in: the
  service then links to a deployment of another cluster, and the trigger rejects
  every later write of the service that keeps the link. A deploy task whose
  record fails after it was sent (services/deployments.ts:480-483) starts no
  cooldown, and the next run of the supervisor sends it again.
* Billing: the end of the paid period of a canceled subscription triggers
  nothing, and the "revoked" event that follows sees a previous plan of "hobby".
  Mails look a user up by an address that is an id. A crash between the row and
  the transition is not repaired by a redelivery, which sees no change of plan.
* Streams: `deleteEntity` restarts versions; versions derived from rows are
  milliseconds and those of entities small counters, under one key of the client.
  An update handler of a socket that is gone registers its clusters again.
  An exception in `getRoutingKey` leaves an expected terminal to the sweep.
* Enrollment: the virtual machine route records its bootstrap token under a fresh
  id without a row, which the foreign key rejects every time. A failure after the
  insertion of an instance leaves a row without a token and its tag taken.
  `handleCert` tests for an existing certificate and writes the metadata back
  whole, awaits later. Instances added by an administrator have no tier, so
  `assignPool` never picks them.
* Build dispatch and pool: `incrementBuildSlots` calls itself atomic and is a get
  and a put (instance-cache.ts:270). A login may give a pool instance to a
  cluster for which a sync is creating a dedicated one, and a later drain then
  provisions a second (auth/index.ts:141). Dedicated droplets are not in
  `poolMap`, so every sync overwrites their row's status (node-doctor.ts:116-203).

### Bounds

* `MaxAnswers`, `MaxReconciles` and `MaxRestarts` bound repeated responses,
  reconciles and restarts. One repetition is enough to have two handlers on one
  build, or one more after it completed.
* Two builds with one slot make a dispatch, a queue entry and a drain happen
  together; two handlers are what the guard has to keep apart.
* `MaxPending` = 1 with two requests puts both handlers on the two sides of the
  limit at the same time.
* Two clusters of different plans, one initial instance and one fresh tag
  (`InstancePool`) let the instance be drained while a login or a sync assigns to
  it, and let a sync and a drain contend for the lock of one cluster. A tag is
  free again after its instance is gone, so sequences of any length are explored.
  `Quota` = 2 lets the sync stop at the quota as well.
* There is one sync and one drain in each run, and the sync starts over while a
  drain runs. Overlapping syncs (a job triggered past its running flag) are too
  large for TLC; the theorems cover them.
* `Mixes` and `Scenarios`: TLC explores each mix by itself. Two requests at once
  are what a read-then-write needs to lose an update, or a check to go stale; a
  request that ended may start again, so sequences are not bounded by two.
* `Sessions`: two session ids where two sessions of a user matter, one otherwise;
  one login or second-factor code; `maxGuesses` is 10, one above
  the bound that holds, in the mix of the login codes, 4 in the one where a
  logout races a verification, and 2, a wrong code and a right one, where a
  Bearer token decides who guesses. The mixes that send no code compare none.
* `Clusters`: an owner, a viewer and a stranger; a second cluster where logins
  create one; `LastMonth` = 1 is one month that passes; previous owners become
  admins (`PreviousRoles`; other roles differ only in what they may do
  afterwards); one event and one webhook address.
* `Services`: a limit of one service for each cluster, two names where the limit
  matters, two service and three deployment ids, which are free again when
  nothing refers to them; one domain with two tokens. The reports and expiries of
  the environment are not bounded. `ServiceWatchdog` has the mix of the watchdog
  alone, with one name.
* `Billing`: the numbers of a mix are the events of each cluster, the deliveries
  out of order, the webhook calls at once, and whether the doctor runs.
* `NodeStreams`: two updates, one heartbeat, one name, two deployments
  (`MaxDeploys`), so that a name goes from one cluster to the other; two sockets
  of a node and two terminals; one tag, so that it is used again, with the calls
  that meet on it. With one name a heartbeat finds nothing to add to what the
  node lists; that step is covered by the theorem `ShownOwned`.
* Symmetry is used where the run checks no liveness.

`CHECK_DEADLOCK FALSE` is set where the bounds bring the system to rest: requests
and answers of `BuildDispatch`, events of the provider, messages, session ids
and calls of the newer modules. `Connections`, `InstancePool` and
`InstancePoolFaults` check deadlock.

The type invariants of `Sessions`, `Clusters`, `InstancePool` and `Billing` are
stated in the modules and hold when added to a configuration; the runs leave them
out in favour of properties that say more. Those of `Sessions`, `InstancePool`,
`Billing` and `ConnectionManager` are theorems, and what `Clusters` stores is
typed by `Typed`, a part of its inductive invariant.

### Fairness

* `BuildDispatch`: weak fairness of each process's next step. A command that was
  issued returns, and the event loop runs its continuation. No fairness of
  faults, of repeated responses or of the reconcile.
* `ConnectionManager`: weak fairness of calls, of the timer that expires each
  request and of the sweep of log streams (both are `setInterval`s), and of the
  delivery of a closed socket's events. None of answers or departures.
* `InstancePool`: weak fairness of logins, strong fairness of syncs and drains.
  The sync is started again by its interval; a step of it that waits for a locked
  row is enabled again and again while transactions come and go, and PostgreSQL
  queues waiting transactions, hence strong fairness. None of health checks or of
  the expiry of locks.
* `NodeStreams`: weak fairness of the sweep of each expected terminal, which is a
  `setInterval`, and of the timer that ends the process after a signal
  (index.ts:57-72). None of nodes, clients or handlers: the wait for a node must
  end without them.
* The other newer modules state safety only.

## 4. What is proved

Theorems hold for every set of builds, calls, clusters, users, names, instances
and so on that meets the `ASSUME`s of the modules (`...Assumption`; TLC evaluates
them in every run). These say no more than that sets of processes are disjoint,
tables are functions on them, bounds are numbers, mixes list known operations,
and `None` is none of the values it stands beside. A composition is proved as a
whole: the theorems of `ServicesProofs`, `NodeStreamsProofs` and
`ClustersProofs` are about the `Spec` in which all the components step, and
allow any mix of operations beside each other, which no single run does.

| Theorem | States | Argument |
| --- | --- | --- |
| `BuildDispatchProofs!Typing`, `TypeCorrect` | types, and a process has a build and a node whenever its command names them (`Labelled`); `[]TypeOK` | inductive as it stands; `TypeOK` alone is not, since a `NoNode` would index the tables |
| `ConsumeExclusive` | `[]ConsumeIsExclusive` | inductive relative to `Typed`: the guard is entered in the step that begins to consume and left in the one that ends it |
| `AccountedSent` | `[]AccountedWasSent` | needs `WrittenBackWasSent`: a list read earlier and written back later named only builds that were sent, and what was sent stays sent |
| `PublishedDispatched` | `[]PublishedAtMostDispatched` | `Counted`: for each build, publications, processes that hold it, and a callback stored or in hand add up to no more than the dispatches |
| `AcceptedKept` | `[]AcceptedNotLost` if queue items do not expire | `Kept`: whoever accounts for a build has sent it, and a request past its enqueue has its item in the queue or the build sent |
| `EnqueuedKept` | `[]EnqueuedUnlessRaced` on the same condition, for any number of reconciles and restarts | `Drained`: a handler past its dispatch and before its dequeue has dispatched what was owed, unless the build is `raced`, and only handlers dequeue |
| `ConnectionManagerProofs!Typing` | `[]TypeOK` | inductive |
| `PendingTracked` | `[]PendingIsTracked` | needs `CallsBegun`: a connection that is not yet open has no calls, so the empty set `addConnection` writes is right |
| `PendingBounded` | `[]PendingIsBounded` | inductive: the limit is tested again in the step that adds |
| `WatchesAgree` | `[]WatchIndexesAgree` | inductive |
| `StreamsInvariant`, `StreamsAgree`, `AdderOwns` | `[]StreamIndexesAgree`, `[]AdderOwnsStream` | the two need each other, and `IdIsFresh`: the index loses the adder's id, and a new stream's id is not yet indexed |
| `AnsweredOnce` | `[]AnsweredAtMostOnce` if no handler outlasts `requestTimeoutMs` | `AnswerState` ties the number of answers to the step of the call |
| `RequestsLive` | `Spec => Life!Spec` on the same condition: refinement of `RequestLife` | a request is "waiting" from its addition until it is no longer pending and its handler is done; a departing client drops, and the timer answers, a set of requests in one abstract step |
| `InstancePoolProofs!Typing`, `TypeCorrect` | types, and what calls hold (`CallsHold`); `[]TypeOK` | one lemma for each group of variables |
| `AssignedPool` | `[]AssignedIsPool` | needs `ChosenIsPool`: the row a transaction locked is still a pool row, because removal waits for the lock |
| `Exclusive` | `[]ProvisioningIsExclusive` if no call outlasts the TTL of its lock | `HoldsLock`: whoever is past the lock holds it; the unconditional delete in the catch removes only the deleter's own lock |
| `SessionsProofs!Invariant`, `TypeCorrect` | `[]Inv`: what is stored (`Stored`) and what each request holds at each of its steps (`RequestsFit`) | history only grows (`Grows`), so what was read before an await and is acted on after it stays true of the history although the store has moved on |
| `VerifiedEarned`, `EnabledShown` | `[]VerifiedWasEarned`, `[]EnabledWasShown` | part of `Stored`: a write of "verified" comes from a request that earned it or read a record that was earned |
| `NeverRevokedListed` | `[]NeverRevokedIsListed` | `Traced`: a session with a record, or about to get one, is listed, was revoked, or its creator still has the entry to write |
| `GuessesBounded` | `[]GuessesAreBounded` if `Requests` is finite | `GuessInv`: a potential (below) |
| `GoneStays` | `[][...]_vars`, `GoneForGood` | `StaysGone`, from `Inv`: only a creation, for an id no session has had, or a second factor, for a record it finds, begins to write a session |
| `ClustersProofs!Invariant` | `[](DbInv /\ LinksInv)`, of `IntegrationsSpec` | `RequestsFit` says for each step what its request has read; everything read is true of the histories `created`, `joined` and `owned`, which only grow |
| `Owned`, `CachedHeld`, `LinkedOwned` | `[]OwnedUnlessRaced`, `[]CachedRoleWasHeld`, `[]LinkedByMembers` | from it, with `OneOwner` (ownership moves within one statement) and `RemovalsRaced` (a removal that goes on against an owner raced with the step that made him one, and what a cascade would take was given after the clean-up looked); a copy of a role is of a role that was held when it was read |
| `OwnersChange` | `[][...]_vars`, `OwnersChangeByTransfer` | from the same invariant: a transfer acts for a user who once owned the cluster (`Granted`), a removal that goes on against an owner has raced (`RemovalLoses`), and no other step writes the role of an owner or makes one (`OthersKeepOwners`) |
| `MembershipsEnd` | `[][...]_vars`, `MembershipsEndByRequest` | from the same invariant: a removal acts for a user who once owned the cluster, and what it takes elsewhere is noted in `raced` (`RemovalWrites`); what gives memberships ends none (`GivingEndsNone`) |
| `ServicesProofs!Invariant`, `TypeCorrect` | `[]Inv`, of the four modules composed; `[]TypeOK` | `Labelled` says what a request at each step holds; a step is `Calm` (writes only its own request, and holds no service but one it read), or one of the few others |
| `LinksOwn`, `SettingsOwn` | `[]LinkIsOwn`, `[]ServiceSettingsAreOwn` | a service is written only with a link the trigger accepts, and a deployment that goes makes the services that link to it `lapsed` (`Lapses`); settings need `IdsUnique` and `HeldIsOwn`: whatever became of the service a request holds, no other cluster's has its id |
| `ReprovisionedOnce` | `[]ReprovisionedOncePerWindow` | `RunsAlone` (the worker skips a tick while a run is under way), `UnarmedIsCold` (nobody else starts the cooldown in between) and `CountedIsArmed` (a counted task has started it, or its run is recording the build or about to start it; a task whose record failed is not counted) |
| `ActiveProved` | `[]ActiveWasProved` | `VisitIsCurrent`: the row whose token a verification looked for still bears it, unless the domain is outlived; `TokenFound` |
| `BillingProofs!Typing`, `TypeCorrect` | types, and what a call in flight holds; `[]TypeOK` | the count of clusters on a tier never exceeds its capacity (`RoomOK`) |
| `OwnSubscription` | `[]BilledToItsBuyer` | `Own`: rows, events and the copies in calls name subscriptions of their cluster |
| `RecordedOrderly` | `[]RecordedInOrder` | `Chained` (each event of an orderly log continues the one before) and `InOrder` (one call at a time, whose copy of the row is the row until it writes) |
| `PlacedOrderly` | `[]PlacedByPlan` | `Placed`: until its call has moved it, an orderly cluster is on an instance of the plan before |
| `NodeStreamsProofs!TerminalInvariant`, `MappedLive` | `[]MappedIsLive` | an entry of a map is at the stage of its opening that may have made it (`OpeningsFit`) |
| `TerminalsLive` | `Spec => Life!Spec`: refinement of `TerminalLife` | initial states map to initial states, and each step to a step of the session it is about or to a stutter |
| `ShownOwned` | `[]ShownWasOwned` | `DeltaInv`: what is stored, cached, queued or on its way to a cluster, it has had |
| `EnrolledOnce` | `[]TokensEnrollOnce` | `EnrollInv`: ids and nonces are drawn once, a row or a record bears only one whose maker will not draw it again, and a spent nonce has no record left |

The conditions are real. With `"slowCall"` in `Faults` TLC finds a request that is
both refused and timed out, and two calls past the lock of one cluster. A queue
item that expires is a build that is lost. The race that `EnqueuedUnlessRaced`
excepts happens: a build queued again by a reconcile may be lost
(`BuildRequeuedLost.cfg`). So do the deletion of a deployment whose id comes back
under another cluster, which `LinkIsOwn` excepts, and the failed record of a sent
task, which `ReprovisionedOncePerWindow` excepts.

The inductive invariants were first checked by TLC on the instances of the runs;
most properties are not inductive, mainly because a request writes after an await
what it read before: the strengthening says what its locals are at each step.

Each proof has one step for each action and, under it, one for each conjunct the
action can disturb. Actions that only move a request, which are most, share
lemmas on what such a move preserves (`Calm`, `Goes`, `CallMove`, `Grows`). The
last step of a theorem combines them with PTL.

`GuessesBounded` needs no sum over requests. For a code, let a, b and c be the
numbers of requests whose next comparison counts from three, two and one attempts
or more (a <= b <= c); after g comparisons
`6g + 6 + 6(b - a) + 3*Pairs(c) - 3*Pairs(b) <= Triples(c)`, and more than that
when the record still has attempts. To take a copy of the record leaves what is
left unchanged, a record that is lost or replaced can only lower it, and a
comparison uses up at least one. That takes two facts about codes: a code has one
place, the key it was drawn for (`OnePlace`), and nobody holds it before it is
drawn (`Undrawn`). For three requests at once TLC reaches the bound, 19, exactly.

Only model-checked: all liveness (`GuardIsLifted`, `FanoutIsSwept`,
`MismatchIsRepaired`, and the fairness half of `LifeOfRequests` and
`LifeOfTerminals`). TLAPS as used here has no proofs of
liveness under fairness, of `ENABLED`, or by induction with the library's theorems
that take an operator as parameter; what a recursive definition computes for all
inputs is out of its reach too. The modules use no `RECURSIVE` operator, so that
they stay provable.

## 5. Plan

Every component with a state of its own has a module, and every safety invariant,
action property and refinement that a run checks has a theorem (of a refinement,
its safety half). What is left:

1. An abstract specification of `BuildDispatch`, a queue of builds that a node
   takes one by one. It would have to name the requeue that loses an item and the
   request that queues behind an empty node, which the code does not exclude
   (section 3), so it can promise little more than `AcceptedNotLost`.
2. How far `assignPool` may exceed the capacity of an instance when transactions
   count its clusters at once (db/instances.ts:251), as a bound in the number of
   calls; it needs a potential like that of `GuessesBounded`. With it, what the row
   of a pool instance may never do in one step.
3. Composition of `Billing` with `InstancePool` in full (plans as a variable),
   too large for one run with the allocation in detail.

## 6. Running

    tlc -workers 2 -config InstancePool.cfg MCInstancePool
    tlc -workers 2 -config ClusterOwnerless.cfg MCClusters
    tlapm InstancePoolProofs.tla

`InstancePool`, with about 7.5 million distinct states, and `NodeStreams`, with
about 1.8 million and a liveness property, are the longest runs at about two
minutes; the others take between a second and two minutes. Violations are found
in seconds, except that of `ServiceSettings`, which takes about a minute.
