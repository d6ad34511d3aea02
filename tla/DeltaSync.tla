------------------------------ MODULE DeltaSync ------------------------------
(***************************************************************************)
(* What a node reports and what its clients are shown of it: the updates   *)
(* of a pool node (node-handler.ts, update-processor.ts) go through the    *)
(* versioned entities of lib/db/store/kv/entity.ts to the clients of each  *)
(* of its clusters (client-notifier.ts, and the heartbeats of              *)
(* client-handler.ts). The section modelled is "workloads", the one that   *)
(* is cut per cluster; its data is the set of service names it lists.      *)
(* A step is what runs between two awaits; the messages of a node are      *)
(* handled concurrently, and the clusters of an update as well.            *)
(***************************************************************************)
EXTENDS ClientSockets

CONSTANTS
  Clusters,    (* the clusters of the pool node                             *)
  Names,       (* service names                                             *)
  Updates,     (* messages of the node                                      *)
  Heartbeats,  (* messages of clients                                       *)
  NodeSockets, (* the successive sockets of the node                        *)
  Of,          (* the cluster whose stream a client socket is on            *)
  MaxDeploys   (* bound on the deployments that are made                    *)

\* Versions that come from the database are times in milliseconds; those of
\* the entities are small counters.
DbEpoch == 10
Deploys == 0..MaxDeploys

ASSUME DeltaSyncAssumption ==
  /\ Of \in [Clients -> Clusters] /\ MaxDeploys \in Nat
  /\ None \notin Clusters \cup Names

VARIABLES
  owner,       (* the cluster a name is deployed in, and when it was        *)
  deploys,     (* deployments made so far, the clock of the rows            *)
  everOwned,   (* history: the names a cluster has had                      *)
  meta,        (* clusterMetaCache                                          *)
  workloads,   (* the entity CLUSTER.WORKLOADS of a cluster                 *)
  clientVersion, (* clientVersions, of the connections                      *)
  latest,      (* the version a client holds: that of the last delta sent   *)
  shown,       (* history: the names a client was shown                     *)
  update,      (* processUpdate and the list of clusters, per message       *)
  notify,      (* notifyCluster, per message and cluster                    *)
  beat,        (* handleHeartbeat, per message                              *)
  nodeSocket,  (* per socket: "new", "open", "closed"                       *)
  dropping,    (* clusters handleNodeDisconnect still has to deregister     *)
  connected,   (* NODE.CONNECTED                                            *)
  registered   (* CLUSTER.NODE                                              *)

rowVars  == <<owner, deploys, everOwned>>
nodeVars == <<nodeSocket, dropping, connected, registered>>
sentVars == <<clientVersion, latest, shown>>
deltaVars == <<rowVars, meta, workloads, sentVars, update, notify, beat, nodeVars>>

Entity(v, names) == [version |-> v, names |-> names]
NoEntity == Entity(0, {})
Handler(at, names) == [at |-> at, names |-> names]
Notification(at, names) ==
  [at |-> at, names |-> names, version |-> 0, to |-> {}, entity |-> NoEntity]
Beat(at, c, known) ==
  [at |-> at, client |-> c, known |-> known, saved |-> NoEntity, entity |-> NoEntity]

owned(k) == {n \in Names : owner[n].cluster = k}

DeltaInit ==
  /\ owner = [n \in Names |-> [cluster |-> None, at |-> 0]]
  /\ deploys = 0
  /\ everOwned = [k \in Clusters |-> {}]
  /\ meta = [k \in Clusters |-> None]
  /\ workloads = [k \in Clusters |-> NoEntity]
  /\ clientVersion = [c \in Clients |-> 0] /\ latest = [c \in Clients |-> 0]
  /\ shown = [c \in Clients |-> {}]
  /\ update = [u \in Updates |-> Handler("new", {})]
  /\ notify = [u \in Updates |-> [k \in Clusters |-> Notification("new", {})]]
  /\ beat = [h \in Heartbeats |-> Beat("new", None, 0)]
  /\ nodeSocket = [x \in NodeSockets |-> "new"]
  /\ dropping = [x \in NodeSockets |-> {}]
  /\ connected = FALSE /\ registered = {}

(* --- The rows, as other requests change them ------------------------------- *)

Deploy(k, n) ==
  /\ owner[n].cluster = None /\ deploys < MaxDeploys
  /\ deploys' = deploys + 1
  /\ owner' = [owner EXCEPT ![n] = [cluster |-> k, at |-> deploys + 1]]
  /\ everOwned' = [everOwned EXCEPT ![k] = @ \cup {n}]
  /\ UNCHANGED <<socketVars, meta, workloads, sentVars, update, notify, beat, nodeVars>>
Remove(n) ==
  /\ owner[n].cluster # None
  /\ owner' = [owner EXCEPT ![n] = [cluster |-> None, at |-> 0]]
  /\ UNCHANGED <<socketVars, deploys, everOwned, meta, workloads, sentVars, update, notify,
                 beat, nodeVars>>

(* --- An update of the node ------------------------------------------------- *)

\* The socket is open; the message lists what runs on the node, of whichever
\* cluster. The node is marked connected and the update processed.
ReceiveUpdate(u) ==
  /\ update[u].at = "new" /\ \E x \in NodeSockets : nodeSocket[x] = "open"
  /\ connected' = TRUE
  /\ \E names \in SUBSET Names : update' = [update EXCEPT ![u] = Handler("processing", names)]
  /\ UNCHANGED <<socketVars, rowVars, meta, workloads, sentVars, notify, beat,
                 nodeSocket, dropping, registered>>

\* The clusters of the node are listed; each is served by itself.
ListClusters(u) ==
  /\ update[u].at = "processing"
  /\ update' = [update EXCEPT ![u] = Handler("done", {})]
  /\ notify' = [notify EXCEPT ![u] =
                  [k \in Clusters |-> Notification("meta", update[u].names)]]
  /\ UNCHANGED <<socketVars, rowVars, meta, workloads, sentVars, beat, nodeVars>>

\* Variant with a bug: a cluster is given all services of the node.
unfiltered(names, own) == names
filtered(names, own) == names \cap own

Ready(u, k, own) ==
  [notify EXCEPT ![u][k].at = "read", ![u][k].names = filtered(notify[u][k].names, own)]

\* The deployments of the cluster, from the cache or read again.
CachedMeta(u, k) ==
  /\ notify[u][k].at = "meta" /\ meta[k] # None
  /\ notify' = Ready(u, k, meta[k])
  /\ UNCHANGED <<socketVars, rowVars, meta, workloads, sentVars, update, beat, nodeVars>>
ListDeployments(u, k) ==
  /\ notify[u][k].at = "meta" /\ meta[k] = None
  /\ notify' = [notify EXCEPT ![u][k].at = "list"]
  /\ UNCHANGED <<socketVars, rowVars, meta, workloads, sentVars, update, beat, nodeVars>>
FillMeta(u, k) ==
  /\ notify[u][k].at = "list"
  /\ meta' = [meta EXCEPT ![k] = owned(k)]
  /\ notify' = Ready(u, k, owned(k))
  /\ UNCHANGED <<socketVars, rowVars, workloads, sentVars, update, beat, nodeVars>>
\* CLUSTER_META_TTL_MS after it was filled.
MetaExpires(k) ==
  /\ meta[k] # None
  /\ meta' = [meta EXCEPT ![k] = None]
  /\ UNCHANGED <<socketVars, rowVars, workloads, sentVars, update, notify, beat, nodeVars>>

\* setEntity reads the version, ...
GetEntity(u, k) ==
  /\ notify[u][k].at = "read"
  /\ notify' = [notify EXCEPT ![u][k].at = "put", ![u][k].version = workloads[k].version + 1]
  /\ UNCHANGED <<socketVars, rowVars, meta, workloads, sentVars, update, beat, nodeVars>>
\* ... and puts the next. The clients to broadcast to are taken at once.
PutEntity(u, k) ==
  LET q == notify[u][k] IN
  /\ q.at = "put"
  /\ workloads' = [workloads EXCEPT ![k] = Entity(q.version, q.names)]
  /\ notify' = [notify EXCEPT
       ![u][k].at = IF {c \in clientOpen : Of[c] = k} = {} THEN "register" ELSE "fetch",
       ![u][k].to = {c \in clientOpen : Of[c] = k}]
  /\ UNCHANGED <<socketVars, rowVars, meta, sentVars, update, beat, nodeVars>>

\* broadcast fetches the entity, which may be a later one by then. Workloads
\* that list nothing are not sent.
Fetch(u, k) ==
  /\ notify[u][k].at = "fetch"
  /\ notify' = [notify EXCEPT ![u][k].entity = workloads[k],
       ![u][k].at = IF workloads[k].names = {} THEN "register" ELSE "send"]
  /\ UNCHANGED <<socketVars, rowVars, meta, workloads, sentVars, update, beat, nodeVars>>

\* A delta for the clients that have a lower version. A closed socket takes
\* it silently; its connection has no versions left.
Show(to, entity) ==
  /\ latest' = [c \in Clients |-> IF c \in to \cap clientOpen THEN entity.version ELSE latest[c]]
  /\ shown' = [c \in Clients |->
                 IF c \in to \cap clientOpen THEN shown[c] \cup entity.names ELSE shown[c]]
  /\ clientVersion' = [c \in Clients |-> IF c \in to THEN entity.version ELSE clientVersion[c]]
Send(u, k) ==
  LET q == notify[u][k] IN
  /\ q.at = "send"
  /\ Show({c \in q.to : q.entity.version > clientVersion[c]}, q.entity)
  /\ notify' = [notify EXCEPT ![u][k].at = "register"]
  /\ UNCHANGED <<socketVars, rowVars, meta, workloads, update, beat, nodeVars>>
RegisterClusterNode(u, k) ==
  /\ notify[u][k].at = "register"
  /\ registered' = registered \cup {k}
  /\ notify' = [notify EXCEPT ![u][k] = Notification("done", {})]
  /\ UNCHANGED <<socketVars, rowVars, meta, workloads, sentVars, update, beat,
                 nodeSocket, dropping, connected>>

(* --- A heartbeat of a client ----------------------------------------------- *)

\* It carries the version the client holds.
ReceiveHeartbeat(h, c) ==
  /\ beat[h].at = "new" /\ c \in clientOpen
  /\ beat' = [beat EXCEPT ![h] = Beat("saved", c, latest[c])]
  /\ UNCHANGED <<socketVars, rowVars, meta, workloads, sentVars, update, notify, nodeVars>>

newest(names) == CHOOSE t \in Deploys : /\ \E n \in names : owner[n].at = t
                                        /\ \A n \in names : owner[n].at <= t
\* buildWorkloadsFromDB: what the rows say, with the time of the newest.
BuildWorkloadsFromDB(h) ==
  LET k == Of[beat[h].client] IN
  /\ beat[h].at = "saved"
  /\ beat' = [beat EXCEPT ![h].at = "get",
       ![h].saved = IF owned(k) = {} THEN NoEntity
                    ELSE Entity(DbEpoch + newest(owned(k)), owned(k))]
  /\ UNCHANGED <<socketVars, rowVars, meta, workloads, sentVars, update, notify, nodeVars>>
GetWorkloads(h) ==
  /\ beat[h].at = "get"
  /\ beat' = [beat EXCEPT ![h].at = "reply", ![h].entity = workloads[Of[beat[h].client]]]
  /\ UNCHANGED <<socketVars, rowVars, meta, workloads, sentVars, update, notify, nodeVars>>
\* The entity when it lists something and is newer than what the client holds, with
\* the deployments of the rows that are pending or running and that it does not list;
\* otherwise the rows, when theirs is another version.
SendHeartbeat(h) ==
  LET q == beat[h] IN
  /\ q.at = "reply"
  /\ CASE q.entity.names # {} /\ q.entity.version > q.known ->
            \E pending \in SUBSET (q.saved.names \ q.entity.names) :
              Show({q.client}, [q.entity EXCEPT !.names = @ \cup pending])
       [] q.entity.names = {} /\ q.saved # NoEntity /\ q.saved.version # q.known ->
            Show({q.client}, q.saved)
       [] OTHER -> UNCHANGED sentVars
  /\ beat' = [beat EXCEPT ![h] = Beat("done", None, 0)]
  /\ UNCHANGED <<socketVars, rowVars, meta, workloads, update, notify, nodeVars>>

(* --- Sockets --------------------------------------------------------------- *)

\* removeConnection forgets the versions of the connection.
ForgetVersions(c) ==
  /\ clientVersion' = [clientVersion EXCEPT ![c] = 0]
  /\ UNCHANGED <<rowVars, meta, workloads, latest, shown, update, notify, beat, nodeVars>>

\* A node that lost its connection opens another; the server may see the close
\* of the old one later.
NodeConnects(x) ==
  /\ nodeSocket[x] = "new"
  /\ nodeSocket' = [nodeSocket EXCEPT ![x] = "open"]
  /\ connected' = TRUE
  /\ UNCHANGED <<socketVars, rowVars, meta, workloads, sentVars, update, notify, beat,
                 dropping, registered>>
\* handleDisconnect: the mark goes, whatever other socket the node has, and the
\* clusters of the node are deregistered one after the other.
NodeCloses(x) ==
  /\ nodeSocket[x] = "open"
  /\ nodeSocket' = [nodeSocket EXCEPT ![x] = "closed"]
  /\ connected' = FALSE
  /\ dropping' = [dropping EXCEPT ![x] = Clusters]
  /\ UNCHANGED <<socketVars, rowVars, meta, workloads, sentVars, update, notify, beat, registered>>
DeregisterClusterNode(x, k) ==
  /\ k \in dropping[x]
  /\ dropping' = [dropping EXCEPT ![x] = @ \ {k}]
  /\ registered' = registered \ {k}
  /\ UNCHANGED <<socketVars, rowVars, meta, workloads, sentVars, update, notify, beat,
                 nodeSocket, connected>>

UpdateStep(u) ==
  \/ ReceiveUpdate(u) \/ ListClusters(u)
  \/ \E k \in Clusters :
       \/ CachedMeta(u, k) \/ ListDeployments(u, k) \/ FillMeta(u, k)
       \/ GetEntity(u, k) \/ PutEntity(u, k) \/ Fetch(u, k) \/ Send(u, k)
       \/ RegisterClusterNode(u, k)
BeatStep(h) ==
  \/ \E c \in Clients : ReceiveHeartbeat(h, c)
  \/ BuildWorkloadsFromDB(h) \/ GetWorkloads(h) \/ SendHeartbeat(h)
RowStep == \E n \in Names : Remove(n) \/ \E k \in Clusters : Deploy(k, n)
NodeStep(x) ==
  NodeConnects(x) \/ NodeCloses(x) \/ \E k \in Clusters : DeregisterClusterNode(x, k)

(* --- Properties ------------------------------------------------------------ *)

\* A client is shown services that its own cluster has or once had, although
\* every update of a pool node lists the services of all its clusters, the
\* names of a cluster are cached, and entity, broadcast and heartbeat each
\* read at another time.
ShownWasOwned == \A c \in Clients : shown[c] \subseteq everOwned[Of[c]]

\* The version of an entity goes up with every change of it. It does not: two
\* updates that read the same version store different data under the next.
VersionsIncrease ==
  [][\A k \in Clusters :
       workloads'[k] = workloads[k] \/ workloads'[k].version > workloads[k].version]_workloads

\* A node with an open socket is marked connected. It is not: the close of an
\* older socket removes the mark.
OpenIsMarked == (\E x \in NodeSockets : nodeSocket[x] = "open") => connected
=============================================================================
