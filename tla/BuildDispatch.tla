--------------------------- MODULE BuildDispatch ---------------------------
(***************************************************************************)
(* Dispatch of image builds to build nodes.                                *)
(*                                                                         *)
(* A deployment from source is built on a build node before it is          *)
(* published to the cluster's instance.  enqueueBuild                      *)
(* (services/deployments.ts) either sends the build task to a healthy      *)
(* build node or leaves it in a durable queue; the node's task_response is *)
(* handled by NodeMessageHandler (websocket/handlers/node-handler.ts),     *)
(* which publishes the image, releases the build slot and drains one entry *)
(* of the queue into it; NodeDoctor.buildNodeReconcile re-queues the       *)
(* builds of a degraded node.                                              *)
(*                                                                         *)
(* Everything these three share is in the key-value store: the slot        *)
(* counter and the in-flight list of each node, the queue's items and      *)
(* index, and the callbacks.  Every one of those keys is read with one     *)
(* command and written with another, so an `await` between them lets any   *)
(* other handler run.  A process of this module is one call of a handler   *)
(* and a step of it is one store command with the synchronous code that    *)
(* follows it.                                                             *)
(***************************************************************************)
EXTENDS Integers, FiniteSets

CONSTANTS
  Builds,        (* task ids; build b is also the process of its request    *)
  Handlers,      (* concurrent calls of handleTaskResponse                  *)
  BuildNodes,    (* tags of the instances with role "build"                 *)
  Capacity,      (* maxSlots of a node: buildSlotsFromMemory(memoryMb)      *)
  Tier,          (* the plan of the build's cluster                         *)
  Reconciler,    (* the process that runs buildNodeReconcile                *)
  NoBuild,       (* no build                                                *)
  NoNode,        (* no build node                                           *)
  Faults,        (* which faults of the environment may occur               *)
  MaxAnswers,    (* bound on the task_responses received for a build        *)
  MaxReconciles, (* bound on the runs of buildNodeReconcile                 *)
  MaxRestarts    (* bound on restarts of the control plane                  *)

FaultKinds ==
  {"disconnect", "degrade", "failedBuild", "storeFails",
   "slotsExpire", "queueExpires", "callbackExpires"}

ASSUME BuildDispatchAssumption ==
  /\ IsFiniteSet(Builds) /\ IsFiniteSet(Handlers)
  /\ Capacity \in [BuildNodes -> 1..8]
  /\ Tier \in [Builds -> {"pro", "indie", "hobby"}]
  /\ NoNode \notin BuildNodes
  /\ NoBuild \notin Builds
  /\ Builds \cap Handlers = {}
  /\ Reconciler \notin Builds \cup Handlers
  /\ Faults \subseteq FaultKinds
  /\ MaxAnswers \in Nat /\ MaxReconciles \in Nat /\ MaxRestarts \in Nat

VARIABLES
  (* Key-value store. *)
  slots,       (* KV_KEYS.BUILD.SLOTS: 0 stands for an absent key           *)
  inFlight,    (* KV_KEYS.BUILD.IN_FLIGHT                                   *)
  items,       (* builds with a KV_KEYS.BUILD.QUEUE_ITEM                    *)
  index,       (* builds named by KV_KEYS.BUILD.QUEUE                       *)
  before,      (* the order of the queue items' enqueuedAt                  *)
  callback,    (* buildNodeTag of KV_KEYS.BUILD.CALLBACK                    *)
  (* Database and sockets. *)
  status,      (* instances.status of a build node                         *)
  connected,   (* the node has an open socket                               *)
  recorded,    (* builds whose image is in the deployment row               *)
  (* Memory of the control plane. *)
  guard,       (* NodeMessageHandler.pendingBuildDispatches                 *)
  reconcile,   (* the nodes and entries a reconcile run has left            *)
  (* The local state of each process. *)
  pc,          (* the command it issues next                                *)
  task,        (* the build it is about                                     *)
  node,        (* the build node it is about                                *)
  seen,        (* the slot count it read                                    *)
  list,        (* the in-flight list or queue index it read                 *)
  (* What the nodes and the history know. *)
  sent,        (* the build tasks each node was ever sent                   *)
  dispatched,  (* how many times the task of a build was sent               *)
  owed,        (* the value dispatched must reach before the item may go    *)
  raced,       (* builds queued while a drain had yet to dequeue them       *)
  answers,     (* how many task_responses of a build arrived                *)
  published,   (* how many publish tasks were issued for a build            *)
  restarts     (* restarts of the control plane so far                      *)

kvVars   == <<slots, inFlight, items, index, before, callback>>
envVars  == <<status, connected>>
locals   == <<pc, task, node, seen, list>>
histVars == <<sent, dispatched, owed, raced, answers, published, restarts>>
vars     == <<kvVars, envVars, recorded, guard, reconcile, locals, histVars>>

Procs == Builds \cup Handlers \cup {Reconciler}

Labels ==
  {"idle", "done", "failed",
   "readSlots", "dispatch",                               (* a dispatch     *)
   "incGet", "incPut", "trackGet", "trackPut",            (* its accounting *)
   "dequeueItem", "dequeueGet", "dequeuePut", "saveCallback",
   "enqueueItem", "enqueueGet", "enqueuePut",             (* the queue      *)
   "consumeGet", "consumeDelete", "complete",             (* a response     *)
   "decGet", "decPut", "untrackGet", "untrackPut", "listIndex", "listItems",
   "nextNode", "nextEntry", "clearInFlight", "clearSlots"} (* a reconcile   *)

StoreTypeOK ==
  /\ slots \in [BuildNodes -> Nat]
  /\ inFlight \in [BuildNodes -> SUBSET Builds]
  /\ items \in SUBSET Builds
  /\ index \in SUBSET Builds
  /\ before \in SUBSET (Builds \X Builds)
  /\ callback \in [Builds -> BuildNodes \cup {NoNode}]
  /\ status \in [BuildNodes -> {"healthy", "degraded"}]
  /\ connected \in [BuildNodes -> BOOLEAN]
  /\ recorded \in SUBSET Builds
  /\ guard \in SUBSET Builds
  /\ reconcile \in [runs : Nat, nodes : SUBSET BuildNodes, rest : SUBSET Builds]

LocalTypeOK ==
  /\ pc \in [Procs -> Labels]
  /\ task \in [Procs -> Builds \cup {NoBuild}]
  /\ node \in [Procs -> BuildNodes \cup {NoNode}]
  /\ seen \in [Procs -> Nat]
  /\ list \in [Procs -> SUBSET Builds]

HistoryTypeOK ==
  /\ sent \in [BuildNodes -> SUBSET Builds]
  /\ dispatched \in [Builds -> Nat]
  /\ owed \in [Builds -> Nat]
  /\ raced \in SUBSET Builds
  /\ answers \in [Builds -> Nat]
  /\ published \in [Builds -> Nat]
  /\ restarts \in Nat

TypeOK == StoreTypeOK /\ LocalTypeOK /\ HistoryTypeOK

\* A request is about its own build, other processes are given theirs.
Own(p) == IF p \in Builds THEN p ELSE NoBuild

Init ==
  /\ slots = [n \in BuildNodes |-> 0]
  /\ inFlight = [n \in BuildNodes |-> {}]
  /\ items = {} /\ index = {} /\ before = {}
  /\ callback = [b \in Builds |-> NoNode]
  /\ status = [n \in BuildNodes |-> "healthy"]
  /\ connected = [n \in BuildNodes |-> TRUE]
  /\ recorded = {}
  /\ guard = {}
  /\ reconcile = [runs |-> 0, nodes |-> {}, rest |-> {}]
  /\ pc = [p \in Procs |-> "idle"]
  /\ task = [p \in Procs |-> Own(p)]
  /\ node = [p \in Procs |-> NoNode]
  /\ seen = [p \in Procs |-> 0]
  /\ list = [p \in Procs |-> {}]
  /\ sent = [n \in BuildNodes |-> {}]
  /\ dispatched = [b \in Builds |-> 0]
  /\ owed = [b \in Builds |-> 0]
  /\ raced = {}
  /\ answers = [b \in Builds |-> 0]
  /\ published = [b \in Builds |-> 0]
  /\ restarts = 0

At(p, label) == pc[p] = label

Become(p, label, b, n, count, ids) ==
  /\ pc'   = [pc   EXCEPT ![p] = label]
  /\ task' = [task EXCEPT ![p] = b]
  /\ node' = [node EXCEPT ![p] = n]
  /\ seen' = [seen EXCEPT ![p] = count]
  /\ list' = [list EXCEPT ![p] = ids]

\* The next command of the call; what the last one read is used up.
Goto(p, label) == Become(p, label, task[p], node[p], 0, {})

\* The same after reading a slot count, or a list.
ReadCount(p, label, count) == Become(p, label, task[p], node[p], count, {})
ReadList(p, label, ids)    == Become(p, label, task[p], node[p], 0, ids)

\* The call returns: a request ends for good, a handler can be called again.
Return(p) ==
  Become(p, IF p \in Builds THEN "done" ELSE "idle", Own(p), NoNode, 0, {})

\* The call throws.
Throw(p) ==
  Become(p, IF p \in Builds THEN "failed" ELSE "idle", Own(p), NoNode, 0, {})

----------------------------------------------------------------------------
(***************************************************************************)
(* Dispatching a build: enqueueBuild for a request and dispatchQueuedBuild *)
(* for a drain.  Both read the slot counter, decide on the value they      *)
(* read, send the task, and account for it in separate commands.           *)
(***************************************************************************)

\* db.instances.find({ role: "build", status: "healthy" }); without one
\* enqueueBuild throws InstanceNotConnectedError.
FindBuildNode(b) ==
  /\ At(b, "idle")
  /\ \/ \E n \in BuildNodes :
          /\ status[n] = "healthy"
          /\ Become(b, "readSlots", b, n, 0, {})
     \/ /\ \A n \in BuildNodes : status[n] # "healthy"
        /\ Throw(b)
  /\ UNCHANGED <<kvVars, envVars, recorded, guard, reconcile, histVars>>

ReadSlots(p) ==
  /\ At(p, "readSlots")
  /\ ReadCount(p, "dispatch", slots[node[p]])
  /\ UNCHANGED <<kvVars, envVars, recorded, guard, reconcile, histVars>>

\* Variants with a bug, for the mutant runs: the result of sendTask is ignored;
\* a refused request is answered but not queued.
RefuseIgnored(p)  == Goto(p, "incGet")
RefuseDropped(p)  == Return(p)

\* A request that cannot be dispatched is queued; an entry that cannot be
\* drained stays in the queue.
Refuse(p) == IF p \in Builds THEN Goto(p, "enqueueItem") ELSE Return(p)

Dispatch(p) ==
  LET b == task[p]
      n == node[p]
  IN /\ At(p, "dispatch")
     /\ \/ /\ seen[p] >= Capacity[n] \/ ~connected[n]
           /\ Refuse(p)
           /\ UNCHANGED <<sent, dispatched>>
        \/ /\ seen[p] < Capacity[n] /\ connected[n]
           /\ sent' = [sent EXCEPT ![n] = @ \cup {b}]
           /\ dispatched' = [dispatched EXCEPT ![b] = @ + 1]
           /\ Goto(p, "incGet")
     /\ UNCHANGED <<kvVars, envVars, recorded, guard, reconcile, owed, raced, answers,
                    published, restarts>>

\* incrementBuildSlots: the counter is read ...
IncrementGet(p) ==
  /\ At(p, "incGet")
  /\ ReadCount(p, "incPut", slots[node[p]])
  /\ UNCHANGED <<kvVars, envVars, recorded, guard, reconcile, histVars>>

\* ... and the successor of the value read is written.
IncrementPut(p) ==
  /\ At(p, "incPut")
  /\ slots' = [slots EXCEPT ![node[p]] = seen[p] + 1]
  /\ Goto(p, "trackGet")
  /\ UNCHANGED <<inFlight, items, index, before, callback, envVars, recorded,
                 guard, reconcile, histVars>>

\* trackInFlightBuild.
TrackGet(p) ==
  /\ At(p, "trackGet")
  /\ ReadList(p, "trackPut", inFlight[node[p]])
  /\ UNCHANGED <<kvVars, envVars, recorded, guard, reconcile, histVars>>

TrackPut(p) ==
  /\ At(p, "trackPut")
  /\ inFlight' = [inFlight EXCEPT ![node[p]] = list[p] \cup {task[p]}]
  /\ Goto(p, IF p \in Builds THEN "saveCallback" ELSE "dequeueItem")
  /\ UNCHANGED <<slots, items, index, before, callback, envVars, recorded,
                 guard, reconcile, histVars>>

\* saveBuildCallback, the last command of a request that concerns its build.
SaveCallback(p) ==
  /\ At(p, "saveCallback")
  /\ callback' = [callback EXCEPT ![task[p]] = node[p]]
  /\ Return(p)
  /\ UNCHANGED <<slots, inFlight, items, index, before, envVars, recorded,
                 guard, reconcile, histVars>>

----------------------------------------------------------------------------
(***************************************************************************)
(* The queue: PayloadStore.enqueueBuild, dequeueBuild and listBuildQueue.  *)
(***************************************************************************)

\* A drain of the build has sent it and will still delete its queue item.
ToDequeue(b) ==
  \E h \in Handlers :
    pc[h] \in {"incGet", "incPut", "trackGet", "trackPut", "dequeueItem"} /\ task[h] = b

Without(order, b) == {pair \in order : b # pair[1] /\ b # pair[2]}

EnqueueItem(p) ==
  LET b == task[p]
  IN /\ At(p, "enqueueItem")
     /\ items' = items \cup {b}
     /\ before' = Without(before, b) \cup (items \ {b}) \X {b}
     /\ owed' = [owed EXCEPT ![b] = dispatched[b] + 1]
     /\ raced' = IF ToDequeue(b) THEN raced \cup {b} ELSE raced \ {b}
     /\ Goto(p, "enqueueGet")
     /\ UNCHANGED <<slots, inFlight, index, callback, envVars, recorded, guard,
                    reconcile, sent, dispatched, answers, published, restarts>>

EnqueueGet(p) ==
  /\ At(p, "enqueueGet")
  /\ ReadList(p, "enqueuePut", index)
  /\ UNCHANGED <<kvVars, envVars, recorded, guard, reconcile, histVars>>

EnqueuePut(p) ==
  /\ At(p, "enqueuePut")
  /\ index' = list[p] \cup {task[p]}
  /\ IF p = Reconciler THEN Goto(p, "nextEntry") ELSE Return(p)
  /\ UNCHANGED <<slots, inFlight, items, before, callback, envVars, recorded,
                 guard, reconcile, histVars>>

DequeueItem(p) ==
  /\ At(p, "dequeueItem")
  /\ items' = items \ {task[p]}
  /\ before' = Without(before, task[p])
  /\ Goto(p, "dequeueGet")
  /\ UNCHANGED <<slots, inFlight, index, callback, envVars, recorded,
                 guard, reconcile, histVars>>

\* An absent index ends dequeueBuild; it is the empty set here.
DequeueGet(p) ==
  /\ At(p, "dequeueGet")
  /\ ReadList(p, IF index = {} THEN "saveCallback" ELSE "dequeuePut", index)
  /\ UNCHANGED <<kvVars, envVars, recorded, guard, reconcile, histVars>>

DequeuePut(p) ==
  /\ At(p, "dequeuePut")
  /\ index' = list[p] \ {task[p]}
  /\ Goto(p, "saveCallback")
  /\ UNCHANGED <<slots, inFlight, items, before, callback, envVars, recorded,
                 guard, reconcile, histVars>>

\* BUILD_QUEUE_PRIORITY.
Weight == [pro |-> 30, indie |-> 20, hobby |-> 10]

Precedes(a, b) ==
  \/ Weight[Tier[a]] > Weight[Tier[b]]
  \/ Tier[a] = Tier[b] /\ <<a, b>> \in before

\* listBuildQueue reads the index ...
ListIndex(h) ==
  /\ At(h, "listIndex")
  /\ ReadList(h, "listItems", index)
  /\ UNCHANGED <<kvVars, envVars, recorded, guard, reconcile, histVars>>

\* Variant with a bug: the drain takes the entry out before it sends the build.
ListItemsTaken(h) ==
  /\ At(h, "listItems")
  /\ \/ /\ list[h] \cap items = {}
        /\ Return(h)
        /\ UNCHANGED <<items, before>>
     \/ \E b \in list[h] \cap items :
          /\ items' = items \ {b} /\ before' = Without(before, b)
          /\ Become(h, "readSlots", b, node[h], 0, {})
  /\ UNCHANGED <<slots, inFlight, index, callback, envVars, recorded, guard,
                 reconcile, histVars>>

\* ... then the items it names (issued together, modelled as one read); the
\* first entry in dispatch order is drained into the released slot.
ListItems(h) ==
  LET listed == list[h] \cap items
  IN /\ At(h, "listItems")
     /\ \/ /\ listed = {}
           /\ Return(h)
        \/ \E b \in listed :
             /\ \A o \in listed \ {b} : Precedes(b, o)
             /\ Become(h, "readSlots", b, node[h], 0, {})
     /\ UNCHANGED <<kvVars, envVars, recorded, guard, reconcile, histVars>>

----------------------------------------------------------------------------
(***************************************************************************)
(* A build node's task_response: handleTaskResponse, dispatchBuildComplete *)
(* and releaseSlotAndDrainQueue.  A node may repeat a response.            *)
(***************************************************************************)

Answered(b) ==
  /\ answers[b] < MaxAnswers
  /\ \E n \in BuildNodes : connected[n] /\ b \in sent[n]
  /\ answers' = [answers EXCEPT ![b] = @ + 1]

\* Variant with a bug: the guard is never consulted.
DispatchingIgnored(b) == FALSE

\* pendingBuildDispatches.has(taskId).
Dispatching(b) == b \in guard

\* A successful response; no client request is pending for a build.
ReceiveResponse(h, b) ==
  /\ At(h, "idle")
  /\ Answered(b)
  /\ ~Dispatching(b)
  /\ guard' = guard \cup {b}
  /\ Become(h, "consumeGet", b, NoNode, 0, {})
  /\ UNCHANGED <<kvVars, envVars, recorded, reconcile, sent, dispatched, owed, raced,
                 published, restarts>>

\* While a call consumes the callback of the same build, a response is dropped
\* as a duplicate.  The failure of a build finds no pending request, takes
\* neither branch of handleTaskResponse, and is routed to no client.
DropResponse(b) ==
  /\ Dispatching(b) \/ "failedBuild" \in Faults
  /\ Answered(b)
  /\ UNCHANGED <<kvVars, envVars, recorded, guard, locals, reconcile, sent,
                 dispatched, owed, raced, published, restarts>>

\* consumeBuildCallback: get, then delete; the caller then lifts the guard and
\* routes the response to a client (there is none) if there was no callback.
ConsumeGet(h) ==
  /\ At(h, "consumeGet")
  /\ Become(h, "consumeDelete", task[h], callback[task[h]], 0, {})
  /\ UNCHANGED <<kvVars, envVars, recorded, guard, reconcile, histVars>>

\* Variants with a bug: the guard is lifted only when there was a callback; the
\* callback is read without being deleted.
ConsumeDeleteLeaks(h) ==
  /\ At(h, "consumeDelete")
  /\ callback' = [callback EXCEPT ![task[h]] = NoNode]
  /\ IF node[h] = NoNode
        THEN Return(h) /\ UNCHANGED guard
        ELSE Goto(h, "complete") /\ guard' = guard \ {task[h]}
  /\ UNCHANGED <<slots, inFlight, items, index, before, envVars, recorded,
                 reconcile, histVars>>
ConsumeDeleteKeeps(h) ==
  /\ At(h, "consumeDelete")
  /\ guard' = guard \ {task[h]}
  /\ IF node[h] = NoNode THEN Return(h) ELSE Goto(h, "complete")
  /\ UNCHANGED <<kvVars, envVars, recorded, reconcile, histVars>>

ConsumeDelete(h) ==
  /\ At(h, "consumeDelete")
  /\ callback' = [callback EXCEPT ![task[h]] = NoNode]
  /\ guard' = guard \ {task[h]}
  /\ IF node[h] = NoNode THEN Return(h) ELSE Goto(h, "complete")
  /\ UNCHANGED <<slots, inFlight, items, index, before, envVars, recorded,
                 reconcile, histVars>>

\* Without an image there is nothing to publish.  With one, the deployment row
\* is updated (if there is one and the update succeeds) and the publish task is
\* sent, or only a warning is logged when the cluster's instance is away.
CompleteBuild(h) ==
  LET b == task[h]
  IN /\ At(h, "complete")
     /\ \/ UNCHANGED <<recorded, published>>
        \/ /\ recorded' \in {recorded, recorded \cup {b}}
           /\ published' \in {published, [published EXCEPT ![b] = @ + 1]}
     /\ Goto(h, "decGet")
     /\ UNCHANGED <<kvVars, envVars, guard, reconcile, sent, dispatched, owed,
                    raced, answers, restarts>>

\* decrementBuildSlots.
DecrementGet(h) ==
  /\ At(h, "decGet")
  /\ ReadCount(h, "decPut", slots[node[h]])
  /\ UNCHANGED <<kvVars, envVars, recorded, guard, reconcile, histVars>>

\* Variant with a bug: a counter that expired goes below zero.
DecrementedTooFar(c) == c - 1

Decremented(c) == IF c = 0 THEN 0 ELSE c - 1

DecrementPut(h) ==
  /\ At(h, "decPut")
  /\ slots' = [slots EXCEPT ![node[h]] = Decremented(seen[h])]
  /\ Goto(h, "untrackGet")
  /\ UNCHANGED <<inFlight, items, index, before, callback, envVars, recorded,
                 guard, reconcile, histVars>>

\* untrackInFlightBuild; an absent list ends it.
UntrackGet(h) ==
  LET read == inFlight[node[h]]
  IN /\ At(h, "untrackGet")
     /\ ReadList(h, IF read = {} THEN "listIndex" ELSE "untrackPut", read)
     /\ UNCHANGED <<kvVars, envVars, recorded, guard, reconcile, histVars>>

UntrackPut(h) ==
  /\ At(h, "untrackPut")
  /\ inFlight' = [inFlight EXCEPT ![node[h]] = list[h] \ {task[h]}]
  /\ Goto(h, "listIndex")
  /\ UNCHANGED <<slots, items, index, before, callback, envVars, recorded,
                 guard, reconcile, histVars>>

----------------------------------------------------------------------------
(***************************************************************************)
(* buildNodeReconcile: re-queue what degraded nodes were building.         *)
(***************************************************************************)

ReconcileStart ==
  /\ At(Reconciler, "idle")
  /\ reconcile.runs < MaxReconciles
  /\ reconcile' = [runs  |-> reconcile.runs + 1,
                   nodes |-> {n \in BuildNodes : status[n] = "degraded"},
                   rest  |-> {}]
  /\ Goto(Reconciler, "nextNode")
  /\ UNCHANGED <<kvVars, envVars, recorded, guard, histVars>>

\* getInFlightBuilds of the next node of the listing; a node that builds
\* nothing is skipped.
ReconcileNode ==
  /\ At(Reconciler, "nextNode")
  /\ \/ /\ reconcile.nodes = {}
        /\ Return(Reconciler)
        /\ UNCHANGED reconcile
     \/ \E n \in reconcile.nodes :
          /\ reconcile' = [reconcile EXCEPT !.nodes = @ \ {n}, !.rest = inFlight[n]]
          /\ Become(Reconciler, IF inFlight[n] = {} THEN "nextNode" ELSE "nextEntry",
                    NoBuild, n, 0, {})
  /\ UNCHANGED <<kvVars, envVars, recorded, guard, histVars>>

\* enqueueBuild({ ...entry, enqueuedAt: Date.now() }) for each entry in turn.
ReconcileEntry ==
  /\ At(Reconciler, "nextEntry")
  /\ \/ /\ reconcile.rest = {}
        /\ Goto(Reconciler, "clearInFlight")
        /\ UNCHANGED reconcile
     \/ \E b \in reconcile.rest :
          /\ reconcile' = [reconcile EXCEPT !.rest = @ \ {b}]
          /\ Become(Reconciler, "enqueueItem", b, node[Reconciler], 0, {})
  /\ UNCHANGED <<kvVars, envVars, recorded, guard, histVars>>

ClearInFlight ==
  /\ At(Reconciler, "clearInFlight")
  /\ inFlight' = [inFlight EXCEPT ![node[Reconciler]] = {}]
  /\ Goto(Reconciler, "clearSlots")
  /\ UNCHANGED <<slots, items, index, before, callback, envVars, recorded,
                 guard, reconcile, histVars>>

ClearSlots ==
  /\ At(Reconciler, "clearSlots")
  /\ slots' = [slots EXCEPT ![node[Reconciler]] = 0]
  /\ Goto(Reconciler, "nextNode")
  /\ UNCHANGED <<inFlight, items, index, before, callback, envVars, recorded,
                 guard, reconcile, histVars>>

----------------------------------------------------------------------------
(***************************************************************************)
(* The environment: sockets, heartbeat verdicts, key expiry, restarts.     *)
(***************************************************************************)

NodeDisconnect(n) ==
  /\ "disconnect" \in Faults
  /\ connected[n]
  /\ connected' = [connected EXCEPT ![n] = FALSE]
  /\ UNCHANGED <<kvVars, status, recorded, guard, locals, reconcile, histVars>>

NodeConnect(n) ==
  /\ ~connected[n]
  /\ connected' = [connected EXCEPT ![n] = TRUE]
  /\ UNCHANGED <<kvVars, status, recorded, guard, locals, reconcile, histVars>>

\* The verdict of NodeDoctor.nodeHeartbeat on the node.
SetStatus(n) ==
  /\ "degrade" \in Faults
  /\ status' = [status EXCEPT ![n] = IF @ = "healthy" THEN "degraded" ELSE "healthy"]
  /\ UNCHANGED <<kvVars, connected, recorded, guard, locals, reconcile, histVars>>

\* The slot counter and the in-flight list live for NODE_CONNECTED_TTL after
\* their last write; only their own writes refresh them.
ExpireAccounting(n) ==
  /\ "slotsExpire" \in Faults
  /\ \/ /\ slots[n] # 0
        /\ slots' = [slots EXCEPT ![n] = 0]
        /\ UNCHANGED inFlight
     \/ /\ inFlight[n] # {}
        /\ inFlight' = [inFlight EXCEPT ![n] = {}]
        /\ UNCHANGED slots
  /\ UNCHANGED <<items, index, before, callback, envVars, recorded, guard, locals,
                 reconcile, histVars>>

\* Queue items, the index and callbacks live for PAYLOAD_TTL.
ExpirePayload ==
  /\ \/ /\ "queueExpires" \in Faults
        /\ \/ /\ \E b \in items : items' = items \ {b}
              /\ before' = {pair \in before : {pair[1], pair[2]} \subseteq items'}
              /\ UNCHANGED index
           \/ /\ index # {} /\ index' = {}
              /\ UNCHANGED <<items, before>>
        /\ UNCHANGED callback
     \/ /\ "callbackExpires" \in Faults
        /\ \E b \in Builds : /\ callback[b] # NoNode
                             /\ callback' = [callback EXCEPT ![b] = NoNode]
        /\ UNCHANGED <<items, index, before>>
  /\ UNCHANGED <<slots, inFlight, envVars, recorded, guard, locals,
                 reconcile, histVars>>

\* A command to a store rejects (at "dispatch" the query of the plan or the node, at
\* "complete" that of the deployment) and the call it belongs to throws: what went
\* before took effect, nothing after it runs.  A handler that throws inside
\* consumeBuildCallback leaves its build in the guard.
StoreFails(p) ==
  /\ "storeFails" \in Faults
  /\ pc[p] \notin {"idle", "done", "failed"}
  /\ Throw(p)
  /\ reconcile' = IF p = Reconciler
                   THEN [reconcile EXCEPT !.nodes = {}, !.rest = {}] ELSE reconcile
  /\ UNCHANGED <<kvVars, envVars, recorded, guard, histVars>>

\* The control plane stops between any two steps: every call in progress is
\* gone, and so are the guard and the sockets; the stores survive.
Restart ==
  /\ restarts < MaxRestarts
  /\ restarts' = restarts + 1
  /\ guard' = {}
  /\ connected' = [n \in BuildNodes |-> FALSE]
  /\ pc' = [p \in Procs |-> IF p \notin Builds THEN "idle"
                             ELSE IF pc[p] \in {"idle", "done"} THEN pc[p] ELSE "failed"]
  /\ task' = [p \in Procs |-> Own(p)]
  /\ node' = [p \in Procs |-> NoNode]
  /\ seen' = [p \in Procs |-> 0]
  /\ list' = [p \in Procs |-> {}]
  /\ reconcile' = [reconcile EXCEPT !.nodes = {}, !.rest = {}]
  /\ UNCHANGED <<kvVars, status, recorded, sent, dispatched, owed, raced, answers, published>>

----------------------------------------------------------------------------

DispatchStep(p) ==
  \/ ReadSlots(p) \/ Dispatch(p)
  \/ IncrementGet(p) \/ IncrementPut(p) \/ TrackGet(p) \/ TrackPut(p)
  \/ DequeueItem(p) \/ DequeueGet(p) \/ DequeuePut(p) \/ SaveCallback(p)

EnqueueStep(p) == EnqueueItem(p) \/ EnqueueGet(p) \/ EnqueuePut(p)

RequestStep(b) == FindBuildNode(b) \/ DispatchStep(b) \/ EnqueueStep(b)

HandlerStep(h) ==
  \/ ConsumeGet(h) \/ ConsumeDelete(h) \/ CompleteBuild(h)
  \/ DecrementGet(h) \/ DecrementPut(h) \/ UntrackGet(h) \/ UntrackPut(h)
  \/ ListIndex(h) \/ ListItems(h)
  \/ DispatchStep(h)

ReconcileStep ==
  \/ ReconcileNode \/ ReconcileEntry \/ EnqueueStep(Reconciler)
  \/ ClearInFlight \/ ClearSlots

Environment ==
  \/ \E n \in BuildNodes : NodeDisconnect(n) \/ NodeConnect(n) \/ SetStatus(n)
                             \/ ExpireAccounting(n)
  \/ \E p \in Procs : StoreFails(p)
  \/ ExpirePayload
  \/ Restart

Next ==
  \/ \E b \in Builds : RequestStep(b)
  \/ \E h \in Handlers : HandlerStep(h)
  \/ \E b \in Builds : DropResponse(b) \/ \E h \in Handlers : ReceiveResponse(h, b)
  \/ ReconcileStart
  \/ ReconcileStep
  \/ Environment

Spec == Init /\ [][Next]_vars

(***************************************************************************)
(* The event loop runs every call to its end, and a connected node answers *)
(* a build it was sent.  Clients need not deploy, nodes need not reconnect *)
(* and nothing is assumed of the environment.                              *)
(***************************************************************************)
Fairness ==
  /\ \A b \in Builds : /\ WF_vars(DispatchStep(b) \/ EnqueueStep(b))
                       /\ WF_vars(\E h \in Handlers : ReceiveResponse(h, b))
  /\ \A h \in Handlers : WF_vars(HandlerStep(h))
  /\ WF_vars(ReconcileStep)

FairSpec == Spec /\ Fairness

----------------------------------------------------------------------------
(***************************************************************************)
(* Properties.                                                             *)
(***************************************************************************)

Consuming(h) == pc[h] \in {"consumeGet", "consumeDelete"}

\* pendingBuildDispatches makes consumeBuildCallback, a get and a delete, safe:
\* no two handlers are between the two for one build, and a build whose callback
\* is being consumed is in the guard, whatever fails or restarts in between.
ConsumeIsExclusive ==
  \A h \in Handlers : Consuming(h) =>
    /\ task[h] \in guard
    /\ \A o \in Handlers \ {h} : Consuming(o) => task[o] # task[h]

\* The labels at which a process has sent its build to its node.
Accounting ==
  {"incGet", "incPut", "trackGet", "trackPut", "dequeueItem", "dequeueGet",
   "dequeuePut", "saveCallback"}

\* Nothing is accounted to a node that was never sent the build: no in-flight
\* entry and no callback names such a node, even when stale in-flight lists are
\* written back over newer ones, keys expire or the control plane restarts.
\* A reconcile would otherwise build twice what was never lost.
AccountedWasSent ==
  /\ \A n \in BuildNodes : inFlight[n] \subseteq sent[n]
  /\ \A b \in Builds : callback[b] # NoNode => b \in sent[callback[b]]
  /\ \A p \in Procs : pc[p] \in Accounting =>
       task[p] \in sent[node[p]]

\* The inductive strengthening of the last two: a process knows its build and its
\* node whenever it uses them, and an in-flight list it is about to write back
\* names only builds its node was sent.
NeedsBuild(label) ==
  label \notin {"idle", "done", "failed", "nextNode", "nextEntry", "clearInFlight",
                "clearSlots"}

NeedsNode(label) ==
  label \notin {"idle", "done", "failed", "nextNode", "consumeGet", "consumeDelete"}

Labelled ==
  /\ \A b \in Builds : task[b] = b
  /\ \A p \in Procs : /\ NeedsBuild(pc[p]) => task[p] \in Builds
                      /\ NeedsNode(pc[p]) => node[p] \in BuildNodes

WrittenBackWasSent ==
  \A p \in Procs : pc[p] \in {"trackPut", "untrackPut"} =>
    list[p] \subseteq sent[node[p]]

\* A build is published at most once for each time it was dispatched, however
\* often its node repeats the task_response.
PublishedAtMostDispatched ==
  \A b \in Builds : published[b] <= dispatched[b]

\* A queue entry goes only after its build was dispatched since the entry was
\* written, although drains, requests and reconciles queue and dequeue around each
\* other: only an entry written over that of a drain that had sent the build and
\* had yet to dequeue it (node-handler.ts:298) may go without.
EnqueuedUnlessRaced ==
  \A b \in Builds : b \in items \cup raced \/ dispatched[b] >= owed[b]

\* A request that was answered with a task id has been dispatched or is queued.
AcceptedNotLost ==
  \A b \in Builds : At(b, "done") => dispatched[b] > 0 \/ b \in items

\* A build leaves the guard again, so that later responses of it are handled.
GuardIsLifted ==
  \A b \in Builds : b \in guard ~> b \notin guard

\* No call is in progress.
AllReturned == \A p \in Procs : pc[p] \in {"idle", "done", "failed"}

\* What the code does not keep, each with the words it is claimed in.

\* "already being dispatched - ignoring duplicate task_response"
\* (node-handler.ts:148): a build in the guard is being consumed by some call.
GuardMeansInProgress ==
  \A b \in guard : \E h \in Handlers : Consuming(h) /\ task[h] = b

\* EnqueuedUnlessRaced without the exception: what a reconcile re-queues of a lost
\* node (node-doctor.ts) stays queued until it is dispatched again.
EnqueuedNotLost ==
  \A b \in Builds : b \in items \/ dispatched[b] >= owed[b]

\* "queued build is dispatched when a slot is freed after build complete"
\* (node-handler-build-complete.test.ts:184): once every call is over, a build is
\* left in the queue only while the connected nodes have no free slot.
QueueWaitsForSlot ==
  AllReturned /\ items # {} =>
    \A n \in BuildNodes : connected[n] => slots[n] >= Capacity[n]
============================================================================
