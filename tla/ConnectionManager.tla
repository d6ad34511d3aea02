------------------------- MODULE ConnectionManager -------------------------
(***************************************************************************)
(* Client connections to the control plane and what they leave in it.      *)
(*                                                                         *)
(* ConnectionManager (services/websocket/connection-manager.ts) keeps the  *)
(* open sockets, the requests waiting for an answer of a node, the file    *)
(* watches and the log streams in maps, most of them with a second map the *)
(* other way round.  Its methods are synchronous, but their callers, the   *)
(* message handlers of client-handler.ts, await the database and the token *)
(* service between one method and the next, and meanwhile the client may   *)
(* leave, the node may leave, a request may time out and any other handler *)
(* may run.  A call of this module is one run of a handler; its steps are  *)
(* what it does between two awaits.                                        *)
(***************************************************************************)
EXTENDS Integers, FiniteSets

CONSTANTS
  Conns,       (* client connections; each is opened at most once           *)
  Calls,       (* runs of handlers                                          *)
  Kind,        (* the handler a call runs                                   *)
  By,          (* the connection whose message a call handles               *)
  Keys,        (* watch keys and log stream keys                            *)
  Key,         (* the key a call is about                                   *)
  NoConn,      (* background calls have no connection                       *)
  NoCall,      (* no log stream                                             *)
  NoKey,       (* a stream id that is not indexed                           *)
  MaxPending,  (* config.maxPendingPerClient                                *)
  Scenarios,   (* the sets of calls that may be made in one behaviour       *)
  Faults       (* "awaitRejects", "slowCall"                                *)

ASSUME ConnectionManagerAssumption ==
  /\ Kind \in [Calls -> {"request", "watch", "unwatch", "subscribe", "background"}]
  /\ By \in [Calls -> Conns \cup {NoConn}]
  /\ \A k \in Calls : By[k] = NoConn <=> Kind[k] = "background"
  /\ Key \in [Calls -> Keys]
  /\ NoConn \notin Conns /\ NoCall \notin Calls /\ NoKey \notin Keys
  /\ IsFiniteSet(Calls)
  /\ MaxPending \in Nat \ {0}
  /\ Faults \subseteq {"awaitRejects", "slowCall"}

ASSUME ScenariosAssumption == Scenarios \subseteq SUBSET Calls

Requests == {k \in Calls : Kind[k] = "request"}

VARIABLES
  socket,      (* the state of each connection's socket                     *)
  events,      (* "error" and "close" events of it still to be delivered    *)
  registered,  (* connections, connectionById, connectionByWs, lastActivity *)
  pending,     (* pendingRequests, by the call that made them               *)
  byClient,    (* requestsByClient; an absent entry is the empty set        *)
  subscribers, (* fileWatchSubscriptions: pairs of a key and a connection   *)
  watches,     (* connWatches: pairs of a connection and a key              *)
  streams,     (* logStreams: the call that added the stream of a key       *)
  fanout,      (* ActiveLogStream.clients of each key                       *)
  streamIndex, (* nodeStreamIndex: the key of the stream a call added       *)
  nodeUp,      (* the cluster's node has an open socket                     *)
  watching,    (* the keys the node was last told to watch                  *)
  asked,       (* the requests the node was sent                            *)
  answers,     (* how many final messages each request was sent             *)
  pc           (* what each call does next                                  *)

requestVars == <<pending, byClient, asked, answers>>
watchVars   == <<subscribers, watches, watching>>
streamVars  == <<streams, fanout, streamIndex>>
socketVars  == <<socket, events, registered>>
vars == <<socketVars, requestVars, watchVars, streamVars, nodeUp, pc>>

TypeOK ==
  /\ socket \in [Conns -> {"new", "open", "closed"}]
  /\ events \in [Conns -> 0..2]
  /\ registered \in SUBSET Conns
  /\ pending \in SUBSET Requests
  /\ byClient \in [Conns -> SUBSET Requests]
  /\ subscribers \in SUBSET (Keys \X Conns)
  /\ watches \in SUBSET (Conns \X Keys)
  /\ streams \in [Keys -> Calls \cup {NoCall}]
  /\ fanout \in [Keys -> SUBSET Conns]
  /\ streamIndex \in [Calls -> Keys \cup {NoKey}]
  /\ nodeUp \in BOOLEAN
  /\ watching \in SUBSET Keys
  /\ asked \in SUBSET Requests
  /\ answers \in [Calls -> Nat]
  /\ pc \in [Calls -> {"idle", "found", "token", "done"}]

Init ==
  /\ socket = [c \in Conns |-> "new"]
  /\ events = [c \in Conns |-> 0]
  /\ registered = {}
  /\ pending = {} /\ asked = {}
  /\ byClient = [c \in Conns |-> {}]
  /\ subscribers = {} /\ watches = {} /\ watching = {}
  /\ streams = [key \in Keys |-> NoCall]
  /\ fanout = [key \in Keys |-> {}]
  /\ streamIndex = [k \in Calls |-> NoKey]
  /\ nodeUp = TRUE
  /\ answers = [k \in Calls |-> 0]
  /\ \E made \in Scenarios : pc = [k \in Calls |-> IF k \in made THEN "idle" ELSE "done"]

Goto(k, label) == pc' = [pc EXCEPT ![k] = label]

\* One more final message about each request of ks is sent.
Answer(ks) == answers' = [k \in Calls |-> IF k \in ks THEN answers[k] + 1 ELSE answers[k]]

----------------------------------------------------------------------------
(***************************************************************************)
(* Connections.                                                            *)
(***************************************************************************)

\* addConnection: the maps of the connection are written together.
AddConnection(c) ==
  /\ socket[c] = "new"
  /\ socket' = [socket EXCEPT ![c] = "open"]
  /\ registered' = registered \cup {c}
  /\ byClient' = [byClient EXCEPT ![c] = {}]
  /\ UNCHANGED <<events, pending, asked, answers, watchVars, streamVars, nodeUp, pc>>

\* The socket closes: a "close" event follows, perhaps after an "error" event.
CloseSocket(c) ==
  /\ socket[c] = "open"
  /\ socket' = [socket EXCEPT ![c] = "closed"]
  /\ events' = [events EXCEPT ![c] = 1] \/ events' = [events EXCEPT ![c] = 2]
  /\ UNCHANGED <<registered, requestVars, watchVars, streamVars, nodeUp, pc>>

WatchedBy(c) == {key \in Keys : <<c, key>> \in watches}

\* Variant with a bug: connWatches is left behind.
SubscriptionsKept(c) == subscribers

\* removeFileWatchesForConnection walks connWatches of the connection.
SubscriptionsWithout(c) == subscribers \ {<<key, c>> : key \in WatchedBy(c)}

\* removeConnection of a client; nothing is left to do the second time.
RemoveConnection(c) ==
  /\ registered' = registered \ {c}
  /\ pending' = pending \ byClient[c]
  /\ byClient' = [byClient EXCEPT ![c] = {}]
  /\ subscribers' = SubscriptionsWithout(c)
  /\ watches' = watches \ {<<c, key>> : key \in WatchedBy(c)}
  /\ fanout' = [key \in Keys |-> fanout[key] \ {c}]
  /\ UNCHANGED <<asked, answers, watching, streams, streamIndex, nodeUp, pc>>

\* handleDisconnect, run by each of the two events.
HandleDisconnect(c) ==
  /\ events[c] > 0
  /\ events' = [events EXCEPT ![c] = @ - 1]
  /\ RemoveConnection(c)
  /\ UNCHANGED socket

\* cleanupDeadConnections: the socket is not open and has been silent for
\* connectionTtlMs.
CleanupDeadConnection(c) ==
  /\ c \in registered /\ socket[c] = "closed"
  /\ RemoveConnection(c)
  /\ UNCHANGED <<socket, events>>

----------------------------------------------------------------------------
(***************************************************************************)
(* A client's message.                                                     *)
(***************************************************************************)

\* Variant with a bug: one request too many.
CanAcceptOneMore(c) == Cardinality(byClient[c]) <= MaxPending

\* canAcceptRequest.
CanAcceptRequest(c) == Cardinality(byClient[c]) < MaxPending

Limited(k) == Kind[k] \in {"request", "watch", "unwatch"} /\ ~CanAcceptRequest(By[k])

\* handleMessage up to the handler's first await; at the limit it answers
\* RATE_LIMITED.  A background stream is started by a deployment or a build.
Begin(k) ==
  /\ pc[k] = "idle"
  /\ Kind[k] = "background" \/ (By[k] \in registered /\ socket[By[k]] = "open")
  /\ IF Limited(k)
       THEN Goto(k, "done") /\ Answer({k})
       ELSE Goto(k, "found") /\ UNCHANGED answers
  /\ UNCHANGED <<socketVars, pending, byClient, asked, watchVars, streamVars, nodeUp>>

\* The instance is not found, or the cluster has none: the client is told.
NotFound(k) ==
  /\ pc[k] = "found" /\ Kind[k] # "background"
  /\ Goto(k, "done")
  /\ Answer({k})
  /\ UNCHANGED <<socketVars, pending, byClient, asked, watchVars, streamVars, nodeUp>>

\* The database or the token service rejects: the handler throws and leaves what
\* it wrote.  Background streams go on without a token.
AwaitRejects(k) ==
  /\ "awaitRejects" \in Faults
  /\ pc[k] \in {"found", "token"} /\ Kind[k] # "background"
  /\ Goto(k, "done")
  /\ UNCHANGED <<socketVars, requestVars, watchVars, streamVars, nodeUp>>

----------------------------------------------------------------------------
(***************************************************************************)
(* Requests that wait for a node: file read, write, create, delete, tree.  *)
(***************************************************************************)

\* addPendingRequest after the instance was found.  The connection may be gone.
AddPendingRequest(k) ==
  /\ pc[k] = "found" /\ Kind[k] = "request"
  /\ \/ /\ CanAcceptRequest(By[k])
        /\ pending' = pending \cup {k}
        /\ byClient' = [byClient EXCEPT ![By[k]] = @ \cup {k}]
        /\ Goto(k, "token")
        /\ UNCHANGED answers
     \/ /\ ~CanAcceptRequest(By[k])
        /\ Goto(k, "done")
        /\ Answer({k})
        /\ UNCHANGED <<pending, byClient>>
  /\ UNCHANGED <<socketVars, asked, watchVars, streamVars, nodeUp>>

\* Variant with a bug: the client's own set keeps the request.
UntrackNone(ks) == byClient

Untrack(ks) == [c \in Conns |-> byClient[c] \ ks]

\* removePendingRequest of each request of ks.
RemovePending(ks) ==
  /\ pending' = pending \ ks
  /\ byClient' = Untrack(ks \cap pending)

\* The task is sent, or refused because the instance does not allow it or the
\* node has no open socket.
SendRequest(k) ==
  /\ pc[k] = "token" /\ Kind[k] = "request"
  /\ \/ /\ nodeUp
        /\ asked' = asked \cup {k}
        /\ UNCHANGED <<pending, byClient, answers>>
     \/ /\ RemovePending({k})
        /\ Answer({k})
        /\ UNCHANGED asked
  /\ Goto(k, "done")
  /\ UNCHANGED <<socketVars, watchVars, streamVars, nodeUp>>

\* Variant with a bug: an answer is routed whether or not it is awaited.
AlwaysPending(k) == TRUE

IsPending(k) == k \in pending

\* A task_response of the node, success or error, perhaps repeated: it is routed
\* to the client, or dropped when the request is no longer pending.
NodeAnswers(k) ==
  /\ nodeUp /\ k \in asked
  /\ IsPending(k)
  /\ RemovePending({k})
  /\ Answer({k})
  /\ UNCHANGED <<socketVars, asked, watchVars, streamVars, nodeUp, pc>>

\* Variant with a bug: requests of clients that have left do not time out.
ExpirableIfConnected(k) == pc[k] = "done" /\ By[k] \in registered

\* Unless calls may take longer than requestTimeoutMs, a request that times out
\* has left its handler.
Expirable(k) == "slowCall" \in Faults \/ pc[k] = "done"

\* cleanupTimedOutRequests: the requests that are old enough, all at once.
TimeOut(ks) ==
  /\ ks \subseteq pending
  /\ \A k \in ks : Expirable(k)
  /\ RemovePending(ks)
  /\ Answer(ks)
  /\ UNCHANGED <<socketVars, asked, watchVars, streamVars, nodeUp, pc>>

----------------------------------------------------------------------------
(***************************************************************************)
(* File watches.                                                           *)
(***************************************************************************)

Subscription(k) == <<Key[k], By[k]>>
Watch(k)        == <<By[k], Key[k]>>

\* addFileWatch, before the node is told.
AddFileWatch(k) ==
  /\ pc[k] = "found" /\ Kind[k] = "watch"
  /\ subscribers' = subscribers \cup {Subscription(k)}
  /\ watches' = watches \cup {Watch(k)}
  /\ Goto(k, "token")
  /\ UNCHANGED <<socketVars, requestVars, watching, streamVars, nodeUp>>

\* removeFileWatch.
RemoveFileWatch(k) ==
  /\ subscribers' = subscribers \ {Subscription(k)}
  /\ watches' = watches \ {Watch(k)}

\* The node is told to watch, or the watch is taken back.
SendWatch(k) ==
  /\ pc[k] = "token" /\ Kind[k] = "watch"
  /\ \/ /\ nodeUp
        /\ watching' = watching \cup {Key[k]}
        /\ UNCHANGED <<subscribers, watches>>
     \/ /\ RemoveFileWatch(k)
        /\ UNCHANGED watching
  /\ Goto(k, "done")
  /\ UNCHANGED <<socketVars, requestVars, streamVars, nodeUp>>

\* handleFileUnwatch: the node is told only if nobody watches the key any more.
Unwatch(k) ==
  /\ pc[k] = "found" /\ Kind[k] = "unwatch"
  /\ RemoveFileWatch(k)
  /\ Goto(k, IF \E c \in Conns : <<Key[k], c>> \in subscribers' THEN "done" ELSE "token")
  /\ UNCHANGED <<socketVars, requestVars, watching, streamVars, nodeUp>>

\* The task, unless it is not allowed, is sent if the node has a socket.
SendUnwatch(k) ==
  /\ pc[k] = "token" /\ Kind[k] = "unwatch"
  /\ \/ nodeUp /\ watching' = watching \ {Key[k]}
     \/ UNCHANGED watching
  /\ Goto(k, "done")
  /\ UNCHANGED <<socketVars, requestVars, subscribers, watches, streamVars, nodeUp>>

----------------------------------------------------------------------------
(***************************************************************************)
(* Log streams: handleLogSubscribe and subscribeToNodeLogs.                *)
(***************************************************************************)

\* Variant with a bug: every call is fanned out to.
EveryoneJoins(k) == {By[k]}

\* The clients a call adds to its stream.
Joining(k) == IF Kind[k] = "background" THEN {} ELSE {By[k]}

\* Variant with a bug: addLogStream does not look for a stream of the key.
NeverActive(key) == FALSE

Active(key) == streams[key] # NoCall

\* addClientToLogStream if the key has a stream, else addLogStream.
JoinStream(k) ==
  LET key == Key[k]
  IN /\ pc[k] = "found" /\ Kind[k] \in {"subscribe", "background"}
     /\ \/ /\ Active(key)
           /\ fanout' = [fanout EXCEPT ![key] = @ \cup Joining(k)]
           /\ Goto(k, "done")
           /\ UNCHANGED <<streams, streamIndex>>
        \/ /\ ~Active(key)
           /\ streams' = [streams EXCEPT ![key] = k]
           /\ streamIndex' = [streamIndex EXCEPT ![k] = key]
           /\ fanout' = [fanout EXCEPT ![key] = {}]
           /\ Goto(k, "token")
     /\ UNCHANGED <<socketVars, requestVars, watchVars, nodeUp>>

\* Variant with a bug: removeLogStream leaves the stream id in the index.
IndexKept(key) == streamIndex

IndexWithout(key) ==
  [k \in Calls |-> IF streams[key] = k THEN NoKey ELSE streamIndex[k]]

\* The node is asked for the log and the client joins, or removeLogStream.
SendStream(k) ==
  LET key == Key[k]
  IN /\ pc[k] = "token" /\ Kind[k] \in {"subscribe", "background"}
     /\ \/ /\ nodeUp
           /\ fanout' = [fanout EXCEPT ![key] = IF Active(key) THEN @ \cup Joining(k) ELSE @]
           /\ UNCHANGED <<streams, streamIndex, answers>>
        \/ /\ ~nodeUp
           /\ streams' = [streams EXCEPT ![key] = NoCall]
           /\ streamIndex' = IndexWithout(key)
           /\ fanout' = [fanout EXCEPT ![key] = {}]
           /\ Answer({k} \ {b \in Calls : Kind[b] = "background"})
     /\ Goto(k, "done")
     /\ UNCHANGED <<socketVars, pending, byClient, asked, watchVars, nodeUp>>

\* handleLogUnsubscribe, which is synchronous: the stream itself goes on.
LogUnsubscribe(c) ==
  /\ c \in registered /\ socket[c] = "open"
  /\ \E key \in Keys : fanout' = [fanout EXCEPT ![key] = @ \ {c}]
  /\ UNCHANGED <<socketVars, requestVars, watchVars, streams, streamIndex, nodeUp, pc>>

\* Variant with a bug: a client is swept only while it is registered.
SweptRegistered(key) ==
  {c \in fanout[key] : c \in registered => socket[c] = "open"}

\* The clients of a stream whose socket is open.
Swept(key) == {c \in fanout[key] : socket[c] = "open"}

\* cleanupOrphanedLogStreams.
CleanupLogStreams ==
  /\ fanout' = [key \in Keys |-> Swept(key)]
  /\ UNCHANGED <<socketVars, requestVars, watchVars, streams, streamIndex, nodeUp, pc>>

----------------------------------------------------------------------------

\* The node's socket comes and goes; a node keeps its watches.
NodeConnectivity ==
  /\ nodeUp' = ~nodeUp
  /\ UNCHANGED <<socketVars, requestVars, watchVars, streamVars, pc>>

RequestCall(k) == AddPendingRequest(k) \/ SendRequest(k)
WatchCall(k)   == AddFileWatch(k) \/ SendWatch(k) \/ Unwatch(k) \/ SendUnwatch(k)
StreamCall(k)  == JoinStream(k) \/ SendStream(k)

CallStep(k) == NotFound(k) \/ AwaitRejects(k) \/ RequestCall(k) \/ WatchCall(k) \/ StreamCall(k)

Next ==
  \/ \E c \in Conns : \/ AddConnection(c) \/ CloseSocket(c)
                      \/ HandleDisconnect(c) \/ CleanupDeadConnection(c)
                      \/ LogUnsubscribe(c)
  \/ \E k \in Calls : Begin(k) \/ CallStep(k)
  \/ \E k \in Requests : NodeAnswers(k)
  \/ \E ks \in SUBSET Requests : TimeOut(ks)
  \/ CleanupLogStreams
  \/ NodeConnectivity

Spec == Init /\ [][Next]_vars

(***************************************************************************)
(* Calls run to their end, a closed socket's events are delivered, and the *)
(* cleanup timer runs: every cleanupIntervalMs it expires all old requests *)
(* and sweeps the fanout sets.  Nodes need not answer or be connected.     *)
(***************************************************************************)
Fairness ==
  /\ \A k \in Calls : WF_vars(CallStep(k))
  /\ \A k \in Requests : WF_vars(\E ks \in SUBSET Requests : k \in ks /\ TimeOut(ks))
  /\ \A c \in Conns : WF_vars(HandleDisconnect(c))
  /\ WF_vars(CleanupLogStreams)

FairSpec == Spec /\ Fairness

----------------------------------------------------------------------------
(***************************************************************************)
(* Properties.                                                             *)
(***************************************************************************)

\* pendingRequests and requestsByClient name the same requests, also when a
\* handler adds a request after its client has left: removing a connection can
\* drop its requests by walking the second map only.
PendingIsTracked ==
  \A c \in Conns : byClient[c] = {k \in pending : By[k] = c}

\* A client never has more than maxPendingPerClient requests waiting, although
\* the limit is tested before the await that precedes the addition.
PendingIsBounded ==
  \A c \in Conns : Cardinality(byClient[c]) <= MaxPending

\* A request is sent at most one final message - a refusal, the node's answer or
\* a timeout - and a request that is still pending has been sent none.
AnsweredAtMostOnce ==
  \A k \in Requests : answers[k] <= 1 /\ (k \in pending => answers[k] = 0)

\* fileWatchSubscriptions and connWatches are each other's inverse.
WatchIndexesAgree ==
  \A c \in Conns, key \in Keys : <<key, c>> \in subscribers <=> <<c, key>> \in watches

\* nodeStreamIndex is the inverse of logStreams, so that a log_chunk finds the
\* one stream it was started for and never one that was removed.
StreamIndexesAgree ==
  \A k \in Calls, key \in Keys : streams[key] = k <=> streamIndex[k] = key

\* removeLogStream is by key, and a failed call removes the stream it added
\* itself: while it awaits its token nobody else replaces the stream of the key.
AdderOwnsStream ==
  \A k \in Calls : pc[k] = "token" /\ Kind[k] \in {"subscribe", "background"} =>
    streams[Key[k]] = k

stageOf(k) ==
  CASE pc[k] = "idle" -> "unmade"
    [] pc[k] = "found" -> "handled"
    [] pc[k] = "token" \/ (pc[k] = "done" /\ k \in pending) -> "waiting"
    [] OTHER -> "over"

Life == INSTANCE RequestLife WITH
          stage <- [k \in Requests |-> stageOf(k)],
          messages <- [k \in Requests |-> answers[k]]

\* A request lives the life of RequestLife: one final message, or none if its
\* client has left or its handler failed, and none after it is over; and it does
\* not wait for ever, even one that was added for a client that had left and that
\* no node answers.
LifeOfRequests == Life!FairSpec

\* A connection that is gone is not fanned out to for ever.
FanoutIsSwept ==
  \A c \in Conns, key \in Keys :
    socket[c] = "closed" /\ c \in fanout[key] ~> c \notin fanout[key]

\* What the code does not keep.  "Only send unwatch task to node if no more
\* subscribers" (client-handler.ts:962): the node stops watching a key only while
\* nobody watches it.
UnwatchOnlyWithoutSubscribers ==
  [][\A key \in watching \ watching' : \A c \in Conns : <<key, c>> \notin subscribers]_vars
============================================================================
