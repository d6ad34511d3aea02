---------------------- MODULE ConnectionManagerProofs ----------------------
(***************************************************************************)
(* Theorems about ConnectionManager, for any connections, calls, keys and  *)
(* limits.                                                                 *)
(***************************************************************************)
EXTENDS ConnectionManager, FiniteSetTheorems, TLAPS

(***************************************************************************)
(* The variables keep their types.                                         *)
(***************************************************************************)
THEOREM Typing == Spec => []TypeOK
<1> USE ConnectionManagerAssumption
<1>1. Init => TypeOK
  BY DEF Init, TypeOK, Requests
<1>2. TypeOK /\ [Next]_vars => TypeOK'
  <2> SUFFICES ASSUME TypeOK, [Next]_vars
               PROVE  TypeOK'
    OBVIOUS
  <2> USE DEF TypeOK, Requests, Goto, Answer, RemoveConnection, SubscriptionsWithout,
              WatchedBy, RemovePending, Untrack, RemoveFileWatch, Subscription, Watch,
              Joining, IndexWithout, requestVars, watchVars, streamVars, socketVars
  <2>1. ASSUME NEW c \in Conns, AddConnection(c)
        PROVE  TypeOK'
    BY <2>1 DEF AddConnection
  <2>2. ASSUME NEW c \in Conns, CloseSocket(c)
        PROVE  TypeOK'
    BY <2>2 DEF CloseSocket
  <2>3. ASSUME NEW c \in Conns, HandleDisconnect(c)
        PROVE  TypeOK'
    BY <2>3 DEF HandleDisconnect
  <2>4. ASSUME NEW c \in Conns, CleanupDeadConnection(c)
        PROVE  TypeOK'
    BY <2>4 DEF CleanupDeadConnection
  <2>5. ASSUME NEW c \in Conns, LogUnsubscribe(c)
        PROVE  TypeOK'
    BY <2>5 DEF LogUnsubscribe
  <2>6. ASSUME NEW k \in Calls, Begin(k)
        PROVE  TypeOK'
    BY SMTT(30), <2>6 DEF Begin
  <2>7. ASSUME NEW k \in Calls, NotFound(k)
        PROVE  TypeOK'
    BY <2>7 DEF NotFound
  <2>8. ASSUME NEW k \in Calls, AwaitRejects(k)
        PROVE  TypeOK'
    BY <2>8 DEF AwaitRejects
  <2>9. ASSUME NEW k \in Calls, AddPendingRequest(k)
        PROVE  TypeOK'
    BY <2>9 DEF AddPendingRequest
  <2>10. ASSUME NEW k \in Calls, SendRequest(k)
         PROVE  TypeOK'
    BY <2>10 DEF SendRequest
  <2>11. ASSUME NEW k \in Calls, AddFileWatch(k)
         PROVE  TypeOK'
    BY <2>11 DEF AddFileWatch
  <2>12. ASSUME NEW k \in Calls, SendWatch(k)
         PROVE  TypeOK'
    BY <2>12 DEF SendWatch
  <2>13. ASSUME NEW k \in Calls, Unwatch(k)
         PROVE  TypeOK'
    BY <2>13 DEF Unwatch
  <2>14. ASSUME NEW k \in Calls, SendUnwatch(k)
         PROVE  TypeOK'
    BY <2>14 DEF SendUnwatch
  <2>15. ASSUME NEW k \in Calls, JoinStream(k)
         PROVE  TypeOK'
    BY <2>15 DEF JoinStream
  <2>16. ASSUME NEW k \in Calls, SendStream(k)
         PROVE  TypeOK'
    BY <2>16 DEF SendStream
  <2>17. ASSUME NEW k \in Requests, NodeAnswers(k)
         PROVE  TypeOK'
    BY <2>17 DEF NodeAnswers
  <2>18. ASSUME NEW ks \in SUBSET Requests, TimeOut(ks)
         PROVE  TypeOK'
    BY <2>18 DEF TimeOut
  <2>19. CASE CleanupLogStreams
    BY <2>19 DEF CleanupLogStreams, Swept
  <2>20. CASE NodeConnectivity
    BY <2>20 DEF NodeConnectivity
  <2>21. CASE UNCHANGED vars
    BY <2>21 DEF vars
  <2>22. QED
    BY <2>1, <2>2, <2>3, <2>4, <2>5, <2>6, <2>7, <2>8, <2>9, <2>10, <2>11, <2>12,
       <2>13, <2>14, <2>15, <2>16, <2>17, <2>18, <2>19, <2>20, <2>21
    DEF Next, CallStep, RequestCall, WatchCall, StreamCall
<1>3. QED
  BY <1>1, <1>2, PTL DEF Spec

\* Only a connection that was opened has calls, and only a call that has begun
\* has a pending request; one that is not made in a behaviour counts as done.
CallsBegun ==
  /\ \A k \in Requests : socket[By[k]] = "new" => pc[k] \in {"idle", "done"} /\ k \notin pending
  /\ \A k \in pending : pc[k] \in {"token", "done"}

Tracked == PendingIsTracked /\ CallsBegun

(***************************************************************************)
(* pendingRequests and requestsByClient name the same requests. Every      *)
(* method writes the two maps together; addConnection starts an empty set, *)
(* which is right because a connection has no calls before it is opened.   *)
(***************************************************************************)
THEOREM PendingTracked == Spec => []PendingIsTracked
<1> USE ConnectionManagerAssumption
<1>1. Init => Tracked
  BY DEF Init, Tracked, PendingIsTracked, CallsBegun, Requests
<1>2. TypeOK /\ Tracked /\ [Next]_vars => Tracked'
  <2> SUFFICES ASSUME TypeOK, Tracked, [Next]_vars
               PROVE  Tracked'
    OBVIOUS
  <2> USE DEF TypeOK, Requests, Tracked, PendingIsTracked, CallsBegun, Goto, Answer, RemoveConnection, RemovePending, Untrack, requestVars, watchVars,
              streamVars, socketVars
  <2>1. ASSUME NEW c \in Conns, AddConnection(c)
        PROVE  Tracked'
    BY <2>1 DEF AddConnection
  <2>2. ASSUME NEW c \in Conns, CloseSocket(c)
        PROVE  Tracked'
    BY <2>2 DEF CloseSocket
  <2>3. ASSUME NEW c \in Conns, HandleDisconnect(c)
        PROVE  Tracked'
    BY <2>3 DEF HandleDisconnect
  <2>4. ASSUME NEW c \in Conns, CleanupDeadConnection(c)
        PROVE  Tracked'
    BY <2>4 DEF CleanupDeadConnection
  <2>5. ASSUME NEW c \in Conns, LogUnsubscribe(c)
        PROVE  Tracked'
    BY <2>5 DEF LogUnsubscribe
  <2>6. ASSUME NEW k \in Calls, Begin(k)
        PROVE  Tracked'
    BY <2>6 DEF Begin
  <2>7. ASSUME NEW k \in Calls, NotFound(k)
        PROVE  Tracked'
    BY <2>7 DEF NotFound
  <2>8. ASSUME NEW k \in Calls, AwaitRejects(k)
        PROVE  Tracked'
    BY <2>8 DEF AwaitRejects
  <2>9. ASSUME NEW k \in Calls, AddPendingRequest(k)
        PROVE  Tracked'
    BY <2>9 DEF AddPendingRequest
  <2>10. ASSUME NEW k \in Calls, SendRequest(k)
         PROVE  Tracked'
    BY <2>10 DEF SendRequest
  <2>11. ASSUME NEW k \in Calls, AddFileWatch(k)
         PROVE  Tracked'
    BY <2>11 DEF AddFileWatch
  <2>12. ASSUME NEW k \in Calls, SendWatch(k)
         PROVE  Tracked'
    BY <2>12 DEF SendWatch
  <2>13. ASSUME NEW k \in Calls, Unwatch(k)
         PROVE  Tracked'
    BY <2>13 DEF Unwatch
  <2>14. ASSUME NEW k \in Calls, SendUnwatch(k)
         PROVE  Tracked'
    BY <2>14 DEF SendUnwatch
  <2>15. ASSUME NEW k \in Calls, JoinStream(k)
         PROVE  Tracked'
    BY <2>15 DEF JoinStream
  <2>16. ASSUME NEW k \in Calls, SendStream(k)
         PROVE  Tracked'
    BY <2>16 DEF SendStream
  <2>17. ASSUME NEW k \in Requests, NodeAnswers(k)
         PROVE  Tracked'
    BY <2>17 DEF NodeAnswers
  <2>18. ASSUME NEW ks \in SUBSET Requests, TimeOut(ks)
         PROVE  Tracked'
    BY <2>18 DEF TimeOut
  <2>19. CASE CleanupLogStreams
    BY <2>19 DEF CleanupLogStreams, Swept
  <2>20. CASE NodeConnectivity
    BY <2>20 DEF NodeConnectivity
  <2>21. CASE UNCHANGED vars
    BY <2>21 DEF vars
  <2>22. QED
    BY <2>1, <2>2, <2>3, <2>4, <2>5, <2>6, <2>7, <2>8, <2>9, <2>10, <2>11, <2>12,
       <2>13, <2>14, <2>15, <2>16, <2>17, <2>18, <2>19, <2>20, <2>21
    DEF Next, CallStep, RequestCall, WatchCall, StreamCall
<1>3. Tracked => PendingIsTracked
  BY DEF Tracked
<1>4. QED
  BY <1>1, <1>2, <1>3, Typing, PTL DEF Spec

\* A step that gives no client a request more keeps the bound.
LEMMA BoundKept ==
  ASSUME TypeOK, PendingIsBounded, \A c \in Conns : byClient'[c] \subseteq byClient[c]
  PROVE  PendingIsBounded'
<1>1. ASSUME NEW c \in Conns
      PROVE  Cardinality(byClient'[c]) <= MaxPending
  <2>1. IsFiniteSet(byClient[c])
    BY ConnectionManagerAssumption, FS_Subset DEF TypeOK, Requests
  <2>2. Cardinality(byClient'[c]) <= Cardinality(byClient[c])
    BY <2>1, FS_Subset
  <2>3. Cardinality(byClient'[c]) \in Nat /\ Cardinality(byClient[c]) \in Nat
    BY <2>1, FS_Subset, FS_CardinalityType
  <2>4. QED
    BY <2>2, <2>3, ConnectionManagerAssumption DEF PendingIsBounded
<1>2. QED
  BY <1>1 DEF PendingIsBounded

(***************************************************************************)
(* No client has more than maxPendingPerClient requests pending, although  *)
(* the instance is awaited between the first test of the limit and the     *)
(* addition: addPendingRequest tests it again.                             *)
(***************************************************************************)
THEOREM PendingBounded == Spec => []PendingIsBounded
<1> USE ConnectionManagerAssumption
<1>1. Init => PendingIsBounded
  BY FS_EmptySet DEF Init, PendingIsBounded
<1>2. TypeOK /\ PendingIsBounded /\ [Next]_vars => PendingIsBounded'
  <2> SUFFICES ASSUME TypeOK, PendingIsBounded, [Next]_vars
               PROVE  PendingIsBounded'
    OBVIOUS
  <2> DEFINE Fewer == \A c \in Conns : byClient'[c] \subseteq byClient[c]
  <2> USE DEF TypeOK, RemoveConnection, RemovePending, Untrack, requestVars, watchVars,
              streamVars, socketVars
  <2>1. ASSUME NEW c \in Conns, AddConnection(c)
        PROVE  Fewer
    BY <2>1 DEF AddConnection
  <2>2. ASSUME NEW c \in Conns, CloseSocket(c)
        PROVE  Fewer
    BY <2>2 DEF CloseSocket
  <2>3. ASSUME NEW c \in Conns, HandleDisconnect(c)
        PROVE  Fewer
    BY <2>3 DEF HandleDisconnect
  <2>4. ASSUME NEW c \in Conns, CleanupDeadConnection(c)
        PROVE  Fewer
    BY <2>4 DEF CleanupDeadConnection
  <2>5. ASSUME NEW c \in Conns, LogUnsubscribe(c)
        PROVE  Fewer
    BY <2>5 DEF LogUnsubscribe
  <2>6. ASSUME NEW k \in Calls, Begin(k)
        PROVE  Fewer
    BY <2>6 DEF Begin
  <2>7. ASSUME NEW k \in Calls, NotFound(k)
        PROVE  Fewer
    BY <2>7 DEF NotFound
  <2>8. ASSUME NEW k \in Calls, AwaitRejects(k)
        PROVE  Fewer
    BY <2>8 DEF AwaitRejects
  <2>9. ASSUME NEW k \in Calls, AddPendingRequest(k)
        PROVE  PendingIsBounded'
    <3>1. CASE UNCHANGED byClient
      BY <3>1, BoundKept
    <3>2. CASE /\ CanAcceptRequest(By[k])
               /\ byClient' = [byClient EXCEPT ![By[k]] = @ \cup {k}]
      <4>1. ASSUME NEW c \in Conns, c = By[k]
            PROVE  Cardinality(byClient'[c]) <= MaxPending
        <5>1. byClient'[c] = byClient[c] \cup {k}
          BY <3>2, <4>1
        <5>2. IsFiniteSet(byClient[c]) /\ Cardinality(byClient[c]) \in Nat
          BY FS_Subset, FS_CardinalityType DEF Requests
        <5>3. Cardinality(byClient[c] \cup {k}) =
                IF k \in byClient[c] THEN Cardinality(byClient[c]) ELSE Cardinality(byClient[c]) + 1
          BY ONLY <5>2, FS_AddElement
        <5>4. Cardinality(byClient[c]) < MaxPending
          BY <3>2, <4>1 DEF CanAcceptRequest
        <5>5. QED
          BY <5>1, <5>2, <5>3, <5>4
      <4>2. \A c \in Conns : c # By[k] => byClient'[c] = byClient[c]
        BY <3>2
      <4>3. QED
        BY <4>1, <4>2 DEF PendingIsBounded
    <3>3. QED
      BY <2>9, <3>1, <3>2 DEF AddPendingRequest
  <2>10. ASSUME NEW k \in Calls, SendRequest(k)
         PROVE  Fewer
    BY <2>10 DEF SendRequest
  <2>11. ASSUME NEW k \in Calls, AddFileWatch(k)
         PROVE  Fewer
    BY <2>11 DEF AddFileWatch
  <2>12. ASSUME NEW k \in Calls, SendWatch(k)
         PROVE  Fewer
    BY <2>12 DEF SendWatch
  <2>13. ASSUME NEW k \in Calls, Unwatch(k)
         PROVE  Fewer
    BY <2>13 DEF Unwatch
  <2>14. ASSUME NEW k \in Calls, SendUnwatch(k)
         PROVE  Fewer
    BY <2>14 DEF SendUnwatch
  <2>15. ASSUME NEW k \in Calls, JoinStream(k)
         PROVE  Fewer
    BY <2>15 DEF JoinStream
  <2>16. ASSUME NEW k \in Calls, SendStream(k)
         PROVE  Fewer
    BY <2>16 DEF SendStream
  <2>17. ASSUME NEW k \in Requests, NodeAnswers(k)
         PROVE  Fewer
    BY <2>17 DEF NodeAnswers
  <2>18. ASSUME NEW ks \in SUBSET Requests, TimeOut(ks)
         PROVE  Fewer
    BY <2>18 DEF TimeOut
  <2>19. ASSUME CleanupLogStreams
         PROVE  Fewer
    BY <2>19 DEF CleanupLogStreams, Swept
  <2>20. ASSUME NodeConnectivity
         PROVE  Fewer
    BY <2>20 DEF NodeConnectivity
  <2>21. ASSUME UNCHANGED vars
         PROVE  Fewer
    BY <2>21 DEF vars
  <2>22. Fewer => PendingIsBounded'
    BY BoundKept
  <2> HIDE DEF Fewer
  <2>23. QED
    BY <2>1, <2>2, <2>3, <2>4, <2>5, <2>6, <2>7, <2>8, <2>9, <2>10, <2>11, <2>12,
       <2>13, <2>14, <2>15, <2>16, <2>17, <2>18, <2>19, <2>20, <2>21, <2>22
    DEF Next, CallStep, RequestCall, WatchCall, StreamCall
<1>3. QED
  BY <1>1, <1>2, Typing, PTL DEF Spec

(***************************************************************************)
(* fileWatchSubscriptions and connWatches are inverse, also after a        *)
(* connection was removed by walking the second one.                       *)
(***************************************************************************)
THEOREM WatchesAgree == Spec => []WatchIndexesAgree
<1> USE ConnectionManagerAssumption
<1>1. Init => WatchIndexesAgree
  BY DEF Init, WatchIndexesAgree
<1>2. TypeOK /\ WatchIndexesAgree /\ [Next]_vars => WatchIndexesAgree'
  <2> SUFFICES ASSUME TypeOK, WatchIndexesAgree, [Next]_vars
               PROVE  WatchIndexesAgree'
    OBVIOUS
  <2> USE DEF TypeOK, WatchIndexesAgree, Goto, Answer, RemoveConnection, SubscriptionsWithout,
              WatchedBy, RemovePending, Untrack, RemoveFileWatch, Subscription, Watch,
              requestVars, watchVars, streamVars, socketVars
  <2>1. ASSUME NEW c \in Conns, AddConnection(c)
        PROVE  WatchIndexesAgree'
    BY <2>1 DEF AddConnection
  <2>2. ASSUME NEW c \in Conns, CloseSocket(c)
        PROVE  WatchIndexesAgree'
    BY <2>2 DEF CloseSocket
  <2>3. ASSUME NEW c \in Conns, HandleDisconnect(c)
        PROVE  WatchIndexesAgree'
    BY <2>3 DEF HandleDisconnect
  <2>4. ASSUME NEW c \in Conns, CleanupDeadConnection(c)
        PROVE  WatchIndexesAgree'
    BY <2>4 DEF CleanupDeadConnection
  <2>5. ASSUME NEW c \in Conns, LogUnsubscribe(c)
        PROVE  WatchIndexesAgree'
    BY <2>5 DEF LogUnsubscribe
  <2>6. ASSUME NEW k \in Calls, Begin(k)
        PROVE  WatchIndexesAgree'
    BY <2>6 DEF Begin
  <2>7. ASSUME NEW k \in Calls, NotFound(k)
        PROVE  WatchIndexesAgree'
    BY <2>7 DEF NotFound
  <2>8. ASSUME NEW k \in Calls, AwaitRejects(k)
        PROVE  WatchIndexesAgree'
    BY <2>8 DEF AwaitRejects
  <2>9. ASSUME NEW k \in Calls, AddPendingRequest(k)
        PROVE  WatchIndexesAgree'
    BY <2>9 DEF AddPendingRequest
  <2>10. ASSUME NEW k \in Calls, SendRequest(k)
         PROVE  WatchIndexesAgree'
    BY <2>10 DEF SendRequest
  <2>11. ASSUME NEW k \in Calls, AddFileWatch(k)
         PROVE  WatchIndexesAgree'
    BY <2>11 DEF AddFileWatch
  <2>12. ASSUME NEW k \in Calls, SendWatch(k)
         PROVE  WatchIndexesAgree'
    BY <2>12 DEF SendWatch
  <2>13. ASSUME NEW k \in Calls, Unwatch(k)
         PROVE  WatchIndexesAgree'
    BY <2>13 DEF Unwatch
  <2>14. ASSUME NEW k \in Calls, SendUnwatch(k)
         PROVE  WatchIndexesAgree'
    BY <2>14 DEF SendUnwatch
  <2>15. ASSUME NEW k \in Calls, JoinStream(k)
         PROVE  WatchIndexesAgree'
    BY <2>15 DEF JoinStream
  <2>16. ASSUME NEW k \in Calls, SendStream(k)
         PROVE  WatchIndexesAgree'
    BY <2>16 DEF SendStream
  <2>17. ASSUME NEW k \in Requests, NodeAnswers(k)
         PROVE  WatchIndexesAgree'
    BY <2>17 DEF NodeAnswers
  <2>18. ASSUME NEW ks \in SUBSET Requests, TimeOut(ks)
         PROVE  WatchIndexesAgree'
    BY <2>18 DEF TimeOut
  <2>19. CASE CleanupLogStreams
    BY <2>19 DEF CleanupLogStreams, Swept
  <2>20. CASE NodeConnectivity
    BY <2>20 DEF NodeConnectivity
  <2>21. CASE UNCHANGED vars
    BY <2>21 DEF vars
  <2>22. QED
    BY <2>1, <2>2, <2>3, <2>4, <2>5, <2>6, <2>7, <2>8, <2>9, <2>10, <2>11, <2>12,
       <2>13, <2>14, <2>15, <2>16, <2>17, <2>18, <2>19, <2>20, <2>21
    DEF Next, CallStep, RequestCall, WatchCall, StreamCall
<1>3. QED
  BY <1>1, <1>2, Typing, PTL DEF Spec

\* A call that has not looked for its stream has added none.
IdIsFresh ==
  \A k \in Calls : pc[k] \in {"idle", "found"} => streamIndex[k] = NoKey

StreamsOwned == StreamIndexesAgree /\ AdderOwnsStream /\ IdIsFresh

(***************************************************************************)
(* What the stream indexes keep together. Each part needs the others: the  *)
(* index loses the id of the stream that is removed, which is the adder's, *)
(* and a new stream's id is not indexed yet.                               *)
(***************************************************************************)
THEOREM StreamsInvariant == Spec => []StreamsOwned
<1> USE ConnectionManagerAssumption
<1>1. Init => StreamsOwned
  BY DEF Init, StreamsOwned, StreamIndexesAgree, AdderOwnsStream, IdIsFresh
<1>2. TypeOK /\ StreamsOwned /\ [Next]_vars => StreamsOwned'
  <2> SUFFICES ASSUME TypeOK, StreamsOwned, [Next]_vars
               PROVE  StreamsOwned'
    OBVIOUS
  <2> USE DEF TypeOK, StreamsOwned, StreamIndexesAgree, AdderOwnsStream, IdIsFresh, Active,
              Goto, Answer, RemoveConnection, IndexWithout, requestVars, watchVars,
              streamVars, socketVars
  <2>1. ASSUME NEW c \in Conns, AddConnection(c)
        PROVE  StreamsOwned'
    BY <2>1 DEF AddConnection
  <2>2. ASSUME NEW c \in Conns, CloseSocket(c)
        PROVE  StreamsOwned'
    BY <2>2 DEF CloseSocket
  <2>3. ASSUME NEW c \in Conns, HandleDisconnect(c)
        PROVE  StreamsOwned'
    BY <2>3 DEF HandleDisconnect
  <2>4. ASSUME NEW c \in Conns, CleanupDeadConnection(c)
        PROVE  StreamsOwned'
    BY <2>4 DEF CleanupDeadConnection
  <2>5. ASSUME NEW c \in Conns, LogUnsubscribe(c)
        PROVE  StreamsOwned'
    BY <2>5 DEF LogUnsubscribe
  <2>6. ASSUME NEW k \in Calls, Begin(k)
        PROVE  StreamsOwned'
    BY <2>6 DEF Begin
  <2>7. ASSUME NEW k \in Calls, NotFound(k)
        PROVE  StreamsOwned'
    BY <2>7 DEF NotFound
  <2>8. ASSUME NEW k \in Calls, AwaitRejects(k)
        PROVE  StreamsOwned'
    BY <2>8 DEF AwaitRejects
  <2>9. ASSUME NEW k \in Calls, AddPendingRequest(k)
        PROVE  StreamsOwned'
    BY <2>9 DEF AddPendingRequest
  <2>10. ASSUME NEW k \in Calls, SendRequest(k)
         PROVE  StreamsOwned'
    BY <2>10 DEF SendRequest
  <2>11. ASSUME NEW k \in Calls, AddFileWatch(k)
         PROVE  StreamsOwned'
    BY <2>11 DEF AddFileWatch
  <2>12. ASSUME NEW k \in Calls, SendWatch(k)
         PROVE  StreamsOwned'
    BY <2>12 DEF SendWatch
  <2>13. ASSUME NEW k \in Calls, Unwatch(k)
         PROVE  StreamsOwned'
    BY <2>13 DEF Unwatch
  <2>14. ASSUME NEW k \in Calls, SendUnwatch(k)
         PROVE  StreamsOwned'
    BY <2>14 DEF SendUnwatch
  <2>15. ASSUME NEW k \in Calls, JoinStream(k)
         PROVE  StreamsOwned'
    BY <2>15 DEF JoinStream
  <2>16. ASSUME NEW k \in Calls, SendStream(k)
         PROVE  StreamsOwned'
    BY <2>16 DEF SendStream
  <2>17. ASSUME NEW k \in Requests, NodeAnswers(k)
         PROVE  StreamsOwned'
    BY <2>17 DEF NodeAnswers
  <2>18. ASSUME NEW ks \in SUBSET Requests, TimeOut(ks)
         PROVE  StreamsOwned'
    BY <2>18 DEF TimeOut
  <2>19. CASE CleanupLogStreams
    BY <2>19 DEF CleanupLogStreams, Swept
  <2>20. CASE NodeConnectivity
    BY <2>20 DEF NodeConnectivity
  <2>21. CASE UNCHANGED vars
    BY <2>21 DEF vars
  <2>22. QED
    BY <2>1, <2>2, <2>3, <2>4, <2>5, <2>6, <2>7, <2>8, <2>9, <2>10, <2>11, <2>12,
       <2>13, <2>14, <2>15, <2>16, <2>17, <2>18, <2>19, <2>20, <2>21
    DEF Next, CallStep, RequestCall, WatchCall, StreamCall
<1>3. QED
  BY <1>1, <1>2, Typing, PTL DEF Spec

\* The stream indexes are inverse: a log_chunk finds the one stream it was
\* started for.
THEOREM StreamsAgree == Spec => []StreamIndexesAgree
<1>1. StreamsOwned => StreamIndexesAgree
  BY DEF StreamsOwned
<1>2. QED
  BY <1>1, StreamsInvariant, PTL

\* A call that awaits the token of a stream it added still owns the stream of its
\* key, so that removing it by key on failure removes no other's.
THEOREM AdderOwns == Spec => []AdderOwnsStream
<1>1. StreamsOwned => AdderOwnsStream
  BY DEF StreamsOwned
<1>2. QED
  BY <1>1, StreamsInvariant, PTL

\* How far a request's handler is, against what its client was sent: nothing
\* before the request is added, nothing while it is pending, and the node is asked
\* only by a handler that is done.
AnswerState ==
  \A k \in Requests : /\ pc[k] \in {"idle", "found", "token"} => answers[k] = 0
                      /\ k \in pending => pc[k] \in {"token", "done"}
                      /\ k \in asked => pc[k] = "done"

Answered == AnsweredAtMostOnce /\ AnswerState

LEMMA AnsweredInvariant ==
  ASSUME "slowCall" \notin Faults
  PROVE  Spec => []Answered
<1> USE ConnectionManagerAssumption
<1>1. Init => Answered
  BY DEF Init, Answered, AnsweredAtMostOnce, AnswerState, Requests
<1>2. TypeOK /\ Answered /\ [Next]_vars => Answered'
  <2> SUFFICES ASSUME TypeOK, Answered, [Next]_vars
               PROVE  Answered'
    OBVIOUS
  <2> USE DEF TypeOK, Requests, Answered, AnsweredAtMostOnce, AnswerState, IsPending, Expirable,
              Goto, Answer, RemoveConnection, RemovePending, Untrack, requestVars, watchVars,
              streamVars, socketVars
  <2>1. ASSUME NEW c \in Conns, AddConnection(c)
        PROVE  Answered'
    BY <2>1 DEF AddConnection
  <2>2. ASSUME NEW c \in Conns, CloseSocket(c)
        PROVE  Answered'
    BY <2>2 DEF CloseSocket
  <2>3. ASSUME NEW c \in Conns, HandleDisconnect(c)
        PROVE  Answered'
    BY <2>3 DEF HandleDisconnect
  <2>4. ASSUME NEW c \in Conns, CleanupDeadConnection(c)
        PROVE  Answered'
    BY <2>4 DEF CleanupDeadConnection
  <2>5. ASSUME NEW c \in Conns, LogUnsubscribe(c)
        PROVE  Answered'
    BY <2>5 DEF LogUnsubscribe
  <2>6. ASSUME NEW k \in Calls, Begin(k)
        PROVE  Answered'
    BY <2>6 DEF Begin
  <2>7. ASSUME NEW k \in Calls, NotFound(k)
        PROVE  Answered'
    BY <2>7 DEF NotFound
  <2>8. ASSUME NEW k \in Calls, AwaitRejects(k)
        PROVE  Answered'
    BY <2>8 DEF AwaitRejects
  <2>9. ASSUME NEW k \in Calls, AddPendingRequest(k)
        PROVE  Answered'
    BY <2>9 DEF AddPendingRequest
  <2>10. ASSUME NEW k \in Calls, SendRequest(k)
         PROVE  Answered'
    BY <2>10 DEF SendRequest
  <2>11. ASSUME NEW k \in Calls, AddFileWatch(k)
         PROVE  Answered'
    BY <2>11 DEF AddFileWatch
  <2>12. ASSUME NEW k \in Calls, SendWatch(k)
         PROVE  Answered'
    BY <2>12 DEF SendWatch
  <2>13. ASSUME NEW k \in Calls, Unwatch(k)
         PROVE  Answered'
    BY <2>13 DEF Unwatch
  <2>14. ASSUME NEW k \in Calls, SendUnwatch(k)
         PROVE  Answered'
    BY <2>14 DEF SendUnwatch
  <2>15. ASSUME NEW k \in Calls, JoinStream(k)
         PROVE  Answered'
    BY <2>15 DEF JoinStream
  <2>16. ASSUME NEW k \in Calls, SendStream(k)
         PROVE  Answered'
    BY <2>16 DEF SendStream
  <2>17. ASSUME NEW k \in Requests, NodeAnswers(k)
         PROVE  Answered'
    BY <2>17 DEF NodeAnswers
  <2>18. ASSUME NEW ks \in SUBSET Requests, TimeOut(ks)
         PROVE  Answered'
    BY <2>18 DEF TimeOut
  <2>19. CASE CleanupLogStreams
    BY <2>19 DEF CleanupLogStreams, Swept
  <2>20. CASE NodeConnectivity
    BY <2>20 DEF NodeConnectivity
  <2>21. CASE UNCHANGED vars
    BY <2>21 DEF vars
  <2>22. QED
    BY <2>1, <2>2, <2>3, <2>4, <2>5, <2>6, <2>7, <2>8, <2>9, <2>10, <2>11, <2>12,
       <2>13, <2>14, <2>15, <2>16, <2>17, <2>18, <2>19, <2>20, <2>21
    DEF Next, CallStep, RequestCall, WatchCall, StreamCall
<1>3. QED
  BY <1>1, <1>2, Typing, PTL DEF Spec

(***************************************************************************)
(* No request is sent two final messages, as long as handlers take less    *)
(* than requestTimeoutMs: then a refusal and a timeout never meet, and the *)
(* node's answer and the timeout both have to find the request pending.    *)
(***************************************************************************)
THEOREM AnsweredOnce ==
  ASSUME "slowCall" \notin Faults
  PROVE  Spec => []AnsweredAtMostOnce
<1>1. Answered => AnsweredAtMostOnce
  BY DEF Answered
<1>2. QED
  BY <1>1, AnsweredInvariant, PTL

(***************************************************************************)
(* A request lives the life of RequestLife.                                *)
(***************************************************************************)
stages == [k \in Requests |-> stageOf(k)]
counts == [k \in Requests |-> answers[k]]

\* A step that leaves the requests where they are.
LEMMA RequestsStay ==
  ASSUME \A k \in Requests : stageOf(k)' = stageOf(k) /\ answers'[k] = answers[k]
  PROVE  UNCHANGED <<stages, counts>>
  BY DEF stages, counts

\* A step that takes a request up, or adds it.
LEMMA RequestMoves ==
  ASSUME NEW r \in Requests,
         \/ stageOf(r) = "unmade" /\ stageOf(r)' = "handled"
         \/ stageOf(r) = "handled" /\ stageOf(r)' = "waiting",
         \A k \in Requests : answers'[k] = answers[k],
         \A k \in Requests : k # r => stageOf(k)' = stageOf(k)
  PROVE  Life!Next
<1>1. counts' = counts
  BY DEF counts
<1>2. stages' = [k \in Requests |-> IF k \in {r} THEN stageOf(r)' ELSE stages[k]]
  BY DEF stages
<1>3. stages[r] = stageOf(r)
  BY DEF stages
<1>4. Life!Take(r) \/ Life!Wait(r)
  BY <1>1, <1>2, <1>3 DEF Life!Take, Life!Wait, Life!Moves, stages, counts
<1>5. QED
  BY <1>4 DEF Life!Next

\* A step that ends the requests of rs, with a message each or without.
LEMMA RequestsEnd ==
  ASSUME NEW rs \in SUBSET Requests,
         \A k \in rs : stageOf(k)' = "over",
         \A k \in Requests \ rs : stageOf(k)' = stageOf(k) /\ answers'[k] = answers[k],
         \/ \A k \in rs : stageOf(k) # "over" /\ answers'[k] = answers[k] + 1
         \/ \A k \in rs : stageOf(k) \in {"handled", "waiting"} /\ answers'[k] = answers[k]
  PROVE  Life!Next
<1>1. stages' = [k \in Requests |-> IF k \in rs THEN "over" ELSE stages[k]]
  BY DEF stages
<1>2. Life!Moves(rs, "over")
  BY <1>1 DEF Life!Moves, stages
<1>3. CASE \A k \in rs : stageOf(k) # "over" /\ answers'[k] = answers[k] + 1
  <2>1. counts' = [k \in Requests |-> IF k \in rs THEN counts[k] + 1 ELSE counts[k]]
    BY <1>3 DEF counts
  <2>2. \A k \in rs : stages[k] # "over"
    BY <1>3 DEF stages
  <2>3. Life!Answer(rs)
    BY <1>2, <2>1, <2>2 DEF Life!Answer, stages, counts
  <2>4. QED
    BY <2>3 DEF Life!Next
<1>4. CASE \A k \in rs : stageOf(k) \in {"handled", "waiting"} /\ answers'[k] = answers[k]
  <2>1. counts' = counts
    BY <1>4 DEF counts
  <2>2. \A k \in rs : stages[k] \in {"handled", "waiting"}
    BY <1>4 DEF stages
  <2>3. Life!Drop(rs)
    BY <1>2, <2>1, <2>2 DEF Life!Drop, stages, counts
  <2>4. QED
    BY <2>3 DEF Life!Next
<1>5. QED
  BY <1>3, <1>4

LEMMA RequestEnds ==
  ASSUME NEW r \in Requests, stageOf(r)' = "over",
         \A k \in Requests : k # r => stageOf(k)' = stageOf(k) /\ answers'[k] = answers[k],
         \/ stageOf(r) # "over" /\ answers'[r] = answers[r] + 1
         \/ stageOf(r) \in {"handled", "waiting"} /\ answers'[r] = answers[r]
  PROVE  Life!Next
<1>1. {r} \in SUBSET Requests
  OBVIOUS
<1>2. QED
  BY <1>1, RequestsEnd

\* The connection of a client goes, with the requests its handlers had added.
LEMMA RequestsLeft ==
  ASSUME TypeOK, AnswerState, NEW gone, pending' = pending \ gone, pc' = pc,
         answers' = answers
  PROVE  Life!Next
<1> DEFINE rs == {k \in Requests : k \in pending \cap gone /\ pc[k] = "done"}
<1>1. \A k \in rs : stageOf(k) = "waiting" /\ stageOf(k)' = "over"
  BY DEF stageOf
<1>2. \A k \in Requests \ rs : stageOf(k)' = stageOf(k)
  BY DEF stageOf, TypeOK
<1>3. rs \in SUBSET Requests
  OBVIOUS
<1>4. QED
  BY <1>1, <1>2, <1>3, RequestsEnd

\* As long as handlers take less than requestTimeoutMs, the handlers of
\* client-handler.ts, the answers of nodes, the timer and departing clients bring
\* each request of connection-manager.ts from its handler to waiting to over, with
\* one final message at the end if any, and never back: the safety half of
\* LifeOfRequests.
THEOREM RequestsLive ==
  ASSUME "slowCall" \notin Faults
  PROVE  Spec => Life!Spec
<1> USE ConnectionManagerAssumption
<1>1. Init => Life!Init
  <2> SUFFICES ASSUME Init PROVE Life!Init
    OBVIOUS
  <2>1. \A k \in Requests : stageOf(k) \in {"unmade", "over"} /\ answers[k] = 0
    BY DEF Init, Requests, stageOf
  <2>2. QED
    BY <2>1 DEF Life!Init
<1>2. TypeOK /\ Answered /\ [Next]_vars => [Life!Next]_<<stages, counts>>
  <2> SUFFICES ASSUME TypeOK, Answered, [Next]_vars
               PROVE  [Life!Next]_<<stages, counts>>
    OBVIOUS
  <2>1. AnswerState /\ AnsweredAtMostOnce
    BY DEF Answered
  <2>2. ASSUME NEW c \in Conns, AddConnection(c) \/ CloseSocket(c) \/ LogUnsubscribe(c)
        PROVE  [Life!Next]_<<stages, counts>>
    BY <2>2, RequestsStay DEF AddConnection, CloseSocket, LogUnsubscribe, requestVars, stageOf
  <2>3. ASSUME NEW c \in Conns, HandleDisconnect(c) \/ CleanupDeadConnection(c)
        PROVE  [Life!Next]_<<stages, counts>>
    <3>1. pending' = pending \ byClient[c] /\ pc' = pc /\ answers' = answers
      BY <2>3 DEF HandleDisconnect, CleanupDeadConnection, RemoveConnection
    <3>2. QED
      BY <2>1, <3>1, RequestsLeft
  <2>4. ASSUME NEW k \in Calls, Begin(k)
        PROVE  [Life!Next]_<<stages, counts>>
    <3>1. /\ pc[k] = "idle" /\ pending' = pending
          /\ \/ pc' = [pc EXCEPT ![k] = "done"] /\ Answer({k})
             \/ pc' = [pc EXCEPT ![k] = "found"] /\ answers' = answers
      BY <2>4 DEF Begin, Goto
    <3>2. ASSUME NEW x \in Requests, x # k
          PROVE  stageOf(x)' = stageOf(x) /\ answers'[x] = answers[x]
      BY <3>1, <3>2 DEF stageOf, Answer, TypeOK, Requests
    <3>3. CASE k \notin Requests
      BY <3>2, <3>3, RequestsStay
    <3>4. CASE k \in Requests /\ pc' = [pc EXCEPT ![k] = "found"] /\ answers' = answers
      <4>1. stageOf(k) = "unmade" /\ stageOf(k)' = "handled"
        BY <3>1, <3>4 DEF stageOf, TypeOK
      <4>2. QED
        BY <3>2, <3>4, <4>1, RequestMoves
    <3>5. CASE k \in Requests /\ pc' = [pc EXCEPT ![k] = "done"] /\ Answer({k})
      <4>1. k \notin pending
        BY <2>1, <3>1, <3>5 DEF AnswerState
      <4>2. stageOf(k) = "unmade" /\ stageOf(k)' = "over" /\ answers'[k] = answers[k] + 1
        BY <3>1, <3>5, <4>1 DEF stageOf, TypeOK, Answer
      <4>3. QED
        BY <3>2, <3>5, <4>2, RequestEnds
    <3>6. QED
      BY <3>1, <3>3, <3>4, <3>5
  <2>5. ASSUME NEW k \in Calls, NotFound(k)
        PROVE  [Life!Next]_<<stages, counts>>
    <3>1. pc[k] = "found" /\ pc' = [pc EXCEPT ![k] = "done"] /\ Answer({k}) /\ pending' = pending
      BY <2>5 DEF NotFound, Goto
    <3>2. ASSUME NEW x \in Requests, x # k
          PROVE  stageOf(x)' = stageOf(x) /\ answers'[x] = answers[x]
      BY <3>1, <3>2 DEF stageOf, Answer, TypeOK, Requests
    <3>3. CASE k \in Requests
      <4>1. k \notin pending
        BY <2>1, <3>1, <3>3 DEF AnswerState
      <4>2. stageOf(k) = "handled" /\ stageOf(k)' = "over" /\ answers'[k] = answers[k] + 1
        BY <3>1, <4>1 DEF stageOf, TypeOK, Answer
      <4>3. QED
        BY <3>2, <3>3, <4>2, RequestEnds
    <3>4. QED
      BY <3>2, <3>3, RequestsStay
  <2>6. ASSUME NEW k \in Calls, AwaitRejects(k)
        PROVE  [Life!Next]_<<stages, counts>>
    <3>1. /\ pc[k] \in {"found", "token"} /\ pc' = [pc EXCEPT ![k] = "done"]
          /\ answers' = answers /\ pending' = pending
      BY <2>6 DEF AwaitRejects, Goto, requestVars
    <3>2. ASSUME NEW x \in Requests, x # k
          PROVE  stageOf(x)' = stageOf(x)
      BY <3>1, <3>2 DEF stageOf, TypeOK, Requests
    <3>3. CASE k \in Requests /\ k \notin pending
      <4>1. stageOf(k) \in {"handled", "waiting"} /\ stageOf(k)' = "over"
        BY <3>1, <3>3 DEF stageOf, TypeOK
      <4>2. QED
        BY <3>1, <3>2, <3>3, <4>1, RequestEnds
    <3>4. CASE k \in Requests /\ k \in pending
      <4>1. stageOf(k) = "waiting" /\ stageOf(k)' = "waiting"
        BY <2>1, <3>1, <3>4 DEF stageOf, TypeOK, AnswerState
      <4>2. QED
        BY <3>1, <3>2, <4>1, RequestsStay
    <3>5. QED
      BY <3>1, <3>2, <3>3, <3>4, RequestsStay
  <2>7. ASSUME NEW k \in Calls, AddPendingRequest(k)
        PROVE  [Life!Next]_<<stages, counts>>
    <3>1. /\ pc[k] = "found" /\ k \in Requests
          /\ \/ /\ pending' = pending \cup {k} /\ pc' = [pc EXCEPT ![k] = "token"]
                /\ answers' = answers
             \/ /\ pending' = pending /\ pc' = [pc EXCEPT ![k] = "done"] /\ Answer({k})
      BY <2>7 DEF AddPendingRequest, Goto, Requests
    <3>2. ASSUME NEW x \in Requests, x # k
          PROVE  stageOf(x)' = stageOf(x) /\ answers'[x] = answers[x]
      BY <3>1, <3>2 DEF stageOf, Answer, TypeOK, Requests
    <3>3. stageOf(k) = "handled" /\ k \notin pending
      BY <2>1, <3>1 DEF stageOf, AnswerState
    <3>4. CASE pc' = [pc EXCEPT ![k] = "token"] /\ answers' = answers
      <4>1. stageOf(k)' = "waiting"
        BY <3>1, <3>4 DEF stageOf, TypeOK, Requests
      <4>2. QED
        BY <3>1, <3>2, <3>3, <3>4, <4>1, RequestMoves
    <3>5. CASE pending' = pending /\ pc' = [pc EXCEPT ![k] = "done"] /\ Answer({k})
      <4>1. stageOf(k)' = "over" /\ answers'[k] = answers[k] + 1
        BY <3>1, <3>3, <3>5 DEF stageOf, TypeOK, Answer, Requests
      <4>2. QED
        BY <3>1, <3>2, <3>3, <4>1, RequestEnds
    <3>6. QED
      BY <3>1, <3>4, <3>5
  <2>8. ASSUME NEW k \in Calls, SendRequest(k)
        PROVE  [Life!Next]_<<stages, counts>>
    <3>1. /\ pc[k] = "token" /\ k \in Requests /\ pc' = [pc EXCEPT ![k] = "done"]
          /\ \/ pending' = pending /\ answers' = answers
             \/ pending' = pending \ {k} /\ Answer({k})
      BY <2>8 DEF SendRequest, Goto, RemovePending, Requests
    <3>2. ASSUME NEW x \in Requests, x # k
          PROVE  stageOf(x)' = stageOf(x) /\ answers'[x] = answers[x]
      BY <3>1, <3>2 DEF stageOf, Answer, TypeOK, Requests
    <3>3. stageOf(k) = "waiting"
      BY <3>1 DEF stageOf
    <3>4. CASE pending' = pending /\ answers' = answers /\ k \in pending
      <4>1. stageOf(k)' = "waiting"
        BY <3>1, <3>4 DEF stageOf, TypeOK, Requests
      <4>2. QED
        BY <3>2, <3>3, <3>4, <4>1, RequestsStay
    <3>5. CASE pending' = pending /\ answers' = answers /\ k \notin pending
      <4>1. stageOf(k)' = "over"
        BY <3>1, <3>5 DEF stageOf, TypeOK, Requests
      <4>2. QED
        BY <3>1, <3>2, <3>3, <3>5, <4>1, RequestEnds
    <3>6. CASE pending' = pending \ {k} /\ Answer({k})
      <4>1. stageOf(k)' = "over" /\ answers'[k] = answers[k] + 1
        BY <3>1, <3>6 DEF stageOf, TypeOK, Answer, Requests
      <4>2. QED
        BY <3>1, <3>2, <3>3, <4>1, RequestEnds
    <3>7. QED
      BY <3>1, <3>4, <3>5, <3>6
  <2>9. ASSUME NEW k \in Calls, WatchCall(k) \/ JoinStream(k)
        PROVE  [Life!Next]_<<stages, counts>>
    <3>1. /\ k \notin Requests /\ pending' = pending /\ answers' = answers
          /\ \A x \in Requests : x # k => pc'[x] = pc[x]
      BY <2>9 DEF WatchCall, AddFileWatch, SendWatch, Unwatch, SendUnwatch, JoinStream, Goto,
         requestVars, Requests, TypeOK
    <3>2. QED
      BY <3>1, RequestsStay DEF stageOf
  <2>10. ASSUME NEW k \in Calls, SendStream(k)
         PROVE  [Life!Next]_<<stages, counts>>
    <3>1. /\ k \notin Requests /\ pending' = pending
          /\ \A x \in Requests : x # k => pc'[x] = pc[x]
          /\ \A x \in Requests : x # k => answers'[x] = answers[x]
      BY <2>10 DEF SendStream, Goto, Answer, Requests, TypeOK
    <3>2. QED
      BY <3>1, RequestsStay DEF stageOf
  <2>11. ASSUME NEW k \in Requests, NodeAnswers(k)
         PROVE  [Life!Next]_<<stages, counts>>
    <3>1. /\ k \in pending /\ k \in asked /\ pending' = pending \ {k} /\ Answer({k}) /\ pc' = pc
      BY <2>11 DEF NodeAnswers, IsPending, RemovePending
    <3>2. ASSUME NEW x \in Requests, x # k
          PROVE  stageOf(x)' = stageOf(x) /\ answers'[x] = answers[x]
      BY <3>1, <3>2 DEF stageOf, Answer, TypeOK, Requests
    <3>3. stageOf(k) = "waiting" /\ stageOf(k)' = "over" /\ answers'[k] = answers[k] + 1
      BY <2>1, <3>1 DEF stageOf, AnswerState, Answer, Requests
    <3>4. QED
      BY <3>2, <3>3, RequestEnds
  <2>12. ASSUME NEW ks \in SUBSET Requests, TimeOut(ks)
         PROVE  [Life!Next]_<<stages, counts>>
    <3>1. /\ ks \subseteq pending /\ pending' = pending \ ks /\ Answer(ks) /\ pc' = pc
          /\ \A k \in ks : pc[k] = "done"
      BY <2>12 DEF TimeOut, Expirable, RemovePending
    <3>2. \A k \in ks : stageOf(k) = "waiting" /\ stageOf(k)' = "over"
      BY <3>1 DEF stageOf
    <3>3. \A k \in ks : answers'[k] = answers[k] + 1
      BY <3>1 DEF Answer, Requests
    <3>4. \A k \in Requests \ ks : stageOf(k)' = stageOf(k) /\ answers'[k] = answers[k]
      BY <3>1 DEF stageOf, Answer, Requests
    <3>5. QED
      BY <3>2, <3>3, <3>4, RequestsEnd
  <2>13. CASE CleanupLogStreams \/ NodeConnectivity
    BY <2>13, RequestsStay DEF CleanupLogStreams, NodeConnectivity, requestVars, stageOf
  <2>14. CASE UNCHANGED vars
    BY <2>14, RequestsStay DEF vars, requestVars, stageOf
  <2>15. QED
    BY <2>2, <2>3, <2>4, <2>5, <2>6, <2>7, <2>8, <2>9, <2>10, <2>11, <2>12, <2>13, <2>14
    DEF Next, CallStep, RequestCall, StreamCall
<1>3. Spec => []Answered
  BY AnsweredInvariant
<1>4. QED
  BY <1>1, <1>2, <1>3, Typing, PTL DEF Spec, Life!Spec, stages, counts

============================================================================
