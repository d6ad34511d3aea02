---------------------------- MODULE RequestLife ----------------------------
(***************************************************************************)
(* What the connection manager promises of a client's request to a node,   *)
(* without its maps, clients and sockets: a request is over when its       *)
(* client got one final message, or when there is nobody to send it one;   *)
(* what is over stays over, and every request that was taken up ends.      *)
(***************************************************************************)
EXTENDS Naturals

CONSTANT Requests

VARIABLES
  stage,     (* "unmade", "handled" until it is added, "waiting", or "over"  *)
  messages   (* the final messages sent about each request                   *)

\* Some requests are never made: they are over from the beginning.
Init ==
  /\ stage \in [Requests -> {"unmade", "over"}]
  /\ messages = [r \in Requests |-> 0]

Moves(rs, to) == stage' = [r \in Requests |-> IF r \in rs THEN to ELSE stage[r]]

Take(r) == stage[r] = "unmade" /\ Moves({r}, "handled") /\ UNCHANGED messages
Wait(r) == stage[r] = "handled" /\ Moves({r}, "waiting") /\ UNCHANGED messages

\* The limit, a missing node, the node's answer, or the time that has passed.
Answer(rs) ==
  /\ \A r \in rs : stage[r] # "over"
  /\ Moves(rs, "over")
  /\ messages' = [r \in Requests |-> IF r \in rs THEN messages[r] + 1 ELSE messages[r]]

\* The client has left, or the handler failed before it added the request.
Drop(rs) ==
  /\ \A r \in rs : stage[r] \in {"handled", "waiting"}
  /\ Moves(rs, "over")
  /\ UNCHANGED messages

Next ==
  \/ \E r \in Requests : Take(r) \/ Wait(r)
  \/ \E rs \in SUBSET Requests : Answer(rs) \/ Drop(rs)

Ends(r) ==
  /\ stage[r] # "unmade"
  /\ \E rs \in SUBSET Requests : r \in rs /\ (Answer(rs) \/ Drop(rs))

Spec == Init /\ [][Next]_<<stage, messages>>
FairSpec == Spec /\ \A r \in Requests : WF_<<stage, messages>>(Ends(r))
============================================================================
