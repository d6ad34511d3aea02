------------------------ MODULE MCConnectionManager ------------------------
(* Instances of ConnectionManager for TLC. *)
EXTENDS ConnectionManager

CONSTANTS c1, c2, q1, q2, w1, w2, u1, s1, g1, key1

\* Two requests of one client, a log subscription of another, and a log stream
\* of the control plane itself, for the same log.
RequestCalls == {q1, q2, s1, g1}
\* A watch of the same file by each of two clients, and an unwatch of the first.
WatchCalls == {w1, w2, u1}

KindOf ==
  [k \in Calls |-> CASE k \in {q1, q2} -> "request" [] k = s1 -> "subscribe"
                     [] k = g1 -> "background" [] k = u1 -> "unwatch" [] OTHER -> "watch"]
ByOf ==
  [k \in Calls |-> CASE k \in {q1, q2, w1, u1} -> c1 [] k \in {s1, w2} -> c2
                     [] k = g1 -> NoConn]
OneKey == [k \in Calls |-> key1]

RequestsOrWatches == {RequestCalls, WatchCalls}
WatchesOnly == {WatchCalls}
============================================================================
