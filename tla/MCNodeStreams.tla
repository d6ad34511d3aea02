---------------------------- MODULE MCNodeStreams ----------------------------
(* Instances of NodeStreams for TLC. *)
EXTENDS NodeStreams, TLC

CONSTANTS a, b, c1, c2, u1, u2, x1, x2, q1, q2, q3, q4

ClientsOf == (c1 :> a) @@ (c2 :> b)

\* Streams on nodes that are enrolled already, and enrollment by itself.
NoCalls == [q \in EnrollCalls |-> None]
Streams(acts, updates, clients, nodes) ==
  [acts |-> acts, updates |-> updates, clients |-> clients, nodes |-> nodes,
   begin |-> "installed", enroll |-> NoCalls]
Enroll(begin, o1, o2, o3, o4) ==
  [acts |-> {}, updates |-> {}, clients |-> {}, nodes |-> {}, begin |-> begin,
   enroll |-> (q1 :> o1) @@ (q2 :> o2) @@ (q3 :> o3) @@ (q4 :> o4)]
AllScenarios ==
  { Streams({"terminals", "closes"}, {}, {c1, c2}, {}),
    Streams({"rows"}, {u1, u2}, {c1}, {x1}),
    Streams({"rows", "heartbeats", "closes"}, {u1}, {c1}, {x1}),
    Streams({"expiry", "heartbeats", "closes"}, {u1, u2}, {c1}, {x1}),
    Streams({"nodeSockets", "closes"}, {u1}, {c1}, {x1, x2}),
    Enroll("fresh", "create", "spawn", None, None),
    Enroll("installed", "create", "register", "register", "delete"),
    Enroll("installed", "create", "create", "spawn", "register"),
    Enroll("enrolled", "register", "register", "rotate", None),
    Enroll("enrolled", "delete", "create", "rotate", "register"),
    Enroll("enrolled", "postCert", "postCert", "putCert", "addPool"),
    Enroll("enrolled", "nodeToken", "upgrade", "upgrade", "removePool"),
    Enroll("enrolled", "nodeToken", "upgrade", "delete", "removePool"),
    Enroll("installed", "create", "upgrade", "install", "delete"),
    Enroll("installed", "create", "upgrade", "reboot", None),
    Enroll("installed", "create", "upgrade", "restart", "removePool"),
    Enroll("installed", "vm", "create", "saveDomain", None) }
=============================================================================
