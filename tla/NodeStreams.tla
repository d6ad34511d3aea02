----------------------------- MODULE NodeStreams -----------------------------
(***************************************************************************)
(* The streams of services/websocket: delta updates (DeltaSync) and        *)
(* terminals (Terminals) over the client sockets they share                *)
(* (ClientSockets), and the enrollment of the nodes whose streams these    *)
(* are (NodeEnrollment), in one process.                                   *)
(***************************************************************************)
EXTENDS DeltaSync, Terminals, NodeEnrollment

CONSTANT Scenarios   (* which activities run together, on how many messages *)

VARIABLE scenario    (* chosen once                                         *)

vars == <<socketVars, terminalVars, deltaVars, enrollVars, scenario>>

Activities == {"terminals", "rows", "expiry", "heartbeats", "nodeSockets",
               "closes"}

ASSUME ScenariosAssumption ==
  Scenarios \subseteq [acts : SUBSET Activities, updates : SUBSET Updates,
                       clients : SUBSET Clients, nodes : SUBSET NodeSockets,
                       begin : Beginnings, enroll : [EnrollCalls -> Operations \cup {None}]]

runs(activity) == activity \in scenario.acts

Init ==
  /\ scenario \in Scenarios
  /\ SocketsInit /\ TerminalsInit /\ DeltaInit /\ EnrollInit(scenario.begin)

Delta ==
  \/ \E u \in scenario.updates : UpdateStep(u)
  \/ runs("rows") /\ RowStep
  \/ runs("expiry") /\ \E k \in Clusters : MetaExpires(k)
  \/ runs("heartbeats") /\ \E h \in Heartbeats : BeatStep(h)
  \/ \E x \in scenario.nodes : NodeConnects(x) \/ (runs("nodeSockets") /\ NodeStep(x))
Terminal ==
  \/ \E s \in Sessions : TerminalStep(s)
  \/ Shutdown \/ Exit
Enrollment ==
  \/ \E q \in EnrollCalls : EnrollStep(q, scenario.enroll[q])
  \/ EnrollEvent

Next ==
  /\ UNCHANGED scenario
  /\ \/ process # "exited" /\ Delta /\ UNCHANGED <<terminalVars, enrollVars>>
     \/ runs("terminals") /\ Terminal /\ UNCHANGED <<deltaVars, enrollVars>>
     \/ process # "exited" /\ Enrollment /\ UNCHANGED <<socketVars, terminalVars, deltaVars>>
     \/ \E c \in scenario.clients :
          /\ UNCHANGED <<terminalVars, enrollVars>>
          /\ \/ ClientConnects(c) /\ UNCHANGED deltaVars
             \/ runs("closes") /\ ClientCloses(c) /\ ForgetVersions(c)

Spec == Init /\ [][Next]_vars

\* The cleanup timer fires, and so does the one that forces the exit.
SweepTimer(s) == runs("terminals") /\ process # "exited" /\ SweepExpected(s)
                   /\ UNCHANGED <<deltaVars, enrollVars, scenario>>
ExitTimer == runs("terminals") /\ Exit /\ UNCHANGED <<deltaVars, enrollVars, scenario>>
FairSpec ==
  /\ Spec
  /\ \A s \in Sessions : WF_vars(SweepTimer(s))
  /\ WF_vars(ExitTimer)

(* --- Properties ------------------------------------------------------------ *)

\* A terminal session lives the life of TerminalLife: it relays at most once,
\* does not come back, and the wait for the node ends, whatever the handler that
\* opened it, the node, the sweep and the end of the process do when.
LifeOfTerminals == Life!FairSpec
=============================================================================
