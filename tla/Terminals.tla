------------------------------ MODULE Terminals ------------------------------
(***************************************************************************)
(* services/websocket/terminal-manager.ts: a client asks for a terminal,   *)
(* the node is told to dial back with a session id, and the two sockets    *)
(* are relayed to each other. The id is expected before the node is told,  *)
(* and the manager never hears of a client socket that closes: only the    *)
(* node's socket, the sweep and the end of the process close a session.    *)
(* A step is what runs between two awaits of handleTerminalOpen, or one    *)
(* event of a socket or of the cleanup timer, which are synchronous.       *)
(***************************************************************************)
EXTENDS ClientSockets

CONSTANT Sessions   (* session ids (`instance:ulid`); none is drawn twice    *)

ASSUME TerminalsAssumption == None \notin Clients \cup Sessions

VARIABLES
  opening,          (* the handleTerminalOpen that draws a session id:      *)
                    (* where it stands and the client it serves             *)
  expectedSessions, (* the clientWs of an expected session                  *)
  sessions,         (* the clientWs of an established session               *)
  clientToSession,
  nodeAsked         (* the sessions a node was sent an open task for        *)

managerVars == <<expectedSessions, sessions, clientToSession>>
terminalVars == <<opening, managerVars, nodeAsked>>

Standing == {"fresh", "find", "token", "refused", "route", "done"}
Opening(at, c) == [at |-> at, client |-> c]
Advance(s, from, to) ==
  opening[s].at = from /\ opening' = [opening EXCEPT ![s].at = to]

TerminalsInit ==
  /\ opening = [s \in Sessions |-> Opening("fresh", None)]
  /\ expectedSessions = [s \in Sessions |-> None]
  /\ sessions = [s \in Sessions |-> None]
  /\ clientToSession = [c \in Clients |-> None]
  /\ nodeAsked = {}

(* --- handleTerminalOpen ---------------------------------------------------- *)

\* The request of a client with a session; db.instances.find is awaited.
OpenTerminal(c, s) ==
  /\ c \in clientOpen
  /\ opening[s].at = "fresh"
  /\ opening' = [opening EXCEPT ![s] = Opening("find", c)]
  /\ UNCHANGED <<socketVars, managerVars, nodeAsked>>

\* No instance, no permission, or no terminal on it: an error is sent.
Refuse(s) ==
  /\ Advance(s, "find", "refused")
  /\ UNCHANGED <<socketVars, managerVars, nodeAsked>>
Permit(s) ==
  /\ Advance(s, "find", "token")
  /\ UNCHANGED <<socketVars, managerVars, nodeAsked>>

\* The token is signed (or is not); the session is expected and the routing
\* key looked up.
NoToken(s) ==
  /\ Advance(s, "token", "refused")
  /\ UNCHANGED <<socketVars, managerVars, nodeAsked>>
ExpectSession(s) ==
  /\ Advance(s, "token", "route")
  /\ expectedSessions' = [expectedSessions EXCEPT ![s] = opening[s].client]
  /\ UNCHANGED <<socketVars, sessions, clientToSession, nodeAsked>>

\* sendTask reaches a node, or none is connected.
SendTask(s) ==
  /\ Advance(s, "route", "done")
  /\ nodeAsked' = nodeAsked \cup {s}
  /\ UNCHANGED <<socketVars, managerVars>>
NoNode(s) ==
  /\ Advance(s, "route", "done")
  /\ expectedSessions' = [expectedSessions EXCEPT ![s] = None]
  /\ UNCHANGED <<socketVars, sessions, clientToSession, nodeAsked>>
\* getRoutingKey throws: the expectation stays behind.
RouteFails(s) ==
  /\ Advance(s, "route", "done")
  /\ UNCHANGED <<socketVars, managerVars, nodeAsked>>

(* --- The relay ------------------------------------------------------------- *)

\* Variant with a bug: a node that connected is still expected.
unexpectedLater(s) == expectedSessions
unexpected(s) == [expectedSessions EXCEPT ![s] = None]

\* acceptNodeConnection: a socket for an id that is not expected is closed
\* again. The node may dial more than once for one task.
AcceptNode(s) ==
  /\ s \in nodeAsked
  /\ expectedSessions[s] # None
  /\ sessions' = [sessions EXCEPT ![s] = expectedSessions[s]]
  /\ clientToSession' = [clientToSession EXCEPT ![expectedSessions[s]] = s]
  /\ expectedSessions' = unexpected(s)
  /\ UNCHANGED <<socketVars, opening, nodeAsked>>

\* Variant with a bug: the client stays mapped to a closed session.
unmappedNot(s) == clientToSession
unmapped(s) == [clientToSession EXCEPT ![sessions[s]] = None]

\* closeSession: the node's socket closes or fails, or the sweep finds that
\* neither side sent anything for fifteen minutes.
CloseSession(s) ==
  /\ sessions[s] # None
  /\ clientToSession' = unmapped(s)
  /\ sessions' = [sessions EXCEPT ![s] = None]
  /\ UNCHANGED <<socketVars, opening, expectedSessions, nodeAsked>>

\* The sweep, a minute after the session was expected. destroy stops it.
SweepExpected(s) ==
  /\ process = "up" /\ expectedSessions[s] # None
  /\ expectedSessions' = [expectedSessions EXCEPT ![s] = None]
  /\ UNCHANGED <<socketVars, opening, sessions, clientToSession, nodeAsked>>

(* --- The end of the process ------------------------------------------------ *)

Forget == /\ expectedSessions' = [s \in Sessions |-> None]
          /\ sessions' = [s \in Sessions |-> None]
          /\ clientToSession' = [c \in Clients |-> None]

\* shutdown: destroy closes every session. Handlers that are under way go on
\* until the process exits, ten seconds later at most.
Shutdown ==
  /\ process = "up" /\ process' = "closing"
  /\ Forget
  /\ UNCHANGED <<clientSocket, opening, nodeAsked>>
Exit ==
  /\ process = "closing" /\ process' = "exited"
  /\ clientSocket' = [c \in Clients |-> "closed"]
  /\ Forget
  /\ UNCHANGED <<opening, nodeAsked>>

TerminalStep(s) ==
  /\ process # "exited"
  /\ \/ \E c \in Clients : OpenTerminal(c, s)
     \/ Refuse(s) \/ Permit(s) \/ NoToken(s) \/ ExpectSession(s)
     \/ SendTask(s) \/ NoNode(s) \/ RouteFails(s)
     \/ AcceptNode(s) \/ CloseSession(s) \/ SweepExpected(s)

(* --- Properties ------------------------------------------------------------ *)

\* The terminal that the keystrokes of a client are relayed to
\* (handleClientMessage) is one that this client opened and that is still
\* established, although a client may open several and they close in any order.
MappedIsLive ==
  \A c \in Clients : clientToSession[c] # None => sessions[clientToSession[c]] = c

\* A client can type into the terminals it has. It cannot: closing the first of
\* two sessions of a client removes the mapping that leads to the second.
EstablishedIsMapped ==
  \A s \in Sessions : sessions[s] # None => clientToSession[sessions[s]] # None

lifeOf(s) ==
  CASE sessions[s] # None -> "relaying"
    [] sessions[s] = None /\ expectedSessions[s] # None -> "awaited"
    [] opening[s].at \in {"fresh", "find", "token", "refused"} -> "fresh"
    [] OTHER -> "over"
Life == INSTANCE TerminalLife WITH life <- [s \in Sessions |-> lifeOf(s)]
=============================================================================
