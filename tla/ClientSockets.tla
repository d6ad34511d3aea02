---------------------------- MODULE ClientSockets ----------------------------
(***************************************************************************)
(* The client sockets of services/websocket/index.ts and                   *)
(* instance-handler.ts that terminals (Terminals) and delta updates        *)
(* (DeltaSync) are sent over, and the process that serves them. A socket   *)
(* closes at any moment, between any two steps of a handler that holds it: *)
(* sending on it then does nothing.                                        *)
(***************************************************************************)
EXTENDS Naturals, FiniteSets

CONSTANTS
  Clients,   (* client sockets, one per connection                          *)
  None

VARIABLES
  clientSocket,  (* per socket: "new", "open" (in connections) or "closed"  *)
  process        (* "up", "closing" after a signal, "exited"                *)

socketVars == <<clientSocket, process>>

clientOpen == {c \in Clients : clientSocket[c] = "open"}

SocketsInit ==
  /\ clientSocket = [c \in Clients |-> "new"]
  /\ process = "up"

\* The wss takes no new connection once shutdown has closed it.
ClientConnects(c) ==
  /\ process = "up" /\ clientSocket[c] = "new"
  /\ clientSocket' = [clientSocket EXCEPT ![c] = "open"]
  /\ UNCHANGED process
ClientCloses(c) ==
  /\ clientSocket[c] = "open"
  /\ clientSocket' = [clientSocket EXCEPT ![c] = "closed"]
  /\ UNCHANGED process
=============================================================================
