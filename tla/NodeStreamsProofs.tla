------------------------- MODULE NodeStreamsProofs -------------------------
(***************************************************************************)
(* Proofs about NodeStreams: terminal sessions and the life they live      *)
(* (services/websocket/terminal-manager.ts), the names that delta updates  *)
(* show to clients, and the enrollment of nodes. Each part of the system   *)
(* has an invariant of its own, which the steps of the other parts leave   *)
(* alone: TerminalInv, DeltaInv and EnrollInv.                             *)
(***************************************************************************)
EXTENDS NodeStreams, WellFoundedInduction, TLAPS

(* --- Terminals -------------------------------------------------------------- *)

OpeningRecord == [at : Standing, client : Clients \cup {None}]
TerminalTyped ==
  /\ opening \in [Sessions -> OpeningRecord]
  /\ expectedSessions \in [Sessions -> Clients \cup {None}]
  /\ sessions \in [Sessions -> Clients \cup {None}]
  /\ clientToSession \in [Clients -> Sessions \cup {None}]
  /\ nodeAsked \subseteq Sessions

\* A session is expected only once its handler got as far as the routing key,
\* established only after the node was asked, and never both.
OpeningFits(s) ==
  /\ opening[s].at # "fresh" => opening[s].client \in Clients
  /\ s \in nodeAsked => opening[s].at = "done"
  /\ expectedSessions[s] # None => opening[s].at \in {"route", "done"} /\ sessions[s] = None
  /\ sessions[s] # None => opening[s].at = "done"
OpeningsFit == \A s \in Sessions : OpeningFits(s)

TerminalInv == TerminalTyped /\ OpeningsFit /\ MappedIsLive

\* A handler goes on and nothing else of any opening changes.
LEMMA AdvanceStep ==
  ASSUME TerminalTyped, NEW s \in Sessions, NEW from, NEW to \in Standing, Advance(s, from, to)
  PROVE  /\ opening' \in [Sessions -> OpeningRecord]
         /\ opening[s].at = from /\ opening'[s].at = to
         /\ opening'[s].client = opening[s].client
         /\ \A x \in Sessions : x # s => opening'[x] = opening[x]
  BY DEF Advance, TerminalTyped, OpeningRecord

\* A step of a handler that leaves the maps of the manager alone.
LEMMA ManagerRests ==
  ASSUME TerminalInv, NEW s \in Sessions, NEW from \in Standing \ {"fresh"},
         NEW to \in Standing \ {"fresh"}, Advance(s, from, to),
         from = "route" => to = "done", from # "done", to = "token" => from # "route",
         UNCHANGED managerVars, nodeAsked' = nodeAsked \/ (nodeAsked' = nodeAsked \cup {s} /\ to = "done")
  PROVE  TerminalInv'
<1>1. TerminalTyped'
  BY AdvanceStep DEF TerminalInv, TerminalTyped, managerVars
<1>2. MappedIsLive'
  BY DEF TerminalInv, MappedIsLive, managerVars
<1>3. ASSUME NEW x \in Sessions
      PROVE  OpeningFits(x)'
  <2>1. OpeningFits(x)
    BY DEF TerminalInv, OpeningsFit
  <2>2. CASE x = s
    BY <2>1, <2>2, AdvanceStep DEF TerminalInv, OpeningFits, managerVars
  <2>3. CASE x # s
    BY <2>1, <2>3, AdvanceStep DEF TerminalInv, OpeningFits, managerVars
  <2>4. QED
    BY <2>2, <2>3
<1>4. QED
  BY <1>1, <1>2, <1>3 DEF TerminalInv, OpeningsFit

\* The steps of handleTerminalOpen, of the relay and of the sweep.
LEMMA TerminalSteps ==
  ASSUME TerminalInv, NEW s \in Sessions, TerminalStep(s)
  PROVE  TerminalInv'
<1> USE TerminalsAssumption
<1>1. TerminalTyped /\ OpeningFits(s) /\ MappedIsLive
  BY DEF TerminalInv, OpeningsFit
<1>2. ASSUME NEW c \in Clients, OpenTerminal(c, s)
      PROVE  TerminalInv'
  <2>1. /\ opening[s].at = "fresh" /\ opening' = [opening EXCEPT ![s] = Opening("find", c)]
        /\ UNCHANGED <<managerVars, nodeAsked>>
    BY <1>2 DEF OpenTerminal
  <2>2. Opening("find", c) \in OpeningRecord /\ Opening("find", c).at = "find"
        /\ Opening("find", c).client = c
    BY DEF Opening, OpeningRecord, Standing
  <2>3. TerminalTyped'
    BY <1>1, <2>1, <2>2 DEF TerminalTyped, managerVars
  <2>4. MappedIsLive'
    BY <1>1, <2>1 DEF MappedIsLive, managerVars
  <2>5. ASSUME NEW x \in Sessions
        PROVE  OpeningFits(x)'
    <3>1. OpeningFits(x)
      BY DEF TerminalInv, OpeningsFit
    <3>2. CASE x = s
      BY <1>1, <2>1, <2>2, <3>1, <3>2 DEF OpeningFits, managerVars, TerminalTyped
    <3>3. CASE x # s
      BY <1>1, <2>1, <3>1, <3>3 DEF OpeningFits, managerVars, TerminalTyped
    <3>4. QED
      BY <3>2, <3>3
  <2>6. QED
    BY <2>3, <2>4, <2>5 DEF TerminalInv, OpeningsFit
<1>3. CASE Refuse(s) \/ Permit(s) \/ NoToken(s) \/ SendTask(s) \/ RouteFails(s)
  <2>1. CASE Refuse(s)
    BY <2>1, ManagerRests DEF Refuse, Standing
  <2>2. CASE Permit(s)
    BY <2>2, ManagerRests DEF Permit, Standing
  <2>3. CASE NoToken(s)
    BY <2>3, ManagerRests DEF NoToken, Standing
  <2>4. CASE SendTask(s)
    BY <2>4, ManagerRests DEF SendTask, Standing
  <2>5. CASE RouteFails(s)
    BY <2>5, ManagerRests DEF RouteFails, Standing
  <2>6. QED
    BY <1>3, <2>1, <2>2, <2>3, <2>4, <2>5
<1>4. CASE ExpectSession(s)
  <2>1. /\ opening[s].at = "token" /\ opening'[s].at = "route" /\ opening' \in [Sessions -> OpeningRecord]
        /\ opening'[s].client = opening[s].client
        /\ \A x \in Sessions : x # s => opening'[x] = opening[x]
    BY <1>1, <1>4, AdvanceStep DEF ExpectSession, Standing
  <2>2. /\ expectedSessions' = [expectedSessions EXCEPT ![s] = opening[s].client]
        /\ UNCHANGED <<sessions, clientToSession, nodeAsked>>
    BY <1>4 DEF ExpectSession
  <2>3. opening[s].client \in Clients /\ s \notin nodeAsked /\ sessions[s] = None
    BY <1>1, <2>1 DEF OpeningFits
  <2>4. TerminalTyped' /\ MappedIsLive'
    BY <1>1, <2>1, <2>2, <2>3 DEF TerminalTyped, MappedIsLive
  <2>5. ASSUME NEW x \in Sessions
        PROVE  OpeningFits(x)'
    <3>1. OpeningFits(x)
      BY DEF TerminalInv, OpeningsFit
    <3>2. CASE x = s
      BY <1>1, <2>1, <2>2, <2>3, <3>2 DEF OpeningFits, TerminalTyped
    <3>3. CASE x # s
      BY <1>1, <2>1, <2>2, <3>1, <3>3 DEF OpeningFits, TerminalTyped
    <3>4. QED
      BY <3>2, <3>3
  <2>6. QED
    BY <2>4, <2>5 DEF TerminalInv, OpeningsFit
<1>5. ASSUME expectedSessions' = [expectedSessions EXCEPT ![s] = None],
             UNCHANGED <<sessions, clientToSession, nodeAsked>>,
             opening' = opening \/ Advance(s, "route", "done")
      PROVE  TerminalInv'
  <2>1. /\ opening' \in [Sessions -> OpeningRecord] /\ opening'[s].client = opening[s].client
        /\ opening[s].at = opening'[s].at \/ (opening[s].at = "route" /\ opening'[s].at = "done")
        /\ \A x \in Sessions : x # s => opening'[x] = opening[x]
    BY <1>1, <1>5, AdvanceStep DEF Standing, TerminalTyped
  <2>2. TerminalTyped' /\ MappedIsLive'
    BY <1>1, <1>5, <2>1 DEF TerminalTyped, MappedIsLive
  <2>3. ASSUME NEW x \in Sessions
        PROVE  OpeningFits(x)'
    <3>1. OpeningFits(x)
      BY DEF TerminalInv, OpeningsFit
    <3>2. CASE x = s
      BY <1>1, <1>5, <2>1, <3>2 DEF OpeningFits, TerminalTyped
    <3>3. CASE x # s
      BY <1>1, <1>5, <2>1, <3>1, <3>3 DEF OpeningFits, TerminalTyped
    <3>4. QED
      BY <3>2, <3>3
  <2>4. QED
    BY <2>2, <2>3 DEF TerminalInv, OpeningsFit
<1>6. CASE NoNode(s) \/ SweepExpected(s)
  BY <1>5, <1>6 DEF NoNode, SweepExpected
<1>7. CASE AcceptNode(s)
  <2> DEFINE c == expectedSessions[s]
  <2>1. /\ s \in nodeAsked /\ c # None
        /\ sessions' = [sessions EXCEPT ![s] = c]
        /\ clientToSession' = [clientToSession EXCEPT ![c] = s]
        /\ expectedSessions' = [expectedSessions EXCEPT ![s] = None]
        /\ UNCHANGED <<opening, nodeAsked>>
    BY <1>7 DEF AcceptNode, unexpected
  <2>2. c \in Clients /\ sessions[s] = None /\ opening[s].at = "done"
    BY <1>1, <2>1 DEF OpeningFits, TerminalTyped
  <2> HIDE DEF c
  <2>3. TerminalTyped'
    BY <1>1, <2>1, <2>2 DEF TerminalTyped
  <2>4. MappedIsLive'
    BY <1>1, <2>1, <2>2 DEF TerminalTyped, MappedIsLive
  <2>5. ASSUME NEW x \in Sessions
        PROVE  OpeningFits(x)'
    <3>1. OpeningFits(x)
      BY DEF TerminalInv, OpeningsFit
    <3>2. CASE x = s
      BY <1>1, <2>1, <2>2, <3>1, <3>2 DEF OpeningFits, TerminalTyped
    <3>3. CASE x # s
      BY <1>1, <2>1, <3>1, <3>3 DEF OpeningFits, TerminalTyped
    <3>4. QED
      BY <3>2, <3>3
  <2>6. QED
    BY <2>3, <2>4, <2>5 DEF TerminalInv, OpeningsFit
<1>8. CASE CloseSession(s)
  <2>1. /\ sessions[s] # None
        /\ sessions' = [sessions EXCEPT ![s] = None]
        /\ clientToSession' = [clientToSession EXCEPT ![sessions[s]] = None]
        /\ UNCHANGED <<opening, expectedSessions, nodeAsked>>
    BY <1>8 DEF CloseSession, unmapped
  <2>2. TerminalTyped'
    BY <1>1, <2>1 DEF TerminalTyped
  <2>3. MappedIsLive'
    BY <1>1, <2>1 DEF TerminalTyped, MappedIsLive
  <2>4. ASSUME NEW x \in Sessions
        PROVE  OpeningFits(x)'
    <3>1. OpeningFits(x)
      BY DEF TerminalInv, OpeningsFit
    <3>2. QED
      BY <1>1, <2>1, <3>1 DEF OpeningFits, TerminalTyped
  <2>5. QED
    BY <2>2, <2>3, <2>4 DEF TerminalInv, OpeningsFit
<1>9. QED
  BY <1>2, <1>3, <1>4, <1>6, <1>7, <1>8 DEF TerminalStep

\* The process ends, orderly or not, and the maps go with it.
LEMMA TerminalEnds ==
  ASSUME TerminalInv, Shutdown \/ Exit
  PROVE  TerminalInv'
<1>1. Forget /\ UNCHANGED <<opening, nodeAsked>>
  BY DEF Shutdown, Exit
<1>2. TerminalTyped' /\ MappedIsLive'
  BY <1>1 DEF TerminalInv, TerminalTyped, MappedIsLive, Forget
<1>3. OpeningsFit'
  BY <1>1 DEF TerminalInv, OpeningsFit, OpeningFits, Forget
<1>4. QED
  BY <1>2, <1>3 DEF TerminalInv

\* Each step of the composition is one of the manager or leaves it alone.
LEMMA TerminalParts ==
  ASSUME [Next]_vars
  PROVE  (\E s \in Sessions : TerminalStep(s)) \/ Shutdown \/ Exit \/ UNCHANGED terminalVars
  BY DEF Next, Terminal, vars

\* The maps of the terminal manager stay typed and every entry of them is at the
\* stage of its opening that may have made it.
THEOREM TerminalInvariant == Spec => []TerminalInv
<1>1. Init => TerminalInv
  <2> SUFFICES ASSUME Init PROVE TerminalInv
    OBVIOUS
  <2>1. TerminalTyped /\ MappedIsLive
    BY DEF Init, TerminalsInit, TerminalTyped, MappedIsLive, OpeningRecord, Opening, Standing
  <2>2. OpeningsFit
    BY DEF Init, TerminalsInit, OpeningsFit, OpeningFits, Opening
  <2>3. QED
    BY <2>1, <2>2 DEF TerminalInv
<1>2. TerminalInv /\ [Next]_vars => TerminalInv'
  <2> SUFFICES ASSUME TerminalInv, [Next]_vars PROVE TerminalInv'
    OBVIOUS
  <2>1. CASE UNCHANGED terminalVars
    BY <2>1 DEF terminalVars, managerVars, TerminalInv, TerminalTyped, OpeningsFit, OpeningFits,
       MappedIsLive
  <2>2. QED
    BY <2>1, TerminalParts, TerminalSteps, TerminalEnds
<1>3. QED
  BY <1>1, <1>2, PTL DEF Spec

\* The terminal a client types into is one it opened and that is established
\* (handleClientMessage), in whatever order its terminals come and go.
THEOREM MappedLive == Spec => []MappedIsLive
<1>1. TerminalInv => MappedIsLive
  BY DEF TerminalInv
<1>2. QED
  BY <1>1, TerminalInvariant, PTL

(* --- Terminals live the life of TerminalLife -------------------------------- *)

lives == [s \in Sessions |-> lifeOf(s)]

\* A step that moves one session moves its life only.
LEMMA LifeMoves ==
  ASSUME NEW s \in Sessions, \A x \in Sessions : x # s => lifeOf(x)' = lifeOf(x)
  PROVE  lives' = [lives EXCEPT ![s] = lifeOf(s)']
  BY DEF lives

\* Whatever the handler that opened it, the node, the sweep and the end of the
\* process do, a terminal session (terminal-manager.ts) goes from fresh to awaited
\* to relaying to over and never back: the safety half of LifeOfTerminals.
THEOREM TerminalsLive == Spec => Life!Spec
<1> USE TerminalsAssumption
<1>1. Init => Life!Init
  BY DEF Init, TerminalsInit, Life!Init, lifeOf, Opening
<1>2. TerminalInv /\ [Next]_vars => [Life!Next]_lives
  <2> SUFFICES ASSUME TerminalInv, [Next]_vars PROVE [Life!Next]_lives
    OBVIOUS
  <2>1. TerminalTyped /\ OpeningsFit
    BY DEF TerminalInv
  <2>2. ASSUME NEW s \in Sessions, TerminalStep(s)
        PROVE  [Life!Next]_lives
    <3>1. OpeningFits(s)
      BY <2>1 DEF OpeningsFit
    <3>2. ASSUME NEW x \in Sessions, x # s
          PROVE  lifeOf(x)' = lifeOf(x)
      <4>1. opening'[x] = opening[x] /\ sessions'[x] = sessions[x]
            /\ expectedSessions'[x] = expectedSessions[x]
        BY <2>1, <2>2, <3>2 DEF TerminalStep, TerminalTyped, OpenTerminal, Refuse, Permit,
           NoToken,
           ExpectSession, SendTask, NoNode, RouteFails, AcceptNode, CloseSession, SweepExpected,
           Advance, managerVars, unexpected
      <4>2. QED
        BY <4>1 DEF lifeOf
    <3>3. lives' = [lives EXCEPT ![s] = lifeOf(s)'] /\ lives[s] = lifeOf(s)
      BY <3>2, LifeMoves DEF lives
    <3>4. \/ lifeOf(s)' = lifeOf(s)
          \/ lifeOf(s) = "fresh" /\ lifeOf(s)' = "awaited"
          \/ lifeOf(s) = "awaited" /\ lifeOf(s)' \in {"relaying", "over"}
          \/ lifeOf(s) = "relaying" /\ lifeOf(s)' = "over"
      <4>1. CASE \E c \in Clients : OpenTerminal(c, s)
        BY <2>1, <3>1, <4>1 DEF OpenTerminal, Opening, managerVars, lifeOf, TerminalTyped,
           OpeningFits
      <4>2. CASE Refuse(s) \/ Permit(s) \/ NoToken(s)
        BY <2>1, <3>1, <4>2, AdvanceStep DEF Refuse, Permit, NoToken, Standing, managerVars,
           lifeOf
      <4>3. CASE ExpectSession(s)
        BY <2>1, <3>1, <4>3, AdvanceStep DEF ExpectSession, Standing, lifeOf, OpeningFits,
           TerminalTyped
      <4>4. CASE SendTask(s) \/ RouteFails(s)
        BY <2>1, <3>1, <4>4, AdvanceStep DEF SendTask, RouteFails, Standing, managerVars, lifeOf
      <4>5. CASE NoNode(s)
        BY <2>1, <3>1, <4>5, AdvanceStep DEF NoNode, Standing, lifeOf, OpeningFits,
           TerminalTyped
      <4>6. CASE AcceptNode(s)
        BY <2>1, <3>1, <4>6 DEF AcceptNode, lifeOf, OpeningFits, TerminalTyped
      <4>7. CASE CloseSession(s)
        BY <2>1, <3>1, <4>7 DEF CloseSession, lifeOf, OpeningFits, TerminalTyped
      <4>8. CASE SweepExpected(s)
        BY <2>1, <3>1, <4>8 DEF SweepExpected, lifeOf, OpeningFits, TerminalTyped
      <4>9. QED
        BY <2>2, <4>1, <4>2, <4>3, <4>4, <4>5, <4>6, <4>7, <4>8 DEF TerminalStep
    <3>5. CASE lifeOf(s)' = lifeOf(s)
      BY <3>3, <3>5 DEF lives
    <3>6. CASE lifeOf(s) = "fresh" /\ lifeOf(s)' = "awaited"
      BY <3>3, <3>6 DEF lives, Life!Next, Life!Await, Life!Moves
    <3>7. CASE lifeOf(s) = "awaited" /\ lifeOf(s)' = "relaying"
      BY <3>3, <3>7 DEF lives, Life!Next, Life!Connect, Life!Moves
    <3>8. CASE lifeOf(s) = "awaited" /\ lifeOf(s)' = "over"
      BY <3>3, <3>8 DEF lives, Life!Next, Life!GiveUp, Life!Moves
    <3>9. CASE lifeOf(s) = "relaying" /\ lifeOf(s)' = "over"
      BY <3>3, <3>9 DEF lives, Life!Next, Life!End, Life!Moves
    <3>10. QED
      BY <3>4, <3>5, <3>6, <3>7, <3>8, <3>9
  <2>3. CASE Shutdown \/ Exit
    <3>1. Forget /\ UNCHANGED opening
      BY <2>3 DEF Shutdown, Exit
    <3>2. ASSUME NEW x \in Sessions
          PROVE  lifeOf(x)' = IF lifeOf(x) = "fresh" THEN "fresh" ELSE "over"
      BY <2>1, <3>1 DEF OpeningsFit, OpeningFits, lifeOf, Forget
    <3>3. lives' = [x \in Sessions |-> IF lives[x] = "fresh" THEN "fresh" ELSE "over"]
      BY <3>2 DEF lives
    <3>4. QED
      BY <3>3 DEF lives, Life!Next, Life!EndAll
  <2>4. CASE UNCHANGED terminalVars
    BY <2>4 DEF terminalVars, managerVars, lives, lifeOf
  <2>5. QED
    BY <2>2, <2>3, <2>4, TerminalParts
<1>3. QED
  BY <1>1, <1>2, TerminalInvariant, PTL DEF Spec, Life!Spec, lives

(* --- Delta updates --------------------------------------------------------- *)

EntityRecord == [version : Nat, names : SUBSET Names]
Stages == {"new", "meta", "list", "read", "put", "fetch", "send", "register", "done"}
NotifyRecord == [at : Stages, names : SUBSET Names, version : Nat, to : SUBSET Clients,
                 entity : EntityRecord]
BeatRecord == [at : {"new", "saved", "get", "reply", "done"}, client : Clients \cup {None},
               known : Nat, saved : EntityRecord, entity : EntityRecord]
DeltaTyped ==
  /\ owner \in [Names -> [cluster : Clusters \cup {None}, at : Deploys]]
  /\ deploys \in Deploys
  /\ everOwned \in [Clusters -> SUBSET Names]
  /\ meta \in [Clusters -> (SUBSET Names) \cup {None}]
  /\ workloads \in [Clusters -> EntityRecord]
  /\ clientVersion \in [Clients -> Nat] /\ latest \in [Clients -> Nat]
  /\ shown \in [Clients -> SUBSET Names]
  /\ update \in [Updates -> [at : {"new", "processing", "done"}, names : SUBSET Names]]
  /\ notify \in [Updates -> [Clusters -> NotifyRecord]]
  /\ beat \in [Heartbeats -> BeatRecord]
  /\ scenario \in Scenarios

\* What a notification or a heartbeat carries, once it is cut to a cluster, is
\* what that cluster has had.
NotifyFits(k, n, had) ==
  /\ n.at \in {"read", "put"} => n.names \subseteq had[k]
  /\ n.entity.names \subseteq had[k]
  /\ \A c \in n.to : Of[c] = k
BeatFits(q, had) ==
  q.at \in {"saved", "get", "reply"} =>
    /\ q.client \in Clients
    /\ q.saved.names \subseteq had[Of[q.client]] /\ q.entity.names \subseteq had[Of[q.client]]
StoredFits(k, had) ==
  /\ owned(k) \subseteq had[k] /\ workloads[k].names \subseteq had[k]
  /\ meta[k] # None => meta[k] \subseteq had[k]

DeltaInv ==
  /\ DeltaTyped
  /\ \A k \in Clusters : StoredFits(k, everOwned)
  /\ \A u \in Updates, k \in Clusters : NotifyFits(k, notify[u][k], everOwned)
  /\ \A h \in Heartbeats : BeatFits(beat[h], everOwned)
  /\ ShownWasOwned

\* A step of one notification.
LEMMA NotifyMoves ==
  ASSUME DeltaInv, UNCHANGED everOwned, NEW u \in Updates, NEW k \in Clusters, NEW n \in NotifyRecord,
         notify' = [notify EXCEPT ![u][k] = n], NotifyFits(k, n, everOwned)
  PROVE  /\ notify' \in [Updates -> [Clusters -> NotifyRecord]]
         /\ \A v \in Updates, j \in Clusters : NotifyFits(j, notify'[v][j], everOwned')
<1>1. notify \in [Updates -> [Clusters -> NotifyRecord]]
  BY DEF DeltaInv, DeltaTyped
<1>2. ASSUME NEW v \in Updates, NEW j \in Clusters
      PROVE  NotifyFits(j, notify'[v][j], everOwned')
  <2>1. NotifyFits(j, notify[v][j], everOwned)
    BY DEF DeltaInv
  <2>2. CASE v = u /\ j = k
    BY <1>1, <2>2
  <2>3. CASE ~ (v = u /\ j = k)
    <3>1. notify'[v][j] = notify[v][j]
      BY <1>1, <2>3
    <3>2. QED
      BY <2>1, <3>1
  <2>4. QED
    BY <2>2, <2>3
<1>3. QED
  BY <1>1, <1>2

\* A step of one heartbeat.
LEMMA BeatMoves ==
  ASSUME DeltaInv, UNCHANGED everOwned, NEW h \in Heartbeats, NEW q \in BeatRecord,
         beat' = [beat EXCEPT ![h] = q], BeatFits(q, everOwned)
  PROVE  /\ beat' \in [Heartbeats -> BeatRecord]
         /\ \A g \in Heartbeats : BeatFits(beat'[g], everOwned')
<1>1. beat \in [Heartbeats -> BeatRecord]
  BY DEF DeltaInv, DeltaTyped
<1>2. ASSUME NEW g \in Heartbeats
      PROVE  BeatFits(beat'[g], everOwned')
  <2>1. BeatFits(beat[g], everOwned)
    BY DEF DeltaInv
  <2>2. QED
    BY <1>1, <2>1
<1>3. QED
  BY <1>1, <1>2

\* The entity that stands for none shows nothing.
LEMMA NothingEntity == NoEntity \in EntityRecord /\ NoEntity.names = {}
  BY DEF NoEntity, Entity, EntityRecord

\* A notification that begins carries its names and nothing else yet.
LEMMA Notified ==
  ASSUME NEW at \in Stages, NEW names \in SUBSET Names
  PROVE  /\ Notification(at, names) \in NotifyRecord
         /\ Notification(at, names).at = at /\ Notification(at, names).names = names
         /\ Notification(at, names).to = {} /\ Notification(at, names).entity.names = {}
  BY NothingEntity DEF Notification, NotifyRecord, Stages

\* Showing an entity to clients of its cluster.
LEMMA ShowFits ==
  ASSUME DeltaInv, UNCHANGED everOwned, NEW k \in Clusters, NEW to \in SUBSET Clients, NEW e \in EntityRecord,
         e.names \subseteq everOwned[k], \A c \in to : Of[c] = k, Show(to, e)
  PROVE  /\ clientVersion' \in [Clients -> Nat] /\ latest' \in [Clients -> Nat]
         /\ shown' \in [Clients -> SUBSET Names] /\ ShownWasOwned'
<1>1. e.version \in Nat /\ e.names \in SUBSET Names
  BY DEF EntityRecord
<1>2. /\ clientVersion' \in [Clients -> Nat] /\ latest' \in [Clients -> Nat]
      /\ shown' \in [Clients -> SUBSET Names]
  BY <1>1 DEF Show, DeltaInv, DeltaTyped
<1>3. ASSUME NEW c \in Clients
      PROVE  shown'[c] \subseteq everOwned'[Of[c]]
  BY DEF Show, DeltaInv, ShownWasOwned
<1>4. QED
  BY <1>2, <1>3 DEF ShownWasOwned

\* A nonempty set of numbers has a least one.
LEMMA LeastOf ==
  ASSUME NEW T \in SUBSET Nat, T # {}
  PROVE  \E m \in T : \A t \in T : m <= t
<1> DEFINE R == OpToRel(<, Nat)
<1>1. IsWellFoundedOn(R, Nat)
  BY NatLessThanWellFounded
<1>2. R = {ss \in Nat \X Nat : ss[1] < ss[2]}
  BY DEF OpToRel
<1> HIDE DEF R
<1>3. PICK m \in T : \A t \in T : ~ (<<t, m>> \in R)
  BY <1>1, WFMin
<1>4. \A t \in T : ~ (t < m)
  BY <1>2, <1>3
<1>5. QED
  BY <1>4

\* buildWorkloadsFromDB has a newest row to take the time of, if it has a row.
LEMMA NewestExists ==
  ASSUME DeltaTyped, NEW names \in SUBSET Names, names # {}
  PROVE  newest(names) \in Deploys
<1> USE DeltaSyncAssumption
<1>1. \A n \in names : owner[n].at \in Deploys
  BY DEF DeltaTyped
<1> DEFINE T == {d \in Nat : \E n \in names : d = MaxDeploys - owner[n].at}
<1>2. \A n \in names : MaxDeploys - owner[n].at \in T
  BY <1>1 DEF Deploys
<1>3. T # {} /\ T \in SUBSET Nat
  BY <1>2
<1>4. PICK m \in T : \A d \in T : m <= d
  BY <1>3, LeastOf
<1>5. PICK n \in names : m = MaxDeploys - owner[n].at
  OBVIOUS
<1>6. ASSUME NEW o \in names
      PROVE  owner[o].at <= owner[n].at
  BY <1>1, <1>2, <1>4, <1>5 DEF Deploys
<1>7. \E t \in Deploys : (\E o \in names : owner[o].at = t) /\ (\A o \in names : owner[o].at <= t)
  BY <1>1, <1>6
<1>8. QED
  BY <1>7 DEF newest

\* Every step of every notification keeps the invariant, ...
LEMMA UpdateSteps ==
  ASSUME DeltaInv, UNCHANGED scenario, NEW u \in Updates, UpdateStep(u)
  PROVE  DeltaInv'
<1> USE DeltaSyncAssumption
<1>1. /\ notify \in [Updates -> [Clusters -> NotifyRecord]]
      /\ \A k \in Clusters : notify[u][k] \in NotifyRecord /\ NotifyFits(k, notify[u][k], everOwned)
  BY DEF DeltaInv, DeltaTyped
<1>2. CASE ReceiveUpdate(u)
  <2>1. /\ UNCHANGED <<rowVars, meta, workloads, sentVars, notify, beat>>
        /\ \E names \in SUBSET Names : update' = [update EXCEPT ![u] = Handler("processing", names)]
    BY <1>2 DEF ReceiveUpdate
  <2>2. DeltaTyped'
    BY <2>1 DEF DeltaInv, DeltaTyped, Handler, rowVars, sentVars
  <2>3. QED
    BY <2>1, <2>2 DEF DeltaInv, StoredFits, owned, ShownWasOwned, rowVars, sentVars
<1>3. CASE ListClusters(u)
  <2> DEFINE n == Notification("meta", update[u].names)
  <2>1. /\ UNCHANGED <<rowVars, meta, workloads, sentVars, beat>>
        /\ update' = [update EXCEPT ![u] = Handler("done", {})]
        /\ notify' = [notify EXCEPT ![u] = [k \in Clusters |-> n]]
    BY <1>3 DEF ListClusters
  <2>2. n \in NotifyRecord /\ n.at = "meta" /\ n.to = {} /\ n.entity.names = {}
    BY Notified DEF DeltaInv, DeltaTyped, Stages
  <2> HIDE DEF n
  <2>3. DeltaTyped'
    BY <2>1, <2>2 DEF DeltaInv, DeltaTyped, Handler, rowVars, sentVars
  <2>4. ASSUME NEW v \in Updates, NEW k \in Clusters
        PROVE  NotifyFits(k, notify'[v][k], everOwned')
    <3>1. NotifyFits(k, notify[v][k], everOwned)
      BY DEF DeltaInv
    <3>2. QED
      BY <1>1, <2>1, <2>2, <3>1 DEF NotifyFits, rowVars
  <2>5. QED
    BY <2>1, <2>3, <2>4 DEF DeltaInv, StoredFits, owned, ShownWasOwned, rowVars, sentVars
<1>4. ASSUME NEW k \in Clusters, NEW n \in NotifyRecord, notify' = [notify EXCEPT ![u][k] = n],
             NotifyFits(k, n, everOwned), UNCHANGED <<rowVars, sentVars, update, beat>>,
             meta' \in [Clusters -> (SUBSET Names) \cup {None}],
             workloads' \in [Clusters -> EntityRecord],
             \A j \in Clusters : /\ workloads'[j].names \subseteq everOwned[j]
                                 /\ meta'[j] # None => meta'[j] \subseteq everOwned[j]
      PROVE  DeltaInv'
  <2>1. /\ notify' \in [Updates -> [Clusters -> NotifyRecord]]
        /\ \A v \in Updates, j \in Clusters : NotifyFits(j, notify'[v][j], everOwned')
    BY <1>4, NotifyMoves DEF rowVars
  <2>2. DeltaTyped'
    BY <1>4, <2>1 DEF DeltaInv, DeltaTyped, rowVars, sentVars
  <2>3. \A j \in Clusters : StoredFits(j, everOwned)'
    BY <1>4 DEF DeltaInv, StoredFits, owned, rowVars
  <2>4. QED
    BY <1>4, <2>1, <2>2, <2>3 DEF DeltaInv, ShownWasOwned, rowVars, sentVars
<1>5. ASSUME NEW k \in Clusters, NEW n \in NotifyRecord, notify' = [notify EXCEPT ![u][k] = n],
             NotifyFits(k, n, everOwned),
             UNCHANGED <<rowVars, meta, workloads, sentVars, update, beat>>
      PROVE  DeltaInv'
  <2>1. /\ meta \in [Clusters -> (SUBSET Names) \cup {None}]
        /\ workloads \in [Clusters -> EntityRecord]
        /\ \A j \in Clusters : /\ workloads[j].names \subseteq everOwned[j]
                               /\ meta[j] # None => meta[j] \subseteq everOwned[j]
    BY DEF DeltaInv, DeltaTyped, StoredFits
  <2>2. QED
    BY <1>4, <1>5, <2>1
<1>6. ASSUME NEW k \in Clusters, NEW own \in SUBSET Names, own \subseteq everOwned[k]
      PROVE  /\ [notify[u][k] EXCEPT !.at = "read", !.names = filtered(notify[u][k].names, own)] \in NotifyRecord
             /\ NotifyFits(k, [notify[u][k] EXCEPT !.at = "read", !.names = filtered(notify[u][k].names, own)],
                           everOwned)
             /\ Ready(u, k, own) =
                  [notify EXCEPT ![u][k] =
                     [notify[u][k] EXCEPT !.at = "read", !.names = filtered(notify[u][k].names, own)]]
  <2> DEFINE names == filtered(notify[u][k].names, own)
             n == [notify[u][k] EXCEPT !.at = "read", !.names = names]
  <2>1. names \in SUBSET Names /\ names \subseteq everOwned[k]
    BY <1>1, <1>6 DEF filtered, NotifyRecord
  <2> HIDE DEF names
  <2>2. /\ n \in NotifyRecord /\ n.at = "read" /\ n.names = names
        /\ n.entity = notify[u][k].entity /\ n.to = notify[u][k].to
    BY <1>1, <2>1 DEF NotifyRecord, Stages
  <2>3. Ready(u, k, own) = [notify EXCEPT ![u][k] = n]
    BY <1>1 DEF Ready, names
  <2> HIDE DEF n
  <2>4. NotifyFits(k, n, everOwned)
    BY <1>1, <2>1, <2>2 DEF NotifyFits
  <2>5. QED
    BY <2>2, <2>3, <2>4 DEF n, names
<1>7. ASSUME NEW k \in Clusters
      PROVE  owned(k) \in SUBSET Names /\ owned(k) \subseteq everOwned[k]
             /\ (meta[k] # None => meta[k] \in SUBSET Names /\ meta[k] \subseteq everOwned[k])
             /\ workloads[k] \in EntityRecord /\ workloads[k].names \subseteq everOwned[k]
  BY DEF DeltaInv, DeltaTyped, StoredFits, owned
<1>8. ASSUME NEW k \in Clusters, CachedMeta(u, k)
      PROVE  DeltaInv'
  BY <1>5, <1>6, <1>7, <1>8 DEF CachedMeta
<1>9. ASSUME NEW k \in Clusters, ListDeployments(u, k)
      PROVE  DeltaInv'
  <2> DEFINE n == [notify[u][k] EXCEPT !.at = "list"]
  <2>1. n \in NotifyRecord /\ n.at = "list" /\ n.entity = notify[u][k].entity /\ n.to = notify[u][k].to
    BY <1>1 DEF NotifyRecord, Stages
  <2>2. notify' = [notify EXCEPT ![u][k] = n]
    BY <1>1, <1>9 DEF ListDeployments
  <2> HIDE DEF n
  <2>3. NotifyFits(k, n, everOwned)
    BY <1>1, <2>1 DEF NotifyFits
  <2>4. QED
    BY <1>5, <1>9, <2>1, <2>2, <2>3 DEF ListDeployments
<1>10. ASSUME NEW k \in Clusters, FillMeta(u, k)
       PROVE  DeltaInv'
  <2> DEFINE n == [notify[u][k] EXCEPT !.at = "read", !.names = filtered(notify[u][k].names, owned(k))]
  <2>1. n \in NotifyRecord /\ NotifyFits(k, n, everOwned) /\ notify' = [notify EXCEPT ![u][k] = n]
    BY <1>6, <1>7, <1>10 DEF FillMeta
  <2>2. /\ meta' = [meta EXCEPT ![k] = owned(k)] /\ workloads' = workloads
        /\ UNCHANGED <<rowVars, sentVars, update, beat>>
    BY <1>10 DEF FillMeta
  <2>3. meta' \in [Clusters -> (SUBSET Names) \cup {None}]
    BY <1>7, <2>2 DEF DeltaInv, DeltaTyped
  <2>4. \A j \in Clusters : /\ workloads'[j].names \subseteq everOwned[j]
                            /\ meta'[j] # None => meta'[j] \subseteq everOwned[j]
    BY <1>7, <2>2 DEF DeltaInv, DeltaTyped
  <2>5. workloads' \in [Clusters -> EntityRecord]
    BY <2>2 DEF DeltaInv, DeltaTyped
  <2> HIDE DEF n
  <2>6. QED
    BY <1>4, <2>1, <2>2, <2>3, <2>4, <2>5
<1>11. ASSUME NEW k \in Clusters, GetEntity(u, k)
       PROVE  DeltaInv'
  <2> DEFINE n == [notify[u][k] EXCEPT !.at = "put", !.version = workloads[k].version + 1]
  <2>1. workloads[k].version + 1 \in Nat
    BY <1>7 DEF EntityRecord
  <2>2. n \in NotifyRecord /\ n.at = "put" /\ n.names = notify[u][k].names
        /\ n.entity = notify[u][k].entity /\ n.to = notify[u][k].to
    BY <1>1, <2>1 DEF NotifyRecord, Stages
  <2>3. notify' = [notify EXCEPT ![u][k] = n] /\ notify[u][k].at = "read"
    BY <1>1, <1>11 DEF GetEntity
  <2> HIDE DEF n
  <2>4. NotifyFits(k, n, everOwned)
    BY <1>1, <2>2, <2>3 DEF NotifyFits
  <2>5. QED
    BY <1>5, <1>11, <2>2, <2>3, <2>4 DEF GetEntity
<1>12. ASSUME NEW k \in Clusters, PutEntity(u, k)
       PROVE  DeltaInv'
  <2> DEFINE of == {c \in clientOpen : Of[c] = k}
             at == IF of = {} THEN "register" ELSE "fetch"
             n == [notify[u][k] EXCEPT !.at = at, !.to = of]
             e == Entity(notify[u][k].version, notify[u][k].names)
  <2>1. /\ notify[u][k].at = "put" /\ workloads' = [workloads EXCEPT ![k] = e]
        /\ notify' = [notify EXCEPT ![u][k].at = at, ![u][k].to = of]
        /\ UNCHANGED <<rowVars, meta, sentVars, update, beat>>
    BY <1>12 DEF PutEntity
  <2>2. of \in SUBSET Clients /\ at \in Stages /\ at \in {"register", "fetch"} /\ \A c \in of : Of[c] = k
    BY DEF clientOpen, Stages
  <2>3. e \in EntityRecord /\ e.names = notify[u][k].names /\ e.names \subseteq everOwned[k]
    BY <1>1, <2>1 DEF Entity, EntityRecord, NotifyRecord, NotifyFits
  <2> HIDE DEF of, at, e
  <2>4. n \in NotifyRecord /\ n.at = at /\ n.entity = notify[u][k].entity /\ n.to = of
    BY <1>1, <2>2 DEF NotifyRecord
  <2>5. notify' = [notify EXCEPT ![u][k] = n]
    BY <1>1, <2>1
  <2> HIDE DEF n
  <2>6. NotifyFits(k, n, everOwned)
    BY <1>1, <2>2, <2>4 DEF NotifyFits
  <2>7. workloads' \in [Clusters -> EntityRecord] /\ meta' \in [Clusters -> (SUBSET Names) \cup {None}]
    BY <2>1, <2>3 DEF DeltaInv, DeltaTyped
  <2>8. \A j \in Clusters : /\ workloads'[j].names \subseteq everOwned[j]
                            /\ meta'[j] # None => meta'[j] \subseteq everOwned[j]
    BY <1>7, <2>1, <2>3 DEF DeltaInv, DeltaTyped
  <2>9. QED
    BY <1>4, <2>1, <2>4, <2>5, <2>6, <2>7, <2>8
<1>13. ASSUME NEW k \in Clusters, Fetch(u, k)
       PROVE  DeltaInv'
  <2> DEFINE at == IF workloads[k].names = {} THEN "register" ELSE "send"
             n == [notify[u][k] EXCEPT !.entity = workloads[k], !.at = at]
  <2>1. notify' = [notify EXCEPT ![u][k].entity = workloads[k], ![u][k].at = at]
    BY <1>13 DEF Fetch
  <2>2. at \in Stages /\ at \in {"register", "send"}
    BY DEF Stages
  <2> HIDE DEF at
  <2>3. n \in NotifyRecord /\ n.at = at /\ n.entity = workloads[k] /\ n.to = notify[u][k].to
    BY <1>1, <1>7, <2>2 DEF NotifyRecord
  <2>4. notify' = [notify EXCEPT ![u][k] = n]
    BY <1>1, <2>1
  <2> HIDE DEF n
  <2>5. NotifyFits(k, n, everOwned)
    BY <1>1, <1>7, <2>2, <2>3 DEF NotifyFits
  <2>6. QED
    BY <1>5, <1>13, <2>3, <2>4, <2>5 DEF Fetch
<1>14. ASSUME NEW k \in Clusters, Send(u, k)
       PROVE  DeltaInv'
  <2> DEFINE n == [notify[u][k] EXCEPT !.at = "register"]
             q == notify[u][k]
             to == {c \in q.to : q.entity.version > clientVersion[c]}
  <2>1. n \in NotifyRecord /\ n.at = "register" /\ n.entity = q.entity /\ n.to = q.to
    BY <1>1 DEF NotifyRecord, Stages
  <2>2. /\ notify' = [notify EXCEPT ![u][k] = n] /\ Show(to, q.entity)
        /\ UNCHANGED <<rowVars, meta, workloads, update, beat>>
    BY <1>1, <1>14 DEF Send
  <2> HIDE DEF n
  <2>3. NotifyFits(k, n, everOwned)
    BY <1>1, <2>1 DEF NotifyFits
  <2>4. /\ to \in SUBSET Clients /\ q.entity \in EntityRecord /\ q.entity.names \subseteq everOwned[k]
        /\ \A c \in to : Of[c] = k
    BY <1>1 DEF NotifyFits, NotifyRecord
  <2> HIDE DEF to, q
  <2>5. /\ clientVersion' \in [Clients -> Nat] /\ latest' \in [Clients -> Nat]
        /\ shown' \in [Clients -> SUBSET Names] /\ ShownWasOwned'
    BY <2>2, <2>4, ShowFits DEF rowVars
  <2>6. /\ notify' \in [Updates -> [Clusters -> NotifyRecord]]
        /\ \A v \in Updates, j \in Clusters : NotifyFits(j, notify'[v][j], everOwned')
    BY <2>1, <2>2, <2>3, NotifyMoves DEF rowVars
  <2>7. DeltaTyped'
    BY <2>2, <2>5, <2>6 DEF DeltaInv, DeltaTyped, rowVars
  <2>8. QED
    BY <2>2, <2>5, <2>6, <2>7 DEF DeltaInv, StoredFits, owned, rowVars
<1>15. ASSUME NEW k \in Clusters, RegisterClusterNode(u, k)
       PROVE  DeltaInv'
  <2> DEFINE n == Notification("done", {})
  <2>1. n \in NotifyRecord /\ n.at = "done" /\ n.to = {} /\ n.entity.names = {}
    BY Notified DEF Stages
  <2>2. /\ notify' = [notify EXCEPT ![u][k] = n]
        /\ UNCHANGED <<rowVars, meta, workloads, sentVars, update, beat>>
    BY <1>15 DEF RegisterClusterNode
  <2> HIDE DEF n
  <2>3. NotifyFits(k, n, everOwned)
    BY <2>1 DEF NotifyFits
  <2>4. QED
    BY <1>5, <2>1, <2>2, <2>3
<1>16. QED
  BY <1>2, <1>3, <1>8, <1>9, <1>10, <1>11, <1>12, <1>13, <1>14, <1>15 DEF UpdateStep

\* ... and so does every step of a heartbeat.
LEMMA BeatSteps ==
  ASSUME DeltaInv, UNCHANGED scenario, NEW h \in Heartbeats, BeatStep(h)
  PROVE  DeltaInv'
<1> USE DeltaSyncAssumption
<1>1. beat \in [Heartbeats -> BeatRecord] /\ beat[h] \in BeatRecord /\ BeatFits(beat[h], everOwned)
  BY DEF DeltaInv, DeltaTyped
<1>2. ASSUME NEW k \in Clusters
      PROVE  owned(k) \in SUBSET Names /\ owned(k) \subseteq everOwned[k]
             /\ workloads[k] \in EntityRecord /\ workloads[k].names \subseteq everOwned[k]
  BY DEF DeltaInv, DeltaTyped, StoredFits, owned
<1>3. ASSUME NEW q \in BeatRecord, beat' = [beat EXCEPT ![h] = q], BeatFits(q, everOwned),
             UNCHANGED <<rowVars, meta, workloads, update, notify>>,
             clientVersion' \in [Clients -> Nat], latest' \in [Clients -> Nat],
             shown' \in [Clients -> SUBSET Names], ShownWasOwned'
      PROVE  DeltaInv'
  <2>1. /\ beat' \in [Heartbeats -> BeatRecord]
        /\ \A g \in Heartbeats : BeatFits(beat'[g], everOwned')
    BY <1>3, BeatMoves DEF rowVars
  <2>2. DeltaTyped'
    BY <1>3, <2>1 DEF DeltaInv, DeltaTyped, rowVars
  <2>3. QED
    BY <1>3, <2>1, <2>2 DEF DeltaInv, StoredFits, owned, rowVars
<1>4. ASSUME NEW q \in BeatRecord, beat' = [beat EXCEPT ![h] = q], BeatFits(q, everOwned),
             UNCHANGED <<rowVars, meta, workloads, sentVars, update, notify>>
      PROVE  DeltaInv'
  BY <1>3, <1>4 DEF DeltaInv, DeltaTyped, ShownWasOwned, sentVars, rowVars
<1>5. ASSUME NEW at \in {"saved", "done"}, NEW c \in Clients \cup {None}, NEW known \in Nat, at = "saved" => c \in Clients
      PROVE  Beat(at, c, known) \in BeatRecord /\ BeatFits(Beat(at, c, known), everOwned)
  BY <1>5, NothingEntity DEF Beat, BeatRecord, BeatFits
<1>6. ASSUME NEW c \in Clients, ReceiveHeartbeat(h, c)
      PROVE  DeltaInv'
  <2>1. latest[c] \in Nat
    BY DEF DeltaInv, DeltaTyped
  <2>2. QED
    BY <1>4, <1>5, <1>6, <2>1 DEF ReceiveHeartbeat
<1>7. CASE BuildWorkloadsFromDB(h)
  <2> DEFINE k == Of[beat[h].client]
             e == IF owned(k) = {} THEN NoEntity ELSE Entity(DbEpoch + newest(owned(k)), owned(k))
             q == [beat[h] EXCEPT !.at = "get", !.saved = e]
  <2>1. beat[h].at = "saved" /\ beat' = [beat EXCEPT ![h].at = "get", ![h].saved = e]
    BY <1>7 DEF BuildWorkloadsFromDB
  <2>2. k \in Clusters /\ beat[h].client \in Clients /\ beat[h].entity.names \subseteq everOwned[k]
    BY <1>1, <2>1 DEF BeatFits
  <2>3. e \in EntityRecord /\ e.names \subseteq everOwned[k]
    <3>1. CASE owned(k) = {}
      BY <3>1, NothingEntity
    <3>2. CASE owned(k) # {}
      <4>1. newest(owned(k)) \in Nat
        BY <1>2, <2>2, <3>2, NewestExists DEF DeltaInv, Deploys
      <4>2. DbEpoch + newest(owned(k)) \in Nat
        BY <4>1 DEF DbEpoch
      <4>3. e = Entity(DbEpoch + newest(owned(k)), owned(k))
        BY <3>2
      <4>4. QED
        BY <1>2, <2>2, <4>2, <4>3 DEF Entity, EntityRecord
    <3>3. QED
      BY <3>1, <3>2
  <2> HIDE DEF e
  <2>4. q \in BeatRecord /\ q.at = "get" /\ q.saved = e /\ q.client = beat[h].client
        /\ q.entity = beat[h].entity
    BY <1>1, <2>3 DEF BeatRecord
  <2>5. beat' = [beat EXCEPT ![h] = q]
    BY <1>1, <2>1
  <2> HIDE DEF q
  <2>6. BeatFits(q, everOwned)
    BY <2>2, <2>3, <2>4 DEF BeatFits
  <2>7. QED
    BY <1>4, <1>7, <2>4, <2>5, <2>6 DEF BuildWorkloadsFromDB
<1>8. CASE GetWorkloads(h)
  <2> DEFINE k == Of[beat[h].client]
             q == [beat[h] EXCEPT !.at = "reply", !.entity = workloads[k]]
  <2>1. beat[h].at = "get" /\ beat' = [beat EXCEPT ![h].at = "reply", ![h].entity = workloads[k]]
    BY <1>8 DEF GetWorkloads
  <2>2. k \in Clusters /\ beat[h].client \in Clients /\ beat[h].saved.names \subseteq everOwned[k]
    BY <1>1, <2>1 DEF BeatFits
  <2>3. q \in BeatRecord /\ q.at = "reply" /\ q.entity = workloads[k] /\ q.client = beat[h].client
        /\ q.saved = beat[h].saved
    BY <1>1, <1>2, <2>2 DEF BeatRecord
  <2>4. beat' = [beat EXCEPT ![h] = q]
    BY <1>1, <2>1
  <2> HIDE DEF q
  <2>5. BeatFits(q, everOwned)
    BY <1>2, <2>2, <2>3 DEF BeatFits
  <2>6. QED
    BY <1>4, <1>8, <2>3, <2>4, <2>5 DEF GetWorkloads
<1>9. CASE SendHeartbeat(h)
  <2> DEFINE b == beat[h]
             q == Beat("done", None, 0)
  <2>1. /\ beat' = [beat EXCEPT ![h] = q] /\ UNCHANGED <<rowVars, meta, workloads, update, notify>>
        /\ b.at = "reply"
        /\ \/ \E pending \in SUBSET b.saved.names :
                Show({b.client}, [b.entity EXCEPT !.names = @ \cup pending])
           \/ Show({b.client}, b.saved)
           \/ UNCHANGED sentVars
    BY <1>9 DEF SendHeartbeat
  <2>2. q \in BeatRecord /\ BeatFits(q, everOwned)
    BY <1>5
  <2>3. /\ b.client \in Clients /\ b.entity \in EntityRecord /\ b.saved \in EntityRecord
        /\ b.entity.names \subseteq everOwned[Of[b.client]] /\ b.saved.names \subseteq everOwned[Of[b.client]]
    BY <1>1, <2>1 DEF BeatFits, BeatRecord
  <2> HIDE DEF b, q
  <2>4. /\ clientVersion' \in [Clients -> Nat] /\ latest' \in [Clients -> Nat]
        /\ shown' \in [Clients -> SUBSET Names] /\ ShownWasOwned'
    <3>1. CASE UNCHANGED sentVars
      BY <2>1, <3>1 DEF DeltaInv, DeltaTyped, ShownWasOwned, sentVars, rowVars
    <3>2. ASSUME NEW e \in EntityRecord, e.names \subseteq everOwned[Of[b.client]], Show({b.client}, e)
          PROVE  /\ clientVersion' \in [Clients -> Nat] /\ latest' \in [Clients -> Nat]
                 /\ shown' \in [Clients -> SUBSET Names] /\ ShownWasOwned'
      BY <2>1, <2>3, <3>2, ShowFits DEF rowVars
    <3>3. ASSUME NEW pending \in SUBSET b.saved.names,
                 Show({b.client}, [b.entity EXCEPT !.names = @ \cup pending])
          PROVE  /\ clientVersion' \in [Clients -> Nat] /\ latest' \in [Clients -> Nat]
                 /\ shown' \in [Clients -> SUBSET Names] /\ ShownWasOwned'
      <4>1. /\ [b.entity EXCEPT !.names = @ \cup pending] \in EntityRecord
            /\ [b.entity EXCEPT !.names = @ \cup pending].names \subseteq everOwned[Of[b.client]]
        BY <2>3 DEF EntityRecord
      <4>2. QED
        BY <3>2, <3>3, <4>1
    <3>4. QED
      BY <2>1, <2>3, <3>1, <3>2, <3>3
  <2>5. QED
    BY <1>3, <2>1, <2>2, <2>4
<1>10. QED
  BY <1>6, <1>7, <1>8, <1>9 DEF BeatStep

\* The rows change, and a cluster keeps what it has had.
LEMMA RowSteps ==
  ASSUME DeltaInv, UNCHANGED scenario, RowStep \/ (\E k \in Clusters : MetaExpires(k))
  PROVE  DeltaInv'
<1> USE DeltaSyncAssumption
<1>1. DeltaTyped
  BY DEF DeltaInv
<1>2. ASSUME NEW k \in Clusters, MetaExpires(k)
      PROVE  DeltaInv'
  <2>1. /\ meta' = [meta EXCEPT ![k] = None]
        /\ UNCHANGED <<rowVars, workloads, sentVars, update, notify, beat>>
    BY <1>2 DEF MetaExpires
  <2>2. DeltaTyped'
    BY <1>1, <2>1 DEF DeltaTyped, rowVars, sentVars
  <2>3. \A j \in Clusters : StoredFits(j, everOwned)'
    BY <1>1, <2>1 DEF DeltaInv, DeltaTyped, StoredFits, owned, rowVars
  <2>4. QED
    BY <2>1, <2>2, <2>3 DEF DeltaInv, ShownWasOwned, rowVars, sentVars
<1>3. ASSUME UNCHANGED <<meta, workloads, sentVars, update, notify, beat>>,
             everOwned' \in [Clusters -> SUBSET Names],
             \A k \in Clusters : everOwned[k] \subseteq everOwned'[k] /\ owned(k)' \subseteq everOwned'[k],
             owner' \in [Names -> [cluster : Clusters \cup {None}, at : Deploys]], deploys' \in Deploys
      PROVE  DeltaInv'
  <2>1. DeltaTyped'
    BY <1>1, <1>3 DEF DeltaTyped, sentVars
  <2>2. \A j \in Clusters : StoredFits(j, everOwned)'
    BY <1>3 DEF DeltaInv, StoredFits
  <2>3. ASSUME NEW u \in Updates, NEW k \in Clusters
        PROVE  NotifyFits(k, notify'[u][k], everOwned')
    BY <1>3 DEF DeltaInv, NotifyFits
  <2>4. ASSUME NEW h \in Heartbeats
        PROVE  BeatFits(beat'[h], everOwned')
    <3>1. BeatFits(beat[h], everOwned)
      BY DEF DeltaInv
    <3>2. beat[h].client \in Clients => Of[beat[h].client] \in Clusters
      OBVIOUS
    <3>3. QED
      BY <1>3, <3>1, <3>2 DEF BeatFits
  <2>5. ShownWasOwned'
    BY <1>3 DEF DeltaInv, ShownWasOwned, sentVars
  <2>6. QED
    BY <2>1, <2>2, <2>3, <2>4, <2>5 DEF DeltaInv
<1>4. ASSUME NEW n \in Names, Remove(n)
      PROVE  DeltaInv'
  <2>1. /\ owner' = [owner EXCEPT ![n] = [cluster |-> None, at |-> 0]]
        /\ UNCHANGED <<deploys, everOwned, meta, workloads, sentVars, update, notify, beat>>
    BY <1>4 DEF Remove
  <2>2. owner' \in [Names -> [cluster : Clusters \cup {None}, at : Deploys]]
    BY <1>1, <2>1 DEF DeltaTyped, Deploys
  <2>3. \A k \in Clusters : owned(k)' \subseteq owned(k)
    BY <1>1, <2>1 DEF DeltaTyped, owned
  <2>4. QED
    BY <1>1, <1>3, <2>1, <2>2, <2>3 DEF DeltaInv, DeltaTyped, StoredFits
<1>5. ASSUME NEW n \in Names, NEW k \in Clusters, Deploy(k, n)
      PROVE  DeltaInv'
  <2>1. /\ deploys < MaxDeploys /\ deploys' = deploys + 1
        /\ owner' = [owner EXCEPT ![n] = [cluster |-> k, at |-> deploys + 1]]
        /\ everOwned' = [everOwned EXCEPT ![k] = @ \cup {n}]
        /\ UNCHANGED <<meta, workloads, sentVars, update, notify, beat>>
    BY <1>5 DEF Deploy
  <2>2. deploys' \in Deploys
    BY <1>1, <2>1 DEF DeltaTyped, Deploys
  <2>3. owner' \in [Names -> [cluster : Clusters \cup {None}, at : Deploys]]
    BY <1>1, <2>1, <2>2 DEF DeltaTyped
  <2>4. everOwned' \in [Clusters -> SUBSET Names] /\ \A j \in Clusters : everOwned[j] \subseteq everOwned'[j]
    BY <1>1, <2>1 DEF DeltaTyped
  <2>5. ASSUME NEW j \in Clusters
        PROVE  owned(j)' \subseteq everOwned'[j]
    <3>1. owned(j) \subseteq everOwned[j]
      BY DEF DeltaInv, StoredFits
    <3>2. \A m \in owned(j)' : m \in owned(j) \/ (m = n /\ j = k)
      BY <1>1, <2>1 DEF DeltaTyped, owned
    <3>3. QED
      BY <1>1, <2>1, <2>4, <3>1, <3>2 DEF DeltaTyped
  <2>6. QED
    BY <1>3, <2>1, <2>2, <2>3, <2>4, <2>5
<1>6. QED
  BY <1>2, <1>4, <1>5 DEF RowStep

\* The sockets: what was shown is not taken back.
LEMMA SocketSteps ==
  ASSUME DeltaInv, UNCHANGED scenario,
         UNCHANGED deltaVars \/ (\E x \in NodeSockets : NodeStep(x)) \/ (\E c \in Clients : ForgetVersions(c))
  PROVE  DeltaInv'
<1>1. UNCHANGED <<rowVars, meta, workloads, latest, shown, update, notify, beat>>
  BY DEF deltaVars, sentVars, NodeStep, NodeConnects, NodeCloses, DeregisterClusterNode,
     ForgetVersions
<1>2. clientVersion' \in [Clients -> Nat]
  BY DEF DeltaInv, DeltaTyped, deltaVars, sentVars, NodeStep, NodeConnects, NodeCloses,
     DeregisterClusterNode, ForgetVersions
<1>3. DeltaTyped'
  BY <1>1, <1>2 DEF DeltaInv, DeltaTyped, rowVars
<1>4. QED
  BY <1>1, <1>3 DEF DeltaInv, StoredFits, owned, ShownWasOwned, rowVars

\* Every name that is stored, cached, queued for or on its way to a cluster is one
\* that the cluster has had.
THEOREM DeltaInvariant == Spec => []DeltaInv
<1>1. Init => DeltaInv
  <2> SUFFICES ASSUME Init PROVE DeltaInv
    OBVIOUS
  <2> USE DEF Init, DeltaInit
  <2>1. /\ notify \in [Updates -> [Clusters -> NotifyRecord]]
        /\ \A u \in Updates, k \in Clusters : NotifyFits(k, notify[u][k], everOwned)
    BY Notified DEF NotifyFits, Stages
  <2>2. /\ beat \in [Heartbeats -> BeatRecord]
        /\ \A h \in Heartbeats : BeatFits(beat[h], everOwned)
    BY NothingEntity DEF Beat, BeatRecord, BeatFits
  <2>3. DeltaTyped
    BY <2>1, <2>2, NothingEntity, DeltaSyncAssumption DEF DeltaTyped, Handler, Deploys
  <2>4. \A k \in Clusters : StoredFits(k, everOwned)
    BY NothingEntity, DeltaSyncAssumption DEF StoredFits, owned
  <2>5. QED
    BY <2>1, <2>2, <2>3, <2>4 DEF DeltaInv, ShownWasOwned
<1>2. DeltaInv /\ [Next]_vars => DeltaInv'
  <2> SUFFICES ASSUME DeltaInv, [Next]_vars PROVE DeltaInv'
    OBVIOUS
  <2>1. /\ UNCHANGED scenario /\ scenario.updates \subseteq Updates
        /\ scenario.nodes \subseteq NodeSockets /\ scenario.clients \subseteq Clients
    <3>1. scenario \in Scenarios
      BY DEF DeltaInv, DeltaTyped
    <3>2. QED
      BY <3>1, ScenariosAssumption DEF Next, vars
  <2>2. CASE Delta
    <3>1. CASE \E u \in Updates : UpdateStep(u)
      BY <2>1, <3>1, UpdateSteps
    <3>2. CASE \E h \in Heartbeats : BeatStep(h)
      BY <2>1, <3>2, BeatSteps
    <3>3. CASE RowStep \/ \E k \in Clusters : MetaExpires(k)
      BY <2>1, <3>3, RowSteps
    <3>4. CASE \E x \in NodeSockets : NodeStep(x)
      BY <2>1, <3>4, SocketSteps
    <3>5. QED
      BY <2>1, <2>2, <3>1, <3>2, <3>3, <3>4 DEF Delta, NodeStep
  <2>3. CASE UNCHANGED deltaVars
    BY <2>1, <2>3, SocketSteps
  <2>4. CASE \E c \in Clients : ForgetVersions(c)
    BY <2>1, <2>4, SocketSteps
  <2>5. QED
    BY <2>1, <2>2, <2>3, <2>4 DEF Next, vars
<1>3. QED
  BY <1>1, <1>2, PTL DEF Spec

\* A client is shown what its own cluster has or has had (notifyCluster,
\* broadcast, handleHeartbeat), although a node reports for all its clusters.
THEOREM ShownOwned == Spec => []ShownWasOwned
<1>1. DeltaInv => ShownWasOwned
  BY DEF DeltaInv
<1>2. QED
  BY <1>1, DeltaInvariant, PTL

(* --- Enrollment ------------------------------------------------------------ *)

KeyRecord == [pair : Makers, kid : BOOLEAN]
RowRecord == [id : Makers, owner : Owners \cup {None}, address : BOOLEAN,
              cert : EnrollCalls \cup {None}]
TokenRow == [nonce : Makers, used : BOOLEAN]
TokenRecord == [type : {"bootstrap", "node"}, tag : Tags, nonce : Makers \cup {None},
                pair : Makers, by : Makers]
Signing == {"private", "putKeys", "public", "signedKid", "signed", "verify", "verifiedKid",
            "verified", "droplet"}
CallLabels == Signing \cup
  {"new", "insert", "addPool", "record", "created", "refused", "answered", "markUsed",
   "saveDomain", "registered", "find", "update", "remove", "evict", "removePool", "resolve",
   "accept", "connected", "closed", "sent"}
CallRecord == [op : Operations \cup {None}, at : CallLabels, tag : Tags \cup {None},
               owner : Owners \cup {None}, token : TokenRecord \cup {None},
               id : Makers \cup {None}, private : Makers \cup {None}, public : Makers \cup {None}]

Creating == {"create", "vm", "spawn"}
Presenting == {"rotate", "register", "nodeToken", "postCert", "putCert", "upgrade"}

\* A request that may still make the row of its own id.
MayMake(q) == \/ q.at \in {"new", "insert", "addPool"}
              \/ q.op = "spawn" /\ q.at \in Signing
\* What a request carries where it stands; there says that there is a key pair.
CallFits(q, there) ==
  /\ q.at # "new" => q.tag \in Tags
  /\ q.at \in {"putKeys", "public", "signedKid", "signed"} => q.private \in Makers
  /\ q.at \in {"public", "signedKid", "signed"} => there
  /\ q.at \in {"signedKid", "verifiedKid"} => q.public \in Makers
  /\ q.at \in {"verify", "verifiedKid", "verified"} => there /\ q.op \in Creating \cup Presenting
  /\ q.at # "new" /\ q.op \in Presenting => q.token \in TokenRecord /\ there
  /\ q.op \in Creating /\ q.at \in {"verify", "verifiedKid", "verified", "droplet", "record", "addPool"} =>
       q.token \in TokenRecord /\ there
  /\ q.at \in {"record", "created"} => q.op \in Creating
  /\ q.at = "insert" => q.op = "create"
  /\ q.op = "vm" => q.id = None
  /\ q.at = "addPool" => q.op \in {"addPool", "spawn"}
  /\ q.at = "droplet" => q.op = "spawn"
  /\ q.at = "resolve" => q.op = "upgrade"

kept == keys \in KeyRecord
Made(p) == p = First \/ ~MayMake(calls[p])
Drawn(n) == n = First \/ At(n, "created")

EnrollTyped ==
  /\ kept \/ keys = None
  /\ rows \in [Tags -> RowRecord \cup {None}]
  /\ records \in [Makers -> TokenRow \cup {None}]
  /\ tokens \subseteq TokenRecord
  /\ tokens # {} => kept
  /\ calls \in [EnrollCalls -> CallRecord]
  /\ registrations \in [Makers -> Nat]
CallsFit == \A q \in EnrollCalls : CallFits(calls[q], kept)
RowsMade == \A i \in Makers : live(i) => Made(i)
IdsMade == \A q \in EnrollCalls : calls[q].id # None => Made(calls[q].id)
NoncesDrawn == \A i \in Makers : records[i] # None => Drawn(records[i].nonce)
NoncesDiffer ==
  \A i, j \in Makers :
    records[i] # None /\ records[j] # None /\ records[i].nonce = records[j].nonce => i = j
SpentOnce ==
  \A n \in Makers : registrations[n] # 0 =>
    registrations[n] = 1 /\ Drawn(n) /\ spendable(n) = {}
CreationsKept ==
  \A q \in EnrollCalls :
    At(q, "created") /\ live(calls[q].id) =>
      records[calls[q].id] # None /\ records[calls[q].id].nonce = q
EnrollInv == /\ EnrollTyped /\ CallsFit /\ RowsMade /\ IdsMade
             /\ NoncesDrawn /\ NoncesDiffer /\ SpentOnce /\ CreationsKept

\* What every step of a request does to its call.
CallMove(q) ==
  /\ calls' = [calls EXCEPT ![q] = calls'[q]]
  /\ calls'[q] \in CallRecord
  /\ CallFits(calls'[q], kept')
  /\ MayMake(calls'[q]) => MayMake(calls[q])
  /\ calls[q].at # "created"
  /\ calls'[q].at = "created" => calls[q].at = "record"
  /\ calls'[q].id \notin {calls[q].id, None} =>
       \/ calls'[q].id = q /\ ~MayMake(calls'[q])
       \/ \E t \in Tags : rows[t] # None /\ calls'[q].id = rows[t].id

\* A call with some of its fields written anew.
LEMMA CallWith ==
  ASSUME NEW g \in CallRecord, NEW at \in CallLabels, NEW id \in Makers \cup {None},
         NEW token \in TokenRecord \cup {None},
         NEW private \in Makers \cup {None}, NEW public \in Makers \cup {None}
  PROVE  /\ [g EXCEPT !.at = at] \in CallRecord
         /\ [g EXCEPT !.at = at, !.id = id] \in CallRecord
         /\ [g EXCEPT !.id = id, !.at = at] \in CallRecord
         /\ [g EXCEPT !.at = at, !.token = token] \in CallRecord
         /\ [g EXCEPT !.private = private, !.at = at] \in CallRecord
         /\ [g EXCEPT !.public = public, !.at = at] \in CallRecord
<1> DEFINE TokenType == TokenRecord \cup {None}
<1>1. token \in TokenType
  OBVIOUS
<1>2. CallRecord = [op : Operations \cup {None}, at : CallLabels, tag : Tags \cup {None},
               owner : Owners \cup {None}, token : TokenType,
               id : Makers \cup {None}, private : Makers \cup {None}, public : Makers \cup {None}]
  BY DEF CallRecord
<1> HIDE DEF TokenType
<1>3. QED
  BY <1>1, <1>2

\* Goto moves one call, and in it only where it stands.
LEMMA GotoMoves ==
  ASSUME calls \in [EnrollCalls -> CallRecord], NEW q \in EnrollCalls, NEW at \in CallLabels,
         Goto(q, at)
  PROVE  /\ calls' = [calls EXCEPT ![q] = calls'[q]]
         /\ calls'[q] \in CallRecord
         /\ calls'[q] = [calls[q] EXCEPT !.at = at]
         /\ calls'[q].at = at
         /\ \A f \in {"op", "tag", "owner", "token", "id", "private", "public"} :
              calls'[q][f] = calls[q][f]
<1>1. calls' = [calls EXCEPT ![q].at = at]
  BY DEF Goto
<1>2. calls'[q] = [calls[q] EXCEPT !.at = at] /\ calls[q] \in CallRecord
  BY <1>1
<1>3. calls'[q] \in CallRecord
  BY <1>2 DEF CallRecord
<1>4. calls' = [calls EXCEPT ![q] = calls'[q]]
  BY <1>1, <1>2
<1>5. QED
  BY <1>2, <1>3, <1>4 DEF CallRecord

\* Which steps write what.
LEMMA EnrollWrites ==
  ASSUME NEW q, NEW op, EnrollStep(q, op)
  PROVE  /\ UNCHANGED keys \/ PutKeys(q) \/ PutKid(q)
         /\ \/ UNCHANGED <<rows, records, registrations>>
            \/ InsertInstance(q) \/ AddPoolInstance(q) \/ UpdateCert(q) \/ RecordToken(q)
            \/ MarkUsed(q) \/ DeleteInstance(q) \/ RemovePoolInstance(q)
         /\ \/ UNCHANGED tokens
            \/ RotateBootstrapToken(q) \/ CreateNodeAccessToken(q) \/ CreateBuildDroplet(q)
            \/ RecordToken(q)
         /\ calls[q].at = "record" => RecordToken(q)
<1>1. CASE Begin(q, op)
  BY <1>1 DEF At, Begin, CreateVm, SpawnBuildNode, AddPoolRequest,
     RemovePoolRequest, DeleteRequest, DomainRequest, CreateRequest, InstallRequest, RebootRequest,
     RestartRequest, RotateRequest, UpgradeRequest, RegisterRequest, TokenRequest, CertRequest,
     Request
<1>2. CASE \/ GetPrivateKey(q) \/ GetPublicKey(q) \/ SignBootstrapToken(q) \/ Verified(q)
           \/ SaveDomain(q) \/ EvictNodeByTag(q) \/ ResolveConnection(q) \/ AcceptWebSocket(q)
           \/ SocketCloses(q)
  BY <1>2 DEF At, GetPrivateKey, GetPublicKey, SignBootstrapToken, Verified, SaveDomain,
     EvictNodeByTag, ResolveConnection, AcceptWebSocket, SocketCloses
<1>3. CASE \/ FindToRotate(q) \/ FindToRefresh(q) \/ FindToCertify(q) \/ FindToDelete(q)
           \/ FindToInstall(q) \/ FindToReboot(q) \/ FindToRestart(q)
  BY <1>3 DEF At, FindToRotate, FindToRefresh, FindToCertify, FindToDelete, FindToInstall,
     FindToReboot, FindToRestart, Find
<1>4. CASE InstallDployr(q) \/ RebootInstance(q) \/ RestartDaemon(q)
  BY <1>4 DEF At, InstallDployr, RebootInstance, RestartDaemon, SendOperatorTask
<1>5. CASE \/ PutKeys(q) \/ PutKid(q) \/ RotateBootstrapToken(q) \/ CreateNodeAccessToken(q)
           \/ CreateBuildDroplet(q)
  BY <1>5 DEF At, PutKeys, PutKid, RotateBootstrapToken, CreateNodeAccessToken, Answer,
     CreateBuildDroplet
<1>6. CASE \/ InsertInstance(q) \/ AddPoolInstance(q) \/ UpdateCert(q) \/ RecordToken(q)
           \/ MarkUsed(q) \/ DeleteInstance(q) \/ RemovePoolInstance(q)
  BY <1>6 DEF At, InsertInstance, AddPoolInstance, UpdateCert, RecordToken, MarkUsed,
     DeleteInstance, RemovePoolInstance
<1>7. QED
  BY <1>1, <1>2, <1>3, <1>4, <1>5, <1>6 DEF EnrollStep

\* There is a key pair, or none yet, and it is not lost again.
LEMMA PairStays ==
  ASSUME EnrollTyped, CallsFit, NEW q \in EnrollCalls, NEW op, EnrollStep(q, op)
  PROVE  (kept => kept') /\ (kept' \/ keys' = None)
<1>1. CASE UNCHANGED keys
  BY <1>1 DEF kept, KeyRecord, EnrollTyped
<1>2. CASE PutKeys(q)
  BY <1>2 DEF PutKeys, kept, KeyRecord, Makers
<1>3. CASE PutKid(q)
  BY <1>3 DEF PutKid, At, kept, KeyRecord, CallsFit, CallFits
<1>4. QED
  BY <1>1, <1>2, <1>3, EnrollWrites

\* A request that only goes on keeps what it carries.
LEMMA GoesOn ==
  ASSUME EnrollTyped, CallsFit, kept => kept', NEW q \in EnrollCalls, NEW at \in CallLabels,
         Goto(q, at), calls[q].at \notin {"new", "created"},
         at = "created" => calls[q].at = "record",
         MayMake([calls[q] EXCEPT !.at = at]) => MayMake(calls[q]),
         CallFits([calls[q] EXCEPT !.at = at], kept')
  PROVE  CallMove(q)
<1>1. calls \in [EnrollCalls -> CallRecord]
  BY DEF EnrollTyped
<1>2. /\ calls' = [calls EXCEPT ![q] = calls'[q]]
      /\ calls'[q] \in CallRecord
      /\ calls'[q] = [calls[q] EXCEPT !.at = at]
      /\ calls'[q].id = calls[q].id /\ calls'[q].at = at
  BY <1>1, GotoMoves
<1>3. QED
  BY <1>2 DEF CallMove

\* Every step of a request is such a move of its call.
LEMMA CallSteps ==
  ASSUME EnrollInv, NEW q \in EnrollCalls, NEW op \in Operations \cup {None}, EnrollStep(q, op)
  PROVE  CallMove(q)
<1> USE EnrollmentAssumption
<1> DEFINE c == calls[q]
           On(at) == [c EXCEPT !.at = at]
<1>1. /\ EnrollTyped /\ CallsFit /\ (kept => kept')
      /\ c \in CallRecord /\ CallFits(c, kept)
      /\ calls \in [EnrollCalls -> CallRecord]
  BY PairStays DEF EnrollInv, EnrollTyped, CallsFit
<1>2. ASSUME NEW at \in CallLabels
      PROVE  /\ On(at).at = at /\ On(at).op = c.op /\ On(at).tag = c.tag /\ On(at).token = c.token
             /\ On(at).private = c.private /\ On(at).public = c.public
  BY <1>1 DEF CallRecord
<1>3. ASSUME NEW at \in CallLabels, Goto(q, at), c.at \notin {"new", "created"},
             at = "created" => c.at = "record",
             MayMake(On(at)) => MayMake(c), CallFits(On(at), kept')
      PROVE  CallMove(q)
  BY <1>1, <1>3, GoesOn
<1>4. ASSUME Goto(q, "refused"), c.at \notin {"new", "created"}
      PROVE  CallMove(q)
  <2>1. MayMake(On("refused")) => MayMake(c)
    BY <1>2 DEF MayMake, CallLabels, Signing
  <2>2. CallFits(On("refused"), kept')
    BY <1>1, <1>2, <1>4 DEF CallFits, CallLabels, Signing
  <2>3. QED
    BY <1>3, <1>4, <2>1, <2>2 DEF CallLabels
<1>5. ASSUME NEW at \in CallLabels \ (Signing \cup {"new", "insert", "addPool", "resolve", "record", "created"}),
             Goto(q, at), c.at \notin {"new", "created"}
      PROVE  CallMove(q)
  <2>1. MayMake(On(at)) => MayMake(c)
    BY <1>2 DEF MayMake, Signing
  <2>2. CallFits(On(at), kept')
    BY <1>1, <1>2, <1>5 DEF CallFits, Signing
  <2>3. QED
    BY <1>3, <1>5, <2>1, <2>2

<1>6. ASSUME NEW o \in Operations, NEW at \in CallLabels \ {"new", "created"}, NEW t \in Tags,
             NEW w \in Owners \cup {None}, NEW k \in tokens \cup {None},
             Request(q, o, at, t, w, k),
             at = "insert" => o = "create", at = "resolve" => o = "upgrade",
             at = "verify" => o \in Presenting, o \in Presenting => k \in tokens,
             at \notin {"putKeys", "public", "signedKid", "signed", "verifiedKid", "verified", "droplet", "record"},
             at = "addPool" => o = "addPool"
      PROVE  CallMove(q)
  <2> DEFINE g == Call(o, at, t, w, k)
  <2>1. /\ g.op = o /\ g.at = at /\ g.tag = t /\ g.token = k /\ g.id = None
    BY DEF Call
  <2>2. g \in CallRecord
    BY <1>1 DEF Call, CallRecord, EnrollTyped
  <2>3. c.at = "new" /\ calls' = [calls EXCEPT ![q] = g] /\ UNCHANGED keys
    BY <1>6 DEF Request, At
  <2> HIDE DEF g
  <2>31. k \in tokens => k \in TokenRecord /\ kept'
    BY <1>1 DEF EnrollTyped
  <2>4. CallFits(g, kept')
    BY <1>6, <2>1, <2>31 DEF CallFits, Creating, Presenting
  <2>5. calls'[q] = g
    BY <1>1, <2>3
  <2>6. MayMake(c)
    BY <2>3 DEF MayMake
  <2>7. QED
    BY <1>1, <2>1, <2>2, <2>3, <2>4, <2>5, <2>6 DEF CallMove
<1>7. CASE Begin(q, op)
  <2>1. PICK t \in Tags :
          \/ op = "vm" /\ CreateVm(q, t)
          \/ op = "spawn" /\ SpawnBuildNode(q, t)
          \/ op = "addPool" /\ AddPoolRequest(q, t)
          \/ op = "removePool" /\ RemovePoolRequest(q, t)
          \/ op = "delete" /\ DeleteRequest(q, t)
          \/ op = "saveDomain" /\ DomainRequest(q, t)
          \/ \E o \in Owners : \/ op = "create" /\ CreateRequest(q, t, o)
                               \/ op = "install" /\ InstallRequest(q, t, o)
                               \/ op = "reboot" /\ RebootRequest(q, t, o)
                               \/ op = "restart" /\ RestartRequest(q, t, o)
          \/ \E k \in tokens : \/ op = "rotate" /\ RotateRequest(q, t, k)
                               \/ op = "upgrade" /\ UpgradeRequest(q, t, k)
                               \/ op = "register" /\ RegisterRequest(q, k)
                               \/ op = "nodeToken" /\ TokenRequest(q, k)
                               \/ CertRequest(q, op, t, k)
    BY <1>7 DEF Begin
  <2>2. \A k \in tokens : k.tag \in Tags
    BY <1>1 DEF EnrollTyped, TokenRecord
  <2>3. CASE CreateVm(q, t)
    BY <1>6, <2>3 DEF CreateVm, Operations, CallLabels, Signing, Presenting
  <2>4. CASE SpawnBuildNode(q, t)
    BY <1>6, <2>4 DEF SpawnBuildNode, Operations, CallLabels, Signing, Presenting
  <2>5. CASE AddPoolRequest(q, t)
    BY <1>6, <2>5 DEF AddPoolRequest, Operations, CallLabels, Signing, Presenting
  <2>6. CASE RemovePoolRequest(q, t)
    BY <1>6, <2>6 DEF RemovePoolRequest, Operations, CallLabels, Signing, Presenting
  <2>7. CASE DeleteRequest(q, t)
    BY <1>6, <2>7 DEF DeleteRequest, Operations, CallLabels, Signing, Presenting
  <2>8. CASE DomainRequest(q, t)
    BY <1>6, <2>8 DEF DomainRequest, Operations, CallLabels, Signing, Presenting
  <2>9. ASSUME NEW o \in Owners, \/ CreateRequest(q, t, o) \/ InstallRequest(q, t, o)
                                 \/ RebootRequest(q, t, o) \/ RestartRequest(q, t, o)
        PROVE  CallMove(q)
    <3>1. CASE CreateRequest(q, t, o)
      BY <1>6, <3>1 DEF CreateRequest, Operations, CallLabels, Signing, Presenting
    <3>2. CASE InstallRequest(q, t, o)
      <4>1. CASE Request(q, "install", "find", t, o, None)
        BY <1>6, <4>1 DEF Operations, CallLabels, Signing, Presenting
      <4>2. CASE Request(q, "install", "find", t, None, None)
        BY <1>6, <4>2 DEF Operations, CallLabels, Signing, Presenting
      <4>3. QED
        BY <3>2, <4>1, <4>2 DEF InstallRequest
    <3>3. CASE RebootRequest(q, t, o)
      BY <1>6, <3>3 DEF RebootRequest, Operations, CallLabels, Signing, Presenting
    <3>4. CASE RestartRequest(q, t, o)
      BY <1>6, <3>4 DEF RestartRequest, Operations, CallLabels, Signing, Presenting
    <3>5. QED
      BY <2>9, <3>1, <3>2, <3>3, <3>4
  <2>10. ASSUME NEW k \in tokens,
                \/ RotateRequest(q, t, k) \/ UpgradeRequest(q, t, k) \/ RegisterRequest(q, k)
                \/ TokenRequest(q, k) \/ CertRequest(q, op, t, k)
         PROVE  CallMove(q)
    <3>1. CASE RotateRequest(q, t, k)
      BY <1>6, <3>1 DEF RotateRequest, Operations, CallLabels, Signing, Presenting
    <3>2. CASE UpgradeRequest(q, t, k)
      BY <1>6, <3>2 DEF UpgradeRequest, Operations, CallLabels, Signing, Presenting
    <3>3. CASE RegisterRequest(q, k)
      BY <1>6, <2>2, <3>3 DEF RegisterRequest, Operations, CallLabels, Signing, Presenting
    <3>4. CASE TokenRequest(q, k)
      BY <1>6, <2>2, <3>4 DEF TokenRequest, Operations, CallLabels, Signing, Presenting
    <3>5. CASE CertRequest(q, op, t, k)
      BY <1>6, <3>5 DEF CertRequest, Operations, CallLabels, Signing, Presenting
    <3>6. QED
      BY <2>10, <3>1, <3>2, <3>3, <3>4, <3>5
  <2>11. QED
    BY <2>1, <2>3, <2>4, <2>5, <2>6, <2>7, <2>8, <2>9, <2>10
\* The steps that write more of a call than where it stands.
<1>8. ASSUME NEW g \in CallRecord, calls' = [calls EXCEPT ![q] = g], CallFits(g, kept'),
             MayMake(g) => MayMake(c), c.at # "created", g.at # "created",
             \/ g.id \in {c.id, None}
             \/ g.id = q /\ ~MayMake(g)
             \/ \E t \in Tags : rows[t] # None /\ g.id = rows[t].id
      PROVE  CallMove(q)
  <2>1. calls'[q] = g
    BY <1>1, <1>8
  <2>2. QED
    BY <1>8, <2>1 DEF CallMove
<1>9. CASE InsertInstance(q)
  <2>1. CASE rowOf(q) = None
    <3> DEFINE g == [c EXCEPT !.at = "private", !.id = q]
    <3>1. c.at = "insert" /\ calls' = [calls EXCEPT ![q] = g]
      BY <1>9, <2>1 DEF InsertInstance, At
    <3>2. g \in CallRecord
      BY <1>1, CallWith DEF CallLabels, Signing, Makers
    <3>5. /\ g.at = "private" /\ g.id = q /\ g.op = "create" /\ g.tag = c.tag /\ g.token = c.token
      BY <1>1, <3>1 DEF CallRecord, CallFits
    <3> HIDE DEF g
    <3>3. CallFits(g, kept') /\ ~MayMake(g)
      BY <1>1, <3>1, <3>5 DEF CallFits, MayMake, Creating, Presenting
    <3>4. QED
      BY <1>8, <3>1, <3>2, <3>3, <3>5
  <2>2. CASE rowOf(q) # None
    BY <1>4, <1>9, <2>2 DEF InsertInstance, At
  <2>3. QED
    BY <2>1, <2>2
<1>10. CASE AddPoolInstance(q)
  <2> DEFINE i == rows'[c.tag].id
             at == IF c.op = "spawn" THEN "record" ELSE "answered"
             g == [c EXCEPT !.id = i, !.at = at]
  <2>10. c.at = "addPool" /\ c.tag \in Tags
    BY <1>1, <1>10 DEF AddPoolInstance, At, CallFits
  <2>11. calls' = [calls EXCEPT ![q].id = i, ![q].at = at]
    BY <1>10 DEF AddPoolInstance
  <2>2. i = IF rows[c.tag] = None THEN q ELSE rows[c.tag].id
    <3>1. rows'[c.tag] = IF rows[c.tag] = None THEN Row(q, None, c.op = "addPool")
                         ELSE [rows[c.tag] EXCEPT !.cert = None]
      BY <1>1, <1>10, <2>10 DEF AddPoolInstance, EnrollTyped
    <3>2. rows[c.tag] \in RowRecord \cup {None}
      BY <1>1, <2>10 DEF EnrollTyped
    <3>3. QED
      BY <3>1, <3>2 DEF Row, RowRecord
  <2>3. i \in Makers
    BY <1>1, <2>10, <2>2 DEF EnrollTyped, RowRecord, Makers
  <2>7. at \in CallLabels /\ at \in {"record", "answered"} /\ (at = "record" => c.op = "spawn")
    BY DEF CallLabels
  <2> HIDE DEF i, at
  <2>1. c.at = "addPool" /\ calls' = [calls EXCEPT ![q] = g] /\ c.tag \in Tags
    BY <1>1, <2>10, <2>11
  <2>4. /\ g \in CallRecord
        /\ g.at = at /\ g.id = i /\ g.op = c.op /\ g.tag = c.tag /\ g.token = c.token
    BY <1>1, <2>3, <2>7, CallWith DEF CallRecord
  <2> HIDE DEF g
  <2>5. CallFits(g, kept') /\ ~MayMake(g)
    BY <1>1, <2>1, <2>4, <2>7 DEF CallFits, MayMake, Creating, Presenting, Signing
  <2>6. QED
    BY <1>8, <2>1, <2>2, <2>4, <2>5, <2>7
<1>11. CASE GetPrivateKey(q)
  <2> DEFINE private == IF keys = None THEN q ELSE keys.pair
             at == IF keys = None THEN "putKeys" ELSE "public"
             g == [c EXCEPT !.private = private, !.at = at]
  <2>1. c.at = "private" /\ calls' = [calls EXCEPT ![q] = g] /\ UNCHANGED keys
    BY <1>11 DEF GetPrivateKey, At
  <2>2. private \in Makers /\ at \in CallLabels /\ at \in Signing /\ (at = "public" => kept) /\ at \in {"putKeys", "public"}
    BY <1>1 DEF EnrollTyped, kept, KeyRecord, Makers, CallLabels, Signing
  <2> HIDE DEF private, at
  <2>3. /\ g \in CallRecord
        /\ g.at = at /\ g.id = c.id /\ g.op = c.op /\ g.tag = c.tag /\ g.token = c.token
        /\ g.private = private
    BY <1>1, <2>2, CallWith DEF CallRecord
  <2> HIDE DEF g
  <2>4. CallFits(g, kept')
    BY <1>1, <2>1, <2>2, <2>3 DEF CallFits, Creating, Presenting
  <2>5. MayMake(g) => MayMake(c)
    BY <2>1, <2>2, <2>3 DEF MayMake, Signing
  <2>6. QED
    BY <1>8, <2>1, <2>2, <2>3, <2>4, <2>5
<1>12. CASE GetPublicKey(q)
  <2> DEFINE at == CASE At(q, "public") /\ keys.kid -> "signed"
                     [] At(q, "public") /\ ~keys.kid -> "signedKid"
                     [] At(q, "verify") /\ keys.kid -> "verified"
                     [] At(q, "verify") /\ ~keys.kid -> "verifiedKid"
             g == [c EXCEPT !.public = keys.pair, !.at = at]
  <2>10. c.at \in {"public", "verify"} /\ UNCHANGED keys
    BY <1>12 DEF GetPublicKey
  <2>11. calls' = [calls EXCEPT ![q].public = keys.pair, ![q].at = at]
    BY <1>12, Zenon DEF GetPublicKey
  <2>2. kept /\ keys.pair \in Makers /\ keys.kid \in BOOLEAN
    BY <1>1, <2>10 DEF CallFits, kept, KeyRecord
  <2>3. \/ c.at = "public" /\ at \in {"signed", "signedKid"}
        \/ c.at = "verify" /\ at \in {"verified", "verifiedKid"}
    BY <2>10, <2>2 DEF At
  <2> HIDE DEF at
  <2>1. c.at \in {"public", "verify"} /\ calls' = [calls EXCEPT ![q] = g] /\ UNCHANGED keys
    BY <1>1, <2>10, <2>11
  <2>41. at \in CallLabels
    BY <2>3 DEF CallLabels, Signing
  <2>4. /\ g \in CallRecord
        /\ g.at = at /\ g.id = c.id /\ g.op = c.op /\ g.tag = c.tag /\ g.token = c.token
        /\ g.private = c.private /\ g.public = keys.pair
    BY <1>1, <2>2, <2>41, CallWith DEF CallRecord
  <2> HIDE DEF g
  <2>5. CallFits(g, kept')
    BY <1>1, <2>1, <2>2, <2>3, <2>4 DEF CallFits, Creating, Presenting
  <2>6. MayMake(g) => MayMake(c)
    BY <2>1, <2>3, <2>4 DEF MayMake, Signing
  <2>7. QED
    BY <1>8, <2>1, <2>3, <2>4, <2>5, <2>6
<1>13. CASE SignBootstrapToken(q)
  <2> DEFINE token == Token("bootstrap", c.tag, q, c.private, q)
             g == [c EXCEPT !.at = "verify", !.token = token]
  <2>1. c.at = "signed" /\ c.op \in Creating /\ calls' = [calls EXCEPT ![q] = g] /\ UNCHANGED keys
    BY <1>13 DEF SignBootstrapToken, At, Creating
  <2>2. token \in TokenRecord
    BY <1>1, <2>1 DEF CallFits, Token, TokenRecord, Makers
  <2> HIDE DEF token
  <2>3. /\ g \in CallRecord
        /\ g.at = "verify" /\ g.id = c.id /\ g.op = c.op /\ g.tag = c.tag /\ g.token = token
    BY ZenonT(40), <1>1, <2>2, CallWith DEF CallRecord, CallLabels, Signing
  <2> HIDE DEF g
  <2>4. CallFits(g, kept')
    BY <1>1, <2>1, <2>2, <2>3 DEF CallFits, Creating, Presenting
  <2>5. MayMake(g) => MayMake(c)
    BY <2>1, <2>3 DEF MayMake, Signing
  <2>6. QED
    BY <1>8, <2>1, <2>3, <2>4, <2>5
<1>14. ASSUME NEW ops, NEW ok \in BOOLEAN, NEW next \in CallLabels, Find(q, ops, ok, next),
              next \in {"private", "update", "remove"}, "spawn" \notin ops, ops \cap Creating = {}
       PROVE  CallMove(q)
  <2> DEFINE found == rowOf(q) # None /\ ok
             id == IF found THEN rowOf(q).id ELSE None
             at == IF found THEN next ELSE "refused"
             g == [c EXCEPT !.id = id, !.at = at]
  <2>1. /\ c.at = "find" /\ c.op \in ops /\ calls' = [calls EXCEPT ![q] = g] /\ UNCHANGED keys
        /\ c.tag \in Tags
    BY <1>1, <1>14 DEF Find, At, CallFits
  <2>2. /\ at \in CallLabels /\ at \in {next, "refused"}
        /\ id = None \/ (rows[c.tag] # None /\ id = rows[c.tag].id)
    BY <1>1, <2>1 DEF rowOf, CallLabels
  <2>22. id \in Makers \cup {None}
    <3>1. rows[c.tag] # None => rows[c.tag].id \in Makers
      BY <1>1, <2>1 DEF EnrollTyped, RowRecord
    <3>2. QED
      BY <2>2, <3>1
  <2> HIDE DEF id, at, found
  <2>3. /\ g \in CallRecord
        /\ g.at = at /\ g.id = id /\ g.op = c.op /\ g.tag = c.tag /\ g.token = c.token
    BY <1>1, <2>2, <2>22, CallWith DEF CallRecord
  <2> HIDE DEF g
  <2>4. CallFits(g, kept')
    BY <1>1, <1>14, <2>1, <2>2, <2>3 DEF CallFits, Creating, Presenting
  <2>5. MayMake(g) => MayMake(c)
    BY <1>14, <2>1, <2>2, <2>3 DEF MayMake, Signing
  <2>6. QED
    BY <1>8, <1>14, <2>1, <2>2, <2>3, <2>4, <2>5
<1>15. CASE \/ FindToRotate(q) \/ FindToRefresh(q) \/ FindToCertify(q) \/ FindToDelete(q)
            \/ FindToInstall(q) \/ FindToReboot(q) \/ FindToRestart(q)
  BY <1>14, <1>15 DEF FindToRotate, FindToRefresh, FindToCertify, FindToDelete, FindToInstall,
     FindToReboot, FindToRestart, CallLabels, Signing, Creating, ofToken, hasNode
\* The steps that only go on.
<1>16. CASE PutKeys(q)
  <2>1. c.at = "putKeys" /\ Goto(q, "public")
    BY <1>16 DEF PutKeys, At
  <2>11. kept'
    BY <1>16 DEF PutKeys, kept, KeyRecord, Makers
  <2>12. CallFits(On("public"), kept')
    BY <1>1, <1>2, <2>1, <2>11 DEF CallFits, Creating, Presenting, CallLabels, Signing
  <2>13. MayMake(On("public")) => MayMake(c)
    BY <1>2, <2>1 DEF MayMake, CallLabels, Signing
  <2>2. QED
    BY <1>3, <2>1, <2>12, <2>13 DEF CallLabels, Signing
<1>17. CASE PutKid(q)
  <2>1. kept'
    BY <1>1, <1>17 DEF PutKid, At, CallFits, kept, KeyRecord
  <2>2. CASE c.at = "signedKid" /\ Goto(q, "signed")
    <3>1. CallFits(On("signed"), kept')
      BY <1>1, <1>2, <2>1, <2>2 DEF CallFits, Creating, Presenting, CallLabels, Signing
    <3>2. MayMake(On("signed")) => MayMake(c)
      BY <1>2, <2>2 DEF MayMake, CallLabels, Signing
    <3>3. QED
      BY <1>3, <2>2, <3>1, <3>2 DEF CallLabels, Signing
  <2>3. CASE c.at = "verifiedKid" /\ Goto(q, "verified")
    <3>1. CallFits(On("verified"), kept')
      BY <1>1, <1>2, <2>1, <2>3 DEF CallFits, Creating, Presenting, CallLabels, Signing
    <3>2. MayMake(On("verified")) => MayMake(c)
      BY <1>2, <2>3 DEF MayMake, CallLabels, Signing
    <3>3. QED
      BY <1>3, <2>3, <3>1, <3>2 DEF CallLabels, Signing
  <2>4. QED
    BY <1>17, <2>2, <2>3 DEF PutKid, At
<1>18. CASE RotateBootstrapToken(q)
  BY <1>5, <1>18 DEF RotateBootstrapToken, Answer, At, CallLabels, Signing
<1>19. CASE CreateNodeAccessToken(q)
  BY <1>5, <1>19 DEF CreateNodeAccessToken, Answer, At, CallLabels, Signing
<1>20. CASE Verified(q)
  <2> DEFINE next == CASE c.op \in {"create", "vm"} -> "record" [] c.op = "spawn" -> "droplet"
                       [] c.op = "register" -> "markUsed" [] c.op = "upgrade" -> "accept"
                       [] OTHER -> "find"
  <2>1. c.at = "verified" /\ (Goto(q, next) \/ Goto(q, "refused"))
    BY <1>20 DEF Verified, At, Proceed
  <2>2. \/ c.op \in {"create", "vm"} /\ next = "record"
        \/ c.op = "spawn" /\ next = "droplet"
        \/ next \in {"markUsed", "accept", "find"}
    OBVIOUS
  <2> HIDE DEF next
  <2>3. ASSUME Goto(q, next), next \in {"record", "droplet"}
        PROVE  CallMove(q)
    <3>1. next \in CallLabels /\ c.op \in Creating
      BY <2>2, <2>3 DEF CallLabels, Signing, Creating
    <3>2. CallFits(On(next), kept')
      BY <1>1, <1>2, <2>1, <2>2, <2>3, <3>1 DEF CallFits, Creating, Presenting
    <3>3. MayMake(On(next)) => MayMake(c)
      BY <1>2, <2>1, <2>3, <3>1, <2>2 DEF MayMake, Signing
    <3>4. QED
      BY <1>3, <2>1, <2>3, <3>1, <3>2, <3>3
  <2>4. ASSUME Goto(q, next), next \in {"markUsed", "accept", "find"}
        PROVE  CallMove(q)
    BY <1>5, <2>1, <2>4 DEF CallLabels, Signing
  <2>5. QED
    BY <1>4, <2>1, <2>2, <2>3, <2>4
<1>21. CASE CreateBuildDroplet(q)
  <2>1. c.at = "droplet" /\ c.op = "spawn" /\ (Goto(q, "addPool") \/ Goto(q, "refused")) /\ UNCHANGED keys
    BY <1>1, <1>21 DEF CreateBuildDroplet, At, CallFits
  <2>2. CallFits(On("addPool"), kept')
    BY <1>1, <1>2, <2>1 DEF CallFits, Creating, Presenting, CallLabels
  <2>3. MayMake(On("addPool")) => MayMake(c)
    BY <2>1 DEF MayMake, Signing
  <2>4. QED
    BY <1>3, <1>4, <2>1, <2>2, <2>3 DEF CallLabels
<1>22. CASE RecordToken(q)
  <2>1. c.at = "record" /\ (Goto(q, "created") \/ Goto(q, "refused")) /\ UNCHANGED keys
    BY <1>22 DEF RecordToken, At, Proceed
  <2>2. CallFits(On("created"), kept')
    BY <1>1, <1>2, <2>1 DEF CallFits, Creating, Presenting, CallLabels
  <2>3. ~MayMake(On("created"))
    BY <1>2 DEF MayMake, CallLabels, Signing
  <2>4. QED
    BY <1>3, <1>4, <2>1, <2>2, <2>3 DEF CallLabels
<1>23. CASE MarkUsed(q)
  BY <1>4, <1>5, <1>23 DEF MarkUsed, At, Proceed, CallLabels, Signing
<1>24. CASE SaveDomain(q)
  BY <1>4, <1>5, <1>24 DEF SaveDomain, At, Proceed, CallLabels, Signing
<1>25. CASE UpdateCert(q)
  BY <1>5, <1>25 DEF UpdateCert, At, CallLabels, Signing
<1>26. CASE InstallDployr(q) \/ RebootInstance(q) \/ RestartDaemon(q)
  BY <1>4, <1>5, <1>26 DEF InstallDployr, RebootInstance, RestartDaemon, SendOperatorTask, At,
     Proceed, CallLabels, Signing
<1>27. CASE DeleteInstance(q)
  BY <1>5, <1>27 DEF DeleteInstance, At, CallLabels, Signing
<1>28. CASE EvictNodeByTag(q)
  BY <1>5, <1>28 DEF EvictNodeByTag, At, CallLabels, Signing
<1>29. CASE RemovePoolInstance(q)
  BY <1>5, <1>29 DEF RemovePoolInstance, At, CallLabels, Signing
<1>30. CASE ResolveConnection(q)
  <2>1. c.at = "resolve" /\ c.op = "upgrade" /\ (Goto(q, "verify") \/ Goto(q, "refused")) /\ UNCHANGED keys
    BY <1>1, <1>30 DEF ResolveConnection, At, Proceed, CallFits
  <2>2. CallFits(On("verify"), kept')
    BY <1>1, <1>2, <2>1 DEF CallFits, Creating, Presenting, CallLabels, Signing
  <2>3. ~MayMake(On("verify"))
    BY <1>2, <2>1 DEF MayMake, CallLabels, Signing
  <2>4. QED
    BY <1>3, <1>4, <2>1, <2>2, <2>3 DEF CallLabels, Signing
<1>31. CASE AcceptWebSocket(q)
  BY <1>5, <1>31 DEF AcceptWebSocket, At, CallLabels, Signing
<1>32. CASE SocketCloses(q)
  BY <1>5, <1>32 DEF SocketCloses, At, CallLabels, Signing
<1>33. QED
  BY <1>7, <1>9, <1>10, <1>11, <1>12, <1>13, <1>15, <1>16, <1>17, <1>18, <1>19, <1>20, <1>21,
     <1>22, <1>23, <1>24, <1>25, <1>26, <1>27, <1>28, <1>29, <1>30, <1>31, <1>32 DEF EnrollStep

\* A step that only removes what no row needs any more, and brings in at most the
\* row of its own id, keeps the invariant.
LEMMA RowsMove ==
  ASSUME EnrollInv, EnrollTyped', CallsFit', NEW q \in EnrollCalls, CallMove(q), ~At(q, "created")',
         UNCHANGED registrations,
         \A i \in Makers : live(i)' => live(i) \/ (i = q /\ ~Made(q) /\ Made(q)'),
         \A i \in Makers : records'[i] = records[i] \/ (records'[i] = None /\ ~live(i)')
  PROVE  EnrollInv'
<1> USE EnrollmentAssumption
<1>1. /\ calls \in [EnrollCalls -> CallRecord] /\ calls' \in [EnrollCalls -> CallRecord]
      /\ \A p \in EnrollCalls : p # q => calls'[p] = calls[p]
  BY DEF EnrollInv, EnrollTyped, CallMove
<1>2. \A p \in Makers : Made(p) => Made(p)'
  BY <1>1 DEF Made, CallMove, Makers
<1>3. \A n \in Makers : Drawn(n) => Drawn(n)'
  BY <1>1 DEF Drawn, At, CallMove, Makers
<1>4. RowsMade'
  BY <1>2 DEF EnrollInv, RowsMade, Makers
<1>5. IdsMade'
  <2> SUFFICES ASSUME NEW p \in EnrollCalls, calls'[p].id # None PROVE Made(calls[p].id)'
    BY DEF IdsMade
  <2>1. PICK n \in Makers : n = calls'[p].id
    BY <1>1 DEF CallRecord
  <2>2. CASE n = calls[p].id
    <3>1. Made(n)
      BY <2>1, <2>2 DEF EnrollInv, IdsMade
    <3>2. Made(n)'
      BY <1>2, <3>1
    <3>3. QED
      BY <2>1, <3>2 DEF Made
  <2>3. CASE n # calls[p].id
    <3>1. p = q
      BY <1>1, <2>1, <2>3
    <3>2. CASE n = q /\ ~MayMake(calls'[q])
      BY <2>1, <3>2 DEF Made
    <3>3. CASE \E t \in Tags : rows[t] # None /\ n = rows[t].id
      <4>1. Made(n)
        BY <3>3 DEF EnrollInv, RowsMade, live
      <4>2. Made(n)'
        BY <1>2, <4>1
      <4>3. QED
        BY <2>1, <4>2 DEF Made
    <3>4. QED
      BY <2>1, <2>3, <3>1, <3>2, <3>3 DEF CallMove
  <2>4. QED
    BY <2>2, <2>3
<1>6. NoncesDrawn'
  <2> SUFFICES ASSUME NEW i \in Makers, records'[i] # None PROVE Drawn(records[i].nonce)'
    BY DEF NoncesDrawn
  <2>1. PICK n \in Makers : n = records[i].nonce /\ n = records'[i].nonce
    BY DEF EnrollInv, EnrollTyped, TokenRow
  <2>2. Drawn(n)
    BY <2>1 DEF EnrollInv, NoncesDrawn
  <2>3. Drawn(n)'
    BY <1>3, <2>2
  <2>4. QED
    BY <2>1, <2>3 DEF Drawn, At
<1>7. NoncesDiffer'
  BY DEF EnrollInv, NoncesDiffer
<1>8. SpentOnce'
  <2> SUFFICES ASSUME NEW n \in Makers, registrations[n] # 0
               PROVE  registrations[n] = 1 /\ Drawn(n)' /\ spendable(n)' = {}
    BY DEF SpentOnce
  <2>1. registrations[n] = 1 /\ Drawn(n) /\ spendable(n) = {}
    BY DEF EnrollInv, SpentOnce
  <2>2. spendable(n)' = {}
    BY <2>1 DEF spendable
  <2>3. QED
    BY <1>3, <2>1, <2>2
<1>9. CreationsKept'
  <2> SUFFICES ASSUME NEW p \in EnrollCalls, At(p, "created")', live(calls[p].id)'
               PROVE  records'[calls'[p].id] # None /\ records'[calls'[p].id].nonce = p
    BY DEF CreationsKept
  <2>1. p # q
    OBVIOUS
  <2>2. calls'[p] = calls[p] /\ At(p, "created") /\ calls[p].id \in Makers \cup {None}
    BY <1>1, <2>1 DEF At, CallRecord
  <2>3. calls[p].id # None
    <3>1. \A t \in Tags : rows'[t] # None => rows'[t].id \in Makers
      BY DEF EnrollTyped, RowRecord
    <3>2. QED
      BY <2>2, <3>1 DEF live
  <2>4. live(calls[p].id)
    <3>1. Made(calls[p].id)
      BY <2>3 DEF EnrollInv, IdsMade
    <3>2. live(calls[p].id) \/ (calls[p].id = q /\ ~Made(q))
      BY <2>2, <2>3
    <3>3. QED
      BY <3>1, <3>2
  <2>5. QED
    BY <2>2, <2>3, <2>4 DEF EnrollInv, CreationsKept
<1>10. QED
  BY <1>4, <1>5, <1>6, <1>7, <1>8, <1>9 DEF EnrollInv

\* Such a move keeps the calls typed and what each of them carries.
LEMMA CallsMove ==
  ASSUME EnrollTyped, CallsFit, kept => kept', NEW q \in EnrollCalls, CallMove(q)
  PROVE  calls' \in [EnrollCalls -> CallRecord] /\ CallsFit'
<1>1. calls \in [EnrollCalls -> CallRecord] /\ calls' = [calls EXCEPT ![q] = calls'[q]]
      /\ calls'[q] \in CallRecord
  BY DEF EnrollTyped, CallMove
<1>2. calls' \in [EnrollCalls -> CallRecord]
  BY ONLY <1>1
<1>3. ASSUME NEW p \in EnrollCalls PROVE CallFits(calls'[p], kept')
  <2>1. CASE p = q
    BY <2>1 DEF CallMove
  <2>2. CASE p # q
    <3>1. calls'[p] = calls[p] /\ CallFits(calls[p], kept)
      BY <1>1, <2>2 DEF CallsFit
    <3>2. QED
      BY <3>1 DEF CallFits
  <2>3. QED
    BY <2>1, <2>2
<1>4. QED
  BY <1>2, <1>3 DEF CallsFit

\* Tokens are given out only when there is a key pair.
LEMMA TokensTyped ==
  ASSUME EnrollTyped, CallsFit, kept => kept', NEW q \in EnrollCalls, NEW op, EnrollStep(q, op)
  PROVE  tokens' \subseteq TokenRecord /\ (tokens' # {} => kept')
<1> DEFINE c == calls[q]
<1>1. c \in CallRecord /\ CallFits(c, kept) /\ tokens \subseteq TokenRecord /\ (tokens # {} => kept)
  BY DEF EnrollTyped, CallsFit
<1>2. ASSUME NEW token \in TokenRecord, tokens' = tokens \cup {token}, kept
      PROVE  tokens' \subseteq TokenRecord /\ (tokens' # {} => kept')
  BY <1>1, <1>2
<1>3. CASE UNCHANGED tokens
  BY <1>1, <1>3
<1>4. CASE RotateBootstrapToken(q)
  <2>1. c.at = "signed" /\ c.op = "rotate"
    BY <1>4 DEF RotateBootstrapToken, At
  <2> DEFINE token == Token("bootstrap", c.tag, c.token.nonce, c.private, q)
  <2>2. tokens' = tokens \cup {token}
    BY <1>4 DEF RotateBootstrapToken, Answer
  <2>3. token \in TokenRecord /\ kept
    BY <1>1, <2>1 DEF CallFits, Presenting, Token, TokenRecord, Makers
  <2>4. QED
    BY <1>2, <2>2, <2>3
<1>5. CASE CreateNodeAccessToken(q)
  <2>1. c.at = "signed"
    BY <1>5 DEF CreateNodeAccessToken, At
  <2> DEFINE token == Token("node", c.tag, None, c.private, q)
  <2>2. tokens' = tokens \cup {token}
    BY <1>5 DEF CreateNodeAccessToken, Answer
  <2>3. token \in TokenRecord /\ kept
    BY <1>1, <2>1 DEF CallFits, Token, TokenRecord, Makers
  <2>4. QED
    BY <1>2, <2>2, <2>3
<1>6. CASE CreateBuildDroplet(q)
  <2>1. c.at = "droplet" /\ (UNCHANGED tokens \/ tokens' = tokens \cup {c.token})
    BY <1>6 DEF CreateBuildDroplet, At
  <2>2. c.token \in TokenRecord /\ kept
    BY <1>1, <2>1 DEF CallFits, Creating
  <2>3. QED
    BY <1>2, <1>3, <2>1, <2>2
<1>7. CASE RecordToken(q)
  <2>1. c.at = "record" /\ (UNCHANGED tokens \/ tokens' = tokens \cup {c.token})
    BY <1>7 DEF RecordToken, At
  <2>2. c.token \in TokenRecord /\ kept
    BY <1>1, <2>1 DEF CallFits, Creating
  <2>3. QED
    BY <1>2, <1>3, <2>1, <2>2
<1>8. QED
  BY <1>3, <1>4, <1>5, <1>6, <1>7, EnrollWrites

\* Deleting a row deletes the record of its token; what is left are the other rows.
LEMMA Deletion ==
  ASSUME EnrollTyped, NEW id, Delete(id)
  PROVE  /\ rows' \in [Tags -> RowRecord \cup {None}]
         /\ records' \in [Makers -> TokenRow \cup {None}]
         /\ \A i \in Makers : live(i)' => live(i)
         /\ \A i \in Makers : records'[i] = records[i] \/ (records'[i] = None /\ ~live(i)')
<1>1. /\ rows \in [Tags -> RowRecord \cup {None}] /\ records \in [Makers -> TokenRow \cup {None}]
      /\ rows' = [t \in Tags |-> IF rows[t] # None /\ rows[t].id = id THEN None ELSE rows[t]]
      /\ records' = [records EXCEPT ![id] = None]
  BY DEF EnrollTyped, Delete
<1>2. \A t \in Tags : rows'[t] # None => rows'[t] = rows[t] /\ rows[t].id # id
  BY <1>1
<1>3. \A i \in Makers : live(i)' => live(i) /\ i # id
  BY <1>2 DEF live
<1>4. QED
  BY <1>1, <1>3

\* Every step of every request keeps the invariant.
LEMMA EnrollSteps ==
  ASSUME EnrollInv, NEW q \in EnrollCalls, NEW op \in Operations \cup {None}, EnrollStep(q, op)
  PROVE  EnrollInv'
<1> USE EnrollmentAssumption
<1> DEFINE c == calls[q]
<1>1. EnrollTyped /\ CallsFit /\ c \in CallRecord /\ CallFits(c, kept) /\ q \in Makers
  BY DEF EnrollInv, EnrollTyped, CallsFit, Makers
<1>2. CallMove(q)
  BY CallSteps
<1>3. (kept => kept') /\ (kept' \/ keys' = None)
  BY <1>1, PairStays
<1>4. calls' \in [EnrollCalls -> CallRecord] /\ CallsFit'
  BY <1>1, <1>2, <1>3, CallsMove
<1>5. tokens' \subseteq TokenRecord /\ (tokens' # {} => kept')
  BY <1>1, <1>3, TokensTyped
<1>6. ASSUME rows' \in [Tags -> RowRecord \cup {None}], records' \in [Makers -> TokenRow \cup {None}],
             registrations' \in [Makers -> Nat]
      PROVE  EnrollTyped'
  BY <1>3, <1>4, <1>5, <1>6 DEF EnrollTyped
<1>7. ASSUME rows' \in [Tags -> RowRecord \cup {None}], records' \in [Makers -> TokenRow \cup {None}],
             UNCHANGED registrations, c.at # "record" \/ Goto(q, "refused"),
             \A i \in Makers : live(i)' => live(i) \/ (i = q /\ ~Made(q) /\ Made(q)'),
             \A i \in Makers : records'[i] = records[i] \/ (records'[i] = None /\ ~live(i)')
      PROVE  EnrollInv'
  <2>1. EnrollTyped'
    BY <1>1, <1>6, <1>7 DEF EnrollTyped
  <2>2. ~At(q, "created")'
    <3>1. CASE c.at # "record"
      BY <1>2, <3>1 DEF At, CallMove
    <3>2. CASE Goto(q, "refused")
      BY <1>1, <3>2 DEF At, Goto, EnrollTyped, CallRecord
    <3>3. QED
      BY <1>7, <3>1, <3>2
  <2>3. QED
    BY <1>2, <1>4, <1>7, <2>1, <2>2, RowsMove
<1>8. ASSUME rows' \in [Tags -> RowRecord \cup {None}],
             UNCHANGED <<records, registrations>>, c.at # "record" \/ Goto(q, "refused"),
             \A i \in Makers : live(i)' => live(i) \/ (i = q /\ ~Made(q) /\ Made(q)')
      PROVE  EnrollInv'
  BY <1>1, <1>7, <1>8 DEF EnrollTyped
<1>9. CASE UNCHANGED <<rows, records, registrations>> /\ (c.at # "record" \/ Goto(q, "refused"))
  <2>1. \A i \in Makers : live(i)' => live(i)
    BY <1>9 DEF live
  <2>2. QED
    BY <1>1, <1>8, <1>9, <2>1 DEF EnrollTyped
<1>10. CASE DeleteInstance(q)
  BY <1>1, <1>7, <1>10, Deletion DEF DeleteInstance, At, EnrollTyped
<1>11. CASE RemovePoolInstance(q)
  <2>1. c.at = "removePool" /\ (Delete(rowOf(q).id) \/ UNCHANGED <<rows, records>>) /\ UNCHANGED registrations
    BY <1>11 DEF RemovePoolInstance, At
  <2>2. CASE Delete(rowOf(q).id)
    BY <1>1, <1>7, <2>1, <2>2, Deletion DEF EnrollTyped
  <2>3. QED
    BY <1>9, <2>1, <2>2
<1>12. CASE UpdateCert(q)
  <2>1. /\ c.at = "update" /\ UNCHANGED <<records, registrations>>
        /\ rows' = [t \in Tags |-> IF rows[t] # None /\ rows[t].id = c.id
                                   THEN [rows[t] EXCEPT !.cert = q] ELSE rows[t]]
    BY <1>12 DEF UpdateCert, At
  <2>2. ASSUME NEW t \in Tags
        PROVE  /\ rows'[t] \in RowRecord \cup {None}
               /\ rows'[t] # None => rows[t] # None /\ rows'[t].id = rows[t].id
    <3>1. rows[t] \in RowRecord \cup {None}
      BY <1>1 DEF EnrollTyped
    <3>2. rows'[t] = IF rows[t] # None /\ rows[t].id = c.id
                     THEN [rows[t] EXCEPT !.cert = q] ELSE rows[t]
      BY <2>1
    <3>3. ASSUME NEW g \in RowRecord
          PROVE  [g EXCEPT !.cert = q] \in RowRecord /\ [g EXCEPT !.cert = q].id = g.id
      BY DEF RowRecord
    <3>4. QED
      BY <3>1, <3>2, <3>3
  <2>3. rows' \in [Tags -> RowRecord \cup {None}]
    BY <2>1, <2>2
  <2>4. \A i \in Makers : live(i)' => live(i)
    BY <2>2 DEF live
  <2>5. QED
    BY <1>8, <2>1, <2>3, <2>4

<1>13. CASE InsertInstance(q)
  <2>1. CASE rowOf(q) = None
    <3>1. PICK known \in BOOLEAN : rows' = [rows EXCEPT ![c.tag] = Row(q, c.owner, known)]
      BY <1>13, <2>1 DEF InsertInstance
    <3>2. /\ c.at = "insert" /\ c.op = "create" /\ c.tag \in Tags
          /\ UNCHANGED <<records, registrations>>
          /\ calls' = [calls EXCEPT ![q].at = "private", ![q].id = q]
      BY <1>1, <1>13, <2>1 DEF InsertInstance, At, CallFits
    <3>3. Row(q, c.owner, known) \in RowRecord /\ Row(q, c.owner, known).id = q
      BY <1>1 DEF Row, RowRecord, CallRecord
    <3>4. rows' \in [Tags -> RowRecord \cup {None}]
      BY <1>1, <3>1, <3>3 DEF EnrollTyped
    <3>5. calls'[q].at = "private" /\ calls'[q].op = "create"
      BY <1>1, <3>2 DEF EnrollTyped, CallRecord
    <3>6. ~Made(q) /\ Made(q)'
      BY <3>2, <3>5 DEF Made, MayMake
    <3>7. \A i \in Makers : live(i)' => live(i) \/ i = q
      BY <1>1, <3>1, <3>2, <3>3 DEF live, EnrollTyped
    <3>8. QED
      BY <1>8, <3>2, <3>4, <3>6, <3>7
  <2>2. CASE rowOf(q) # None
    BY <1>9, <1>13, <2>2 DEF InsertInstance, At
  <2>3. QED
    BY <2>1, <2>2
<1>14. CASE AddPoolInstance(q)
  <2> DEFINE row == IF rows[c.tag] = None THEN Row(q, None, c.op = "addPool")
                    ELSE [rows[c.tag] EXCEPT !.cert = None]
  <2>1. c.at = "addPool" /\ c.tag \in Tags /\ UNCHANGED <<records, registrations>>
    BY <1>1, <1>14 DEF AddPoolInstance, At, CallFits
  <2>2. rows' = [rows EXCEPT ![c.tag] = row]
    BY <1>1, <1>14, <2>1 DEF AddPoolInstance, EnrollTyped
  <2>3. /\ row \in RowRecord
        /\ row.id = IF rows[c.tag] = None THEN q ELSE rows[c.tag].id
    <3>1. rows[c.tag] \in RowRecord \cup {None}
      BY <1>1, <2>1 DEF EnrollTyped
    <3>2. /\ Row(q, None, c.op = "addPool") \in RowRecord
          /\ Row(q, None, c.op = "addPool").id = q
      BY <1>1 DEF Row, RowRecord
    <3>3. ASSUME NEW g \in RowRecord
          PROVE  [g EXCEPT !.cert = None] \in RowRecord /\ [g EXCEPT !.cert = None].id = g.id
      BY DEF RowRecord
    <3>4. QED
      BY <3>1, <3>2, <3>3
  <2> HIDE DEF row
  <2>4. rows' \in [Tags -> RowRecord \cup {None}]
    BY <1>1, <2>2, <2>3 DEF EnrollTyped
  <2>5. ~Made(q)
    BY <2>1 DEF Made, MayMake
  <2>6. Made(q)'
    <3>1. calls' = [calls EXCEPT ![q].id = rows'[c.tag].id,
                      ![q].at = IF c.op = "spawn" THEN "record" ELSE "answered"]
      BY <1>14 DEF AddPoolInstance
    <3>2. calls'[q].at \in {"record", "answered"}
      BY <1>1, <3>1 DEF EnrollTyped, CallRecord
    <3>3. QED
      BY <3>2 DEF Made, MayMake, Signing
  <2>7. \A i \in Makers : live(i)' => live(i) \/ i = q
    BY <1>1, <2>1, <2>2, <2>3 DEF live, EnrollTyped
  <2>8. QED
    BY <1>8, <2>1, <2>4, <2>5, <2>6, <2>7
<1>15. CASE RecordToken(q)
  <2> DEFINE id == IF c.op = "vm" THEN q ELSE c.id
  <2>1. CASE ~recordable(id)
    BY <1>9, <1>15, <2>1 DEF RecordToken, At, Proceed
  <2>2. CASE recordable(id)
    <3> DEFINE record == [nonce |-> q, used |-> FALSE]
    <3>1. /\ c.at = "record" /\ UNCHANGED <<rows, registrations>>
          /\ Goto(q, "created")
          /\ records' = [records EXCEPT ![id] = record]
      BY <1>15, <2>2 DEF RecordToken, At, Proceed
    <3>2. record \in TokenRow /\ record.nonce = q /\ record # None
      <4>1. record \in TokenRow /\ record.nonce = q
        BY <1>1 DEF TokenRow
      <4>2. None \notin TokenRow
        BY DEF TokenRow
      <4>3. QED
        BY <4>1, <4>2
    <3> HIDE DEF record
    <3>3. id \in Makers /\ records[id] = None /\ live(id)
      <4>1. \A t \in Tags : rows[t] # None => rows[t].id \in Makers
        BY <1>1 DEF EnrollTyped, RowRecord
      <4>2. QED
        BY <2>2, <4>1 DEF recordable, live
    <3>4. /\ records' \in [Makers -> TokenRow \cup {None}] /\ records'[id] = record
          /\ \A i \in Makers : i # id => records'[i] = records[i]
      BY <1>1, <3>1, <3>2, <3>3 DEF EnrollTyped
    <3>5. /\ calls'[q].at = "created" /\ calls'[q].id = c.id
          /\ \A p \in EnrollCalls : p # q => calls'[p] = calls[p]
      BY <1>1, <3>1 DEF EnrollTyped, CallRecord, Goto
    <3>6. \A i \in Makers : live(i)' <=> live(i)
      BY <3>1 DEF live
    <3>7. \A n \in Makers : Drawn(n) => Drawn(n)'
      BY <3>5 DEF Drawn, At, Makers
    <3>8. ~Drawn(q) /\ Drawn(q)'
      BY <3>1, <3>5 DEF Drawn, At
    <3>9. \A p \in Makers : Made(p) => Made(p)'
      BY <1>2, <3>5 DEF Made, CallMove, Makers
    <3>10. EnrollTyped'
      BY <1>1, <1>6, <3>1, <3>4 DEF EnrollTyped
    <3>11. RowsMade'
      BY <3>6, <3>9 DEF EnrollInv, RowsMade
    <3>12. IdsMade'
      <4> SUFFICES ASSUME NEW p \in EnrollCalls, calls'[p].id # None PROVE Made(calls[p].id)'
        BY DEF IdsMade
      <4>1. PICK n \in Makers : n = calls'[p].id /\ n = calls[p].id
        BY <1>1, <3>5 DEF EnrollTyped, CallRecord
      <4>2. Made(n)
        BY <4>1 DEF EnrollInv, IdsMade
      <4>3. Made(n)'
        BY <3>9, <4>2
      <4>4. QED
        BY <4>1, <4>3 DEF Made
    <3>13. ASSUME NEW i \in Makers, records[i] # None
           PROVE  /\ records[i].nonce \in Makers /\ records[i].nonce # q
                  /\ Drawn(records[i].nonce) /\ i # id /\ records'[i] = records[i]
      <4>1. records[i].nonce \in Makers
        BY <1>1, <3>13 DEF EnrollTyped, TokenRow
      <4>2. PICK n \in Makers : n = records[i].nonce
        BY <4>1
      <4>3. Drawn(records[i].nonce)
        BY <3>13 DEF EnrollInv, NoncesDrawn
      <4>4. Drawn(n)
        BY <4>2, <4>3
      <4>5. n # q
        BY <3>8, <4>4
      <4>6. QED
        BY <3>3, <3>4, <3>13, <4>1, <4>2, <4>3, <4>5
    <3>14. NoncesDrawn'
      <4> SUFFICES ASSUME NEW i \in Makers, records'[i] # None PROVE Drawn(records[i].nonce)'
        BY DEF NoncesDrawn
      <4>1. CASE i = id
        BY <3>2, <3>4, <3>8, <4>1 DEF Drawn, At
      <4>2. CASE i # id
        <5>1. PICK n \in Makers : n = records[i].nonce /\ n = records'[i].nonce /\ Drawn(n)
          BY <3>4, <3>13, <4>2
        <5>2. Drawn(n)'
          BY <3>7, <5>1
        <5>3. QED
          BY <5>1, <5>2 DEF Drawn, At
      <4>3. QED
        BY <4>1, <4>2
    <3>15. NoncesDiffer'
      <4> SUFFICES ASSUME NEW i \in Makers, NEW j \in Makers, records'[i] # None,
                          records'[j] # None, records'[i].nonce = records'[j].nonce
                   PROVE  i = j
        BY DEF NoncesDiffer
      <4>1. CASE i # id /\ j # id
        BY <3>4, <4>1 DEF EnrollInv, NoncesDiffer
      <4>2. CASE i = id \/ j = id
        BY <3>2, <3>4, <3>13, <4>2
      <4>3. QED
        BY <4>1, <4>2
    <3>16. SpentOnce'
      <4> SUFFICES ASSUME NEW n \in Makers, registrations[n] # 0
                   PROVE  registrations[n] = 1 /\ Drawn(n)' /\ spendable(n)' = {}
        BY <3>1 DEF SpentOnce
      <4>1. registrations[n] = 1 /\ Drawn(n) /\ spendable(n) = {}
        BY DEF EnrollInv, SpentOnce
      <4>2. n # q
        BY <3>8, <4>1
      <4>3. spendable(n)' = {}
        BY <3>2, <3>4, <4>1, <4>2 DEF spendable
      <4>4. QED
        BY <3>7, <4>1, <4>3
    <3>17. CreationsKept'
      <4> SUFFICES ASSUME NEW p \in EnrollCalls, At(p, "created")', live(calls[p].id)'
                   PROVE  records'[calls'[p].id] # None /\ records'[calls'[p].id].nonce = p
        BY DEF CreationsKept
      <4>1. \A t \in Tags : rows[t] # None => rows[t].id \in Makers
        BY <1>1 DEF EnrollTyped, RowRecord
      <4>2. calls'[p].id \in Makers
        BY <3>1, <4>1 DEF live
      <4>3. CASE p = q
        <5>1. c.op # "vm" => id = c.id
          OBVIOUS
        <5>2. CASE c.op # "vm"
          BY <3>2, <3>4, <3>5, <4>3, <5>1, <5>2
        <5>3. CASE c.op = "vm"
          BY <1>1, <3>1, <3>5, <4>2, <4>3, <5>3 DEF CallFits
        <5>4. QED
          BY <5>2, <5>3
      <4>4. CASE p # q
        <5>1. At(p, "created") /\ calls'[p].id = calls[p].id
          BY <3>5, <4>4 DEF At
        <5>2. live(calls[p].id)
          BY <3>1, <5>1 DEF live
        <5>3. records[calls[p].id] # None /\ records[calls[p].id].nonce = p
          BY <5>1, <5>2 DEF EnrollInv, CreationsKept
        <5>4. QED
          BY <3>13, <4>2, <5>1, <5>3
      <4>5. QED
        BY <4>3, <4>4
    <3>18. QED
      BY <1>4, <3>10, <3>11, <3>12, <3>14, <3>15, <3>16, <3>17 DEF EnrollInv
  <2>3. QED
    BY <2>1, <2>2
<1>16. CASE MarkUsed(q)
  <2> DEFINE nonce == c.token.nonce
             used == spendable(nonce)
  <2>1. /\ c.at = "markUsed" /\ UNCHANGED rows
        /\ Goto(q, IF used # {} THEN "saveDomain" ELSE "refused")
        /\ records' = [i \in Makers |-> IF i \in used THEN [records[i] EXCEPT !.used = TRUE]
                                        ELSE records[i]]
        /\ registrations' = [registrations EXCEPT ![nonce] = IF used # {} THEN @ + 1 ELSE @]
    BY <1>16 DEF MarkUsed, At, Proceed
  <2>2. /\ calls'[q].at \in {"saveDomain", "refused"} /\ calls'[q].id = c.id
        /\ \A p \in EnrollCalls : p # q => calls'[p] = calls[p]
    BY <1>1, <2>1 DEF EnrollTyped, CallRecord, Goto
  <2>3. ASSUME NEW i \in Makers
        PROVE  /\ records'[i] \in TokenRow \cup {None}
               /\ records'[i] = None <=> records[i] = None
               /\ records[i] # None => /\ records'[i].nonce = records[i].nonce
                                       /\ records'[i].used = (records[i].used \/ i \in used)
    <3>1. records[i] \in TokenRow \cup {None} /\ None \notin TokenRow
      BY <1>1 DEF EnrollTyped, TokenRow
    <3>2. records'[i] = IF i \in used THEN [records[i] EXCEPT !.used = TRUE] ELSE records[i]
      BY <2>1
    <3>3. ASSUME NEW g \in TokenRow
          PROVE  /\ [g EXCEPT !.used = TRUE] \in TokenRow
                 /\ [g EXCEPT !.used = TRUE].nonce = g.nonce /\ [g EXCEPT !.used = TRUE].used
                 /\ g.used \in BOOLEAN
      BY DEF TokenRow
    <3>4. i \in used => records[i] # None
      BY DEF spendable
    <3> HIDE DEF used
    <3>5. CASE i \in used
      <4>1. records[i] \in TokenRow /\ records'[i] = [records[i] EXCEPT !.used = TRUE]
        BY <3>1, <3>2, <3>4, <3>5
      <4>2. records'[i] \in TokenRow /\ records'[i].nonce = records[i].nonce /\ records'[i].used
        BY <3>3, <4>1
      <4>3. records'[i] # None /\ records[i] # None
        BY <3>1, <4>1, <4>2
      <4>4. records'[i].used \in BOOLEAN
        BY <4>2 DEF TokenRow
      <4>5. QED
        BY <3>5, <4>1, <4>2, <4>3, <4>4
    <3>6. CASE i \notin used
      BY <3>1, <3>2, <3>3, <3>6
    <3>7. QED
      BY <3>5, <3>6
  <2> HIDE DEF used
  <2>4. /\ registrations \in [Makers -> Nat] /\ registrations' \in [Makers -> Nat]
        /\ \A n \in Makers : registrations'[n] = IF n = nonce /\ used # {} THEN registrations[n] + 1
                                                 ELSE registrations[n]
    <3> DEFINE n0 == nonce
    <3>1. /\ registrations \in [Makers -> Nat]
          /\ registrations' = [registrations EXCEPT ![n0] = IF used # {} THEN @ + 1 ELSE @]
      BY <1>1, <2>1 DEF EnrollTyped
    <3> HIDE DEF n0
    <3>2. CASE used = {}
      BY <3>1, <3>2
    <3>3. CASE used # {}
      <4>1. registrations' = [registrations EXCEPT ![n0] = @ + 1]
        BY <3>1, <3>3
      <4>4. n0 \in Makers
        <5>1. PICK i \in Makers : records[i] # None /\ records[i].nonce = n0
          BY <3>3 DEF used, spendable, n0
        <5>2. QED
          BY <1>1, <5>1 DEF EnrollTyped, TokenRow
      <4>2. /\ registrations' \in [Makers -> Nat]
            /\ \A n \in Makers :
                 registrations'[n] = IF n = n0 THEN registrations[n] + 1 ELSE registrations[n]
        BY <3>1, <4>1, <4>4
      <4>3. QED
        BY <3>1, <3>3, <4>2 DEF n0
    <3>4. QED
      BY <3>2, <3>3
  <2>5. EnrollTyped'
    <3>1. records' \in [Makers -> TokenRow \cup {None}]
      BY <2>1, <2>3
    <3>2. QED
      BY <1>1, <1>6, <2>1, <2>4, <3>1 DEF EnrollTyped
  <2>6. \A p \in Makers : /\ Made(p) => Made(p)'
                          /\ Drawn(p) => Drawn(p)'
    BY <1>2, <2>1, <2>2 DEF Made, Drawn, At, CallMove, Makers
  <2>7. RowsMade'
    BY <2>1, <2>6 DEF EnrollInv, RowsMade, live
  <2>8. IdsMade'
    <3> SUFFICES ASSUME NEW p \in EnrollCalls, calls'[p].id # None PROVE Made(calls[p].id)'
      BY DEF IdsMade
    <3>1. PICK n \in Makers : n = calls'[p].id /\ n = calls[p].id
      BY <1>1, <2>2 DEF EnrollTyped, CallRecord
    <3>2. Made(n)'
      BY <2>6, <3>1 DEF EnrollInv, IdsMade
    <3>3. QED
      BY <3>1, <3>2 DEF Made
  <2>9. NoncesDrawn'
    <3> SUFFICES ASSUME NEW i \in Makers, records'[i] # None PROVE Drawn(records[i].nonce)'
      BY DEF NoncesDrawn
    <3>1. PICK n \in Makers : n = records[i].nonce /\ n = records'[i].nonce
      BY <1>1, <2>3 DEF EnrollTyped, TokenRow
    <3>2. Drawn(n)'
      BY <2>3, <2>6, <3>1 DEF EnrollInv, NoncesDrawn
    <3>3. QED
      BY <3>1, <3>2 DEF Drawn, At
  <2>10. NoncesDiffer'
    BY <2>3 DEF EnrollInv, NoncesDiffer
  <2>11. SpentOnce'
    <3> SUFFICES ASSUME NEW n \in Makers, registrations'[n] # 0
                 PROVE  registrations'[n] = 1 /\ Drawn(n)' /\ spendable(n)' = {}
      BY DEF SpentOnce
    <3>1. spendable(n)' \subseteq spendable(n)
      BY <2>3 DEF spendable
    <3>2. CASE n = nonce /\ used # {}
      <4>1. PICK i \in Makers : records[i] # None /\ records[i].nonce = n
        BY <3>2 DEF used, spendable
      <4>2. Drawn(n)
        BY <4>1 DEF EnrollInv, NoncesDrawn
      <4>3. registrations[n] = 0
        BY <3>2 DEF used, EnrollInv, SpentOnce
      <4>4. spendable(n)' = {}
        BY <2>3, <3>2 DEF used, spendable
      <4>5. QED
        BY <2>4, <2>6, <3>2, <4>2, <4>3, <4>4
    <3>3. CASE ~(n = nonce /\ used # {})
      <4>1. registrations'[n] = registrations[n]
        BY <2>4, <3>3
      <4>2. registrations[n] = 1 /\ Drawn(n) /\ spendable(n) = {}
        BY <4>1 DEF EnrollInv, SpentOnce
      <4>3. QED
        BY <2>6, <3>1, <4>1, <4>2
    <3>4. QED
      BY <3>2, <3>3
  <2>12. CreationsKept'
    <3> SUFFICES ASSUME NEW p \in EnrollCalls, At(p, "created")', live(calls[p].id)'
                 PROVE  records'[calls'[p].id] # None /\ records'[calls'[p].id].nonce = p
      BY DEF CreationsKept
    <3>1. p # q /\ calls'[p] = calls[p]
      BY <2>2 DEF At
    <3>2. At(p, "created") /\ live(calls[p].id)
      BY <2>1, <3>1 DEF At, live
    <3>3. calls[p].id \in Makers
      <4>1. \A t \in Tags : rows[t] # None => rows[t].id \in Makers
        BY <1>1 DEF EnrollTyped, RowRecord
      <4>2. QED
        BY <3>2, <4>1 DEF live
    <3>4. QED
      BY <2>3, <3>1, <3>2, <3>3 DEF EnrollInv, CreationsKept
  <2>13. QED
    BY <1>4, <2>5, <2>7, <2>8, <2>9, <2>10, <2>11, <2>12 DEF EnrollInv
<1>17. CASE UNCHANGED <<rows, records, registrations>>
  <2>1. CASE RecordToken(q)
    BY <1>15, <2>1
  <2>2. CASE ~RecordToken(q)
    <3>1. c.at # "record"
      BY <2>2, EnrollWrites
    <3>2. QED
      BY <1>9, <1>17, <3>1
  <2>3. QED
    BY <2>1, <2>2
<1>20. QED
  BY <1>10, <1>11, <1>12, <1>13, <1>14, <1>15, <1>16, <1>17, EnrollWrites

\* It holds in the beginning, whatever was there.
LEMMA EnrollBegins ==
  ASSUME NEW begin \in Beginnings, EnrollInit(begin)
  PROVE  EnrollInv
<1> USE EnrollmentAssumption
<1>1. PICK first \in Tags :
        /\ rows = [t \in Tags |-> IF begin = "enrolled" /\ t = first
                                 THEN Row(First, None, TRUE) ELSE None]
        /\ tokens = IF begin = "enrolled"
                    THEN {Token("bootstrap", first, First, First, First)} ELSE {}
  BY DEF EnrollInit
<1>2. /\ calls = [q \in EnrollCalls |-> Call(None, "new", None, None, None)]
      /\ registrations = [n \in Makers |-> 0]
      /\ keys = IF begin = "fresh" THEN None ELSE Installed
      /\ records = [i \in Makers |-> IF begin = "enrolled" /\ i = First
                                     THEN [nonce |-> First, used |-> FALSE] ELSE None]
  BY DEF EnrollInit
<1>3. /\ First \in Makers /\ Installed \in KeyRecord
      /\ Row(First, None, TRUE) \in RowRecord /\ Row(First, None, TRUE).id = First
      /\ Token("bootstrap", first, First, First, First) \in TokenRecord
      /\ [nonce |-> First, used |-> FALSE] \in TokenRow
  BY DEF Makers, Installed, KeyRecord, Row, RowRecord, Token, TokenRecord, TokenRow
<1>4. kept \/ (keys = None /\ begin = "fresh")
  BY <1>2, <1>3 DEF kept
<1>5. Call(None, "new", None, None, None) \in CallRecord
  BY DEF Call, CallRecord, CallLabels
<1>6. EnrollTyped
  <2>1. rows \in [Tags -> RowRecord \cup {None}]
    BY <1>1, <1>3
  <2>2. records \in [Makers -> TokenRow \cup {None}]
    BY <1>2, <1>3
  <2>3. tokens \subseteq TokenRecord /\ (tokens # {} => kept)
    BY <1>1, <1>3, <1>4
  <2>4. calls \in [EnrollCalls -> CallRecord] /\ registrations \in [Makers -> Nat]
    BY <1>2, <1>5
  <2>5. QED
    BY <1>4, <2>1, <2>2, <2>3, <2>4 DEF EnrollTyped
<1>7. \A q \in EnrollCalls : /\ calls[q].at = "new" /\ calls[q].op = None
                             /\ calls[q].id = None
  BY <1>2 DEF Call
<1>8. CallsFit
  BY <1>7 DEF CallsFit, CallFits
<1>9. \A i \in Makers : live(i) => i = First
  BY <1>1, <1>3 DEF live
<1>10. RowsMade /\ IdsMade
  BY <1>7, <1>9 DEF RowsMade, IdsMade, Made
<1>11. \A i \in Makers : records[i] # None => i = First /\ records[i].nonce = First
  BY <1>2
<1>12. NoncesDrawn /\ NoncesDiffer
  BY <1>11 DEF NoncesDrawn, NoncesDiffer, Drawn
<1>13. SpentOnce
  BY <1>2 DEF SpentOnce
<1>14. CreationsKept
  BY <1>7 DEF CreationsKept, At
<1>15. QED
  BY <1>6, <1>8, <1>10, <1>12, <1>13, <1>14 DEF EnrollInv

\* What the rest of the system does leaves the enrollment alone.
LEMMA EnrollRests ==
  ASSUME EnrollInv, UNCHANGED enrollVars
  PROVE  EnrollInv'
<1> USE DEF enrollVars
<1>1. EnrollTyped'
  BY DEF EnrollInv, EnrollTyped, kept
<1>2. CallsFit'
  BY DEF EnrollInv, CallsFit, kept
<1>3. RowsMade' /\ IdsMade' /\ NoncesDrawn'
  BY DEF EnrollInv, RowsMade, IdsMade, NoncesDrawn, live, Made, Drawn, At
<1>4. NoncesDiffer' /\ SpentOnce' /\ CreationsKept'
  BY DEF EnrollInv, NoncesDiffer, SpentOnce, CreationsKept, live, Drawn, At, spendable
<1>5. QED
  BY <1>1, <1>2, <1>3, <1>4 DEF EnrollInv

\* A token that expires changes no row, record or call.
LEMMA Expirations ==
  ASSUME EnrollInv, EnrollEvent
  PROVE  EnrollInv'
<1>1. UNCHANGED <<keys, rows, records, tokens, calls, registrations>>
  BY DEF EnrollEvent, Expire
<1>2. EnrollTyped'
  BY <1>1 DEF EnrollInv, EnrollTyped, kept
<1>3. CallsFit'
  BY <1>1 DEF EnrollInv, CallsFit, kept
<1>4. RowsMade' /\ IdsMade' /\ NoncesDrawn'
  BY <1>1 DEF EnrollInv, RowsMade, IdsMade, NoncesDrawn, live, Made, Drawn, At
<1>5. NoncesDiffer' /\ SpentOnce' /\ CreationsKept'
  BY <1>1 DEF EnrollInv, NoncesDiffer, SpentOnce, CreationsKept, live, Drawn, At, spendable
<1>6. QED
  BY <1>2, <1>3, <1>4, <1>5 DEF EnrollInv

\* Every step of the composition keeps it.
LEMMA EnrollmentStays ==
  ASSUME EnrollInv, scenario \in Scenarios, [Next]_vars
  PROVE  EnrollInv' /\ scenario' \in Scenarios
<1>1. scenario' = scenario
  BY DEF Next, vars
<1>2. CASE UNCHANGED enrollVars
  BY <1>1, <1>2, EnrollRests
<1>3. CASE Enrollment
  <2>1. CASE EnrollEvent
    BY <1>1, <2>1, Expirations
  <2>2. ASSUME NEW q \in EnrollCalls, EnrollStep(q, scenario.enroll[q])
        PROVE  EnrollInv'
    <3>1. scenario.enroll \in [EnrollCalls -> Operations \cup {None}]
      BY ScenariosAssumption
    <3>2. scenario.enroll[q] \in Operations \cup {None}
      BY <3>1
    <3>3. QED
      BY <2>2, <3>2, EnrollSteps
  <2>3. QED
    BY <1>1, <1>3, <2>1, <2>2 DEF Enrollment
<1>4. QED
  BY <1>2, <1>3 DEF Next, vars

\* Ids and nonces are drawn once: a row, a call or a record bears only an id or a
\* nonce whose maker will not make it again, and a spent nonce has no record left
\* to spend.
THEOREM EnrollInvariant == Spec => []EnrollInv
<1>1. Init => EnrollInv /\ scenario \in Scenarios
  <2> SUFFICES ASSUME Init PROVE EnrollInv /\ scenario \in Scenarios
    OBVIOUS
  <2>1. scenario \in Scenarios /\ EnrollInit(scenario.begin)
    BY DEF Init
  <2>2. scenario.begin \in Beginnings
    BY <2>1, ScenariosAssumption
  <2>3. QED
    BY <2>1, <2>2, EnrollBegins
<1>2. EnrollInv /\ scenario \in Scenarios /\ [Next]_vars
        => (EnrollInv /\ scenario \in Scenarios)'
  BY EnrollmentStays
<1>3. QED
  BY <1>1, <1>2, PTL DEF Spec

\* However creations, rotations, registrations and deletions of instances of the
\* same tag interleave (services/auth/jwt.ts, routes/domains.ts), a creation that
\* answered has its record as long as it has its row, and a nonce registers once.
THEOREM EnrolledOnce == Spec => []TokensEnrollOnce
<1>1. EnrollInv => TokensEnrollOnce
  <2> SUFFICES ASSUME EnrollInv PROVE TokensEnrollOnce
    OBVIOUS
  <2>1. \A n \in Makers : registrations[n] <= 1
    BY DEF EnrollInv, SpentOnce
  <2>2. QED
    BY <2>1 DEF EnrollInv, CreationsKept, TokensEnrollOnce
<1>2. QED
  BY <1>1, EnrollInvariant, PTL
=============================================================================
