---------------------------- MODULE TerminalLife ----------------------------
(***************************************************************************)
(* What the terminal manager promises of a terminal session, without its   *)
(* maps and sockets: an id that was handed out is waited for, relays once, *)
(* and when it is over it stays over. The wait always ends.                *)
(***************************************************************************)
CONSTANT Sessions

VARIABLE life   (* per session: "fresh", "awaited", "relaying" or "over"    *)

Init == life = [s \in Sessions |-> "fresh"]

Moves(s, from, to) == life[s] = from /\ life' = [life EXCEPT ![s] = to]

Await(s)   == Moves(s, "fresh", "awaited")
Connect(s) == Moves(s, "awaited", "relaying")
GiveUp(s)  == Moves(s, "awaited", "over")
End(s)     == Moves(s, "relaying", "over")
\* The process ends, or gives up on everything it serves.
EndAll == life' = [s \in Sessions |-> IF life[s] = "fresh" THEN "fresh" ELSE "over"]

Next == EndAll \/ \E s \in Sessions : Await(s) \/ Connect(s) \/ GiveUp(s) \/ End(s)

Spec == Init /\ [][Next]_life
FairSpec == Spec /\ \A s \in Sessions : WF_life(Connect(s) \/ GiveUp(s))
=============================================================================
