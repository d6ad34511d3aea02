-------------------------- MODULE MCBuildDispatch --------------------------
(* Instances of BuildDispatch for TLC. *)
EXTENDS BuildDispatch, TLC

CONSTANTS b1, b2

TwoBuilds == {b1, b2}

MixedTier == [b \in Builds |-> IF b = b2 THEN "pro" ELSE "hobby"]
OneSlot == [n \in BuildNodes |-> 1]
HandlerSymmetry == Permutations(Handlers)
============================================================================
