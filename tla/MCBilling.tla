----------------------------- MODULE MCBilling ------------------------------
(* Instances of Billing for TLC. *)
EXTENDS Billing, TLC

CONSTANTS a, b, s1, s2, s3

BuyerOf == [s \in Subs |-> IF s = s3 THEN b ELSE a]
Room == [t \in Tiers |-> 1]
Mix(ofA, ofB, late, hooks, doctor) ==
  [events |-> [c \in Clusters |-> IF c = a THEN ofA ELSE ofB],
   repeats |-> late, hooks |-> hooks, doctor |-> doctor]
AllMixes ==
  { Mix(5, 0, 0, 1, FALSE),
    Mix(3, 0, 0, 1, TRUE),
    Mix(3, 0, 1, 2, FALSE),
    Mix(2, 2, 0, 2, FALSE),
    Mix(2, 1, 0, 1, TRUE) }
Alike == Permutations(Hooks)
=============================================================================
