--------------------------- MODULE MCInstancePool ---------------------------
(* Instances of InstancePool for TLC. *)
EXTENDS InstancePool

CONSTANTS i1, i2, j1, c1, c2

\* A hobby cluster, and a pro cluster that is still on a pool instance.
HobbyAndPro == [c \in Clusters |-> IF c = c2 THEN "pro" ELSE "hobby"]
AllHobby    == [c \in Clusters |-> "hobby"]
ProTags     == [i \in Instances |-> IF i = j1 THEN "pro" ELSE "hobby"]
Room        == [i \in Instances |-> 1]
ProOnFirst  == [c \in Clusters |-> IF c = c2 THEN i1 ELSE NoInstance]
HobbyOnFirst == [c \in Clusters |-> IF c = c1 THEN i1 ELSE NoInstance]
=============================================================================
