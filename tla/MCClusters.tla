----------------------------- MODULE MCClusters -----------------------------
(* Instances of ClusterIntegrations, and with it of Clusters, for TLC. *)
EXTENDS ClusterIntegrations, TLC

CONSTANTS a, b, e1, w1, t1

\* The operations that race with each other, a few at a time.
Mix(ops, ids) == [ops |-> ops, ids |-> ids]
AllMixes ==
  { Mix({"transferOwner", "removeUsers"}, {a}),
    Mix({"transferOwner", "updateRoles"}, {a}),
    Mix({"rename", "removeUsers"}, {a}),
    Mix({"signIn", "removeUsers"}, {a, b}),
    Mix({"addUsers", "removeUsers"}, {a}),
    Mix({"addUsers", "accept", "decline", "updateRoles"}, {a}),
    Mix({"setup", "events", "notify"}, {a}),
    Mix({"notify", "transferOwner"}, {a}),
    Mix({"signIn", "install", "callback"}, {a, b}) }

\* A chat channel that is switched on and off, a remote, and the mail channel,
\* which is on at the start, being switched off.
Setup(key, address, enabled, events) ==
  [key |-> key, address |-> address, enabled |-> enabled, events |-> events]
SomeSetups ==
  { Setup("discord", w1, TRUE, None), Setup("discord", w1, FALSE, {}),
    Setup("emailNotification", None, FALSE, None), Setup("gitLab", t1, TRUE, None) }
SomeChanges ==
  { [integration |-> i, events |-> es] : i \in {"discord", "webhook", "email"}, es \in {{}} }
Alike == Permutations(Requests)
=============================================================================
