----------------------------- MODULE MCServices -----------------------------
(* Instances of Services for TLC. *)
EXTENDS Services, TLC

CONSTANTS a, b, web, api

\* The operations that race with each other, a few at a time.
Mix(ops, names) == [ops |-> ops, names |-> names]
AllMixes ==
  { Mix({"create"}, {web, api}),
    Mix({"create", "finish"}, {web}),
    Mix({"finish", "removeDeployment"}, {web}),
    Mix({"create", "report"}, {web}),
    Mix({"report", "removeDeployment", "finish"}, {web}),
    Mix({"finish"}, {web, api}),
    Mix({"iceJob", "removeDeployment", "report"}, {web}),
    Mix({"create", "patch", "delete"}, {web}),
    Mix({"finish", "patch"}, {web}),
    Mix({"finish", "delete"}, {web}),
    Mix({"supervise", "delete"}, {web}),
    Mix({"supervise", "create"}, {web}),
    Mix({"supervise", "stop", "start", "nodeLost", "crash"}, {web}),
    Mix({"supervise", "status", "sleepJob"}, {web}),
    Mix({"iceJob", "create", "delete"}, {web}),
    Mix({"watch", "delete"}, {web}),
    Mix({"addDomain", "verifyDomain", "verifyJob", "removeDomain"}, {web}),
    Mix({"addDomain", "verifyJob", "delete"}, {web}) }
\* The watchdogs of two clusters alone.
WatchMixes == { Mix({"watch"}, {web}) }
Alike == Permutations(Requests) \cup Permutations(ServiceIds) \cup Permutations(DepIds)
           \cup Permutations(DomainTokens)
Limits == [c \in Clusters |-> 1]
=============================================================================
