SPECIFICATION FairSpec
CONSTANTS
  a = a
  b = b
  c1 = c1
  c2 = c2
  u1 = u1
  u2 = u2
  x1 = x1
  x2 = x2
  q1 = q1
  q2 = q2
  q3 = q3
  q4 = q4
  Clusters = {a, b}
  Clients = {c1, c2}
  Of <- ClientsOf
  Names = {web}
  Updates = {u1, u2}
  Heartbeats = {h1}
  NodeSockets = {x1, x2}
  Sessions = {s1, s2}
  MaxDeploys = 2
  Tags = {t1}
  Owners = {o1}
  EnrollCalls = {q1, q2, q3, q4}
  First = first
  Scenarios <- AllScenarios
  None = none
INVARIANTS
  ShownWasOwned
  MappedIsLive
  TokensEnrollOnce
PROPERTIES
  LifeOfTerminals
CHECK_DEADLOCK FALSE
