SPECIFICATION Spec
CONSTANTS
  a = a
  b = b
  Clusters = {a, b}
  web = web
  api = api
  Names = {web, api}
  ServiceIds = {s1, s2}
  DepIds = {d1, d2, d3}
  Requests = {r1, r2}
  ServiceLimit <- Limits
  Hobby = {a}
  Pro = {b}
  Domains = {shop}
  DomainTokens = {k1, k2}
  DomainLimit = 1
  Mixes <- AllMixes
  None = none
INVARIANTS
  DeploymentSettingsAreOwn
CHECK_DEADLOCK FALSE
