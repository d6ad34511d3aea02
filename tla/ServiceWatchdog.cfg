SPECIFICATION Spec
CONSTANTS
  a = a
  b = b
  Clusters = {a, b}
  web = web
  api = api
  Names = {web, api}
  ServiceIds = {s1, s2}
  DepIds = {d1, d2, d3}
  Requests = {r1, r2}
  ServiceLimit <- Limits
  Hobby = {}
  Pro = {a, b}
  Domains = {shop}
  DomainTokens = {k1, k2}
  DomainLimit = 1
  Mixes <- WatchMixes
  None = none
INVARIANTS
  AlertedOncePerCooldown
CHECK_DEADLOCK FALSE
