SPECIFICATION Spec
CONSTANTS
  i1 = i1
  i2 = i2
  j1 = j1
  c1 = c1
  c2 = c2
  Instances = {i1, j1}
  Clusters = {c1, c2}
  Plan <- HobbyAndPro
  Tier <- ProTags
  Capacity <- Room
  Logins = {l1}
  Syncs = {s1}
  Drains = {d1}
  Initial = {i1}
  Placement <- ProOnFirst
  Ailing = {i1}
  NoInstance = noInstance
  NoCluster = noCluster
  Quota = 2
  Faults = {"nodeDown"}
INVARIANTS
  AssignedIsPool
  ProvisioningIsExclusive
