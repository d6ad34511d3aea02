SPECIFICATION Spec
CONSTANTS
  i1 = i1
  i2 = i2
  j1 = j1
  c1 = c1
  c2 = c2
  Instances = {i1, i2}
  Clusters = {c1, c2}
  Plan <- AllHobby
  Tier <- ProTags
  Capacity <- Room
  Logins = {}
  Syncs = {s1}
  Drains = {d1}
  Initial = {i1}
  Placement <- HobbyOnFirst
  Ailing = {i1}
  NoInstance = noInstance
  NoCluster = noCluster
  Quota = 3
  Faults = {}
INVARIANT MigratedIsPlaced
