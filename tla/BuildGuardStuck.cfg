SPECIFICATION Spec
CONSTANTS
  b1 = b1
  b2 = b2
  Builds <- TwoBuilds
  Handlers = {h1}
  BuildNodes = {n1}
  Capacity <- OneSlot
  Tier <- MixedTier
  Reconciler = reconciler
  NoBuild = noBuild
  NoNode = noNode
  Faults = {"storeFails"}
  MaxAnswers = 2
  MaxReconciles = 0
  MaxRestarts = 0
INVARIANTS
  GuardMeansInProgress
CHECK_DEADLOCK FALSE
