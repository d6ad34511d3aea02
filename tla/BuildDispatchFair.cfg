SPECIFICATION FairSpec
CONSTANTS
  b1 = b1
  b2 = b2
  Builds <- TwoBuilds
  Handlers = {h1, h2}
  BuildNodes = {n1}
  Capacity <- OneSlot
  Tier <- MixedTier
  Reconciler = reconciler
  NoBuild = noBuild
  NoNode = noNode
  Faults = {"failedBuild", "disconnect", "queueExpires"}
  MaxAnswers = 2
  MaxReconciles = 0
  MaxRestarts = 0
PROPERTIES
  GuardIsLifted
CHECK_DEADLOCK FALSE
