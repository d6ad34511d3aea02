SPECIFICATION Spec
CONSTANTS
  b1 = b1
  b2 = b2
  Builds <- TwoBuilds
  Handlers = {h1, h2}
  BuildNodes = {n1}
  Capacity <- OneSlot
  Tier <- MixedTier
  Reconciler = reconciler
  NoBuild = noBuild
  NoNode = noNode
  Faults = {"storeFails", "failedBuild", "callbackExpires", "disconnect"}
  MaxAnswers = 2
  MaxReconciles = 0
  MaxRestarts = 1
SYMMETRY HandlerSymmetry
INVARIANTS
  TypeOK
  ConsumeIsExclusive
  PublishedAtMostDispatched
  AcceptedNotLost
CHECK_DEADLOCK FALSE
