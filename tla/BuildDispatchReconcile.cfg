SPECIFICATION Spec
CONSTANTS
  b1 = b1
  b2 = b2
  Builds <- TwoBuilds
  Handlers = {h1}
  BuildNodes = {n1}
  Capacity <- OneSlot
  Tier <- MixedTier
  Reconciler = reconciler
  NoBuild = noBuild
  NoNode = noNode
  Faults = {"degrade", "slotsExpire", "disconnect"}
  MaxAnswers = 1
  MaxReconciles = 1
  MaxRestarts = 0
INVARIANTS
  AccountedWasSent
  EnqueuedUnlessRaced
CHECK_DEADLOCK FALSE
