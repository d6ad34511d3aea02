SPECIFICATION Spec
CONSTANTS
  a = a
  b = b
  Clusters = {a, b}
  s1 = s1
  s2 = s2
  s3 = s3
  Subs = {s1, s2, s3}
  Buyer <- BuyerOf
  Hooks = {h1, h2}
  Doctors = {d}
  Capacity <- Room
  Mixes <- AllMixes
  None = none
SYMMETRY Alike
INVARIANTS
  RecordedInOrder
  BilledToItsBuyer
  PlacedByPlan
CHECK_DEADLOCK FALSE
