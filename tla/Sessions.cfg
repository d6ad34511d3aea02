SPECIFICATION Spec
CONSTANTS
  Users = {u1, u2}
  s1 = s1
  s2 = s2
  SessionIds = {s1, s2}
  Requests = {r1, r2}
  Codes = {k1}
  BackupCodes = {b1}
  Secrets = {x1, x2}
  States = {st1}
  Tokens = {t1}
  Mixes <- AllMixes
  None = none
SYMMETRY Alike
INVARIANTS
  NeverRevokedIsListed
  VerifiedWasEarned
  EnabledWasShown
  GuessesAreBounded
PROPERTY
  GoneForGood
CHECK_DEADLOCK FALSE
