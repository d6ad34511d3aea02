SPECIFICATION FairSpec
CONSTANTS
  c1 = c1
  c2 = c2
  q1 = q1
  q2 = q2
  w1 = w1
  w2 = w2
  u1 = u1
  s1 = s1
  g1 = g1
  key1 = key1
  Conns = {c1, c2}
  Keys = {key1}
  NoConn = noConn
  NoCall = noCall
  NoKey = noKey
  Key <- OneKey
  Calls = {q1, q2, s1, g1, w1, w2, u1}
  Scenarios <- RequestsOrWatches
  Kind <- KindOf
  By <- ByOf
  MaxPending = 1
  Faults = {"awaitRejects"}
INVARIANTS
  PendingIsTracked
  PendingIsBounded
  AnsweredAtMostOnce
  WatchIndexesAgree
  StreamIndexesAgree
  AdderOwnsStream
PROPERTIES
  LifeOfRequests
  FanoutIsSwept
