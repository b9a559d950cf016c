SPECIFICATION FairSpec
CONSTANTS
  s1 = s1
  s2 = s2
  alice = alice
  q1 = q1
  q2 = q2
  Ids = {s1, s2}
  NoId = NoId
  Clients = {alice}
  Requests = {q1, q2}
  ClientOf <- OneBrowser
  Expire = 3
  Truncate = 2
  Second = 2
  Lag = 1
  MaxTime = 6
INVARIANTS IndexMatchesStore OnlyLateSavesFail
PROPERTIES CleanupExact ExpiredAreCollected
