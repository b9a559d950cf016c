SPECIFICATION Spec
CONSTANTS
  alice = alice
  bob = bob
  home = home
  work = work
  r1 = r1
  r2 = r2
  st1 = st1
  st2 = st2
  t1 = t1
  t2 = t2
  revoked = revoked
  Users = {alice, bob}
  NoUser = NoUser
  SessionIds = {home, work}
  NoSession = NoSession
  Requests = {r1, r2}
  States = {st1, st2}
  NoState = NoState
  Tokens = {t1, t2}
  AdminTokens = {revoked}
  NoToken = NoToken
SYMMETRY Symmetric
INVARIANT OneLoginAtATime
PROPERTIES LoginsAskedFor LoginsLostToOlderRequests SingleLoginSpec
