CONSTANTS
  Callbacks = {c1, c2}
  Passkeys = {p1}
  Uses = {u1}
  Logouts = {o1, o2}
  Requests <- MCRequests
  Kind <- MCKind
  Identities = {i1, i2}
  TTL = 1
  MaxClock = 1
  NoRow = NoRow
  NoAccount = NoAccount
  NoToken = NoToken
  Free = Free

SPECIFICATION Spec

SYMMETRY Symmetric

INVARIANTS
  TypeOK
  OneAccountPerIdentity
  ActsForItsLogin
  LogoutEnds
  NobodyOrphaned

PROPERTIES
  LoginsForGood

\* All requests may have been answered.
CHECK_DEADLOCK FALSE
