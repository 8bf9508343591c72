CONSTANTS
  AuthorizeReqs = {a1}
  ResumeReqs = {s1}
  TokenReqs = {t1}
  UserInfoReqs = {u1}
  Requests <- MCRequests
  Kind <- MCKind
  Configurations <- MCShared
  Clients = {c1, c2}
  Uris = {x1, x2}
  Accounts = {alice, bob}
  Verifiers = {v1, v2}
  Prompts = {"none", "absent"}
  CodeTTL = 1
  TokenTTL = 1
  MaxClock = 1
  NoRow = NoRow
  NoReq = NoReq
  NoAccount = NoAccount
  Free = Free

SPECIFICATION Spec

SYMMETRY SymmetricData

INVARIANTS
  TypeOK
  TokenBinding
  UserInfoBinding
