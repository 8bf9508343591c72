CONSTANTS
  AuthorizeReqs = {a1}
  ResumeReqs = {s1, s2}
  TokenReqs = {t1}
  UserInfoReqs = {}
  Requests <- MCRequests
  Kind <- MCKind
  Configurations <- MCConfigurations
  Clients = {c1}
  Uris = {x1}
  Accounts = {alice}
  Verifiers = {v1}
  Prompts = {"none", "login", "absent"}
  CodeTTL = 1
  TokenTTL = 1
  MaxClock = 1
  NoRow = NoRow
  NoReq = NoReq
  NoAccount = NoAccount
  Free = Free

SPECIFICATION Spec

INVARIANTS
  HonouredOnce
  NoSelfWait

PROPERTIES
  RowsOnlyAge
  ImplementsSingleUse
