CONSTANTS
  AuthorizeReqs = {a1, a2, a3}
  ResumeReqs = {}
  TokenReqs = {t1}
  UserInfoReqs = {}
  Requests <- MCRequests
  Kind <- MCKind
  Configurations <- MCConfigurations
  Clients = {c1}
  Uris = {x1}
  Accounts = {alice}
  Verifiers = {v1}
  Prompts = {"none"}
  CodeTTL = 1
  TokenTTL = 1
  MaxClock = 1
  NoRow = NoRow
  NoReq = NoReq
  NoAccount = NoAccount
  Free = Free

SPECIFICATION FairSpec

INVARIANTS
  DeadlockTakesTwoCleanups

PROPERTIES
  EveryRequestEnds
