CONSTANTS
  RegisterOptions = {}
  RegisterVerify = {}
  LoginOptions = {lo1, lo2, lo3, lo4}
  LoginVerify = {}
  Requests <- MCRequests
  Kind <- MCKind
  Processes = {p1}
  Process <- MCProcess
  Accounts = {alice}
  Credentials = {k1}
  LoginLimit = 4
  RegistrationLimit = 1
  TTL = 1
  MaxClock = 1
  NoRow = NoRow
  NoReq = NoReq
  NoAccount = NoAccount
  NoCredential = NoCredential
  Free = Free

SPECIFICATION FairSpec

INVARIANTS
  DeadlockTakesTwoReplicas

PROPERTIES
  EveryRequestEnds

\* All requests may have been answered.
CHECK_DEADLOCK FALSE
