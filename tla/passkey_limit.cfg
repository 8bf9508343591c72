CONSTANTS
  RegisterOptions = {ro1, ro2}
  RegisterVerify = {}
  LoginOptions = {}
  LoginVerify = {}
  Requests <- MCRequests
  Kind <- MCKind
  Processes = {p1}
  Process <- MCProcess
  Accounts = {alice}
  Credentials = {k1}
  LoginLimit = 1
  RegistrationLimit = 1
  TTL = 1
  MaxClock = 1
  NoRow = NoRow
  NoReq = NoReq
  NoAccount = NoAccount
  NoCredential = NoCredential
  Free = Free

SPECIFICATION Spec

INVARIANTS
  SessionLimitKept

\* All requests may have been answered.
CHECK_DEADLOCK FALSE
