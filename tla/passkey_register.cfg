CONSTANTS
  RegisterOptions = {ro1, ro2}
  RegisterVerify = {rv1, rv2}
  LoginOptions = {}
  LoginVerify = {}
  Requests <- MCRequests
  Kind <- MCKind
  Processes = {p1}
  Process <- MCProcess
  Accounts = {alice, bob}
  Credentials = {k1}
  LoginLimit = 1
  RegistrationLimit = 1
  TTL = 1
  MaxClock = 0
  NoRow = NoRow
  NoReq = NoReq
  NoAccount = NoAccount
  NoCredential = NoCredential
  Free = Free

SPECIFICATION Spec

SYMMETRY Symmetric

INVARIANTS
  TypeOK
  CeremonyBinding

\* All requests may have been answered.
CHECK_DEADLOCK FALSE
