CONSTANTS
  RegisterOptions = {ro1}
  RegisterVerify = {}
  LoginOptions = {lo1}
  LoginVerify = {lv1, lv2}
  Requests <- MCRequests
  Kind <- MCKind
  Processes = {p1}
  Process <- MCProcess
  Accounts = {alice, bob}
  Credentials = {k1}
  LoginLimit = 1
  RegistrationLimit = 1
  TTL = 1
  MaxClock = 2
  NoRow = NoRow
  NoReq = NoReq
  NoAccount = NoAccount
  NoCredential = NoCredential
  Free = Free

SPECIFICATION Spec

SYMMETRY SymmetricData

INVARIANTS
  ChallengeUsedOnce
  CeremonyBinding

PROPERTIES
  ChallengeLostOnlyByUse
  ImplementsSingleUse

\* All requests may have been answered.
CHECK_DEADLOCK FALSE
