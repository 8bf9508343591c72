--------------------------- MODULE PasskeyCeremony ---------------------------
(***************************************************************************)
(* Passkey registration and login (usecase/passkey.go, handler/passkey.go, *)
(* persistence/passkeys.go): concurrent requests for options, which store  *)
(* a challenge, and for verification, which consume it.                    *)
(*                                                                         *)
(* Here every statement of a request runs in its HTTP transaction, the     *)
(* consumption of the challenge included.  SaveSession holds a mutex of    *)
(* its process, but TransactionMiddleware commits after it is released.    *)
(*                                                                         *)
(* A challenge is named by the request that stored it: sessions[q] is the  *)
(* committed webauthn_sessions row of request q, lock[q] the transaction   *)
(* with an uncommitted deletion of it.                                     *)
(***************************************************************************)
EXTENDS Naturals, FiniteSets

CONSTANTS Requests,     \* HTTP requests, each handled once
          Kind,         \* Kind[r]: the endpoint request r calls
          Processes,    \* replicas of the API
          Process,      \* Process[r]: the replica that serves r
          Accounts,
          Credentials,  \* credential IDs of the authenticators
          LoginLimit, RegistrationLimit,
          TTL,
          MaxClock,     \* bound of the clock
          NoRow, NoReq, NoAccount, NoCredential, Free

ASSUME KindAssumption ==
  Kind \in [Requests -> {"registerOptions", "registerVerify", "loginOptions", "loginVerify"}]

ASSUME ProcessAssumption == Process \in [Requests -> Processes]

ASSUME LimitAssumption == /\ LoginLimit \in Nat \ {0} /\ RegistrationLimit \in Nat \ {0}
                          /\ TTL \in Nat \ {0} /\ MaxClock \in Nat

ASSUME AbsentAssumption == Free \notin Requests /\ NoAccount \notin Accounts

VARIABLES clock,     \* time.Now()
          sessions,  \* committed challenges
          lock,      \* holder of the challenge's row lock
          owner,     \* owner[c]: the account with committed credential c
          credLock,  \* transaction with an uncommitted write of credential c
          mutex,     \* EntPasskeyRepository.mu of each process
          pc,        \* control state of each request
          req,       \* what request r is about
          now,       \* the time.Now() of SaveSession or ConsumeSession
          todo       \* rows the DELETE of SaveSession still has to visit

vars == <<clock, sessions, lock, owner, credLock, mutex, pc, req, now, todo>>

(* account_id IS NULL marks a login challenge. *)
Rows == [ceremony: {"register"}, account: Accounts, exp: Nat]
        \cup [ceremony: {"login"}, account: {NoAccount}, exp: Nat]

Subjects == [account: Accounts \cup {NoAccount}, key: Requests \cup {NoReq},
             credential: Credentials \cup {NoCredential}]

Finished == {"ok", "lost", "refused"}

States == {"idle", "saveSession", "clean", "insertSession",
           "selectSession", "deleteSession", "verify", "rejected",
           "checkCredential", "insertCredential", "updateCredential",
           "commit", "rollback"} \cup Finished

Nothing == [account |-> NoAccount, key |-> NoReq, credential |-> NoCredential]

TypeOK ==
  /\ clock \in 0..MaxClock
  /\ sessions \in [Requests -> Rows \cup {NoRow}]
  /\ lock \in [Requests -> Requests \cup {Free}]
  /\ owner \in [Credentials -> Accounts \cup {NoAccount}]
  /\ credLock \in [Credentials -> Requests \cup {Free}]
  /\ mutex \in [Processes -> Requests \cup {Free}]
  /\ pc \in [Requests -> States]
  /\ req \in [Requests -> Subjects]
  /\ now \in [Requests -> Nat]
  /\ todo \in [Requests -> SUBSET Requests]

Init ==
  /\ clock = 0
  /\ sessions = [r \in Requests |-> NoRow]
  /\ lock = [r \in Requests |-> Free]
  /\ owner \in [Credentials -> Accounts \cup {NoAccount}]
  /\ credLock = [c \in Credentials |-> Free]
  /\ mutex = [p \in Processes |-> Free]
  /\ pc = [r \in Requests |-> "idle"]
  /\ req = [r \in Requests |-> Nothing]
  /\ now = [r \in Requests |-> 0]
  /\ todo = [r \in Requests |-> {}]
-----------------------------------------------------------------------------
Goto(r, state) == pc' = [pc EXCEPT ![r] = state]

Ceremony(r) ==
  IF Kind[r] \in {"registerOptions", "registerVerify"} THEN "register" ELSE "login"

(* f after the transaction or the mutex critical section of r has ended. *)
FreedBy(r, f) == [k \in DOMAIN f |-> IF f[k] = r THEN Free ELSE f[k]]

(* An error return: SaveSession's deferred Unlock runs now, the rollback of *)
(* the middleware only after the handler has written its answer.            *)
Abandon(r) ==
  /\ Goto(r, "rollback")
  /\ mutex' = FreedBy(r, mutex)
  /\ todo' = [todo EXCEPT ![r] = {}]
  /\ UNCHANGED <<lock, credLock, req, now>>

(* TransactionMiddleware rolls back. *)
Rollback(r) ==
  /\ pc[r] \in {"rollback", "rejected"}
  /\ Goto(r, "refused")
  /\ lock' = FreedBy(r, lock)
  /\ credLock' = FreedBy(r, credLock)
  /\ req' = [req EXCEPT ![r] = Nothing]
  /\ now' = [now EXCEPT ![r] = 0]
  /\ UNCHANGED <<clock, sessions, owner, mutex, todo>>
-----------------------------------------------------------------------------
(***************************************************************************)
(* POST /passkeys/register/options, /passkeys/login/options                *)
(***************************************************************************)
(* Registration is for the account of the login session, if it is valid.   *)
BeginRegistration(r) ==
  /\ Kind[r] = "registerOptions" /\ pc[r] = "idle"
  /\ \/ Goto(r, "refused") /\ UNCHANGED req
     \/ \E a \in Accounts :
          /\ Goto(r, "saveSession")
          /\ req' = [req EXCEPT ![r].account = a]
  /\ UNCHANGED <<clock, sessions, lock, owner, credLock, mutex, now, todo>>

BeginLogin(r) ==
  /\ Kind[r] = "loginOptions" /\ pc[r] = "idle"
  /\ Goto(r, "saveSession")
  /\ UNCHANGED <<clock, sessions, lock, owner, credLock, mutex, req, now, todo>>

MutantSaveSessionUnlocked(r) ==
  /\ pc[r] = "saveSession"
  /\ Goto(r, "clean")
  /\ now' = [now EXCEPT ![r] = clock]
  /\ todo' = [todo EXCEPT ![r] = {k \in Requests : sessions[k] # NoRow /\ sessions[k].exp <= clock}]
  /\ UNCHANGED <<clock, sessions, lock, owner, credLock, mutex, req>>

(* SaveSession: takes the mutex, reads the time and starts to delete the    *)
(* expired challenges of everybody.                                         *)
SaveSession(r) ==
  /\ pc[r] = "saveSession"
  /\ mutex[Process[r]] = Free
  /\ mutex' = [mutex EXCEPT ![Process[r]] = r]
  /\ Goto(r, "clean")
  /\ now' = [now EXCEPT ![r] = clock]
  /\ todo' = [todo EXCEPT ![r] = {k \in Requests : sessions[k] # NoRow /\ sessions[k].exp <= clock}]
  /\ UNCHANGED <<clock, sessions, lock, owner, credLock, req>>

(* The DELETE visits its rows in an order of the database's choosing, waits *)
(* for a locked one and skips one that is gone; the mutex stays taken.      *)
DeleteExpired(r) ==
  /\ pc[r] = "clean"
  /\ \E k \in todo[r] :
       /\ lock[k] = Free
       /\ lock' = [lock EXCEPT ![k] = IF sessions[k] = NoRow THEN Free ELSE r]
       /\ todo' = [todo EXCEPT ![r] = @ \ {k}]
  /\ UNCHANGED <<clock, sessions, owner, credLock, mutex, pc, req, now>>

Active(ceremony, a, t) ==
  {k \in Requests : /\ sessions[k] # NoRow /\ sessions[k].exp > t
                    /\ sessions[k].ceremony = ceremony /\ sessions[k].account = a}

Limit(ceremony) == IF ceremony = "register" THEN RegistrationLimit ELSE LoginLimit

(* ensureSessionLimit: counts the committed challenges of the same account, *)
(* or the login challenges of all.                                          *)
EnsureSessionLimit(r) ==
  /\ pc[r] = "clean" /\ todo[r] = {}
  /\ LET full == Cardinality(Active(Ceremony(r), req[r].account, now[r])) >= Limit(Ceremony(r))
     IN \/ full /\ Abandon(r)
        \/ /\ ~full
           /\ Goto(r, "insertSession")
           /\ UNCHANGED <<lock, credLock, mutex, req, now, todo>>
  /\ UNCHANGED <<clock, sessions, owner>>

(* The INSERT is not visible to others yet, but the mutex is released. *)
InsertSession(r) ==
  /\ pc[r] = "insertSession"
  /\ mutex' = FreedBy(r, mutex)
  /\ Goto(r, "commit")
  /\ UNCHANGED <<clock, sessions, lock, owner, credLock, req, now, todo>>
-----------------------------------------------------------------------------
(***************************************************************************)
(* POST /passkeys/register/verify, /passkeys/login/verify                  *)
(***************************************************************************)
(* The challenge is named by the passkey_session cookie.  A registration    *)
(* also needs a login session.  ConsumeSession reads the time first.        *)
ConsumeSession(r, a) ==
  \E k \in Requests :
    /\ Goto(r, "selectSession")
    /\ req' = [req EXCEPT ![r] = [account |-> a, key |-> k, credential |-> NoCredential]]
    /\ now' = [now EXCEPT ![r] = clock]

FinishRegistration(r) ==
  /\ Kind[r] = "registerVerify" /\ pc[r] = "idle"
  /\ \/ Goto(r, "refused") /\ UNCHANGED <<req, now>>
     \/ \E a \in Accounts : ConsumeSession(r, a)
  /\ UNCHANGED <<clock, sessions, lock, owner, credLock, mutex, todo>>

FinishLogin(r) ==
  /\ Kind[r] = "loginVerify" /\ pc[r] = "idle"
  /\ \/ Goto(r, "refused") /\ UNCHANGED <<req, now>>
     \/ ConsumeSession(r, NoAccount)
  /\ UNCHANGED <<clock, sessions, lock, owner, credLock, mutex, todo>>

MutantConsumableByAny(r, row) == row # NoRow /\ row.exp > now[r]

(* WHERE id = ? AND ceremony = ? AND expires_at > time.Now() *)
Consumable(r, row) == row # NoRow /\ row.exp > now[r] /\ row.ceremony = Ceremony(r)

SelectSession(r) ==
  /\ pc[r] = "selectSession"
  /\ LET row == sessions[req[r].key]
     IN \/ ~Consumable(r, row) /\ Abandon(r)
        \/ /\ Consumable(r, row)
           /\ Goto(r, "deleteSession")
           /\ UNCHANGED <<lock, credLock, mutex, req, now, todo>>
  /\ UNCHANGED <<clock, sessions, owner>>

(* DeleteOneID waits for the row; it fails when no row is left to delete.   *)
MutantDeleteSessionIfThere(r) ==
  /\ pc[r] = "deleteSession"
  /\ lock[req[r].key] = Free
  /\ Goto(r, "verify")
  /\ lock' = [lock EXCEPT ![req[r].key] = IF sessions[req[r].key] = NoRow THEN Free ELSE r]
  /\ UNCHANGED <<clock, sessions, owner, credLock, mutex, req, now, todo>>

MutantDeleteSessionForGood(r) ==
  /\ pc[r] = "deleteSession"
  /\ lock[req[r].key] = Free
  /\ \/ /\ sessions[req[r].key] = NoRow
        /\ Abandon(r) /\ UNCHANGED sessions
     \/ /\ sessions[req[r].key] # NoRow
        /\ Goto(r, "verify")
        /\ sessions' = [sessions EXCEPT ![req[r].key] = NoRow]
        /\ UNCHANGED <<lock, credLock, mutex, req, now, todo>>
  /\ UNCHANGED <<clock, owner>>

DeleteSession(r) ==
  /\ pc[r] = "deleteSession"
  /\ lock[req[r].key] = Free
  /\ \/ /\ sessions[req[r].key] = NoRow
        /\ Abandon(r)
     \/ /\ sessions[req[r].key] # NoRow
        /\ Goto(r, "verify")
        /\ lock' = [lock EXCEPT ![req[r].key] = r]
        /\ UNCHANGED <<credLock, mutex, req, now, todo>>
  /\ UNCHANGED <<clock, sessions, owner>>

(* The challenge of a registration must be one of the same account; then    *)
(* the response of an authenticator, with the ID of its credential, is      *)
(* checked against the challenge.                                           *)
VerifyRegistration(r) ==
  /\ Kind[r] = "registerVerify" /\ pc[r] = "verify"
  /\ \/ /\ sessions[req[r].key].account # req[r].account
        /\ Abandon(r)
     \/ /\ sessions[req[r].key].account = req[r].account
        /\ \/ Goto(r, "rejected") /\ UNCHANGED req
           \/ \E c \in Credentials :
                /\ Goto(r, "checkCredential")
                /\ req' = [req EXCEPT ![r].credential = c]
        /\ UNCHANGED <<lock, credLock, mutex, now, todo>>
  /\ UNCHANGED <<clock, sessions, owner>>

(* The user handle of the response names the account that is logged in; the *)
(* credential must be one of that account.                                  *)
VerifyLogin(r) ==
  /\ Kind[r] = "loginVerify" /\ pc[r] = "verify"
  /\ \/ Goto(r, "rejected") /\ UNCHANGED req
     \/ \E c \in Credentials :
          /\ owner[c] # NoAccount
          /\ Goto(r, "updateCredential")
          /\ req' = [req EXCEPT ![r] = [account |-> owner[c], key |-> req[r].key, credential |-> c]]
  /\ UNCHANGED <<clock, sessions, lock, owner, credLock, mutex, now, todo>>

(* SaveCredential: SELECT, then INSERT under a unique index, which waits    *)
(* for the transaction that is inserting the same credential ID.            *)
CheckCredential(r) ==
  /\ pc[r] = "checkCredential"
  /\ \/ owner[req[r].credential] # NoAccount /\ Abandon(r)
     \/ /\ owner[req[r].credential] = NoAccount
        /\ Goto(r, "insertCredential")
        /\ UNCHANGED <<lock, credLock, mutex, req, now, todo>>
  /\ UNCHANGED <<clock, sessions, owner>>

MutantInsertCredentialAnyway(r) ==
  /\ pc[r] = "insertCredential"
  /\ credLock[req[r].credential] = Free
  /\ Goto(r, "commit")
  /\ credLock' = [credLock EXCEPT ![req[r].credential] = r]
  /\ UNCHANGED <<clock, sessions, lock, owner, mutex, req, now, todo>>

InsertCredential(r) ==
  /\ pc[r] = "insertCredential"
  /\ credLock[req[r].credential] = Free
  /\ \/ owner[req[r].credential] # NoAccount /\ Abandon(r)
     \/ /\ owner[req[r].credential] = NoAccount
        /\ Goto(r, "commit")
        /\ credLock' = [credLock EXCEPT ![req[r].credential] = r]
        /\ UNCHANGED <<lock, mutex, req, now, todo>>
  /\ UNCHANGED <<clock, sessions, owner>>

(* UpdateCredential, then the INSERT of the new login session. *)
UpdateCredential(r) ==
  /\ pc[r] = "updateCredential"
  /\ credLock[req[r].credential] = Free
  /\ credLock' = [credLock EXCEPT ![req[r].credential] = r]
  /\ Goto(r, "commit")
  /\ UNCHANGED <<clock, sessions, lock, owner, mutex, req, now, todo>>
-----------------------------------------------------------------------------
(***************************************************************************)
(* The end of a request                                                    *)
(***************************************************************************)
MutantNewSessionOfNobody(r) ==
  [ceremony |-> Ceremony(r), account |-> NoAccount, exp |-> now[r] + TTL]

(* What r stores: its new challenge expires TTL after the time it counted. *)
NewSession(r) ==
  [ceremony |-> Ceremony(r), account |-> req[r].account, exp |-> now[r] + TTL]

MutantStoredWithoutDelete(r) ==
  [k \in Requests |->
     IF k = r /\ Kind[r] \in {"registerOptions", "loginOptions"} THEN NewSession(r)
     ELSE sessions[k]]

Stored(r) ==
  [k \in Requests |->
     IF k = r /\ Kind[r] \in {"registerOptions", "loginOptions"} THEN NewSession(r)
     ELSE IF lock[k] = r THEN NoRow ELSE sessions[k]]

Commit(r) ==
  /\ pc[r] = "commit"
  /\ sessions' = Stored(r)
  /\ owner' = IF Kind[r] = "registerVerify"
                THEN [owner EXCEPT ![req[r].credential] = req[r].account] ELSE owner
  /\ lock' = FreedBy(r, lock)
  /\ credLock' = FreedBy(r, credLock)
  /\ Goto(r, "ok")
  /\ UNCHANGED <<clock, mutex, req, now, todo>>

(* The answer says success, but the database rolled back. *)
CommitFails(r) ==
  /\ pc[r] = "commit"
  /\ lock' = FreedBy(r, lock)
  /\ credLock' = FreedBy(r, credLock)
  /\ Goto(r, "lost")
  /\ UNCHANGED <<clock, sessions, owner, mutex, req, now, todo>>

InProgress(r) == pc[r] \notin {"idle"} \cup Finished

(* A query fails, the handler panics or the client goes away. *)
Fail(r) ==
  /\ InProgress(r) /\ pc[r] \notin {"rollback", "rejected"}
  /\ Abandon(r)
  /\ UNCHANGED <<clock, sessions, owner>>

Tick ==
  /\ clock < MaxClock
  /\ clock' = clock + 1
  /\ UNCHANGED <<sessions, lock, owner, credLock, mutex, pc, req, now, todo>>

Arrive(r) ==
  BeginRegistration(r) \/ BeginLogin(r) \/ FinishRegistration(r) \/ FinishLogin(r)

Step(r) ==
  \/ SaveSession(r) \/ DeleteExpired(r) \/ EnsureSessionLimit(r) \/ InsertSession(r)
  \/ SelectSession(r) \/ DeleteSession(r) \/ VerifyRegistration(r) \/ VerifyLogin(r)
  \/ CheckCredential(r) \/ InsertCredential(r) \/ UpdateCredential(r)
  \/ Commit(r) \/ CommitFails(r) \/ Rollback(r)

Next == Tick \/ \E r \in Requests : Arrive(r) \/ Step(r) \/ Fail(r)

Spec == Init /\ [][Next]_vars

(* Goroutines are scheduled; the mutex and row locks are granted in time.   *)
(* Nothing breaks a deadlock here.                                          *)
FairSpec == Spec /\ \A r \in Requests : WF_vars(Step(r))
-----------------------------------------------------------------------------
(***************************************************************************)
(* Properties                                                              *)
(***************************************************************************)
Verifies(r) == Kind[r] \in {"registerVerify", "loginVerify"}

(* Two verifications never both succeed with one challenge, even when they  *)
(* select it at the same time and the first has not committed or rolls back *)
(* (persistence/passkeys.go:221-253).                                       *)
ChallengeUsedOnce ==
  \A r1, r2 \in Requests :
    /\ Verifies(r1) /\ Verifies(r2) /\ pc[r1] = "ok" /\ pc[r2] = "ok"
    /\ req[r1].key = req[r2].key
    => r1 = r2

(* A credential is registered with a challenge issued for registration to   *)
(* the same account, stays that account's, and logs only that account in,   *)
(* with a challenge issued for login; the challenge was alive.              *)
CeremonyBinding ==
  \A r \in Requests : Verifies(r) /\ pc[r] = "ok" =>
    LET k == req[r].key
    IN /\ owner[req[r].credential] = req[r].account
       /\ pc[k] = "ok" /\ now[r] < now[k] + TTL
       /\ Kind[k] = IF Kind[r] = "registerVerify" THEN "registerOptions" ELSE "loginOptions"
       /\ Kind[r] = "registerVerify" => req[k].account = req[r].account

(* A stored challenge is lost only by a successful verification or by       *)
(* expiring: a failed verification gives it back                            *)
(* (persistence/passkeys_test.go:159, TestConsumeSessionUsesRequestTransaction). *)
ChallengeLostOnlyByUse ==
  [][\A k \in Requests : sessions[k] # NoRow /\ sessions'[k] # sessions[k] =>
       /\ sessions'[k] = NoRow
       /\ \/ sessions[k].exp <= clock
          \/ \E r \in Requests : Verifies(r) /\ req[r].key = k /\ pc[r] = "commit" /\ pc'[r] = "ok"]_vars

(* Within one process nobody waits for ever: a request that waits for a row *)
(* with the mutex in its hands waits for somebody who does not need it, and *)
(* the DELETEs of two requests cannot block each other.                     *)
EveryRequestEnds ==
  (\E r \in Requests : InProgress(r)) ~> (\A r \in Requests : ~InProgress(r))

(* "Checks that the active WebAuthn sessions do not exceed the limit"       *)
(* (persistence/passkeys.go:195).  Does not hold: the count of a second     *)
(* request misses the row the first has inserted but not yet committed.     *)
SessionLimitKept ==
  \A ceremony \in {"register", "login"}, a \in Accounts \cup {NoAccount} :
    Cardinality(Active(ceremony, a, clock)) <= Limit(ceremony)

(* Whoever holds what request r needs for its next statement: the mutex of  *)
(* its process, a row that its DELETE is still to visit, its challenge, or  *)
(* its credential.                                                          *)
WaitsFor(r) ==
  CASE pc[r] = "saveSession" -> {mutex[Process[r]]}
    [] pc[r] = "clean" -> {lock[k] : k \in todo[r]}
    [] pc[r] = "deleteSession" -> {lock[req[r].key]}
    [] pc[r] \in {"insertCredential", "updateCredential"} -> {credLock[req[r].credential]}
    [] OTHER -> {}

(* Requests that wait for each other in a circle - through the mutex, the   *)
(* challenges and the credentials - include the DELETEs of two replicas:    *)
(* the mutex keeps those of one replica apart, and whoever waits for a      *)
(* credential, or consumes a challenge, waits for somebody who goes on      *)
(* (persistence/passkeys.go:99-253).                                        *)
DeadlockTakesTwoReplicas ==
  \A D \in SUBSET Requests :
    D # {} /\ (\A d \in D : WaitsFor(d) \cap D # {}) =>
      \E r1, r2 \in D : pc[r1] = "clean" /\ pc[r2] = "clean" /\ Process[r1] # Process[r2]

(***************************************************************************)
(* Challenges implement the contract of one-time secrets, too.  Here the   *)
(* redemption only happens when the HTTP transaction commits.              *)
(***************************************************************************)
Challenges == {k \in Requests : ~Verifies(k)}

Status ==
  [k \in Challenges |-> IF sessions[k] # NoRow THEN "live"
                        ELSE IF pc[k] \in Finished THEN "dead" ELSE "unissued"]

VerifiedWith(r, k) == Verifies(r) /\ pc[r] = "ok" /\ req[r].key = k

Beneficiary ==
  [k \in Challenges |-> IF \E r \in Requests : VerifiedWith(r, k)
                        THEN CHOOSE r \in Requests : VerifiedWith(r, k)
                        ELSE Free]

Contract == INSTANCE SingleUse WITH
  Grants <- Challenges, Users <- Requests, Nobody <- Free,
  status <- Status, beneficiary <- Beneficiary

(* However requests are interleaved, rolled back or lost in the commit, a   *)
(* challenge serves one ceremony at most and never again afterwards: what   *)
(* oidc.Store states for its grants holds for challenges as well            *)
(* (persistence/passkeys.go:221-253).                                       *)
ImplementsSingleUse == Contract!Spec
=============================================================================
