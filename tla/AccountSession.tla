--------------------------- MODULE AccountSession ---------------------------
(***************************************************************************)
(* Accounts and login sessions on PostgreSQL: concurrent HTTP requests     *)
(* that log a user in (the callback of an external provider, or a passkey),*)
(* that act under a login session, and that log out.                       *)
(*                                                                         *)
(* Each request runs in the one transaction of TransactionMiddleware       *)
(* (READ COMMITTED).  Session tokens and accounts are named by the request *)
(* that creates them: session[q] and q \in accounts are the committed rows *)
(* request q inserted.  identityLock and sessionLock name the request with *)
(* an uncommitted write to a row of the identity or session; for an        *)
(* identity without a row, the request whose INSERT holds its unique key.  *)
(***************************************************************************)
EXTENDS Naturals

CONSTANTS Requests,    \* HTTP requests, each handled once
          Kind,        \* Kind[r]: what request r does
          Identities,  \* (provider, provider_account_id)
          TTL,         \* lifetime of a session
          MaxClock,    \* bound of the clock
          NoRow, NoAccount, NoToken, Free

ASSUME KindAssumption == Kind \in [Requests -> {"callback", "passkey", "use", "logout"}]

ASSUME TTLAssumption == TTL \in Nat \ {0} /\ MaxClock \in Nat

ASSUME AbsentAssumption == /\ Free \notin Requests /\ NoAccount \notin Requests
                           /\ NoToken \notin Requests \cup Identities
                           /\ NoRow \notin [account: Requests, exp: Nat, revoked: BOOLEAN]

VARIABLES clock,         \* time.Now(), the same for all replicas
          accounts,      \* committed accounts
          identity,      \* the account of each committed identity
          identityLock,
          session,       \* committed sessions
          sessionLock,
          pc,            \* control state of each request
          login,         \* login[r]: the identity a callback was given
          token,         \* token[r]: the session cookie request r presented
          account,       \* account[r]: the account request r works for
          draft,         \* draft[r]: the session row r is going to commit
          now,           \* the time.Now() a request read
          ended          \* history: sessions whose logout succeeded before r

vars == <<clock, accounts, identity, identityLock, session, sessionLock, pc,
          login, token, account, draft, now, ended>>

Rows == [account: Requests, exp: Nat, revoked: BOOLEAN]

Finished == {"ok", "refused", "revoked", "ignored", "orphan"}

States == {"idle", "find", "update", "create", "sign", "commit",
           "verify", "load", "revoke", "commitRevoke"} \cup Finished

TypeOK ==
  /\ clock \in 0..MaxClock
  /\ accounts \subseteq Requests
  /\ identity \in [Identities -> Requests \cup {NoAccount}]
  /\ identityLock \in [Identities -> Requests \cup {Free}]
  /\ session \in [Requests -> Rows \cup {NoRow}]
  /\ sessionLock \in [Requests -> Requests \cup {Free}]
  /\ pc \in [Requests -> States]
  /\ login \in [Requests -> Identities \cup {NoToken}]
  /\ token \in [Requests -> Requests \cup {NoToken}]
  /\ account \in [Requests -> Requests \cup {NoAccount}]
  /\ draft \in [Requests -> Rows \cup {NoRow}]
  /\ now \in [Requests -> Nat]
  /\ ended \in [Requests -> SUBSET Requests]

Init ==
  /\ clock = 0
  /\ accounts = {}
  /\ identity = [i \in Identities |-> NoAccount]
  /\ identityLock = [i \in Identities |-> Free]
  /\ session = [r \in Requests |-> NoRow]
  /\ sessionLock = [r \in Requests |-> Free]
  /\ pc = [r \in Requests |-> "idle"]
  /\ login = [r \in Requests |-> NoToken]
  /\ token = [r \in Requests |-> NoToken]
  /\ account = [r \in Requests |-> NoAccount]
  /\ draft = [r \in Requests |-> NoRow]
  /\ now = [r \in Requests |-> 0]
  /\ ended = [r \in Requests |-> {}]

tables == <<accounts, identity, session>>
locks == <<identityLock, sessionLock>>
inputs == <<login, token, now, ended>>
-----------------------------------------------------------------------------
Goto(r, state) == pc' = [pc EXCEPT ![r] = state]

(* The transaction of r is over and its row locks are free. *)
Release(r) ==
  /\ identityLock' = [i \in Identities |-> IF identityLock[i] = r THEN Free ELSE identityLock[i]]
  /\ sessionLock' = [k \in Requests |-> IF sessionLock[k] = r THEN Free ELSE sessionLock[k]]

(* Rolled back. *)
Abort(r, state) ==
  /\ Goto(r, state)
  /\ Release(r)
  /\ account' = [account EXCEPT ![r] = NoAccount]
  /\ draft' = [draft EXCEPT ![r] = NoRow]
-----------------------------------------------------------------------------
(***************************************************************************)
(* GET /auth/:provider/callback                                            *)
(***************************************************************************)
(* State and code are in order and the provider vouches for an identity -  *)
(* or not.                                                                 *)
Callback(r) ==
  /\ Kind[r] = "callback" /\ pc[r] = "idle"
  /\ \/ Abort(r, "refused") /\ UNCHANGED inputs
     \/ /\ \E i \in Identities : login' = [login EXCEPT ![r] = i]
        /\ Goto(r, "find")
        /\ UNCHANGED <<locks, account, draft, token, now, ended>>
  /\ UNCHANGED <<clock, tables>>

(* UpsertProviderIdentity: SELECT of the identity. *)
FindIdentity(r) ==
  /\ pc[r] = "find"
  /\ Goto(r, IF identity[login[r]] = NoAccount THEN "create" ELSE "update")
  /\ UNCHANGED <<clock, tables, locks, account, draft, inputs>>

(* UPDATE of its e-mail: waits for the row; then the account is loaded.    *)
UpdateIdentity(r) ==
  LET i == login[r]
  IN /\ pc[r] = "update"
     /\ identityLock[i] = Free
     /\ identityLock' = [identityLock EXCEPT ![i] = r]
     /\ account' = [account EXCEPT ![r] = identity[i]]
     /\ Goto(r, IF identity[i] \in accounts THEN "sign" ELSE "orphan")
     /\ UNCHANGED <<clock, tables, sessionLock, draft, inputs>>

(* INSERT of an account, then of the identity: that one waits for another  *)
(* transaction with the same unique key, and fails if it committed.        *)
MutantCreateWithoutUnique(r) ==
  LET i == login[r]
  IN /\ pc[r] = "create"
     /\ identityLock[i] = Free
     /\ identityLock' = [identityLock EXCEPT ![i] = r]
     /\ account' = [account EXCEPT ![r] = r]
     /\ Goto(r, "sign")
     /\ UNCHANGED <<clock, tables, sessionLock, draft, inputs>>

CreateAccount(r) ==
  LET i == login[r]
  IN /\ pc[r] = "create"
     /\ identityLock[i] = Free
     /\ \/ /\ identity[i] # NoAccount
           /\ Abort(r, "refused")
        \/ /\ identity[i] = NoAccount
           /\ identityLock' = [identityLock EXCEPT ![i] = r]
           /\ account' = [account EXCEPT ![r] = r]
           /\ Goto(r, "sign")
           /\ UNCHANGED <<sessionLock, draft>>
     /\ UNCHANGED <<clock, tables, inputs>>

(* POST /passkeys/login/verify: the authenticator proved to be that of the *)
(* account, which is loaded with its identity.                             *)
HasIdentity(a) == \E i \in Identities : identity[i] = a

PasskeyLogin(r) ==
  /\ Kind[r] = "passkey" /\ pc[r] = "idle"
  /\ \/ Abort(r, "refused")
     \/ \E a \in accounts :
          /\ account' = [account EXCEPT ![r] = a]
          /\ Goto(r, IF HasIdentity(a) THEN "sign" ELSE "orphan")
          /\ UNCHANGED <<locks, draft>>
  /\ UNCHANGED <<clock, tables, inputs>>

(* SignContext: INSERT of the session under a fresh token. *)
MutantSignOutsideTransaction(r) ==
  /\ pc[r] = "sign"
  /\ draft' = [draft EXCEPT ![r] = [account |-> account[r], exp |-> clock + TTL,
                                    revoked |-> FALSE]]
  /\ session' = [session EXCEPT ![r] = draft'[r]]
  /\ Goto(r, "commit")
  /\ UNCHANGED <<clock, accounts, identity, locks, account, inputs>>

MutantSignForNobody(r) ==
  /\ pc[r] = "sign"
  /\ draft' = [draft EXCEPT ![r] = [account |-> NoAccount, exp |-> clock + TTL,
                                    revoked |-> FALSE]]
  /\ Goto(r, "commit")
  /\ UNCHANGED <<clock, tables, locks, account, inputs>>

Sign(r) ==
  /\ pc[r] = "sign"
  /\ draft' = [draft EXCEPT ![r] = [account |-> account[r], exp |-> clock + TTL,
                                    revoked |-> FALSE]]
  /\ Goto(r, "commit")
  /\ UNCHANGED <<clock, tables, locks, account, inputs>>

(* TransactionMiddleware commits what the login wrote. *)
Commit(r) ==
  /\ pc[r] = "commit"
  /\ accounts' = accounts \cup {account[r]}
  /\ identity' = IF Kind[r] = "callback"
                   THEN [identity EXCEPT ![login[r]] = account[r]] ELSE identity
  /\ session' = [session EXCEPT ![r] = draft[r]]
  /\ Release(r)
  /\ Goto(r, "ok")
  /\ UNCHANGED <<clock, account, draft, inputs>>

(* The commit fails, but the answer with the cookie is already written. *)
CommitFails(r) ==
  /\ pc[r] = "commit"
  /\ Release(r)
  /\ Goto(r, "ok")
  /\ UNCHANGED <<clock, tables, account, draft, inputs>>
-----------------------------------------------------------------------------
(***************************************************************************)
(* Requests under a session                                                *)
(***************************************************************************)
(* A browser has the tokens of logins that were answered, after their      *)
(* commit.                                                                 *)
MutantAnsweredBeforeCommit ==
  {k \in Requests : Kind[k] \in {"callback", "passkey"} /\ pc[k] \in {"commit", "ok"}}

Answered ==
  {k \in Requests : Kind[k] \in {"callback", "passkey"} /\ pc[k] = "ok"}

(* The sessions whose logout was carried out: revoked, or found ended. *)
LoggedOut == {token[l] : l \in {q \in Requests : pc[q] = "revoked"}}

(* A request presents a session cookie; VerifyContext reads the time. *)
Present(r, state) ==
  /\ pc[r] = "idle"
  /\ \E k \in Answered : token' = [token EXCEPT ![r] = k]
  /\ now' = [now EXCEPT ![r] = clock]
  /\ ended' = [ended EXCEPT ![r] = LoggedOut]
  /\ Goto(r, state)
  /\ UNCHANGED <<clock, tables, locks, login, account, draft>>

ReadSession(r) == Kind[r] = "use" /\ Present(r, "verify")

(* WHERE expires_at > now AND revoked_at IS NULL *)
MutantLiveThoughExpired(row, t) == row # NoRow /\ ~row.revoked

Live(row, t) == row # NoRow /\ row.exp > t /\ ~row.revoked

(* EntSessionStore.Find *)
VerifySession(r) ==
  /\ pc[r] = "verify"
  /\ LET row == session[token[r]]
     IN \/ ~Live(row, now[r]) /\ Abort(r, "refused")
        \/ /\ Live(row, now[r])
           /\ account' = [account EXCEPT ![r] = row.account]
           /\ Goto(r, "load")
           /\ UNCHANGED <<locks, draft>>
  /\ UNCHANGED <<clock, tables, inputs>>

(* FindByID: the account and its identity; /me answers with them, other    *)
(* handlers go on for this account.                                        *)
LoadAccount(r) ==
  /\ pc[r] = "load"
  /\ Goto(r, IF account[r] \in accounts /\ HasIdentity(account[r]) THEN "ok" ELSE "orphan")
  /\ UNCHANGED <<clock, tables, locks, account, draft, inputs>>
-----------------------------------------------------------------------------
(***************************************************************************)
(* POST /auth/logout                                                       *)
(***************************************************************************)
Logout(r) == Kind[r] = "logout" /\ Present(r, "revoke")

(* UPDATE ... SET revoked_at: waits for the row, re-evaluates its WHERE,   *)
(* and succeeds on no row as well.                                         *)
Revoke(r) ==
  LET k == token[r]
  IN /\ pc[r] = "revoke"
     /\ sessionLock[k] = Free
     /\ sessionLock' = [sessionLock EXCEPT ![k] = IF Live(session[k], now[r]) THEN r ELSE Free]
     /\ Goto(r, "commitRevoke")
     /\ UNCHANGED <<clock, tables, identityLock, account, draft, inputs>>

MutantCommitRevokeOfAccount(r) ==
  /\ pc[r] = "commitRevoke"
  /\ session' = [k \in Requests |->
                   IF \E j \in Requests : /\ sessionLock[j] = r /\ session[k] # NoRow
                                          /\ session[k].account = session[j].account
                     THEN [session[k] EXCEPT !.revoked = TRUE] ELSE session[k]]
  /\ Release(r)
  /\ Goto(r, "revoked")
  /\ UNCHANGED <<clock, accounts, identity, account, draft, inputs>>

CommitRevoke(r) ==
  /\ pc[r] = "commitRevoke"
  /\ session' = [k \in Requests |-> IF sessionLock[k] = r
                                      THEN [session[k] EXCEPT !.revoked = TRUE]
                                      ELSE session[k]]
  /\ Release(r)
  /\ Goto(r, "revoked")
  /\ UNCHANGED <<clock, accounts, identity, account, draft, inputs>>
-----------------------------------------------------------------------------
InProgress(r) == pc[r] \notin {"idle"} \cup Finished

(* A query fails, the handler panics or the process dies: rolled back.     *)
(* Logout ignores an error, of its UPDATE or its commit, and answers that  *)
(* all is well.                                                            *)
Fail(r) ==
  /\ InProgress(r)
  /\ Abort(r, IF Kind[r] = "logout" THEN "ignored" ELSE "refused")
  /\ UNCHANGED <<clock, tables, inputs>>

Tick ==
  /\ clock < MaxClock
  /\ clock' = clock + 1
  /\ UNCHANGED <<tables, locks, pc, account, draft, inputs>>

Step(r) ==
  \/ FindIdentity(r) \/ UpdateIdentity(r) \/ CreateAccount(r) \/ Sign(r)
  \/ Commit(r) \/ CommitFails(r) \/ VerifySession(r) \/ LoadAccount(r)
  \/ Revoke(r) \/ CommitRevoke(r)

Arrive(r) == Callback(r) \/ PasskeyLogin(r) \/ ReadSession(r) \/ Logout(r)

Next == Tick \/ \E r \in Requests : Arrive(r) \/ Step(r) \/ Fail(r)

Spec == Init /\ [][Next]_vars

-----------------------------------------------------------------------------
(***************************************************************************)
(* Properties                                                              *)
(***************************************************************************)
(* However first logins of the same identity interleave, fail and roll     *)
(* back, there is one account per identity and none without: what the      *)
(* loser of a race inserted is gone (persistence/accounts.go:32-85).       *)
OneAccountPerIdentity ==
  /\ \A a \in accounts : HasIdentity(a)
  /\ \A i \in Identities : identity[i] # NoAccount => identity[i] \in accounts
  /\ \A i, j \in Identities : identity[i] = identity[j] /\ identity[i] # NoAccount => i = j

(* A request only acts for the account of a login that was committed, and  *)
(* after a callback that is, then and for ever, the account of the         *)
(* identity the provider vouched for; the session was alive when it was    *)
(* presented.                                                              *)
ActsForItsLogin ==
  \A u \in Requests : Kind[u] = "use" /\ pc[u] = "ok" =>
    LET k == token[u]
    IN /\ session[k] # NoRow
       /\ session[k].account = account[u]
       /\ Kind[k] = "callback" => identity[login[k]] = account[u]
       /\ now[u] < session[k].exp

(* A session ends with a logout that met no error: no request that arrives *)
(* afterwards acts under it - whatever other logouts of the same session   *)
(* wait, fail or roll back (handler/handler.go:46-54).  A logout that did  *)
(* meet one answers the same, but promises nothing.                        *)
LogoutEnds ==
  \A u \in Requests : Kind[u] = "use" /\ pc[u] = "ok" => token[u] \notin ended[u]

(* Whoever has a live session finds an account and its identity under it,  *)
(* although they are read in several statements.                           *)
NobodyOrphaned == \A r \in Requests : pc[r] # "orphan"

(* What a login committed is for good: concurrent UPDATEs and commits never *)
(* move an identity to another account, and a session row only changes when *)
(* a logout that presented its token commits; it does not come back, change *)
(* hands or end with anybody else's (persistence/accounts.go:32-85,         *)
(* persistence/sessions.go:58-72).                                          *)
LoginsForGood ==
  [][/\ \A i \in Identities : identity[i] # NoAccount => identity'[i] = identity[i]
     /\ \A k \in Requests : session[k] # NoRow /\ session'[k] # session[k] =>
          /\ session'[k] = [session[k] EXCEPT !.revoked = TRUE]
          /\ \E r \in Requests : /\ Kind[r] = "logout" /\ token[r] = k
                                 /\ pc[r] = "commitRevoke" /\ pc'[r] = "revoked"]_vars
=============================================================================
