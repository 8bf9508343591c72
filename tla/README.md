# Verification of the authentication API

This directory holds a TLA+ development of the authentication API in `api/src`
(a Go server with PostgreSQL): models of its concurrent parts, TLC
configurations that check them on small instances, and TLAPS proofs of the
properties that matter most for instances of any size.  Paths below are
relative to `api/src`.

1. [The system](#1-the-system)
2. [What makes it hard](#2-what-makes-it-hard)
3. [The modules and the code](#3-the-modules-and-the-code)
4. [What the runs check](#4-what-the-runs-check)
5. [What is proved](#5-what-is-proved)
6. [What the checks found](#6-what-the-checks-found)
7. [What is not modelled](#7-what-is-not-modelled)
8. [What could come next](#8-what-could-come-next)

## 1. The system

The API signs users in with Google or a passkey, keeps a login session per
browser, and is an OpenID Connect provider (authorization code flow with PKCE)
for external applications.  Several replicas may share one database; within a
replica every HTTP request is a goroutine.

| component | code | state | operations |
|---|---|---|---|
| Request transactions | `infrastructure/database/transaction.go` | one database transaction per request, begun by its first query | commit after a status below 400, roll back otherwise and on panic |
| OIDC flow | `handler/oidc.go`, `infrastructure/oidc/provider.go`, `infrastructure/persistence/oidc.go` | authorization transactions, codes, access tokens, clients | `/authorize`, `/authorize/resume`, `/token`, `/userinfo`, clean-up of expired rows |
| Passkey ceremonies | `handler/passkey.go`, `usecase/passkey.go`, `infrastructure/persistence/passkeys.go` | challenges (`webauthn_sessions`), credentials, a mutex per process | options and verification of registration and login |
| Rate limiter | `router/middleware.go` | times of the recent requests per address and route, in memory | admit or refuse a request |
| Client synchronisation | `infrastructure/persistence/oidc.go` `EnsureClients`, `FindClient` | clients and redirect URIs | replaced at every start from the configuration |
| Login sessions | `infrastructure/session/session.go`, `infrastructure/persistence/sessions.go`, `handler/session.go`, `handler/handler.go` | `auth_sessions`, cookie | issue, verify, revoke |
| External login, accounts | `handler/google.go`, `handler/account.go`, `usecase/oauth.go`, `infrastructure/persistence/accounts.go` | accounts, identities, OAuth state cookie | redirect to the provider, callback, upsert |
| Browser cookies and redirects | `handler/session.go`, the handlers, `web/src/app/login` | `oidc_transaction`, `passkey_session`, state, redirect and session cookie, shared by all tabs | login page, redirects, replies in any order |
| In-memory stores | `infrastructure/oidc/store.go`, `infrastructure/session/session.go` | the same as the tables, under one mutex | used when no database store is passed |

How they interact: every handler takes its user from a login session; the
stores take their database handle from the request's context, so everything a
request does is one transaction.  The exceptions are what makes the design
interesting: `ConsumeTransaction` and `RedeemAuthorizationCode` open a second
transaction of their own and commit it at once (a code stays used even if the
request fails), `SaveSession` holds a mutex that is released before the
request's transaction commits, and the rate limiter lives outside the database.

What makes each part correct:

* **OIDC flow** - a transaction or code is honoured for one request only; once
  used it stays used; a token belongs to the client, redirect URI, verifier and
  account of the `/authorize` request it goes back to; claims are answered for
  live tokens only; clean-up removes nothing alive; everybody is answered.
* **Passkeys** - a challenge admits one successful verification; a verification
  uses a live challenge of its own ceremony (and, for a registration, its own
  account); a credential belongs to one account for good; a failed verification
  costs nobody a challenge; the mutex and the row locks do not deadlock.
* **Rate limiter** - no more than the limit passes in any window; nobody is
  refused for less.
* **Client synchronisation** - a client is never a mixture of two
  configurations; the configuration of the last start is in force; a lookup
  reports what applied at some moment during the call; all replicas come up.
* **Accounts and sessions** - one account per external identity and none
  without; a session acts for the account of its login only, while it is alive;
  after a logout nothing acts under it.
* **Browser** - a login or an authorization is only completed in the browser
  that began it, and returns where it was asked to.
* **In-memory stores** - what they accept the database accepts too, with all
  that the handlers use of it, unless it was saved for a client or an account
  that does not exist: so a test of a handler on the one says something about
  the other.

## 2. What makes it hard

Nothing here can be seen in the code of a single request.  Requests interleave
between any two statements, at READ COMMITTED: a SELECT sees what is committed
when it runs, an UPDATE or DELETE waits for the row's lock and then looks at
the row again.  A request may fail after any statement, and its commit may fail
after the client has been told that it succeeded.  Times are read early and used late.  The
hazards, each at the line where it bites and with the properties that cover
it, are listed in `PROJECT.json`.

## 3. The modules and the code

| module | models |
|---|---|
| `SingleUse` | the abstract contract of one-time secrets, implemented by `OIDCFlow`, `PasskeyCeremony` and `StoreAgreement`: live, redeemed for one user at most, dead for ever |
| `OIDCFlow` | the OIDC endpoints on PostgreSQL, one action per statement or handler phase |
| `PasskeyCeremony` | the passkey endpoints on PostgreSQL with the mutex of `SaveSession` |
| `RateLimit` | the rate limiter |
| `ClientSync` | `EnsureClients` of several starting replicas, statement by statement, and `FindClient` |
| `AccountSession` | external and passkey logins, requests under a session, logouts, on PostgreSQL |
| `StoreAgreement` | the in-memory stores and the database stores under the same calls |
| `BrowserTabs` | the tabs and cookies of browsers, the login page and the handlers that set cookies |
| `MC...` | instances of the module for TLC |
| `OIDCFlowProofs`, `OIDCFlowChain` | invariants of `OIDCFlow`, who can be part of its deadlocks, that it implements `SingleUse`; the chain behind a token |
| `PasskeyProofs` | invariants of `PasskeyCeremony`, who can be part of its deadlocks, that its challenges implement `SingleUse` |
| `RateProofs`, `ClientProofs`, `AccountProofs`, `StoreProofs`, `BrowserProofs` | invariants of the other modules; `StoreProofs` also that the memory store implements `SingleUse` |

Each module looks at one kind of difficulty and takes the rest from the others:
`BrowserTabs` lets the server answer in one step, because `OIDCFlow`,
`PasskeyCeremony` and `AccountSession` show what several requests do to each
other's steps; those let a cookie name any secret, because `BrowserTabs` shows
which one it names; `OIDCFlow` has one atomic `EnsureClients`, because
`ClientSync` shows that a start leaves one whole configuration, or nothing;
`StoreAgreement` takes a call of a database store as one step.

### OIDCFlow

A secret (transaction ID, code, token) is random, so a row is named by the
request that inserts it: `db[q]` is the committed row of request `q`, `lock[q]`
the open transaction with an uncommitted write to it.  `draft[r]` is the row
`r` is going to insert (committed when `pc[r] = "ok"`), `req[r]` what it
presented, `now[r]` the last time it read.  A PKCE challenge is named by the
verifier it was made from.

* `Authorize`, `ResumeAuthorization`, `Token`, `UserInfo` are the beginnings of
  the handlers: parameters, session, cookie and client authentication are
  chosen freely, and refused as the code refuses them.
* `SelectGrant`, `UpdateGrant`, `CommitGrant` are the second transaction of a
  redemption; PKCE is only compared after its commit.
* `BeginCleanup`, `DeleteRow`, `NextDelete`, `Save` are the three DELETEs and
  the INSERT of issuing, in the HTTP transaction; a DELETE locks its rows one by
  one, in any order.
* `Commit` and `CommitFails` end the HTTP transaction, `Fail` rolls it back at
  any point; `Refuse` is every answer that carries an error.
* `FindToken`, `CheckClient` are the two SELECTs of `/userinfo`.
* `EnsureClients` is the committed net effect of a replica's start: the clients
  of one of the `Configurations` are enabled, with their redirect URIs.  It may
  happen at any time.  `FindClient` reads client and URIs at once.

### PasskeyCeremony

A challenge is named by the request that stored it.  `Kind[r]` is one of the
four endpoints.  `SaveSession` takes the mutex of its process and reads the
time, `DeleteExpired` locks the expired rows one by one, `EnsureSessionLimit`
counts committed rows, `InsertSession` releases the mutex; the row is there
from `Commit` on.  `SelectSession` and `DeleteSession` are `ConsumeSession`, in
the HTTP transaction here.  `VerifyRegistration` and `VerifyLogin` are the
verdict of the WebAuthn library - any verdict, and any credential the
authenticator may hold - followed by the code's own checks; `CheckCredential`,
`InsertCredential` (unique index) and `UpdateCredential` are the writes.
`Abandon` is an error return: the mutex is free at once, the row locks only
when `Rollback` is reached.

### RateLimit

`Receive` finds the rule and reads the time, `Allow` is the critical section of
`rateLimitStore.allow`: purge of all stale keys, filter, comparison, append.
Between the two a request may be overtaken; `TakeMutex` remembers whether one
ever was.  The filter's loop is `Picked`, the entries at some places in their
order, rather than `SelectSeq`, whose recursive definition no proof can look
into; `PickedSelects` in `MCRateLimit` has TLC compare the two on short lists.

### ClientSync

`clients[c]` is the committed row of a client together with its redirect URIs,
`lock[c]` the replica with an uncommitted write to it, `draft[p][c]` that
write.  A replica goes through the loop of `EnsureClients`: `FindStored`
(SELECT), `InsertClient` (waits for a competing insert and fails on the unique
index once that has committed) or `UpdateClient`, `ReplaceRedirectURIs`; then
`SelectAll`, `DisableClient` for every client that is not configured, and
`Commit`.  The URIs need no lock of their own, for whoever writes them holds
the client's row.  `Crash` may happen anywhere and `DeadlockAbort` ends a
member of a cycle of waits; both roll back and end the process (`main.go`:
`log.Fatal`), and `Start` is Kubernetes starting it again
(`manifests/base/api-deployment.yaml`; two replicas in
`manifests/overlays/prd/replicas-patch.yaml`).  `FindClient` and
`FindRedirectURIs` are the two SELECTs of a lookup.

### AccountSession

A session and an account are named by the request that inserts them.  A
callback is `Callback` (state, code and the provider's verdict), `FindIdentity`,
then `UpdateIdentity` or `CreateAccount` - the INSERT of the identity waits for
the unique key, and fails if the other one committed - then `Sign` and
`Commit`.  `PasskeyLogin` loads an account by its user handle.  A request under a
session is `ReadSession`, `VerifySession`, `LoadAccount`; a logout `Logout`,
`Revoke` - an UPDATE that waits, looks again, and is content with no row - and
`CommitRevoke`.  `CommitFails` loses a commit whose reply is already written,
`Fail` rolls back anywhere.  A browser presents only tokens of logins that were
answered.

### StoreAgreement

Both stores are given the same calls with the same times; `inMemory` and `inDB`
are the two answers.  The database operations are those of
`EntOIDCStore` and `EntSessionStore` as they come out when their transaction
commits.  The memory stores prune with the caller's time first, or with the
current one when they save; they delete a grant that is redeemed, mark a
session that is revoked, and take a limited number of entries.  `Restart`
empties them and starts with the same or other clients.

The two do not keep the same.  The in-memory session store keeps the whole
`User` (`session/session.go:110-127`), `EntSessionStore` its account ID only
(`persistence/sessions.go:25-56`); the prompts of an authorization request are
in the memory store's copy of it, but have no columns
(`persistence/oidc.go:168-239`).  These are the field `extra` of a secret's
data, which `Columns` replaces by the zero value.  And the foreign keys of the
tables (`Founded`) refuse a row for a client or an account that has none, which
the memory stores take unchecked.  `parents` has the rows of `oidc_clients` and
`accounts`: `EnsureClients` (`Restart`) adds clients, a first login
(`CreateAccount`) an account, nothing deletes either.  `refused` remembers the
secrets the database would not take.

### BrowserTabs

A request carries the cookies the browser has when it is sent; the reply's
`Set-Cookie` headers (`headers`) take effect in `Deliver`, in any order, or
never (`Break`).  `origin[s]` says for which browser a secret was made, and
where its login returns to.  Any URL a request ever had may be opened in any
tab of any browser.  The actions between are the handlers - `Authorize`,
`Login`, `Callback`, `PasskeyOptions`, `PasskeyVerify`, `ResumeAuthorization`,
`Logout` - and the front end's `LoginPage`, which sends a user that is signed in
back at once.

## 4. What the runs check

TLC explores every reachable state of the instance in each `.cfg`.

| run | instance | properties |
|---|---|---|
| `flow_chain` | one request per endpoint; two clients (one URI shared, one not) one of which may be disabled in between, two accounts, two verifiers | `TypeOK`, `TokenBinding`, `UserInfoBinding` |
| `flow_contract` | one `/authorize`, two resumes of it, one exchange, time up to expiry | `HonouredOnce`, `NoSelfWait`, `RowsOnlyAge`, `ImplementsSingleUse` |
| `flow_live` | three cleaning requests and an exchange, fair | `DeadlockTakesTwoCleanups`, `EveryRequestEnds` |
| `passkey_register` | two registrations of one credential, two accounts | `TypeOK`, `CeremonyBinding` |
| `passkey_once` | a challenge of each ceremony, two login verifications, clean-up | `ChallengeUsedOnce`, `CeremonyBinding`, `ChallengeLostOnlyByUse`, `ImplementsSingleUse` |
| `passkey_live` | four challenges in one process, fair | `DeadlockTakesTwoReplicas`, `EveryRequestEnds` |
| `passkey_limit` | see section 6 | a violation of `SessionLimitKept` |
| `rate` | five requests, two keys, limit two, times in any order | `TypeOK`, `WindowLimit`, `LimitedOnlyWhenFull` |
| `client_sync` | three replicas and configurations, a crash, a lookup, fair | `TypeOK`, `ClientWhole`, `LastStartWins`, `LookupTrueOnce`, `AllReplicasServe` |
| `accounts` | two callbacks, two identities, a passkey login, a request under a session, two logouts | `TypeOK`, `OneAccountPerIdentity`, `ActsForItsLogin`, `LogoutEnds`, `NobodyOrphaned`, `LoginsForGood` |
| `stores` | three calls of any kind, two clients one of which may be missing, an account that may not exist yet, room for one entry of a kind, restarts | `TypeOK`, `NeverLaxer`, `StricterWithReason`, `ImplementsSingleUse` |
| `browser` | two tabs in one or two browsers, three secrets and a session | `TypeOK`, `BoundToBrowser`, `ReturnsWhereAsked` |

What the less obvious ones say:

* `WindowLimit` is stated for times that reach the store in the order of the
  clock; `LimitedOnlyWhenFull` for any order.  With late times the limit itself
  is not kept, see section 6.
* `LastStartWins` has an exception that TLC found: two replicas whose
  configurations have *no* client in common do not lock each other out, so the
  second may overlook clients the first has inserted but not committed, and
  both configurations end up enabled.
* `LookupTrueOnce`: `FindClient` may combine the secret of one configuration
  with the URIs of the next.  No handler uses both, and each of the two did
  apply while the client was enabled, during the call.
* `LogoutEnds` is about logouts that met no error.  It needs that a second
  logout *waits* for the first: only after that one committed may it rely on
  finding no row to revoke.
* `LoginsForGood`: an identity never moves to another account, and a session row
  changes only in the commit of a logout that presented its token - never in
  that of another session of the same account.
* `DeadlockTakesTwoCleanups`, `DeadlockTakesTwoReplicas`: in every set of
  requests that wait for each other two are deleting expired rows; in
  `PasskeyCeremony`, where the mutex orders the DELETEs of one process, two of
  different replicas.  The first is not vacuous in `flow_live`: cleanups do
  cross there.  In `passkey_live` there is one replica, so the second says that
  nobody ever waits in a circle.
* `ImplementsSingleUse` of `PasskeyCeremony`: a challenge is used in the HTTP
  transaction itself, so it stops being live where that commits; a verification
  that rolls back has not redeemed it, and it stays live.
* `NeverLaxer` compares what the handlers read of an answer (`Used`): client,
  redirect URI and account, for scope, state, nonce and challenge are written
  and read like those.  It says nothing of the prompts - only `/authorize` looks
  at them, before it saves the request, and `authorizeForUser` does not - nor of
  the provider and e-mail of a session's user, of which every handler reads the
  account ID alone.  It excepts secrets the foreign keys refused.
* `StricterWithReason`: the memory store judges with the latest time of any
  caller, the database with the caller's own.
* `ReturnsWhereAsked` holds although all tabs share one redirect cookie: the
  state cookie is set by the same reply, so whoever still has the right state
  also has its redirect.  A login of the *other* kind shares the redirect
  cookie but not the state, which is the exception the property makes.

**Bounds.**  `MaxClock` bounds time; lifetimes are 1, so one tick expires a row
and two ticks expire the row of a request that started later.  Most properties
relate at most two requests to one secret, and each secret has one issuer, so
the runs take two contenders and their issuers; the deadlock of two clean-ups
needs two rows and two cleaners (`flow_live`: three issuing requests;
`passkey_live`: four).  `client_sync` has two configurations that share a client
and differ in it, and a third that is disjoint from the first; one crash
(`MaxCrashes`) comes on top of the ones that deadlocks and the unique index
force.  `accounts` needs two first logins of one identity and two logouts of one
session.  `stores` has three calls: one that saves, and two that try; or two
that save, so that the store is full.  `flow_chain` has two configurations, so
that a client may go and come back between any two statements.
`MaxSecrets = 4` lets `browser` begin two logins or authorizations in the same
browser, complete one and go on; the last secret is kept for a session.  The
limits are 1 or 2 where the limit matters and out of reach where it does not.
The proofs of section 5 do not depend on any of these bounds.

**Symmetry** is declared only for sets whose members the instance treats alike,
never in a run that checks liveness.  In `passkey_once` it is data that the
refinement mapping does not mention (accounts and credentials).  In `stores` it
is the clients and the calls, which the mapping does mention; but it treats all
calls alike, as `SingleUse` does, so a step and its permutations implement the
contract or fail to together (its one CHOOSE is from a singleton).

**Deadlock.**  `OIDCFlow`, `StoreAgreement` and `BrowserTabs` never stop: a
replica may start again, a page be opened.  In the other modules all requests
may have been answered and the clock be at its bound; their configurations
therefore say `CHECK_DEADLOCK FALSE`, and where anybody waits liveness states
instead that nobody is stuck (the rate limiter's only lock is released by the
critical section that takes it; in `AccountSession` no request waits for a
second lock, so there is no cycle).

**Fairness.**  `WF_vars(Step(r))` for every request: the Go scheduler runs a
goroutine that can go on, and a lock that is free is granted.  Nobody is owed an
arrival, a tick or a failure.  `OIDCFlow` adds
`DeadlockAbort`, PostgreSQL's deadlock detection: a request in a cycle of
waits is aborted in the end.  `PasskeyCeremony` does without it: its liveness
run has one process, and shows that the mutex keeps the DELETEs apart.  With
several processes the DELETEs of two of them may cross, and PostgreSQL would
abort one; that nothing else can is proved (section 5), that everybody is
answered after such an abort is not checked.  `DeleteExpired` needs no stronger fairness,
for a lock that a finished request leaves is taken by whoever waits, and the
number of requests is finite.

`ClientSync` has weak fairness for a replica's start, its statements and
PostgreSQL's deadlock detection.  That is not enough for `AllReplicasServe`:
TLC shows a livelock in which a deadlock victim is back before the survivor has
finished, crosses it again, and this time survives.  Kubernetes delays the
restarts of a container that fails again and again, more each time, so the
property assumes (`DelayedRestarts`) that from some time on a replica only
starts when no other one is in the middle of `EnsureClients`.

**Mutants.**  For every property `PROJECT.json` names a mutated definition
(`Mutant...`, next to the original): a dropped condition, a lock kept, an
off-by-one, a wrong field.  Under the mutant TLC finds the property violated.

## 5. What is proved

For all values of the constants that satisfy the named assumptions - any number
of requests, clients, accounts, credentials, processes, and any lifetimes:

| module | theorem | statement |
|---|---|---|
| `OIDCFlowProofs` | `TypeCorrect` | `Spec => []TypeOK` |
| | `SingleRedemption` | `Spec => []HonouredOnce` |
| | `NeverWaitsForItself` | `Spec => []NoSelfWait` |
| | `RowsAge` | `Spec => RowsOnlyAge` |
| | `Refinement` | `Spec => ImplementsSingleUse` |
| | `OnlyCleanupsDeadlock` | `Spec => []DeadlockTakesTwoCleanups` |
| | `OnlyCleanupsGetStuck` | while a request is served, one is not blocked, or two cleanups are |
| `OIDCFlowChain` | `TokensBound` | `Spec => []TokenBinding` |
| | `ClaimsBound` | `Spec => []UserInfoBinding` |
| `PasskeyProofs` | `TypeCorrect` | `Spec => []TypeOK` |
| | `SingleVerification` | `Spec => []ChallengeUsedOnce` |
| | `CeremoniesAreBound` | `Spec => []CeremonyBinding` |
| | `ChallengeKept` | `Spec => ChallengeLostOnlyByUse` |
| | `ChallengesRefine` | `Spec => ImplementsSingleUse` |
| | `DeadlockCrossesReplicas` | `Spec => []DeadlockTakesTwoReplicas` |
| | `OneReplicaGoesOn` | with one replica: while a request is served, one is not blocked |
| `RateProofs` | `RatesTyped` | `Spec => []TypeOK` |
| | `LimitHolds` | `Spec => []WindowLimit` |
| | `NotLimitedForNothing` | `Spec => LimitedOnlyWhenFull` |
| `ClientProofs` | `ClientsTyped` | `Spec => []TypeOK` |
| | `ClientsWhole` | `Spec => []ClientWhole` |
| | `LastStartInForce` | `Spec => []LastStartWins` |
| | `LookupsTrue` | `Spec => []LookupTrueOnce` |
| `AccountProofs` | `AccountsTyped` | `Spec => []TypeOK` |
| | `NoDuplicateAccounts` | `Spec => []OneAccountPerIdentity` |
| | `SessionsActForTheirLogin` | `Spec => []ActsForItsLogin` |
| | `LogoutIsFinal` | `Spec => []LogoutEnds` |
| | `NoOrphans` | `Spec => []NobodyOrphaned` |
| | `LoginsStay` | `Spec => LoginsForGood` |
| `StoreProofs` | `StoresTyped` | `Spec => []TypeOK` |
| | `MemoryNeverLaxer` | `Spec => []NeverLaxer` |
| | `MemoryStricterWithReason` | `Spec => []StricterWithReason` |
| | `MemoryRefinement` | `Spec => ImplementsSingleUse` |
| `BrowserProofs` | `BrowserTyped` | `Spec => []TypeOK` |
| | `LoginsBoundToBrowser` | `Spec => []BoundToBrowser` |
| | `LoginsReturnWhereAsked` | `Spec => []ReturnsWhereAsked` |

**Assumptions.**  Each request has one of the endpoints' kinds; lifetimes and
limits are positive; a configuration has at least one client and gives each a
secret and redirect URIs; the values that stand for "nobody" and for a missing row are
different from requests, accounts, secrets and rows.  They are named in the modules that declare the
constants, and every run evaluates them.

**OIDCFlow.**  `HonouredOnce` is not inductive: it says nothing of a request
that has updated a row but not committed yet.  The invariant adds that a
request at `commitGrant` holds the lock of the row it presented, that the row
is not consumed yet, and that a row whose beneficiary goes on is consumed or
gone.  A second UPDATE waits for the lock, re-evaluates its condition and finds
the row consumed.  The refinement needs `AgeInv` as well: times read lie in the
past, so whatever a clean-up has locked or is about to visit has expired and
cannot come alive.  The refinement mapping calls a grant live while its row is
committed and not consumed; `CommitGrant` is the step that redeems it, every
other step renews or stutters.

For the deadlocks, `OrderInv` adds that a DELETE never meets a row its own
transaction has locked, as the three DELETEs of a cleanup are about different
tables and a request begins them with no lock in its hands.  A request that
waits for a grant waits for one that is cleaning up, or that only has to commit
the grant's transaction or its own; so it can be part of a circle only behind a
cleanup, which waits for another cleanup.  `OnlyCleanupsGetStuck` draws the
conclusion for the whole service: while any request is served, one of them
finds all it needs free, or two cleanups wait and PostgreSQL aborts one.

**PasskeyCeremony.**  Here the lock is held until the end of the request, so
the invariant follows the lock: a locked row exists and its holder is either
the one verification that consumes it or a request that deletes it as expired
(`LockInv`); a verification past `DeleteSession` holds the lock of its challenge,
which is still the one it selected (`HoldInv`); what the registration found out
about the challenge's account and the login about the credential's owner is
still so (`CredentialInv`); a used challenge is gone (`UsedInv`) and never comes
back, as a row only appears in the commit of the request that names it
(`RowInv`).  All steps but `Commit` publish nothing; `PrivateStep` shows once
what all of those preserve.

`ChallengesRefine` shows that this is the same contract of one-time secrets
that `OIDCFlow` implements with transactions of their own.  A challenge is live
while its row is committed; the `Commit` of the verification that consumed it
redeems it; its beneficiary is that verification.  For the deadlocks, `WaitInv`
says that the mutex is in the hands of a request that deletes or counts, that
whoever holds a credential only has to commit or roll back, and that a DELETE
never meets a row of its own.  What is left of a circle are DELETEs that wait
for rows locked by DELETEs, and the mutex keeps those of one process apart.

**RateLimit.**  The two limits count requests, the store only has times.
`JournalInv` links them: the entries of a key are the times of different
requests that were let through (`Journal`), and as long as the times came in
order, the list is sorted and has all that count now or later (`Complete`).
Then the list's length is the number of requests in the window, and a stale
last time means that the whole list is stale.  With late times only `Journal`
is left, which is enough for `LimitedOnlyWhenFull`.  The proof takes the
filter's loop by the places it keeps: their ranks are different numbers from 1
to their number, so each of these is the rank of one (`PickedPlaces`).

**OIDCFlowChain.**  The two binding properties look back over three requests,
so `ChainInv` ties each request to the one whose secret it presented: what it
is about to insert agrees with what that one inserted (`Redeems`, `Reads`), the
first link names a URI of a configured client (`Grounded`), and a stored row is
what its request drafted (`Stored`).  `OthersLinked` shows once that a step of
one request leaves the links of the others alone: they lead to requests that
were answered and do not move any more.

**ClientSync.**  The invariant says which clients a replica holds locked at each
place of the loop (`Held`) and what it has written of them (`WrittenOK`).
`ClientWhole` follows, as only `Commit` publishes and it publishes whole
clients.  For `LastStartWins`, `UnseenOK` carries the exception: a row that
appears after the SELECT of all belongs to a configuration with no client in
common, or its replica would have had to wait.

**AccountSession.**  A request that logs in by a callback holds the lock of its
identity from its UPDATE or INSERT on, and its account is the one it found
there, or its own (`LoginOK`).  A logout whose UPDATE is done holds the session
or has found it dead, and dead sessions stay dead (`UseOK`).  The same invariant
gives `LoginsForGood`: the only steps that touch the tables are the commits, and
a commit writes an identity that was free or leads to the same account already.

**StoreAgreement.**  What the memory holds the database holds as well, in the
columns it has, or it was refused (`Agrees`); both have it from the call that
saved it, with the lifetime it got then (`Held`, `Owned`); and what the memory
holds no more was lost, has expired, or is consumed or deleted in the database
(`Missing`).  The refinement adds that a secret is
redeemed at most once and gone after it (`SpentInv`, `OnceInv`).

**BrowserTabs.**  The invariant says the same of the cookies in a jar and of
those on their way to it: what they name was made for this browser, and a state
cookie and a redirect cookie that are there together belong together.

**Model-checked only.**  Liveness: `EveryRequestEnds` of both modules and
`AllReplicasServe`, which need fairness and `ENABLED`.  Every safety invariant
and action property of the runs that must pass is also proved.

## 6. What the checks found

* `passkey_limit`: the limit of active challenges is not kept.  The mutex of
  `SaveSession` is there to serialise "from the count to the INSERT", but the
  row only becomes visible when the middleware commits, after the mutex was
  released; the next request counts without it.  The same happens between
  replicas, which do not share the mutex.

Met while modelling, without a run of their own:

* When the verification of a passkey fails, the request is rolled back and the
  consumption of its challenge with it: the challenge can be tried again until
  it expires.  The comment in `usecase/passkey.go:147` ("consume the login
  challenge before the authenticator's response is verified") reads otherwise;
  `passkeys_test.go:159` expects the rollback.  `ChallengeUsedOnce` and
  `ChallengeLostOnlyByUse` state what does hold.
* The rate limiter's purge drops a key whose *last* time is older than the
  window (`router/middleware.go:73`).  Times are read before the mutex is
  taken, so the last is not always the newest, and times that still count are
  dropped with it: after a late arrival the limit starts anew.
* `Logout` ignores the error of `Revoke` and answers 200
  (`handler/handler.go:50`); so it does when the commit fails afterwards.  The
  browser's cookie is gone, the session is not.
* `prompt=login` asks for a fresh login, but the login page sends a user that is
  signed in straight back to `/authorize/resume`, which accepts the session
  that is there.
* Replicas with disjoint configurations, and restarts without delay: see
  `LastStartWins` and `AllReplicasServe` in section 4.
* `session_test.go:34` finds the user's e-mail in a session of the in-memory
  store.  No session in the database has one: `EntSessionStore.Find` returns the
  account ID and nothing else.  Nor does a stored request have its prompts
  (`persistence/oidc.go:168-239`).  No handler reads either, so nothing goes
  wrong today; one that did would pass its tests on the memory stores.
* The memory stores save secrets for clients and accounts that do not exist; the
  foreign keys of the database refuse them.
* The memory store never disables a client and `Revoke` has an error for a
  session it does not know; the database does and has not.  Neither can be told
  apart in a process that starts with an empty store and ignores that error.

## 7. What is not modelled

Cryptography (PKCE hashing, ID token signatures, WebAuthn verification), formats
and cookies' attributes, configuration and start-up, the origin, CORS and
body-size checks, the web pages other than the login page, and the manifests:
they keep no state that interleaves, or are third-party code.  The WebAuthn
sign count is left out, for no part of the code promises anything about its
stored value; so is the rotation of signing keys, which the configuration does
and no code.  Nonce, scope and `state` travel with an authorization request
exactly as its PKCE challenge does, which is modelled.  Which return URLs
`AuthRedirectURL` allows is a decision about one string; `BrowserTabs` takes
every stored return URL as an allowed one.  `PROJECT.json` lists every
component.

**Size.**  Nine tenths of the Go code - about 29,500 of 33,600 lines - is the
client that `ent` generates from the schema (`ent/`).  It builds SQL from the
calls of the hand-written code and has no behaviour of its own, so the
statements are modelled at the lines that make the calls, and the generated
code is mapped to nothing.  What the modules cover is to be measured against
the remaining 4,000 lines, of which the configuration is the largest part
that is left out.

Abstractions to be aware of: secrets are never guessed and never collide; all
replicas read one clock, and its unit is no finer than the microsecond to which
PostgreSQL keeps a `timestamptz` (Go's times have nanoseconds, so a lifetime may
be shorter in the database by less than one); a database statement other than a DELETE of several
rows is atomic at READ COMMITTED; each request is handled once - a client that
retries is another request.

## 8. What could come next

All components with state that outlives a request are modelled.  Left are:

* a liveness run of `PasskeyCeremony` with several processes and PostgreSQL's
  deadlock detection, like `flow_live`;
* the deadlocks of starting replicas in `ClientSync`: which circles of waits
  there can be, and that some replica always goes on;
* the parsing of redirect URLs and of the client list as pure operators over
  structured URLs;
* signing keys of several replicas, should the code come to rotate them.
