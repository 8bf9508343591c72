------------------------------ MODULE OIDCFlow ------------------------------
(***************************************************************************)
(* The authorization-code flow on PostgreSQL: concurrent HTTP requests to  *)
(* /authorize, /authorize/resume, /token and /userinfo, each a goroutine   *)
(* that runs a handler of handler/oidc.go, the provider operations it      *)
(* calls and the statements of persistence/oidc.go.                        *)
(*                                                                         *)
(* A request holds up to two database transactions (READ COMMITTED):       *)
(*   - its HTTP transaction, begun by the first query and committed by     *)
(*     TransactionMiddleware after the handler, or rolled back;            *)
(*   - a transaction of its own in which ConsumeTransaction and            *)
(*     RedeemAuthorizationCode select, update and commit one row.          *)
(*                                                                         *)
(* Every stored secret is random, so a row is named by the request that    *)
(* inserts it: db[q] is the committed transaction, code or token row of    *)
(* request q.  lock[q] is the open transaction with an uncommitted write   *)
(* to that row - its consumption if the holder is at "commitGrant", its    *)
(* deletion otherwise; the inserting transaction needs no lock, nobody     *)
(* else sees its row.                                                      *)
(***************************************************************************)
EXTENDS Naturals

CONSTANTS Requests,     \* HTTP requests, each handled once
          Kind,         \* Kind[r]: the endpoint request r calls
          Clients, Uris, Accounts,
          Verifiers,    \* PKCE verifiers; S256 is injective, so a challenge
                        \* is named by the verifier it was made from
          Prompts,      \* the prompt parameters clients send
          Configurations,  \* what replicas start with: clients and their URIs
          CodeTTL, TokenTTL,
          MaxClock,     \* bound of the clock
          NoRow, NoReq, NoAccount, Free

ASSUME KindAssumption ==
  Kind \in [Requests -> {"authorize", "resume", "token", "userinfo"}]

ASSUME PromptsAssumption == Prompts \subseteq {"none", "login", "absent"}

ASSUME ConfigurationsAssumption ==
  Configurations \subseteq UNION {[configured -> SUBSET Uris] : configured \in SUBSET Clients}

ASSUME TTLAssumption == /\ CodeTTL \in Nat \ {0}
                        /\ TokenTTL \in Nat \ {0}
                        /\ MaxClock \in Nat

ASSUME AbsentAssumption ==
  Free \notin Requests /\ NoAccount \notin Accounts

VARIABLES clock,    \* time.Now(), the same for all replicas
          registered,  \* redirect URIs of the clients that are enabled
          db,       \* committed rows
          lock,     \* holder of the row's write lock
          pc,       \* control state of each request
          req,      \* what a request presented: its key, client, uri, ...
          draft,    \* the row a request is going to insert, or has inserted
          now,      \* the last time.Now() a request read
          todo      \* rows the current DELETE of a request still has to visit

vars == <<clock, registered, db, lock, pc, req, draft, now, todo>>

(* Columns a table does not have keep the value of the grant the row stems *)
(* from; no query reads them.                                              *)
Rows ==
  [table: {"transaction"}, client: Clients, uri: Uris, account: {NoAccount},
   challenge: Verifiers, exp: Nat, consumed: BOOLEAN]
  \cup
  [table: {"code", "token"}, client: Clients, uri: Uris, account: Accounts,
   challenge: Verifiers, exp: Nat, consumed: BOOLEAN]

ResumeInputs == [key: Requests, account: Accounts]

TokenInputs == [key: Requests, client: Clients, uri: Uris, verifier: Verifiers]

UserInfoInputs == [key: Requests]

Inputs == ResumeInputs \cup TokenInputs \cup UserInfoInputs

Cleaning == {"cleanTokens", "cleanCodes", "cleanTransactions"}

Finished == {"ok", "refused"}

States == {"idle", "select", "update", "commitGrant", "ready", "save", "commit",
           "findToken", "checkClient"} \cup Cleaning \cup Finished

TypeOK ==
  /\ clock \in 0..MaxClock
  /\ registered \in Configurations
  /\ db \in [Requests -> Rows \cup {NoRow}]
  /\ lock \in [Requests -> Requests \cup {Free}]
  /\ pc \in [Requests -> States]
  /\ req \in [Requests -> Inputs \cup {NoReq}]
  /\ draft \in [Requests -> Rows \cup {NoRow}]
  /\ now \in [Requests -> Nat]
  /\ todo \in [Requests -> SUBSET Requests]

Init ==
  /\ clock = 0
  /\ registered \in Configurations
  /\ db = [r \in Requests |-> NoRow]
  /\ lock = [r \in Requests |-> Free]
  /\ pc = [r \in Requests |-> "idle"]
  /\ req = [r \in Requests |-> NoReq]
  /\ draft = [r \in Requests |-> NoRow]
  /\ now = [r \in Requests |-> 0]
  /\ todo = [r \in Requests |-> {}]
-----------------------------------------------------------------------------
(***************************************************************************)
(* Rows and row locks                                                      *)
(***************************************************************************)
NewRow(table, c, u, a, v) ==
  [table |-> table, client |-> c, uri |-> u, account |-> a, challenge |-> v,
   exp |-> 0, consumed |-> FALSE]

(* WHERE expires_at > now AND consumed_at IS NULL *)
Redeemable(row, t) == row # NoRow /\ row.exp > t /\ ~row.consumed

MutantExpiredTooEarly(table, t) ==
  {k \in Requests : db[k] # NoRow /\ db[k].table = table /\ db[k].exp <= t + 1}

(* Rows a DELETE ... WHERE expires_at <= t selects in table when it starts. *)
Expired(table, t) ==
  {k \in Requests : db[k] # NoRow /\ db[k].table = table /\ db[k].exp <= t}

(* The locks left when the transactions of r have ended. *)
Released(r) == [k \in Requests |-> IF lock[k] = r THEN Free ELSE lock[k]]

(* Moves r on; its transactions, rows and times stay. *)
Goto(r, state) == pc' = [pc EXCEPT ![r] = state]

MutantPresentForUpdate(r, input, state) ==
  /\ Goto(r, state)
  /\ req' = [req EXCEPT ![r] = input]
  /\ now' = [now EXCEPT ![r] = clock]
  /\ lock[input.key] = Free
  /\ lock' = [lock EXCEPT ![input.key] = r]
  /\ UNCHANGED <<draft, todo>>

(* Request r goes on to look up the secret it presents, valid at this time. *)
Present(r, input, state) ==
  /\ Goto(r, state)
  /\ req' = [req EXCEPT ![r] = input]
  /\ now' = [now EXCEPT ![r] = clock]
  /\ UNCHANGED <<lock, draft, todo>>

MutantRefuseKeepsLocks(r) ==
  /\ Goto(r, "refused")
  /\ req' = [req EXCEPT ![r] = NoReq]
  /\ draft' = [draft EXCEPT ![r] = NoRow]
  /\ now' = [now EXCEPT ![r] = 0]
  /\ todo' = [todo EXCEPT ![r] = {}]
  /\ UNCHANGED lock

(* The answer is an error (status >= 400), or a redirect that carries one: *)
(* nothing of the request's transactions remains.                          *)
Refuse(r) ==
  /\ Goto(r, "refused")
  /\ lock' = Released(r)
  /\ req' = [req EXCEPT ![r] = NoReq]
  /\ draft' = [draft EXCEPT ![r] = NoRow]
  /\ now' = [now EXCEPT ![r] = 0]
  /\ todo' = [todo EXCEPT ![r] = {}]
-----------------------------------------------------------------------------
(***************************************************************************)
(* GET /authorize                                                          *)
(***************************************************************************)
FindClient(c) == c \in DOMAIN registered

(* The client is enabled and the URI is one of its own. *)
ValidRequest(c, u) == FindClient(c) /\ u \in registered[c]

(* The request is in order: from here on it is about inserting this row. *)
Issue(r, row) ==
  /\ Goto(r, "ready")
  /\ draft' = [draft EXCEPT ![r] = row]
  /\ UNCHANGED <<lock, req, now, todo>>

(* The request is checked against the client's row, then the session       *)
(* decides: a signed-in user is given a code, unless prompt=login; anyone  *)
(* else is sent to the login page with a stored authorization transaction, *)
(* unless prompt=none.  NoAccount stands for a missing or invalid session. *)
Authorize(r) ==
  /\ Kind[r] = "authorize" /\ pc[r] = "idle"
  /\ \E c \in Clients, u \in Uris, v \in Verifiers,
        a \in Accounts \cup {NoAccount}, prompt \in Prompts :
       LET valid == ValidRequest(c, u)
           signedIn == a # NoAccount /\ prompt # "login"
       IN \/ /\ ~valid \/ (~signedIn /\ prompt = "none")
             /\ Refuse(r)
          \/ /\ valid /\ (signedIn \/ prompt # "none")
             /\ Issue(r, IF signedIn THEN NewRow("code", c, u, a, v)
                         ELSE NewRow("transaction", c, u, NoAccount, v))
  /\ UNCHANGED <<clock, registered, db>>

(***************************************************************************)
(* GET /authorize/resume and POST /token: redeeming a grant                *)
(***************************************************************************)
(* The resuming browser must be signed in, and its oidc_transaction cookie *)
(* must equal the transaction parameter.                                   *)
ResumeAuthorization(r) ==
  /\ Kind[r] = "resume" /\ pc[r] = "idle"
  /\ \E k, cookie \in Requests, a \in Accounts \cup {NoAccount} :
       \/ /\ a = NoAccount \/ cookie # k
          /\ Refuse(r)
       \/ /\ a # NoAccount /\ cookie = k
          /\ Present(r, [key |-> k, account |-> a], "select")
  /\ UNCHANGED <<clock, registered, db>>

(* The client authenticates before anything else; a wrong secret or a      *)
(* disabled client is refused.                                             *)
Token(r) ==
  /\ Kind[r] = "token" /\ pc[r] = "idle"
  /\ \E input \in TokenInputs, secretMatches \in BOOLEAN :
       \/ /\ ~secretMatches \/ ~FindClient(input.client)
          /\ Refuse(r)
       \/ /\ secretMatches /\ FindClient(input.client)
          /\ Present(r, input, "select")
  /\ UNCHANGED <<clock, registered, db>>

(* A grant must be of the right table; a code also of the client and       *)
(* redirect URI it is presented with.                                      *)
MutantPresentedForAnyUri(r, row) ==
  \/ Kind[r] = "resume" /\ row.table = "transaction"
  \/ Kind[r] = "token" /\ row.table = "code" /\ row.client = req[r].client

PresentedFor(r, row) ==
  \/ Kind[r] = "resume" /\ row.table = "transaction"
  \/ /\ Kind[r] = "token" /\ row.table = "code"
     /\ row.client = req[r].client /\ row.uri = req[r].uri

(* What the grant is redeemed for: a code for the account of the session,  *)
(* or a token for that of the code.                                        *)
MutantSuccessorOfNobody(r, row) ==
  [row EXCEPT !.table = IF Kind[r] = "resume" THEN "code" ELSE "token", !.exp = 0]

Successor(r, row) ==
  IF Kind[r] = "resume"
    THEN [row EXCEPT !.table = "code", !.exp = 0, !.account = req[r].account]
    ELSE [row EXCEPT !.table = "token", !.exp = 0]

(* SELECT in the grant's own transaction. *)
SelectGrant(r) ==
  /\ pc[r] = "select"
  /\ LET row == db[req[r].key]
         found == Redeemable(row, now[r]) /\ PresentedFor(r, row)
     IN \/ ~found /\ Refuse(r)
        \/ /\ found
           /\ Goto(r, "update")
           /\ draft' = [draft EXCEPT ![r] = Successor(r, row)]
           /\ UNCHANGED <<lock, req, now, todo>>
  /\ UNCHANGED <<clock, registered, db>>

(* UPDATE ... SET consumed_at: waits for the row lock, then re-evaluates   *)
(* its WHERE on the row as it is then.  No row updated: invalid_grant.     *)
MutantRowIsThere(r) == db[req[r].key] # NoRow

StillRedeemable(r) == Redeemable(db[req[r].key], now[r])

UpdateGrant(r) ==
  /\ pc[r] = "update"
  /\ lock[req[r].key] = Free
  /\ \/ ~StillRedeemable(r) /\ Refuse(r)
     \/ /\ StillRedeemable(r)
        /\ Goto(r, "commitGrant")
        /\ lock' = [lock EXCEPT ![req[r].key] = r]
        /\ UNCHANGED <<req, draft, now, todo>>
  /\ UNCHANGED <<clock, registered, db>>

(* verifyPKCE compares only after the code is consumed for good. *)
VerifyPKCE(r) == Kind[r] = "token" => req[r].verifier = draft[r].challenge

(* The grant's own transaction commits; the consumption now outlives the   *)
(* request.  The commit may also succeed without the request learning it.  *)
CommitGrant(r) ==
  /\ pc[r] = "commitGrant"
  /\ db' = [db EXCEPT ![req[r].key].consumed = TRUE]
  /\ \/ Refuse(r)                    \* verifier mismatch, or commit reply lost
     \/ /\ VerifyPKCE(r)
        /\ Goto(r, "ready")
        /\ lock' = Released(r)
        /\ UNCHANGED <<req, draft, now, todo>>
  /\ UNCHANGED <<clock, registered>>
-----------------------------------------------------------------------------
(***************************************************************************)
(* Issuing: the tail of CreateTransaction, IssueAuthorizationCode and      *)
(* IssueTokenSet, in the HTTP transaction                                  *)
(***************************************************************************)
StartDelete(r, state, table, t) ==
  /\ Goto(r, state)
  /\ todo' = [todo EXCEPT ![r] = Expired(table, t)]

(* The account is loaded - accounts are never deleted - and Cleanup starts *)
(* with its own time.Now().                                                *)
BeginCleanup(r) ==
  /\ pc[r] = "ready"
  /\ now' = [now EXCEPT ![r] = clock]
  /\ StartDelete(r, "cleanTokens", "token", clock)
  /\ UNCHANGED <<clock, registered, db, lock, req, draft>>

(* A DELETE visits its rows in an order of the database's choosing; it     *)
(* waits for a locked row, skips one that is gone by now, and locks the    *)
(* others until the HTTP transaction ends.                                 *)
DeleteRow(r) ==
  /\ pc[r] \in Cleaning
  /\ \E k \in todo[r] :
       /\ lock[k] = Free
       /\ lock' = [lock EXCEPT ![k] = IF db[k] = NoRow THEN Free ELSE r]
       /\ todo' = [todo EXCEPT ![r] = @ \ {k}]
  /\ UNCHANGED <<clock, registered, db, pc, req, draft, now>>

(* Tokens, then codes, then transactions. *)
NextDelete(r) ==
  /\ pc[r] \in Cleaning /\ todo[r] = {}
  /\ \/ /\ pc[r] = "cleanTokens"
        /\ StartDelete(r, "cleanCodes", "code", now[r])
     \/ /\ pc[r] = "cleanCodes"
        /\ StartDelete(r, "cleanTransactions", "transaction", now[r])
     \/ /\ pc[r] = "cleanTransactions"
        /\ Goto(r, "save") /\ UNCHANGED todo
  /\ UNCHANGED <<clock, registered, db, lock, req, draft, now>>

TTL(table) == IF table = "token" THEN TokenTTL ELSE CodeTTL

(* INSERT of the new secret; it expires one lifetime after this moment. *)
Save(r) ==
  /\ pc[r] = "save"
  /\ draft' = [draft EXCEPT ![r].exp = clock + TTL(draft[r].table)]
  /\ Goto(r, "commit")
  /\ UNCHANGED <<clock, registered, db, lock, req, now, todo>>

(* The rows after the deletions of r. *)
Swept(r) == [k \in Requests |-> IF lock[k] = r THEN NoRow ELSE db[k]]

(* TransactionMiddleware: the handler has written its answer, the HTTP     *)
(* transaction commits.                                                    *)
Commit(r) ==
  /\ pc[r] = "commit"
  /\ db' = [Swept(r) EXCEPT ![r] = draft[r]]
  /\ lock' = Released(r)
  /\ Goto(r, "ok")
  /\ UNCHANGED <<clock, registered, req, draft, now, todo>>

(* The commit fails and the database rolls back, but the answer is already *)
(* written: the browser or client is given a secret that is not stored.    *)
CommitFails(r) ==
  /\ pc[r] = "commit"
  /\ lock' = Released(r)
  /\ Goto(r, "ok")
  /\ UNCHANGED <<clock, registered, db, req, draft, now, todo>>
-----------------------------------------------------------------------------
(***************************************************************************)
(* GET /userinfo                                                           *)
(***************************************************************************)
UserInfo(r) ==
  /\ Kind[r] = "userinfo" /\ pc[r] = "idle"
  /\ \E k \in Requests : Present(r, [key |-> k], "findToken")
  /\ UNCHANGED <<clock, registered, db>>

MutantAnyToken(row, t) == row # NoRow /\ row.table = "token"

ValidToken(row, t) == row # NoRow /\ row.table = "token" /\ row.exp > t

(* The first SELECT of ValidateAccessToken: the token. *)
FindToken(r) ==
  /\ pc[r] = "findToken"
  /\ LET row == db[req[r].key]
     IN \/ ~ValidToken(row, now[r]) /\ Refuse(r)
        \/ /\ ValidToken(row, now[r])
           /\ Goto(r, "checkClient")
           /\ draft' = [draft EXCEPT ![r] = row]
           /\ UNCHANGED <<lock, req, now, todo>>
  /\ UNCHANGED <<clock, registered, db>>

(* The second SELECT: its client; then the claims of the token's account   *)
(* are answered.                                                           *)
CheckClient(r) ==
  /\ pc[r] = "checkClient"
  /\ \/ ~FindClient(draft[r].client) /\ Refuse(r)
     \/ /\ FindClient(draft[r].client)
        /\ Goto(r, "ok")
        /\ UNCHANGED <<lock, req, draft, now, todo>>
  /\ UNCHANGED <<clock, registered, db>>
-----------------------------------------------------------------------------
(***************************************************************************)
(* Everything else that happens                                            *)
(***************************************************************************)
InProgress(r) == pc[r] \notin {"idle"} \cup Finished

(* The consumption is part of the HTTP transaction and rolls back with it. *)
MutantFailRestoresGrant(r) ==
  /\ InProgress(r)
  /\ db' = IF Kind[r] \in {"resume", "token"} /\ pc[r] \in {"ready", "save", "commit"}
                /\ db[req[r].key] # NoRow
             THEN [db EXCEPT ![req[r].key].consumed = FALSE] ELSE db
  /\ Refuse(r)
  /\ UNCHANGED <<clock, registered>>

(* A query fails, the handler panics, the client goes away or the process  *)
(* dies: open transactions roll back.  authorizeForUser answers a failed   *)
(* query with a redirect, status 302, so the middleware does commit; but   *)
(* a PostgreSQL transaction with a failed query can only roll back.        *)
Fail(r) ==
  /\ InProgress(r)
  /\ Refuse(r)
  /\ UNCHANGED <<clock, registered, db>>

(* A starting replica commits EnsureClients: exactly the configured        *)
(* clients stay enabled, with exactly the configured redirect URIs.        *)
EnsureClients ==
  /\ registered' \in Configurations
  /\ UNCHANGED <<clock, db, lock, pc, req, draft, now, todo>>

Tick ==
  /\ clock < MaxClock
  /\ clock' = clock + 1
  /\ UNCHANGED <<registered, db, lock, pc, req, draft, now, todo>>

(* Steps a request takes when the scheduler and the database let it. *)
Step(r) ==
  \/ SelectGrant(r) \/ UpdateGrant(r) \/ CommitGrant(r)
  \/ BeginCleanup(r) \/ DeleteRow(r) \/ NextDelete(r) \/ Save(r)
  \/ Commit(r) \/ CommitFails(r)
  \/ FindToken(r) \/ CheckClient(r)

Arrive(r) ==
  Authorize(r) \/ ResumeAuthorization(r) \/ Token(r) \/ UserInfo(r)

Next == Tick \/ EnsureClients \/ \E r \in Requests : Arrive(r) \/ Step(r) \/ Fail(r)

Spec == Init /\ [][Next]_vars
-----------------------------------------------------------------------------
(***************************************************************************)
(* Fairness: goroutines are scheduled, queries and row locks are granted   *)
(* in time, and PostgreSQL aborts a transaction of a cycle of waits.       *)
(***************************************************************************)
Blocked(r) ==
  \/ pc[r] = "update" /\ lock[req[r].key] # Free
  \/ pc[r] \in Cleaning /\ todo[r] # {} /\ \A k \in todo[r] : lock[k] # Free

WaitsFor(r) ==
  {lock[k] : k \in IF pc[r] = "update" THEN {req[r].key} ELSE todo[r]}

Deadlocked(r) ==
  \E D \in SUBSET Requests :
    /\ r \in D
    /\ \A d \in D : Blocked(d) /\ WaitsFor(d) \subseteq D

DeadlockAbort == \E r \in Requests : Deadlocked(r) /\ Fail(r)

Fairness == WF_vars(DeadlockAbort) /\ \A r \in Requests : WF_vars(Step(r))

FairSpec == Spec /\ Fairness
-----------------------------------------------------------------------------
(***************************************************************************)
(* Properties                                                              *)
(***************************************************************************)
(* Request r redeemed the grant it presented, and is going on with it. *)
Honoured(r) ==
  /\ Kind[r] \in {"resume", "token"}
  /\ pc[r] \in {"ready", "save", "commit", "ok"} \cup Cleaning

(* A grant is honoured for one request only, however the SELECTs, UPDATEs  *)
(* and commits of concurrent /token or /authorize/resume requests and of   *)
(* the cleanups interleave (persistence/oidc.go:186-239, 259-317).         *)
HonouredOnce ==
  \A r1, r2 \in Requests :
    Honoured(r1) /\ Honoured(r2) /\ req[r1].key = req[r2].key => r1 = r2

(* A row only ever changes by being consumed, and only disappears once it  *)
(* has expired: no failure, rollback or late commit un-consumes a grant,   *)
(* and no cleanup with an old time removes a live one.                     *)
RowsOnlyAge ==
  [][\A k \in Requests : db[k] # NoRow =>
       \/ db'[k] = db[k]
       \/ db'[k] = [db[k] EXCEPT !.consumed = TRUE] /\ ~db[k].consumed
       \/ db'[k] = NoRow /\ db[k].exp <= clock]_vars

(* Whoever holds an access token holds it through an unbroken chain: the   *)
(* code it was exchanged for was issued to the same client, redirect URI   *)
(* and account, the PKCE verifier fits the challenge of the /authorize     *)
(* request the chain started with, and that request named a registered     *)
(* redirect URI (handler/oidc.go:61-211).                                  *)
SameGrant(row1, row2) ==
  /\ row1.client = row2.client /\ row1.uri = row2.uri
  /\ row1.challenge = row2.challenge

TokenBinding ==
  \A t \in Requests : Kind[t] = "token" /\ pc[t] = "ok" =>
    LET q == req[t].key
        code == draft[q]
    IN /\ pc[q] = "ok" /\ code.table = "code"
       /\ code.client = req[t].client /\ code.uri = req[t].uri
       /\ code.challenge = req[t].verifier
       /\ draft[t].account = code.account /\ code.account # NoAccount
       /\ SameGrant(draft[t], code)
       /\ \E config \in Configurations :
            code.client \in DOMAIN config /\ code.uri \in config[code.client]
       /\ Kind[q] = "resume" =>
            /\ pc[req[q].key] = "ok" /\ Kind[req[q].key] = "authorize"
            /\ SameGrant(draft[req[q].key], code)
            /\ code.account = req[q].account

(* The claims /userinfo answers are those of the account whose code was    *)
(* exchanged for the token, and the token was alive when it was presented. *)
UserInfoBinding ==
  \A u \in Requests : Kind[u] = "userinfo" /\ pc[u] = "ok" =>
    LET t == req[u].key
    IN /\ Kind[t] = "token" /\ pc[t] = "ok"
       /\ draft[u] = draft[t]
       /\ draft[u].account = draft[req[t].key].account
       /\ now[u] < draft[t].exp

(* While a request waits in the grant's transaction its HTTP transaction   *)
(* holds no row lock, so it never waits for itself; PostgreSQL could not   *)
(* tell, for it sees two transactions.                                     *)
NoSelfWait ==
  \A r \in Requests : pc[r] \in {"select", "update"} =>
    \A k \in Requests : lock[k] # r

(* Requests that wait for each other in a circle include two that clean up *)
(* expired rows: redeeming a grant in a transaction of its own, and before *)
(* the request's own transaction has written anything, never completes a   *)
(* circle (persistence/oidc.go:186-239, 259-317), and neither does the     *)
(* order of the three DELETEs of a cleanup.                                *)
DeadlockTakesTwoCleanups ==
  \A D \in SUBSET Requests :
    D # {} /\ (\A d \in D : WaitsFor(d) \cap D # {}) =>
      \E r1, r2 \in D : r1 # r2 /\ pc[r1] \in Cleaning /\ pc[r2] \in Cleaning

(* Every request that arrives is answered: lock waits end, and a deadlock  *)
(* of two cleanups is broken.  (A request is handled once, so it is enough *)
(* that a moment comes when nobody is being served.)                       *)
EveryRequestEnds ==
  (\E r \in Requests : InProgress(r)) ~> (\A r \in Requests : ~InProgress(r))
-----------------------------------------------------------------------------
(***************************************************************************)
(* The flow implements SingleUse.  A grant is live while its row can be    *)
(* redeemed, and dead once the row was consumed, deleted or lost.          *)
(***************************************************************************)
Status ==
  [k \in Requests |-> IF pc[k] # "ok" THEN "unissued"
                      ELSE IF db[k] # NoRow /\ ~db[k].consumed THEN "live"
                      ELSE "dead"]

Beneficiary ==
  [k \in Requests |-> IF \E r \in Requests : Honoured(r) /\ req[r].key = k
                      THEN CHOOSE r \in Requests : Honoured(r) /\ req[r].key = k
                      ELSE Free]

Contract == INSTANCE SingleUse WITH
  Grants <- Requests, Users <- Requests, Nobody <- Free,
  status <- Status, beneficiary <- Beneficiary

(* Redeeming is atomic as seen from outside: each step of the flow is a    *)
(* step of the one-time contract or no step of it.                         *)
ImplementsSingleUse == Contract!Spec
=============================================================================
