--------------------------- MODULE StoreAgreement ---------------------------
(***************************************************************************)
(* The in-memory stores (oidc.MemoryStore, session.MemoryStore), used when *)
(* no database is given and by the tests, next to the database stores      *)
(* (EntOIDCStore, EntSessionStore): both are given the same calls.         *)
(*                                                                         *)
(* A caller reads time.Now() and then calls, so the times reach the stores *)
(* in any order.  A call of a memory store is one critical section; a call *)
(* of a database store is taken as one step here, that of a transaction    *)
(* that commits (OIDCFlow and AccountSession model its statements).  A     *)
(* secret is random and named by the call that saves it.                   *)
(*                                                                         *)
(* The stores do not keep the same: the tables have no columns for some of *)
(* what a memory store gives back, and their foreign keys refuse rows that *)
(* it takes unchecked.                                                     *)
(***************************************************************************)
EXTENDS Naturals, FiniteSets

CONSTANTS Calls,           \* calls of the stores
          Clients, Uris, Accounts,
          Extras,          \* a request's prompts, a user's identity
          Configurations,  \* the clients a process is started with
          TTL,             \* lifetime of a secret
          MaxEntries,      \* entries of a kind the memory store takes
          MaxClock,        \* bound of the clock
          NoRow, NoCall, Nobody,
          Null             \* the zero value of a field

ASSUME ConfigurationsAssumption == Configurations \subseteq SUBSET Clients

ASSUME BoundsAssumption == /\ TTL \in Nat \ {0} /\ MaxEntries \in Nat \ {0}
                           /\ MaxClock \in Nat

ASSUME AbsentAssumption == Nobody \notin Calls

VARIABLES clock,
          config,   \* clients of the running process, enabled in the database
          parents,  \* rows of the tables oidc_clients and accounts
          memory,   \* memory[k]: the entry of secret k in the memory store
          db,       \* db[k]: its row in the database
          call,     \* call[r]: the operation and its arguments
          now,      \* now[r]: the time.Now() the caller of r read
          inMemory, \* answers of the memory store
          inDB,     \* answers of the database store
          lost,     \* history: secrets the memory store never had or forgot,
          refused   \* and those of a client or account without a row

vars == <<clock, config, parents, memory, db, call, now, inMemory, inDB, lost, refused>>

(* oidc.MemoryStore and session.MemoryStore. *)
OIDCTables == {"transaction", "code", "token"}

SessionTables == {"session"}

Tables == OIDCTables \cup SessionTables

(* A transaction has an authorization request, a code and a token have an  *)
(* account, a session has a user.                                          *)
Contents(extras) ==
  [table: {"transaction"}, client: Clients, uri: Uris, account: {Null}, extra: extras]
  \cup [table: {"code"}, client: Clients, uri: Uris, account: Accounts, extra: {Null}]
  \cup [table: {"token"}, client: Clients, uri: {Null}, account: Accounts, extra: {Null}]
  \cup [table: {"session"}, client: {Null}, uri: {Null}, account: Accounts, extra: extras]

(* What a caller gives a store to save, and what the tables have columns   *)
(* for.                                                                    *)
Given == Contents(Extras)

Stored == Contents({Null})

Data == Given \cup Stored

(* consumed: of a grant, that it was redeemed; of a session, that it was   *)
(* revoked.  The memory store deletes a redeemed grant.                    *)
Rows == [data: Data, exp: Nat, consumed: BOOLEAN]

ASSUME RowAssumption == NoRow \notin Rows

Operations ==
  [op: {"save"}, data: Given]
  \cup [op: {"consume", "validate", "find", "revoke"}, secret: Calls]
  \cup [op: {"redeem"}, secret: Calls, client: Clients, uri: Uris]
  \cup [op: {"cleanup"}]

(* What a store says: what it has with a secret, that all is well, or an   *)
(* error; "none" before it did.                                            *)
Found(data) == <<"found", data>>

Finds == {Found(data) : data \in Data}

Answers == Finds \cup {<<"none">>, <<"ok">>, <<"error">>}

TypeOK ==
  /\ clock \in 0..MaxClock
  /\ config \in Configurations
  /\ parents \subseteq Clients \cup Accounts
  /\ memory \in [Calls -> Rows \cup {NoRow}]
  /\ db \in [Calls -> Rows \cup {NoRow}]
  /\ call \in [Calls -> Operations \cup {NoCall}]
  /\ now \in [Calls -> 0..MaxClock]
  /\ inMemory \in [Calls -> Answers]
  /\ inDB \in [Calls -> Answers]
  /\ lost \subseteq Calls
  /\ refused \subseteq Calls

Init ==
  /\ clock = 0
  /\ config \in Configurations
  /\ parents = config
  /\ memory = [k \in Calls |-> NoRow]
  /\ db = [k \in Calls |-> NoRow]
  /\ call = [r \in Calls |-> NoCall]
  /\ now = [r \in Calls |-> 0]
  /\ inMemory = [r \in Calls |-> <<"none">>]
  /\ inDB = [r \in Calls |-> <<"none">>]
  /\ lost = {}
  /\ refused = {}
-----------------------------------------------------------------------------
(***************************************************************************)
(* Common parts                                                            *)
(***************************************************************************)
MutantPruneLater(rows, tables, t) ==
  [k \in Calls |-> IF rows[k] # NoRow /\ rows[k].data.table \in tables /\ rows[k].exp < t
                     THEN NoRow ELSE rows[k]]

(* prune: every operation on the entries of a store drops the expired ones *)
(* first.                                                                  *)
Prune(rows, tables, t) ==
  [k \in Calls |-> IF rows[k] # NoRow /\ rows[k].data.table \in tables /\ rows[k].exp <= t
                     THEN NoRow ELSE rows[k]]

Entries(rows, table) == {k \in Calls : rows[k] # NoRow /\ rows[k].data.table = table}

Is(row, table) == row # NoRow /\ row.data.table = table

(* ... expires_at > t AND consumed_at (revoked_at) IS NULL *)
Live(row, table, t) == Is(row, table) /\ row.exp > t /\ ~row.consumed

MutantNoAccountRead(data) == [data EXCEPT !.extra = Null, !.account = Null]

(* What is written to a table's columns and read from them: prompts and    *)
(* identities have none and come back as zero values.                      *)
Columns(data) == [data EXCEPT !.extra = Null]

(* The foreign keys client_id and account_id. *)
Founded(data) == {data.client, data.account} \ {Null} \subseteq parents

StoreOf(table) == IF table \in OIDCTables THEN OIDCTables ELSE SessionTables

Serve(r, op) == call[r] # NoCall /\ call[r].op = op /\ inDB[r] = <<"none">>

Answer(r, fromMemory, fromDB) ==
  /\ inMemory' = [inMemory EXCEPT ![r] = fromMemory]
  /\ inDB' = [inDB EXCEPT ![r] = fromDB]
  /\ UNCHANGED <<clock, config, parents, call, now>>

(* Secrets that one of the stores at least has taken. *)
Saved == {k \in Calls : /\ call[k] # NoCall /\ call[k].op = "save"
                        /\ <<"ok">> \in {inMemory[k], inDB[k]}}

(* A caller reads the time and presents a secret that was saved before.    *)
Call(r) ==
  /\ call[r] = NoCall
  /\ \E o \in Operations :
       /\ "secret" \in DOMAIN o => o.secret \in Saved
       /\ call' = [call EXCEPT ![r] = o]
  /\ now' = [now EXCEPT ![r] = clock]
  /\ UNCHANGED <<clock, config, parents, memory, db, inMemory, inDB, lost, refused>>
-----------------------------------------------------------------------------
(***************************************************************************)
(* The operations                                                          *)
(***************************************************************************)
(* SaveTransaction, SaveAuthorizationCode, SaveAccessToken; Save of a      *)
(* session, which the memory store takes in any number.                    *)
Save(r) ==
  /\ Serve(r, "save")
  /\ LET data == call[r].data
         row == [data |-> data, exp |-> now[r] + TTL, consumed |-> FALSE]
         pruned == Prune(memory, StoreOf(data.table), clock)
         full == data.table \in OIDCTables /\ Cardinality(Entries(pruned, data.table)) >= MaxEntries
         founded == Founded(data)
     IN /\ memory' = IF full THEN pruned ELSE [pruned EXCEPT ![r] = row]
        /\ lost' = IF full THEN lost \cup {r} ELSE lost
        /\ db' = IF founded THEN [db EXCEPT ![r] = [row EXCEPT !.data = Columns(data)]] ELSE db
        /\ refused' = IF founded THEN refused ELSE refused \cup {r}
        /\ Answer(r, IF full THEN <<"error">> ELSE <<"ok">>,
                     IF founded THEN <<"ok">> ELSE <<"error">>)

MutantGrantStays(rows, k) == rows

Without(rows, k) == [rows EXCEPT ![k] = NoRow]

(* Client and redirect URI of an entry. *)
Party(row) == <<row.data.client, row.data.uri>>

(* A grant of an acceptable party is taken out of the memory store, and    *)
(* marked in the database.                                                 *)
MutantTakenOutFirst(r, table, acceptable) ==
  LET k == call[r].secret
      pruned == Prune(memory, OIDCTables, now[r])
      inM == Is(pruned[k], table) /\ Party(pruned[k]) \in acceptable
      inD == Live(db[k], table, now[r]) /\ Party(db[k]) \in acceptable
  IN /\ memory' = IF Is(pruned[k], table) THEN Without(pruned, k) ELSE pruned
     /\ db' = IF inD THEN [db EXCEPT ![k].consumed = TRUE] ELSE db
     /\ Answer(r, IF inM THEN Found(memory[k].data) ELSE <<"error">>,
                  IF inD THEN Found(db[k].data) ELSE <<"error">>)
     /\ UNCHANGED <<lost, refused>>

Redeem(r, table, acceptable) ==
  LET k == call[r].secret
      pruned == Prune(memory, OIDCTables, now[r])
      inM == Is(pruned[k], table) /\ Party(pruned[k]) \in acceptable
      inD == Live(db[k], table, now[r]) /\ Party(db[k]) \in acceptable
  IN /\ memory' = IF inM THEN Without(pruned, k) ELSE pruned
     /\ db' = IF inD THEN [db EXCEPT ![k].consumed = TRUE] ELSE db
     /\ Answer(r, IF inM THEN Found(memory[k].data) ELSE <<"error">>,
                  IF inD THEN Found(db[k].data) ELSE <<"error">>)
     /\ UNCHANGED <<lost, refused>>

ConsumeTransaction(r) ==
  Serve(r, "consume") /\ Redeem(r, "transaction", Clients \X Uris)

(* A code presented with the wrong client or redirect URI stays as it is.  *)
RedeemAuthorizationCode(r) ==
  Serve(r, "redeem") /\ Redeem(r, "code", {<<call[r].client, call[r].uri>>})

(* A token, and its client enabled. *)
ValidateAccessToken(r) ==
  /\ Serve(r, "validate")
  /\ LET k == call[r].secret
         pruned == Prune(memory, OIDCTables, now[r])
         inM == Is(pruned[k], "token") /\ pruned[k].data.client \in config
         inD == Live(db[k], "token", now[r]) /\ db[k].data.client \in config
     IN /\ memory' = pruned
        /\ Answer(r, IF inM THEN Found(memory[k].data) ELSE <<"error">>,
                     IF inD THEN Found(db[k].data) ELSE <<"error">>)
  /\ UNCHANGED <<db, lost, refused>>

(* Find of a session. *)
FindSession(r) ==
  /\ Serve(r, "find")
  /\ LET k == call[r].secret
         pruned == Prune(memory, SessionTables, now[r])
         inM == Live(pruned[k], "session", now[r])
         inD == Live(db[k], "session", now[r])
     IN /\ memory' = pruned
        /\ Answer(r, IF inM THEN Found(memory[k].data) ELSE <<"error">>,
                     IF inD THEN Found(db[k].data) ELSE <<"error">>)
  /\ UNCHANGED <<db, lost, refused>>

(* Revoke: the memory store revokes once more what is revoked, and has an  *)
(* error for what it does not know; the UPDATE has none.                   *)
Revoke(r) ==
  /\ Serve(r, "revoke")
  /\ LET k == call[r].secret
         pruned == Prune(memory, SessionTables, now[r])
         inM == Is(pruned[k], "session")
     IN /\ memory' = IF inM THEN [pruned EXCEPT ![k].consumed = TRUE] ELSE pruned
        /\ db' = IF Live(db[k], "session", now[r])
                   THEN [db EXCEPT ![k].consumed = TRUE] ELSE db
        /\ Answer(r, IF inM THEN <<"ok">> ELSE <<"error">>, <<"ok">>)
  /\ UNCHANGED <<lost, refused>>

(* Cleanup; sessions stay in the database. *)
Cleanup(r) ==
  /\ Serve(r, "cleanup")
  /\ memory' = Prune(memory, OIDCTables, now[r])
  /\ db' = Prune(db, OIDCTables, now[r])
  /\ Answer(r, <<"ok">>, <<"ok">>)
  /\ UNCHANGED <<lost, refused>>
-----------------------------------------------------------------------------
Tick ==
  /\ clock < MaxClock
  /\ clock' = clock + 1
  /\ UNCHANGED <<config, parents, memory, db, call, now, inMemory, inDB, lost, refused>>

(* A first login inserts an account; no code deletes one. *)
CreateAccount(a) ==
  /\ a \notin parents
  /\ parents' = parents \cup {a}
  /\ UNCHANGED <<clock, config, memory, db, call, now, inMemory, inDB, lost, refused>>

InProgress(r) == call[r] # NoCall /\ inDB[r] = <<"none">>

(* The process ends and is started again, with the same or other clients:  *)
(* EnsureClients fills an empty memory store, and disables all others in   *)
(* the database, where they keep their rows.                               *)
Restart ==
  /\ config' \in Configurations
  /\ parents' = parents \cup config'
  /\ memory' = [k \in Calls |-> NoRow]
  /\ lost' = lost \cup {k \in Calls : memory[k] # NoRow}
  /\ inMemory' = [r \in Calls |-> IF InProgress(r) THEN <<"error">> ELSE inMemory[r]]
  /\ inDB' = [r \in Calls |-> IF InProgress(r) THEN <<"error">> ELSE inDB[r]]
  /\ UNCHANGED <<clock, db, call, now, refused>>

Answered(r) ==
  \/ Save(r) \/ ConsumeTransaction(r) \/ RedeemAuthorizationCode(r)
  \/ ValidateAccessToken(r) \/ FindSession(r) \/ Revoke(r) \/ Cleanup(r)

Next ==
  \/ Tick \/ Restart
  \/ \E a \in Accounts : CreateAccount(a)
  \/ \E r \in Calls : Call(r) \/ Answered(r)

Spec == Init /\ [][Next]_vars
-----------------------------------------------------------------------------
(***************************************************************************)
(* Properties                                                              *)
(***************************************************************************)
(* What the handlers look at of what they find: everything but the prompts *)
(* of a request they resume and the identity of a session's user.          *)
Used(data) == <<data.client, data.uri, data.account>>

Accepts(answer) == answer \notin {<<"none">>, <<"error">>}

(* The secret that call r saves or presents. *)
Subject(r) == IF "secret" \in DOMAIN call[r] THEN call[r].secret ELSE r

(* The memory stores are never laxer than the database - in whatever order *)
(* the times of the callers arrive - but for secrets saved for a client or *)
(* an account that does not exist: what they accept, the database accepts  *)
(* too, and answers with all that the handlers use.  So a test of a        *)
(* handler that sees the memory store accept shows something about the     *)
(* service (infrastructure/oidc/store.go:26-36); one that looks at more of *)
(* the answer does not, for that may differ.                               *)
NeverLaxer ==
  \A r \in Calls :
    Accepts(inMemory[r]) /\ Subject(r) \notin refused =>
      /\ Accepts(inDB[r])
      /\ \A data \in Data : inMemory[r] = Found(data) =>
           \E stored \in Data : inDB[r] = Found(stored) /\ Used(stored) = Used(data)

(* They are stricter only for a secret that has expired by now - another   *)
(* caller with a later time had it pruned - or that the memory store       *)
(* forgot in a restart or had no room for: a wrong client, a second try or *)
(* a prune costs nothing else.  (Logout does not look at what Revoke says.)*)
StricterWithReason ==
  \A r \in Calls :
    inMemory[r] = <<"error">> /\ inDB[r] # <<"error">> /\ call[r].op # "revoke" =>
      IF call[r].op = "save" THEN r \in lost
      ELSE LET k == call[r].secret IN k \in lost \/ now[k] + TTL <= clock

(* The memory store keeps the contract of one-time grants that OIDCFlow is *)
(* shown to implement on the database: what it honours it takes out, and   *)
(* nothing brings that back, or what it forgot.                            *)
Redeemed(r, k) ==
  /\ call[r] # NoCall /\ call[r].op \in {"consume", "redeem"} /\ call[r].secret = k
  /\ inMemory[r] \in Finds

Redeemers(k) == {r \in Calls : Redeemed(r, k)}

Status ==
  [k \in Calls |-> IF k \notin Saved THEN "unissued"
                   ELSE IF memory[k] = NoRow /\ (k \in lost \/ Redeemers(k) # {})
                     THEN "dead"
                   ELSE "live"]

(* The call that redeemed it.  (A second one would need it to be live      *)
(* again, which the contract forbids.)                                     *)
Beneficiary ==
  [k \in Calls |-> IF \E r \in Calls : Redeemers(k) = {r}
                   THEN CHOOSE r \in Calls : Redeemers(k) = {r} ELSE Nobody]

Contract == INSTANCE SingleUse WITH
  Grants <- Calls, Users <- Calls, status <- Status, beneficiary <- Beneficiary

ImplementsSingleUse == Contract!Spec
=============================================================================
