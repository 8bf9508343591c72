----------------------------- MODULE ClientSync -----------------------------
(***************************************************************************)
(* The OIDC clients in the database: every replica that starts replaces    *)
(* them by those of its configuration (EntOIDCStore.EnsureClients), while  *)
(* requests look clients up (EntOIDCStore.FindClient).                     *)
(*                                                                         *)
(* EnsureClients is one transaction (READ COMMITTED) of many statements,   *)
(* FindClient is two SELECTs.  A replica whose EnsureClients fails ends    *)
(* with log.Fatal and is started again, with the same configuration; a     *)
(* replica of another version has another one.                             *)
(***************************************************************************)
EXTENDS Naturals

CONSTANTS Replicas, Clients, Secrets, Uris,
          Configuration,  \* Configuration[p]: the clients replica p is given
          Lookups,        \* calls of FindClient
          MaxCrashes,     \* bound of the crashes that nothing forces
          NoRow, Nobody, NoClient

(* What a configuration says of a client. *)
Settings == [secret: Secrets, uris: SUBSET Uris]

ASSUME ConfigurationAssumption ==
  /\ DOMAIN Configuration = Replicas
  /\ \A p \in Replicas :
       \E configured \in SUBSET Clients \ {{}} :
         Configuration[p] \in [configured -> Settings]

ASSUME AbsentAssumption ==
  /\ Nobody \notin Replicas /\ NoClient \notin Clients
  /\ NoRow \notin [secret: Secrets, uris: SUBSET Uris, disabled: BOOLEAN]

ASSUME MaxCrashesAssumption == MaxCrashes \in Nat

VARIABLES
  clients,   \* the committed row of each client, with its redirect URIs
  lock,      \* the replica with an uncommitted write to the client's row
  draft,     \* draft[p][c]: that write; only read where lock[c] = p
  pc,        \* control state of each replica
  current,   \* the client a replica is writing
  todo,      \* clients a loop of EnsureClients still has to visit
  crashes,   \* crashes so far that nothing forced
  lookup,    \* lookup[l]: control state, client and results of a lookup
  last,      \* history: the replica that committed last, and what it saw
  stored,    \* storedClients: those the SELECT of all clients returned
  inForce    \* history: what applied to the client during a lookup

vars == <<clients, lock, draft, pc, current, todo, crashes, lookup, last, stored, inForce>>

Rows == [secret: Secrets, uris: SUBSET Uris, disabled: BOOLEAN]

Settled(row) == [secret |-> row.secret, uris |-> row.uris]

Configured(p) == DOMAIN Configuration[p]

Enabled(row) == row # NoRow /\ ~row.disabled

(* The row of client c as a committed EnsureClients leaves it. *)
PossibleRows(c) ==
  {[secret |-> Configuration[p][c].secret, uris |-> Configuration[p][c].uris,
    disabled |-> d] : p \in {q \in Replicas : c \in Configured(q)}, d \in BOOLEAN}

TypeOK ==
  /\ clients \in [Clients -> Rows \cup {NoRow}]
  /\ lock \in [Clients -> Replicas \cup {Nobody}]
  /\ draft \in [Replicas -> [Clients -> Rows \cup {NoRow}]]
  /\ pc \in [Replicas -> {"down", "find", "insert", "update", "uris", "selectAll",
                          "disable", "up"}]
  /\ current \in [Replicas -> Clients \cup {NoClient}]
  /\ todo \in [Replicas -> SUBSET Clients]
  /\ crashes \in 0..MaxCrashes
  /\ lookup \in [Lookups -> [state: {"idle", "uris", "found", "failed"},
                             client: Clients \cup {NoClient},
                             secret: Secrets \cup {NoRow}, uris: SUBSET Uris]]
  /\ last \in [by: Replicas \cup {Nobody}, saw: SUBSET Clients]
  /\ stored \in [Replicas -> SUBSET Clients]
  /\ inForce \in [Lookups -> SUBSET Settings]

NoDraft == [c \in Clients |-> NoRow]

NoLookup == [state |-> "idle", client |-> NoClient, secret |-> NoRow, uris |-> {}]

(* The database may hold clients of earlier starts, enabled or not. *)
Init ==
  /\ clients \in [Clients -> Rows \cup {NoRow}]
  /\ \A c \in Clients : clients[c] \in PossibleRows(c) \cup {NoRow}
  /\ lock = [c \in Clients |-> Nobody]
  /\ draft = [p \in Replicas |-> NoDraft]
  /\ pc = [p \in Replicas |-> "down"]
  /\ current = [p \in Replicas |-> NoClient]
  /\ todo = [p \in Replicas |-> {}]
  /\ crashes = 0
  /\ lookup = [l \in Lookups |-> NoLookup]
  /\ last = [by |-> Nobody, saw |-> {}]
  /\ stored = [p \in Replicas |-> {}]
  /\ inForce = [l \in Lookups |-> {}]
-----------------------------------------------------------------------------
(***************************************************************************)
(* EnsureClients                                                           *)
(***************************************************************************)
Goto(p, state) == pc' = [pc EXCEPT ![p] = state]

Released(p) == [c \in Clients |-> IF lock[c] = p THEN Nobody ELSE lock[c]]

(* p writes the row of c and holds its lock until the transaction ends. *)
Write(p, c, row) ==
  /\ lock' = [lock EXCEPT ![c] = p]
  /\ draft' = [draft EXCEPT ![p][c] = row]

(* The transaction rolls back and the process ends. *)
End(p) ==
  /\ Goto(p, "down")
  /\ lock' = Released(p)
  /\ draft' = [draft EXCEPT ![p] = NoDraft]
  /\ current' = [current EXCEPT ![p] = NoClient]
  /\ todo' = [todo EXCEPT ![p] = {}]
  /\ stored' = [stored EXCEPT ![p] = {}]
  /\ UNCHANGED <<clients, last, inForce>>

(* The process starts and begins its transaction. *)
Start(p) ==
  /\ pc[p] = "down"
  /\ Goto(p, "find")
  /\ todo' = [todo EXCEPT ![p] = Configured(p)]
  /\ UNCHANGED <<clients, lock, draft, current, crashes, lookup, last, stored, inForce>>

MutantInsert(c) == "insert"

InsertOrUpdate(c) == IF clients[c] = NoRow THEN "insert" ELSE "update"

(* SELECT of the next configured client.  The order of a configuration is  *)
(* that of a list somebody wrote, so any.                                  *)
FindStored(p) ==
  /\ pc[p] = "find"
  /\ \E c \in todo[p] :
       /\ current' = [current EXCEPT ![p] = c]
       /\ todo' = [todo EXCEPT ![p] = @ \ {c}]
       /\ Goto(p, InsertOrUpdate(c))
  /\ UNCHANGED <<clients, lock, draft, crashes, lookup, last, stored, inForce>>

(* INSERT: waits for another transaction that wrote this client_id; if     *)
(* that committed, the unique index fails this one.                        *)
InsertClient(p) ==
  LET c == current[p]
  IN /\ pc[p] = "insert"
     /\ lock[c] = Nobody
     /\ \/ /\ clients[c] # NoRow
           /\ End(p)
        \/ /\ clients[c] = NoRow
           /\ Write(p, c, [secret |-> Configuration[p][c].secret, uris |-> {},
                           disabled |-> FALSE])
           /\ Goto(p, "uris")
           /\ UNCHANGED <<clients, current, todo, last, stored, inForce>>
     /\ UNCHANGED <<crashes, lookup>>

(* UPDATE by primary key: waits for the row, then writes onto its newest   *)
(* version.                                                                *)
MutantForgetEnabling(row, secret) == [row EXCEPT !.secret = secret]

MutantSecretNotHashed(row, secret) ==
  [row EXCEPT !.secret = NoRow, !.disabled = FALSE]

Updated(row, secret) == [row EXCEPT !.secret = secret, !.disabled = FALSE]

UpdateClient(p) ==
  LET c == current[p]
  IN /\ pc[p] = "update"
     /\ lock[c] = Nobody
     /\ Write(p, c, Updated(clients[c], Configuration[p][c].secret))
     /\ Goto(p, "uris")
     /\ UNCHANGED <<clients, current, todo, crashes, lookup, last, stored, inForce>>

(* DELETE of the client's redirect URIs, then one INSERT for each that is  *)
(* configured.  Whoever writes them holds the client's row.                *)
MutantKeepOldUris(old, configured) == old \cup configured

Replaced(old, configured) == configured

ReplaceRedirectURIs(p) ==
  LET c == current[p]
  IN /\ pc[p] = "uris"
     /\ draft' = [draft EXCEPT ![p][c].uris = Replaced(@, Configuration[p][c].uris)]
     /\ current' = [current EXCEPT ![p] = NoClient]
     /\ Goto(p, IF todo[p] = {} THEN "selectAll" ELSE "find")
     /\ UNCHANGED <<clients, lock, todo, crashes, lookup, last, stored, inForce>>

(* SELECT of all clients: rows others have not committed yet are missing. *)
SelectAll(p) ==
  /\ pc[p] = "selectAll"
  /\ stored' = [stored EXCEPT ![p] =
                  {c \in Clients : clients[c] # NoRow \/ lock[c] = p}]
  /\ todo' = [todo EXCEPT ![p] = stored'[p] \ Configured(p)]
  /\ Goto(p, "disable")
  /\ UNCHANGED <<clients, lock, draft, current, crashes, lookup, last, inForce>>

(* UPDATE disabled = true of a client that is not configured, in any order. *)
DisableClient(p) ==
  /\ pc[p] = "disable"
  /\ \E c \in todo[p] :
       /\ lock[c] = Nobody
       /\ Write(p, c, [clients[c] EXCEPT !.disabled = TRUE])
       /\ todo' = [todo EXCEPT ![p] = @ \ {c}]
  /\ UNCHANGED <<clients, pc, current, crashes, lookup, last, stored, inForce>>

(* The rows once p has committed. *)
Published(p) == [c \in Clients |-> IF lock[c] = p THEN draft[p][c] ELSE clients[c]]

(* History: lookups that are between their SELECTs see new rows in force. *)
Witness(rows) ==
  inForce' = [l \in Lookups |->
                IF lookup[l].state = "uris" /\ Enabled(rows[lookup[l].client])
                  THEN inForce[l] \cup {Settled(rows[lookup[l].client])}
                  ELSE inForce[l]]

(* The transaction commits and the replica serves - or ends all the same,  *)
(* because the reply is lost or the cleanup that follows fails.            *)
Commit(p) ==
  /\ pc[p] = "disable" /\ todo[p] = {}
  /\ clients' = Published(p)
  /\ Witness(Published(p))
  /\ lock' = Released(p)
  /\ draft' = [draft EXCEPT ![p] = NoDraft]
  /\ last' = [by |-> p, saw |-> stored[p]]
  /\ \/ Goto(p, "up") /\ UNCHANGED crashes
     \/ Goto(p, "down") /\ crashes < MaxCrashes /\ crashes' = crashes + 1
  /\ stored' = [stored EXCEPT ![p] = {}]
  /\ UNCHANGED <<current, todo, lookup>>

(* A query or the commit fails, or the process dies, serving or not. *)
Crash(p) ==
  /\ pc[p] # "down"
  /\ crashes < MaxCrashes /\ crashes' = crashes + 1
  /\ End(p)
  /\ UNCHANGED lookup

(* PostgreSQL aborts a transaction of a cycle of waits. *)
Blocked(p) ==
  \/ pc[p] \in {"insert", "update"} /\ lock[current[p]] # Nobody
  \/ pc[p] = "disable" /\ todo[p] # {} /\ \A c \in todo[p] : lock[c] # Nobody

WaitsFor(p) ==
  {lock[c] : c \in IF pc[p] = "disable" THEN todo[p] ELSE {current[p]}}

Deadlocked(p) ==
  \E D \in SUBSET Replicas :
    /\ p \in D
    /\ \A q \in D : Blocked(q) /\ WaitsFor(q) \subseteq D

DeadlockAbort(p) ==
  /\ Deadlocked(p)
  /\ End(p)
  /\ UNCHANGED <<crashes, lookup>>
-----------------------------------------------------------------------------
(***************************************************************************)
(* FindClient                                                              *)
(***************************************************************************)
MutantSelectable(row) == row # NoRow

(* WHERE client_id = c AND disabled = false *)
Selectable(row) == Enabled(row)

(* The first SELECT: the client. *)
FindClient(l) ==
  /\ lookup[l].state = "idle"
  /\ \E c \in Clients :
       \/ /\ ~Selectable(clients[c])
          /\ lookup' = [lookup EXCEPT ![l] = [NoLookup EXCEPT !.state = "failed", !.client = c]]
          /\ UNCHANGED inForce
       \/ /\ Selectable(clients[c])
          /\ lookup' = [lookup EXCEPT ![l] =
                          [state |-> "uris", client |-> c,
                           secret |-> clients[c].secret, uris |-> {}]]
          /\ inForce' = [inForce EXCEPT ![l] =
                           IF Enabled(clients[c]) THEN {Settled(clients[c])} ELSE {}]
  /\ UNCHANGED <<clients, lock, draft, pc, current, todo, crashes, last, stored>>

(* The second SELECT: its redirect URIs. *)
FindRedirectURIs(l) ==
  /\ lookup[l].state = "uris"
  /\ \/ lookup' = [lookup EXCEPT ![l].state = "found",
                                 ![l].uris = clients[lookup[l].client].uris]
     \/ lookup' = [lookup EXCEPT ![l].state = "failed"]
  /\ UNCHANGED <<clients, lock, draft, pc, current, todo, crashes, last, stored, inForce>>
-----------------------------------------------------------------------------
Sync(p) ==
  \/ FindStored(p) \/ InsertClient(p) \/ UpdateClient(p) \/ ReplaceRedirectURIs(p)
  \/ SelectAll(p) \/ DisableClient(p) \/ Commit(p)

Next ==
  \/ \E p \in Replicas : Start(p) \/ Sync(p) \/ DeadlockAbort(p) \/ Crash(p)
  \/ \E l \in Lookups : FindClient(l) \/ FindRedirectURIs(l)

Spec == Init /\ [][Next]_vars

(* A replica is started again (a Deployment restarts its containers), its  *)
(* queries are answered, a free lock is granted, and PostgreSQL notices a  *)
(* deadlock.                                                               *)
Fairness ==
  \A p \in Replicas :
    WF_vars(Start(p)) /\ WF_vars(Sync(p)) /\ WF_vars(DeadlockAbort(p))

FairSpec == Spec /\ Fairness
-----------------------------------------------------------------------------
(***************************************************************************)
(* Properties                                                              *)
(***************************************************************************)
(* However the transactions of starting replicas interleave, fail and are  *)
(* repeated, the secret and the redirect URIs of a client come from one    *)
(* configuration, never from two (persistence/oidc.go:61: a failure in the *)
(* middle leaves no partial configuration behind).                         *)
ClientWhole ==
  \A c \in Clients : clients[c] # NoRow =>
    \E p \in Replicas :
      c \in Configured(p) /\ Settled(clients[c]) = Configuration[p][c]

(* The configuration of the replica that committed last is in force: its   *)
(* clients are enabled as it configures them, and all others are disabled  *)
(* (api/README.md:26).  Configurations with a common client are serialised *)
(* by the lock of its row; of those that have none in common with the last *)
(* one, clients may stay enabled that it could not see, because they were  *)
(* inserted for the first time and committed after its SELECT of all.      *)
Disjoint(p, q) == Configured(p) \cap Configured(q) = {}

LastStartWins ==
  LET p == last.by
  IN p \in Replicas =>
       \A c \in Clients :
         IF c \in Configured(p)
           THEN Enabled(clients[c]) /\ Settled(clients[c]) = Configuration[p][c]
           ELSE Enabled(clients[c]) =>
                  /\ c \notin last.saw
                  /\ \E q \in Replicas : c \in Configured(q) /\ Disjoint(p, q)

(* FindClient reads a client and its redirect URIs in two statements, and  *)
(* a start may commit in between.  Each of the two - /authorize uses the   *)
(* URIs, /token the secret - is nevertheless what applied to the client at *)
(* some moment during the call, while it was enabled: a lookup never       *)
(* reports the URIs of a client that was disabled all along, or ones that  *)
(* were replaced before it began.                                          *)
LookupTrueOnce ==
  \A l \in Lookups : lookup[l].state = "found" =>
    /\ \E s \in inForce[l] : s.uris = lookup[l].uris
    /\ \E s \in inForce[l] : s.secret = lookup[l].secret

(* Replicas that wait for each other, fail on the unique index or are      *)
(* chosen as deadlock victims and start again all come up and stay up,     *)
(* once nothing else makes them crash.  This needs restarts that are       *)
(* delayed (a container that fails again and again is restarted later and  *)
(* later): victims that are back before the survivor has finished could    *)
(* abort each other for ever.                                              *)
Syncing(p) == pc[p] \notin {"down", "up"}

DelayedRestarts ==
  <>[][\A p \in Replicas : pc[p] = "down" /\ pc'[p] # "down" =>
         \A q \in Replicas : ~Syncing(q)]_vars

AllReplicasServe == DelayedRestarts => <>[](\A p \in Replicas : pc[p] = "up")
=============================================================================
