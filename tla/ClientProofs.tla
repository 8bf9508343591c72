---------------------------- MODULE ClientProofs ----------------------------
(***************************************************************************)
(* Proofs about ClientSync, for any replicas, configurations and lookups.  *)
(***************************************************************************)
EXTENDS ClientSync, TLAPS

(* The clients p has written in its transaction. *)
Held(p) ==
  IF pc[p] \in {"down", "up"} THEN {}
  ELSE IF pc[p] = "disable" THEN (Configured(p) \cup stored[p]) \ todo[p]
  ELSE IF pc[p] \in {"insert", "update"} THEN Configured(p) \ (todo[p] \cup {current[p]})
  ELSE Configured(p) \ todo[p]

Final(p, c) ==
  [secret |-> Configuration[p][c].secret, uris |-> Configuration[p][c].uris, disabled |-> FALSE]

(* What p wrote of client c: its configuration - its URIs may still be to  *)
(* come - or that it is disabled.                                          *)
WrittenOK(p, c) ==
  IF c \in Configured(p)
    THEN /\ draft[p][c] \in Rows
         /\ draft[p][c].secret = Configuration[p][c].secret
         /\ ~draft[p][c].disabled
         /\ ~(pc[p] = "uris" /\ c = current[p]) => draft[p][c].uris = Configuration[p][c].uris
    ELSE /\ clients[c] # NoRow
         /\ draft[p][c] \in Rows
         /\ Settled(draft[p][c]) = Settled(clients[c])
         /\ draft[p][c].disabled

(* Rows that p did not see when it selected all are of configurations that *)
(* have nothing in common with that of p.                                  *)
UnseenOK(p) ==
  pc[p] = "disable" =>
    \A c \in Clients \ (Configured(p) \cup stored[p]) :
      clients[c] # NoRow => \E q \in Replicas : c \in Configured(q) /\ Disjoint(p, q)

ReplicaOK(p) ==
  /\ pc[p] \in {"find", "insert", "update", "uris"} => todo[p] \subseteq Configured(p)
  /\ pc[p] \in {"insert", "update", "uris"} => current[p] \in Configured(p) \ todo[p]
  /\ pc[p] = "update" => clients[current[p]] # NoRow
  /\ pc[p] = "selectAll" => todo[p] = {}
  /\ pc[p] = "disable" =>
       /\ todo[p] \subseteq stored[p] \ Configured(p)
       /\ \A c \in todo[p] : clients[c] # NoRow
  /\ \A c \in Clients : lock[c] = p <=> c \in Held(p)
  /\ \A c \in Held(p) : WrittenOK(p, c)
  /\ UnseenOK(p)

LookupOK(l) ==
  /\ lookup[l].state = "uris" =>
       /\ lookup[l].client \in Clients
       /\ clients[lookup[l].client] # NoRow
       /\ \E s \in inForce[l] : s.uris = clients[lookup[l].client].uris
       /\ \E s \in inForce[l] : s.secret = lookup[l].secret
  /\ lookup[l].state = "found" =>
       /\ \E s \in inForce[l] : s.uris = lookup[l].uris
       /\ \E s \in inForce[l] : s.secret = lookup[l].secret

Inv ==
  /\ TypeOK
  /\ \A p \in Replicas : ReplicaOK(p)
  /\ \A l \in Lookups : LookupOK(l)
  /\ ClientWhole
  /\ LastStartWins

LEMMA InvImplies == ASSUME Inv PROVE TypeOK /\ ClientWhole /\ LastStartWins /\ LookupTrueOnce
  BY DEF Inv, LookupOK, LookupTrueOnce

LEMMA ConfigurationTyped ==
  ASSUME NEW p \in Replicas
  PROVE  /\ Configured(p) \subseteq Clients
         /\ \A c \in Configured(p) : Configuration[p][c].secret \in Secrets
                                     /\ Configuration[p][c].uris \subseteq Uris
<1>1. PICK configured \in SUBSET Clients \ {{}} : Configuration[p] \in [configured -> Settings]
  BY ConfigurationAssumption
<1> QED
  BY <1>1 DEF Configured, Settings

LEMMA HeldTyped ==
  ASSUME TypeOK, NEW p \in Replicas
  PROVE  Held(p) \subseteq Clients
  BY ConfigurationTyped DEF Held, TypeOK

LEMMA RowTyped ==
  ASSUME NEW row \in Rows
  PROVE  /\ row # NoRow /\ row.secret \in Secrets /\ row.uris \subseteq Uris
         /\ row.disabled \in BOOLEAN
         /\ Settled(row) \in Settings
         /\ Settled(row).uris = row.uris /\ Settled(row).secret = row.secret
  BY AbsentAssumption DEF Rows, Settled, Settings
-----------------------------------------------------------------------------
(***************************************************************************)
(* What a step of replica p leaves as it was, for the others               *)
(***************************************************************************)
Frame(p) ==
  /\ \A q \in Replicas : q # p =>
       /\ pc'[q] = pc[q] /\ current'[q] = current[q] /\ todo'[q] = todo[q]
       /\ stored'[q] = stored[q] /\ draft'[q] = draft[q]
       /\ \A c \in Clients : lock'[c] = q <=> lock[c] = q
  /\ \A c \in Clients : lock[c] # p => clients'[c] = clients[c]
  /\ \A c \in Clients : clients[c] # NoRow => clients'[c] # NoRow

(* New rows are of configurations that p has written completely. *)
NewRows(p) ==
  \A c \in Clients : clients[c] = NoRow /\ clients'[c] # NoRow =>
    c \in Configured(p) /\ \A d \in Configured(p) : lock[d] = p

LEMMA OthersKept ==
  ASSUME Inv, NEW p \in Replicas, Frame(p), NewRows(p), NEW q \in Replicas, q # p
  PROVE  ReplicaOK(q)'
<1>1. /\ pc'[q] = pc[q] /\ current'[q] = current[q] /\ todo'[q] = todo[q]
      /\ stored'[q] = stored[q] /\ draft'[q] = draft[q]
      /\ \A c \in Clients : lock'[c] = q <=> lock[c] = q
  BY DEF Frame
<1>2. ReplicaOK(q)
  BY DEF Inv
<1>3. Held(q)' = Held(q) /\ Held(q) \subseteq Clients
  BY <1>1, HeldTyped DEF Held, Inv
<1>4. ASSUME NEW c \in Held(q) PROVE WrittenOK(q, c)'
  <2>1. WrittenOK(q, c) /\ lock[c] = q /\ c \in Clients
    BY <1>2, <1>3 DEF ReplicaOK
  <2>2. clients'[c] = clients[c]
    BY <2>1 DEF Frame
  <2> QED
    BY <1>1, <2>1, <2>2 DEF WrittenOK
<1>5. UnseenOK(q)'
  <2> SUFFICES ASSUME pc[q] = "disable", NEW c \in Clients \ (Configured(q) \cup stored[q]),
                      clients'[c] # NoRow
               PROVE  \E r \in Replicas : c \in Configured(r) /\ Disjoint(q, r)
    BY <1>1 DEF UnseenOK
  <2>1. CASE clients[c] # NoRow
    BY <1>2, <2>1 DEF ReplicaOK, UnseenOK
  <2>2. CASE clients[c] = NoRow
    <3>1. c \in Configured(p) /\ \A d \in Configured(p) : lock[d] = p
      BY <2>2 DEF NewRows
    <3>2. \A d \in Configured(q) : lock[d] = q
      <4>1. \A d \in Configured(q) : d \in Held(q) /\ d \in Clients
        BY <1>2, ConfigurationTyped DEF ReplicaOK, Held
      <4> QED
        BY <1>2, <4>1 DEF ReplicaOK
    <3> QED
      BY <3>1, <3>2 DEF Disjoint
  <2> QED
    BY <2>1, <2>2
<1>6. pc[q] = "update" => clients'[current[q]] # NoRow
  BY <1>2, ConfigurationTyped DEF ReplicaOK, Frame
<1>7. pc[q] = "disable" => \A c \in todo[q] : clients'[c] # NoRow
  BY <1>2 DEF ReplicaOK, Frame, Inv, TypeOK
<1> QED
  BY <1>1, <1>2, <1>3, <1>4, <1>5, <1>6, <1>7 DEF ReplicaOK

(* A step that commits nothing. *)
LEMMA StepKeeps ==
  ASSUME Inv, NEW p \in Replicas, Frame(p), TypeOK', ReplicaOK(p)',
         UNCHANGED <<clients, lookup, last, inForce>>
  PROVE  Inv'
<1>1. NewRows(p)
  BY DEF NewRows
<1>2. \A q \in Replicas : ReplicaOK(q)'
  BY <1>1, OthersKept
<1>3. \A l \in Lookups : LookupOK(l)'
  BY DEF Inv, LookupOK
<1>4. ClientWhole' /\ LastStartWins'
  BY DEF Inv, ClientWhole, LastStartWins
<1> QED
  BY <1>2, <1>3, <1>4 DEF Inv
-----------------------------------------------------------------------------
(***************************************************************************)
(* The steps of EnsureClients                                              *)
(***************************************************************************)
LEMMA StartKeeps ==
  ASSUME Inv, NEW p \in Replicas, Start(p)
  PROVE  Inv'
<1>1. ReplicaOK(p) /\ pc[p] = "down" /\ Configured(p) \subseteq Clients
  BY ConfigurationTyped DEF Inv, Start
<1>2. TypeOK'
  BY <1>1 DEF Start, Goto, Inv, TypeOK
<1>3. /\ pc'[p] = "find" /\ todo'[p] = Configured(p) /\ clients' = clients /\ lock' = lock
  BY DEF Start, Goto, Inv, TypeOK
<1>4. Frame(p)
  BY DEF Start, Goto, Inv, TypeOK, Frame
<1>5. Held(p) = {} /\ Held(p)' = {}
  BY <1>1, <1>3 DEF Held
<1>6. ReplicaOK(p)'
  BY <1>1, <1>3, <1>5 DEF ReplicaOK, UnseenOK
<1> QED
  BY <1>2, <1>4, <1>6, StepKeeps DEF Start

LEMMA FindStoredKeeps ==
  ASSUME Inv, NEW p \in Replicas, FindStored(p)
  PROVE  Inv'
<1>1. ReplicaOK(p) /\ pc[p] = "find" /\ Configured(p) \subseteq Clients
  BY ConfigurationTyped DEF Inv, FindStored
<1>2. PICK c \in todo[p] : /\ current' = [current EXCEPT ![p] = c]
                           /\ todo' = [todo EXCEPT ![p] = @ \ {c}]
                           /\ Goto(p, InsertOrUpdate(c))
  BY DEF FindStored
<1>3. c \in Configured(p) /\ c \in Clients /\ todo[p] \subseteq Configured(p)
  BY <1>1, <1>2 DEF ReplicaOK
<1>4. TypeOK'
  BY <1>2, <1>3 DEF FindStored, Goto, InsertOrUpdate, Inv, TypeOK
<1>5. /\ pc'[p] \in {"insert", "update"} /\ (pc'[p] = "update" => clients[c] # NoRow)
      /\ current'[p] = c /\ todo'[p] = todo[p] \ {c}
      /\ clients' = clients /\ lock' = lock /\ draft' = draft
  BY <1>2 DEF FindStored, Goto, InsertOrUpdate, Inv, TypeOK
<1>6. Frame(p)
  BY <1>2 DEF FindStored, Goto, InsertOrUpdate, Inv, TypeOK, Frame
<1>7. Held(p)' = Held(p)
  BY <1>1, <1>2, <1>5 DEF Held
<1>8. \A d \in Held(p) : WrittenOK(p, d)'
  BY <1>1, <1>5 DEF ReplicaOK, WrittenOK
<1>9. ReplicaOK(p)'
  BY <1>1, <1>3, <1>5, <1>7, <1>8 DEF ReplicaOK, UnseenOK
<1> QED
  BY <1>4, <1>6, <1>9, StepKeeps DEF FindStored

(* p writes a row that is not yet complete. *)
LEMMA WriteKeeps ==
  ASSUME Inv, NEW p \in Replicas, pc[p] \in {"insert", "update"}, NEW row \in Rows,
         lock[current[p]] = Nobody, Write(p, current[p], row), Goto(p, "uris"),
         row.secret = Configuration[p][current[p]].secret, ~row.disabled,
         UNCHANGED <<clients, current, todo, crashes, lookup, last, stored, inForce>>
  PROVE  Inv'
<1> DEFINE c == current[p]
<1>1. /\ ReplicaOK(p) /\ c \in Configured(p) \ todo[p] /\ c \in Clients
      /\ todo[p] \subseteq Configured(p)
  BY ConfigurationTyped DEF Inv, ReplicaOK
<1>2. /\ lock \in [Clients -> Replicas \cup {Nobody}]
      /\ draft \in [Replicas -> [Clients -> Rows \cup {NoRow}]]
  BY DEF Inv, TypeOK
<1>3. /\ lock'[c] = p /\ \A d \in Clients : d # c => lock'[d] = lock[d]
      /\ lock' \in [Clients -> Replicas \cup {Nobody}]
  BY <1>1, <1>2 DEF Write
<1>4. /\ draft'[p][c] = row /\ \A d \in Clients : d # c => draft'[p][d] = draft[p][d]
      /\ \A q \in Replicas : q # p => draft'[q] = draft[q]
      /\ draft' \in [Replicas -> [Clients -> Rows \cup {NoRow}]]
  BY <1>1, <1>2 DEF Write
<1>5. pc'[p] = "uris" /\ \A q \in Replicas : q # p => pc'[q] = pc[q]
  BY DEF Goto, Inv, TypeOK
<1>6. TypeOK'
  BY <1>3, <1>4 DEF Goto, Inv, TypeOK
<1>7. Frame(p)
  BY <1>1, <1>3, <1>4, <1>5, AbsentAssumption DEF Frame
<1>8. Held(p)' = Held(p) \cup {c} /\ c \notin Held(p) /\ Held(p) \subseteq Clients
  BY <1>1, <1>5, HeldTyped DEF Held, Inv
<1>9. \A d \in Held(p) \cup {c} : WrittenOK(p, d)'
  BY <1>1, <1>4, <1>5, <1>8 DEF ReplicaOK, WrittenOK
<1>10. \A d \in Clients : lock'[d] = p <=> d \in Held(p) \cup {c}
  BY <1>1, <1>3 DEF ReplicaOK
<1>11. ReplicaOK(p)'
  BY <1>1, <1>5, <1>8, <1>9, <1>10 DEF ReplicaOK, UnseenOK
<1> QED
  BY <1>6, <1>7, <1>11, StepKeeps

(* Rolled back. *)
LEMMA EndKeeps ==
  ASSUME Inv, NEW p \in Replicas, End(p), crashes' \in 0..MaxCrashes, UNCHANGED lookup
  PROVE  Inv'
<1>1. ReplicaOK(p)
  BY DEF Inv
<1>2. /\ pc'[p] = "down" /\ todo'[p] = {} /\ clients' = clients
      /\ \A q \in Replicas : q # p =>
           /\ pc'[q] = pc[q] /\ current'[q] = current[q] /\ todo'[q] = todo[q]
           /\ stored'[q] = stored[q] /\ draft'[q] = draft[q]
  BY DEF End, Goto, Inv, TypeOK
<1>3. /\ lock' \in [Clients -> Replicas \cup {Nobody}]
      /\ \A c \in Clients : lock'[c] # p
      /\ \A c \in Clients : lock[c] # p => lock'[c] = lock[c]
      /\ \A c \in Clients : lock[c] = p => lock'[c] = Nobody
  BY AbsentAssumption DEF End, Released, Inv, TypeOK
<1>4. TypeOK'
  BY <1>3 DEF End, Goto, NoDraft, Inv, TypeOK
<1>5. Frame(p)
  BY <1>2, <1>3, AbsentAssumption DEF Frame
<1>6. ReplicaOK(p)'
  BY <1>2, <1>3 DEF ReplicaOK, UnseenOK, Held
<1> QED
  BY <1>4, <1>5, <1>6, StepKeeps DEF End

LEMMA InsertClientKeeps ==
  ASSUME Inv, NEW p \in Replicas, InsertClient(p)
  PROVE  Inv'
<1>1. CASE End(p)
  BY <1>1, EndKeeps DEF InsertClient, Inv, TypeOK
<1>2. CASE ~End(p)
  <2>1. PICK row : row = [secret |-> Configuration[p][current[p]].secret, uris |-> {},
                          disabled |-> FALSE]
    OBVIOUS
  <2>2. current[p] \in Configured(p)
    BY DEF Inv, ReplicaOK, InsertClient
  <2>3. row \in Rows /\ row.secret = Configuration[p][current[p]].secret /\ ~row.disabled
    BY <2>1, <2>2, ConfigurationTyped DEF Rows
  <2> QED
    BY <1>2, <2>1, <2>3, WriteKeeps DEF InsertClient
<1> QED
  BY <1>1, <1>2

LEMMA UpdateClientKeeps ==
  ASSUME Inv, NEW p \in Replicas, UpdateClient(p)
  PROVE  Inv'
<1>1. PICK row : row = Updated(clients[current[p]], Configuration[p][current[p]].secret)
  OBVIOUS
<1>2. current[p] \in Configured(p) /\ current[p] \in Clients /\ clients[current[p]] \in Rows
  BY ConfigurationTyped DEF Inv, TypeOK, ReplicaOK, UpdateClient
<1>3. row \in Rows /\ row.secret = Configuration[p][current[p]].secret /\ ~row.disabled
  BY <1>1, <1>2, ConfigurationTyped DEF Rows, Updated
<1> QED
  BY <1>1, <1>3, WriteKeeps DEF UpdateClient

LEMMA ReplaceRedirectURIsKeeps ==
  ASSUME Inv, NEW p \in Replicas, ReplaceRedirectURIs(p)
  PROVE  Inv'
<1> DEFINE c == current[p]
<1>1. /\ ReplicaOK(p) /\ pc[p] = "uris" /\ c \in Configured(p) \ todo[p] /\ c \in Clients
      /\ todo[p] \subseteq Configured(p)
  BY ConfigurationTyped DEF Inv, ReplicaOK, ReplaceRedirectURIs
<1>2. c \in Held(p) /\ WrittenOK(p, c) /\ draft[p][c] \in Rows
  BY <1>1 DEF Held, ReplicaOK, WrittenOK
<1>3. PICK row : row = [draft[p][c] EXCEPT !.uris = Configuration[p][c].uris]
  OBVIOUS
<1>4. /\ row \in Rows /\ row.uris = Configuration[p][c].uris
      /\ row.secret = Configuration[p][c].secret /\ ~row.disabled
  BY <1>1, <1>2, <1>3, ConfigurationTyped DEF Rows, WrittenOK
<1>5. draft' = [draft EXCEPT ![p] = [draft[p] EXCEPT ![c] = row]]
  BY <1>3 DEF ReplaceRedirectURIs, Replaced
<1>6. /\ draft'[p][c] = row /\ \A d \in Clients : d # c => draft'[p][d] = draft[p][d]
      /\ \A q \in Replicas : q # p => draft'[q] = draft[q]
      /\ draft' \in [Replicas -> [Clients -> Rows \cup {NoRow}]]
  BY <1>1, <1>4, <1>5 DEF Inv, TypeOK
<1>7. /\ pc'[p] \in {"find", "selectAll"} /\ (pc'[p] = "selectAll" => todo[p] = {})
      /\ todo' = todo /\ clients' = clients /\ lock' = lock
  BY DEF ReplaceRedirectURIs, Goto, Inv, TypeOK
<1>8. TypeOK'
  BY <1>6 DEF ReplaceRedirectURIs, Goto, Inv, TypeOK
<1>9. Frame(p)
  BY <1>6 DEF ReplaceRedirectURIs, Goto, Inv, TypeOK, Frame
<1>10. Held(p)' = Held(p) /\ Held(p) \subseteq Clients
  BY <1>1, <1>7, HeldTyped DEF Held, Inv
<1>11. ASSUME NEW d \in Held(p) PROVE WrittenOK(p, d)'
  <2>1. d \in Configured(p) /\ d \in Clients
    BY <1>1, <1>10 DEF Held
  <2>2. CASE d = c
    BY <1>4, <1>6, <2>1, <2>2 DEF WrittenOK
  <2>3. CASE d # c
    BY <1>1, <1>6, <2>1, <2>3 DEF WrittenOK, ReplicaOK
  <2> QED
    BY <2>2, <2>3
<1>12. ReplicaOK(p)'
  BY <1>1, <1>7, <1>10, <1>11 DEF ReplicaOK, UnseenOK
<1> QED
  BY <1>8, <1>9, <1>12, StepKeeps DEF ReplaceRedirectURIs

LEMMA SelectAllKeeps ==
  ASSUME Inv, NEW p \in Replicas, SelectAll(p)
  PROVE  Inv'
<1>1. ReplicaOK(p) /\ pc[p] = "selectAll" /\ todo[p] = {} /\ Configured(p) \subseteq Clients
  BY ConfigurationTyped DEF Inv, SelectAll, ReplicaOK
<1>2. PICK all \in SUBSET Clients : all = {c \in Clients : clients[c] # NoRow \/ lock[c] = p}
  OBVIOUS
<1>3. stored' = [stored EXCEPT ![p] = all] /\ todo' = [todo EXCEPT ![p] = all \ Configured(p)]
  BY <1>2 DEF SelectAll, Inv, TypeOK
<1>4. /\ pc'[p] = "disable" /\ stored'[p] = all /\ todo'[p] = all \ Configured(p)
      /\ clients' = clients /\ lock' = lock /\ draft' = draft
  BY <1>3 DEF SelectAll, Goto, Inv, TypeOK
<1>5. TypeOK'
  BY <1>3 DEF SelectAll, Goto, Inv, TypeOK
<1>6. Frame(p)
  BY <1>3 DEF SelectAll, Goto, Inv, TypeOK, Frame
<1>7. Held(p) = Configured(p)
  BY <1>1 DEF Held
<1>8. \A c \in Configured(p) : c \in all
  BY <1>1, <1>2, <1>7 DEF ReplicaOK
<1>9. Held(p)' = Configured(p)
  BY <1>4, <1>8 DEF Held
<1>10. \A c \in Configured(p) : WrittenOK(p, c)'
  BY <1>1, <1>4, <1>7 DEF ReplicaOK, WrittenOK
<1>11. ASSUME NEW c \in todo'[p] PROVE clients[c] # NoRow
  BY <1>1, <1>2, <1>4, <1>7 DEF ReplicaOK
<1>12. UnseenOK(p)'
  BY <1>2, <1>4 DEF UnseenOK
<1>13. ReplicaOK(p)'
  BY <1>1, <1>4, <1>7, <1>9, <1>10, <1>11, <1>12 DEF ReplicaOK
<1> QED
  BY <1>5, <1>6, <1>13, StepKeeps DEF SelectAll

LEMMA DisableClientKeeps ==
  ASSUME Inv, NEW p \in Replicas, DisableClient(p)
  PROVE  Inv'
<1>1. ReplicaOK(p) /\ pc[p] = "disable" /\ todo[p] \subseteq stored[p] \ Configured(p)
  BY DEF Inv, DisableClient, ReplicaOK
<1>2. PICK c \in todo[p] : /\ lock[c] = Nobody
                           /\ Write(p, c, [clients[c] EXCEPT !.disabled = TRUE])
                           /\ todo' = [todo EXCEPT ![p] = @ \ {c}]
  BY DEF DisableClient
<1>3. PICK row : row = [clients[c] EXCEPT !.disabled = TRUE]
  OBVIOUS
<1>4. c \in Clients /\ clients[c] # NoRow /\ clients[c] \in Rows
  BY <1>1, <1>2 DEF Inv, TypeOK, ReplicaOK
<1>5. row \in Rows /\ row.disabled /\ Settled(row) = Settled(clients[c])
  BY <1>3, <1>4 DEF Rows, Settled
<1>6. /\ lock'[c] = p /\ \A d \in Clients : d # c => lock'[d] = lock[d]
      /\ lock' \in [Clients -> Replicas \cup {Nobody}]
  BY <1>2, <1>4 DEF Write, Inv, TypeOK
<1>7. /\ draft'[p][c] = row /\ \A d \in Clients : d # c => draft'[p][d] = draft[p][d]
      /\ \A q \in Replicas : q # p => draft'[q] = draft[q]
      /\ draft' \in [Replicas -> [Clients -> Rows \cup {NoRow}]]
  BY <1>2, <1>3, <1>4, <1>5 DEF Write, Inv, TypeOK
<1>8. /\ pc' = pc /\ todo'[p] = todo[p] \ {c} /\ stored' = stored /\ clients' = clients
      /\ \A q \in Replicas : q # p => todo'[q] = todo[q]
      /\ todo' \in [Replicas -> SUBSET Clients]
  BY <1>2 DEF DisableClient, Inv, TypeOK
<1>9. TypeOK'
  BY <1>6, <1>7, <1>8 DEF DisableClient, Inv, TypeOK
<1>10. Frame(p)
  BY <1>2, <1>4, <1>6, <1>7, <1>8, AbsentAssumption DEF DisableClient, Frame
<1>11. Held(p)' = Held(p) \cup {c} /\ c \notin Held(p) /\ Held(p) \subseteq Clients
  BY <1>1, <1>2, <1>8, HeldTyped DEF Held, Inv
<1>12. ASSUME NEW d \in Held(p) \cup {c} PROVE WrittenOK(p, d)'
  <2>1. CASE d = c
    BY <1>1, <1>2, <1>4, <1>5, <1>7, <1>8, <2>1 DEF WrittenOK
  <2>2. CASE d # c
    BY <1>1, <1>7, <1>8, <1>11, <2>2 DEF WrittenOK, ReplicaOK
  <2> QED
    BY <2>1, <2>2
<1>13. \A d \in Clients : lock'[d] = p <=> d \in Held(p) \cup {c}
  BY <1>1, <1>6 DEF ReplicaOK
<1>14. ReplicaOK(p)'
  BY <1>1, <1>8, <1>11, <1>12, <1>13 DEF ReplicaOK, UnseenOK
<1> QED
  BY <1>9, <1>10, <1>14, StepKeeps DEF DisableClient

(* The rows p publishes. *)
LEMMA PublishedIs ==
  ASSUME Inv, NEW p \in Replicas, pc[p] = "disable", todo[p] = {}, NEW c \in Clients
  PROVE  /\ Published(p)[c] \in Rows \cup {NoRow}
         /\ lock[c] # p => Published(p)[c] = clients[c]
         /\ clients[c] # NoRow => Published(p)[c] # NoRow
         /\ c \in Configured(p) =>
              /\ lock[c] = p
              /\ Enabled(Published(p)[c])
              /\ Settled(Published(p)[c]) = Configuration[p][c]
         /\ c \in stored[p] \ Configured(p) => ~Enabled(Published(p)[c])
         /\ clients[c] # NoRow /\ ~Enabled(Published(p)[c]) =>
              Settled(Published(p)[c]) = Settled(clients[c])
         /\ clients[c] = NoRow /\ Published(p)[c] # NoRow => c \in Configured(p)
<1>1. ReplicaOK(p) /\ Held(p) = Configured(p) \cup stored[p]
  BY DEF Inv, Held
<1>2. lock[c] = p <=> c \in Configured(p) \cup stored[p]
  BY <1>1 DEF ReplicaOK
<1>3. clients[c] \in Rows \cup {NoRow}
  BY DEF Inv, TypeOK
<1>4. CASE c \in Configured(p)
  <2>1. WrittenOK(p, c) /\ Published(p)[c] = draft[p][c]
    BY <1>1, <1>2, <1>4 DEF ReplicaOK, Published
  <2>2. /\ draft[p][c] \in Rows /\ ~draft[p][c].disabled
        /\ draft[p][c].secret = Configuration[p][c].secret
        /\ draft[p][c].uris = Configuration[p][c].uris
    BY <1>4, <2>1 DEF WrittenOK
  <2>3. Configuration[p][c] \in Settings
    <3>1. PICK configured \in SUBSET Clients \ {{}} : Configuration[p] \in [configured -> Settings]
      BY ConfigurationAssumption
    <3> QED
      BY <1>4, <3>1 DEF Configured
  <2>4. Settled(draft[p][c]) = Configuration[p][c]
    BY <2>2, <2>3 DEF Settled, Settings
  <2>5. Enabled(draft[p][c])
    BY <2>2, RowTyped DEF Enabled
  <2> QED
    BY <1>2, <1>4, <2>1, <2>2, <2>4, <2>5, RowTyped
<1>5. CASE c \in stored[p] \ Configured(p)
  <2>1. WrittenOK(p, c) /\ Published(p)[c] = draft[p][c]
    BY <1>1, <1>2, <1>5 DEF ReplicaOK, Published
  <2>2. /\ draft[p][c] \in Rows /\ draft[p][c].disabled /\ clients[c] # NoRow
        /\ Settled(draft[p][c]) = Settled(clients[c])
    BY <1>5, <2>1 DEF WrittenOK
  <2> QED
    BY <1>2, <1>5, <2>1, <2>2, RowTyped DEF Enabled
<1>6. CASE c \notin Configured(p) \cup stored[p]
  <2>1. lock[c] # p /\ Published(p)[c] = clients[c]
    BY <1>2, <1>6 DEF Published
  <2> QED
    BY <1>3, <1>6, <2>1
<1> QED
  BY <1>4, <1>5, <1>6

LEMMA CommitKeeps ==
  ASSUME Inv, NEW p \in Replicas, Commit(p)
  PROVE  Inv'
<1>1. ReplicaOK(p) /\ pc[p] = "disable" /\ todo[p] = {}
  BY DEF Inv, Commit
<1>2. clients' = Published(p) /\ clients' \in [Clients -> Rows \cup {NoRow}]
  <2>1. clients' = Published(p) /\ Published(p) = [c \in Clients |-> Published(p)[c]]
    BY DEF Commit, Published
  <2> QED
    BY <1>1, <2>1, PublishedIs
<1>3. /\ pc'[p] \in {"up", "down"} /\ lookup' = lookup /\ todo' = todo /\ current' = current
      /\ \A q \in Replicas : q # p =>
           pc'[q] = pc[q] /\ stored'[q] = stored[q] /\ draft'[q] = draft[q]
  BY DEF Commit, Goto, Inv, TypeOK
<1>4. /\ lock' \in [Clients -> Replicas \cup {Nobody}]
      /\ \A c \in Clients : lock'[c] # p
      /\ \A c \in Clients : lock[c] # p => lock'[c] = lock[c]
      /\ \A c \in Clients : lock[c] = p => lock'[c] = Nobody
  BY AbsentAssumption DEF Commit, Released, Inv, TypeOK
<1>5. \A l \in Lookups :
        /\ inForce'[l] = IF lookup[l].state = "uris" /\ Enabled(clients'[lookup[l].client])
                           THEN inForce[l] \cup {Settled(clients'[lookup[l].client])}
                           ELSE inForce[l]
        /\ inForce'[l] \in SUBSET Settings
  <2>1. inForce' = [l \in Lookups |->
                     IF lookup[l].state = "uris" /\ Enabled(clients'[lookup[l].client])
                       THEN inForce[l] \cup {Settled(clients'[lookup[l].client])}
                       ELSE inForce[l]]
    BY <1>2 DEF Commit, Witness
  <2>2. ASSUME NEW l \in Lookups, lookup[l].state = "uris", Enabled(clients'[lookup[l].client])
        PROVE  Settled(clients'[lookup[l].client]) \in Settings
    <3>1. lookup[l].client \in Clients
      BY <2>2 DEF Inv, LookupOK
    <3>2. clients'[lookup[l].client] \in Rows
      BY <1>2, <2>2, <3>1 DEF Enabled
    <3> QED
      BY <3>2, RowTyped
  <2> QED
    BY <2>1, <2>2 DEF Inv, TypeOK
<1>6. TypeOK'
  <2>1. pc' \in [Replicas -> {"down", "find", "insert", "update", "uris", "selectAll",
                              "disable", "up"}]
    BY DEF Commit, Goto, Inv, TypeOK
  <2>2. draft' \in [Replicas -> [Clients -> Rows \cup {NoRow}]]
    BY DEF Commit, NoDraft, Inv, TypeOK
  <2>3. crashes' \in 0..MaxCrashes
    BY MaxCrashesAssumption DEF Commit, Inv, TypeOK
  <2>4. last' \in [by: Replicas \cup {Nobody}, saw: SUBSET Clients]
    BY DEF Commit, Inv, TypeOK
  <2>5. stored' \in [Replicas -> SUBSET Clients]
    BY DEF Commit, Inv, TypeOK
  <2>6. inForce' \in [Lookups -> SUBSET Settings]
    <3>1. inForce' = [l \in Lookups |-> inForce'[l]]
      BY DEF Commit, Witness
    <3> QED
      BY <1>5, <3>1
  <2> QED
    BY <1>2, <1>3, <1>4, <2>1, <2>2, <2>3, <2>4, <2>5, <2>6 DEF Inv, TypeOK
<1>7. Frame(p)
  BY <1>1, <1>2, <1>3, <1>4, PublishedIs, AbsentAssumption DEF Frame
<1>8. NewRows(p)
  <2>1. \A d \in Configured(p) : lock[d] = p
    BY <1>1, PublishedIs, ConfigurationTyped
  <2> QED
    BY <1>1, <1>2, <2>1, PublishedIs DEF NewRows
<1>9. ReplicaOK(p)'
  BY <1>3, <1>4 DEF ReplicaOK, UnseenOK, Held
<1>10. \A q \in Replicas : ReplicaOK(q)'
  BY <1>7, <1>8, <1>9, OthersKept
<1>11. ASSUME NEW l \in Lookups PROVE LookupOK(l)'
  <2> DEFINE c == lookup[l].client
  <2>1. inForce[l] \subseteq inForce'[l] /\ LookupOK(l) /\ lookup' = lookup
    BY <1>3, <1>5 DEF Inv
  <2>2. CASE lookup[l].state = "uris"
    <3>1. c \in Clients /\ clients[c] # NoRow /\ clients'[c] # NoRow /\ clients'[c] \in Rows
          /\ clients[c] \in Rows
      BY <1>1, <1>2, <2>1, <2>2, PublishedIs DEF LookupOK, Inv, TypeOK
    <3>2. \E s \in inForce'[l] : s.uris = clients'[c].uris
      <4>1. CASE Enabled(clients'[c])
        <5>1. Settled(clients'[c]) \in inForce'[l]
          BY <1>5, <2>2, <4>1
        <5> QED
          BY <3>1, <5>1, RowTyped
      <4>2. CASE ~Enabled(clients'[c])
        <5>1. Settled(clients'[c]) = Settled(clients[c])
          BY <1>1, <1>2, <3>1, <4>2, PublishedIs
        <5>2. clients'[c].uris = clients[c].uris
          BY <3>1, <5>1, RowTyped
        <5> QED
          BY <2>1, <2>2, <5>2 DEF LookupOK
      <4> QED
        BY <4>1, <4>2
    <3>3. \E s \in inForce'[l] : s.secret = lookup[l].secret
      BY <2>1, <2>2 DEF LookupOK
    <3> QED
      BY <2>1, <2>2, <3>1, <3>2, <3>3 DEF LookupOK
  <2>3. CASE lookup[l].state # "uris"
    BY <2>1, <2>3 DEF LookupOK
  <2> QED
    BY <2>2, <2>3
<1>12. ClientWhole'
  <2> SUFFICES ASSUME NEW c \in Clients, clients'[c] # NoRow
               PROVE  \E q \in Replicas :
                        c \in Configured(q) /\ Settled(clients'[c]) = Configuration[q][c]
    BY DEF ClientWhole
  <2>1. CASE c \in Configured(p)
    BY <1>1, <1>2, <2>1, PublishedIs
  <2>2. CASE c \notin Configured(p)
    <3>1. clients[c] # NoRow
      BY <1>1, <1>2, <2>2, PublishedIs
    <3>2. Settled(clients'[c]) = Settled(clients[c])
      <4>1. CASE lock[c] # p
        BY <1>1, <1>2, <4>1, PublishedIs
      <4>2. CASE lock[c] = p
        <5>1. c \in stored[p]
          BY <1>1, <2>2, <4>2 DEF ReplicaOK, Held
        <5> QED
          BY <1>1, <1>2, <2>2, <3>1, <5>1, PublishedIs
      <4> QED
        BY <4>1, <4>2
    <3> QED
      BY <3>1, <3>2 DEF Inv, ClientWhole
  <2> QED
    BY <2>1, <2>2
<1>13. LastStartWins'
  <2>1. last'.by = p /\ last'.saw = stored[p]
    BY DEF Commit
  <2> SUFFICES ASSUME NEW c \in Clients
               PROVE  IF c \in Configured(p)
                        THEN Enabled(clients'[c]) /\ Settled(clients'[c]) = Configuration[p][c]
                        ELSE Enabled(clients'[c]) =>
                               /\ c \notin last'.saw
                               /\ \E q \in Replicas : c \in Configured(q) /\ Disjoint(p, q)
    BY <2>1 DEF LastStartWins, Enabled
  <2>2. CASE c \in Configured(p)
    BY <1>1, <1>2, <2>2, PublishedIs
  <2>3. CASE c \in stored[p] \ Configured(p)
    BY <1>1, <1>2, <2>3, PublishedIs
  <2>4. CASE c \notin Configured(p) \cup stored[p]
    <3>1. lock[c] # p
      BY <1>1, <2>4 DEF ReplicaOK, Held
    <3>2. clients'[c] = clients[c]
      BY <1>1, <1>2, <3>1, PublishedIs
    <3> QED
      BY <1>1, <2>1, <2>4, <3>2 DEF ReplicaOK, UnseenOK, Enabled
  <2> QED
    BY <2>2, <2>3, <2>4
<1> QED
  BY <1>6, <1>10, <1>11, <1>12, <1>13 DEF Inv
-----------------------------------------------------------------------------
(***************************************************************************)
(* Lookups                                                                 *)
(***************************************************************************)
(* A step of lookup l alone. *)
LEMMA LookupStepKeeps ==
  ASSUME Inv, NEW l \in Lookups, TypeOK', LookupOK(l)',
         UNCHANGED <<clients, lock, draft, pc, current, todo, last, stored>>,
         \A m \in Lookups : m # l => lookup'[m] = lookup[m] /\ inForce'[m] = inForce[m]
  PROVE  Inv'
<1>1. \A m \in Lookups : LookupOK(m)'
  BY DEF Inv, LookupOK
<1>2. \A p \in Replicas : ReplicaOK(p)'
  BY DEF Inv, ReplicaOK, Held, WrittenOK, UnseenOK
<1>3. ClientWhole' /\ LastStartWins'
  BY DEF Inv, ClientWhole, LastStartWins
<1> QED
  BY <1>1, <1>2, <1>3 DEF Inv

LEMMA FindClientKeeps ==
  ASSUME Inv, NEW l \in Lookups, FindClient(l)
  PROVE  Inv'
<1>1. ASSUME NEW c \in Clients,
             lookup' = [lookup EXCEPT ![l] = [NoLookup EXCEPT !.state = "failed", !.client = c]],
             UNCHANGED inForce
      PROVE  Inv'
  <2>1. PICK r : r = [NoLookup EXCEPT !.state = "failed", !.client = c]
    OBVIOUS
  <2>2. /\ r \in [state: {"idle", "uris", "found", "failed"}, client: Clients \cup {NoClient},
                  secret: Secrets \cup {NoRow}, uris: SUBSET Uris]
        /\ r.state = "failed"
    BY <2>1 DEF NoLookup
  <2>3. /\ TypeOK' /\ lookup'[l].state = "failed"
        /\ \A m \in Lookups : m # l => lookup'[m] = lookup[m] /\ inForce'[m] = inForce[m]
    BY <1>1, <2>1, <2>2 DEF FindClient, Inv, TypeOK
  <2>4. LookupOK(l)'
    BY <2>3 DEF LookupOK
  <2> QED
    BY <2>3, <2>4, LookupStepKeeps DEF FindClient
<1>2. ASSUME NEW c \in Clients, Selectable(clients[c]),
             lookup' = [lookup EXCEPT ![l] = [state |-> "uris", client |-> c,
                                              secret |-> clients[c].secret, uris |-> {}]],
             inForce' = [inForce EXCEPT ![l] =
                           IF Enabled(clients[c]) THEN {Settled(clients[c])} ELSE {}]
      PROVE  Inv'
  <2>1. clients[c] \in Rows /\ clients[c] # NoRow /\ Enabled(clients[c])
    BY <1>2 DEF Selectable, Enabled, Inv, TypeOK
  <2>2. PICK r : r = [state |-> "uris", client |-> c, secret |-> clients[c].secret, uris |-> {}]
    OBVIOUS
  <2>3. /\ r \in [state: {"idle", "uris", "found", "failed"}, client: Clients \cup {NoClient},
                  secret: Secrets \cup {NoRow}, uris: SUBSET Uris]
        /\ r.state = "uris" /\ r.client = c /\ r.secret = clients[c].secret
    BY <2>1, <2>2, RowTyped
  <2>4. PICK s : s = Settled(clients[c])
    OBVIOUS
  <2>5. s \in Settings /\ s.uris = clients[c].uris /\ s.secret = clients[c].secret
    BY <2>1, <2>4, RowTyped
  <2>6. lookup' = [lookup EXCEPT ![l] = r] /\ inForce' = [inForce EXCEPT ![l] = {s}]
    BY <1>2, <2>1, <2>2, <2>4
  <2>7. /\ TypeOK' /\ lookup'[l] = r /\ inForce'[l] = {s} /\ clients' = clients
        /\ \A m \in Lookups : m # l => lookup'[m] = lookup[m] /\ inForce'[m] = inForce[m]
    BY <2>3, <2>5, <2>6 DEF FindClient, Inv, TypeOK
  <2>8. LookupOK(l)'
    BY <2>1, <2>3, <2>5, <2>7 DEF LookupOK
  <2> QED
    BY <2>7, <2>8, LookupStepKeeps DEF FindClient
<1> QED
  BY <1>1, <1>2 DEF FindClient

LEMMA FindRedirectURIsKeeps ==
  ASSUME Inv, NEW l \in Lookups, FindRedirectURIs(l)
  PROVE  Inv'
<1> DEFINE c == lookup[l].client
<1>1. /\ lookup[l].state = "uris" /\ LookupOK(l) /\ c \in Clients /\ clients[c] \in Rows
      /\ lookup[l] \in [state: {"idle", "uris", "found", "failed"}, client: Clients \cup {NoClient},
                        secret: Secrets \cup {NoRow}, uris: SUBSET Uris]
  BY DEF FindRedirectURIs, Inv, TypeOK, LookupOK
<1>2. PICK found, failed :
        /\ found = [lookup[l] EXCEPT !.state = "found", !.uris = clients[c].uris]
        /\ failed = [lookup[l] EXCEPT !.state = "failed"]
  OBVIOUS
<1>3. /\ {found, failed} \subseteq [state: {"idle", "uris", "found", "failed"},
                                   client: Clients \cup {NoClient},
                                   secret: Secrets \cup {NoRow}, uris: SUBSET Uris]
      /\ found.state = "found" /\ found.uris = clients[c].uris /\ found.secret = lookup[l].secret
      /\ failed.state = "failed"
  BY <1>1, <1>2, RowTyped
<1>4. \E r \in {found, failed} : lookup' = [lookup EXCEPT ![l] = r]
  BY <1>2 DEF FindRedirectURIs
<1>5. /\ TypeOK' /\ lookup'[l] \in {found, failed} /\ inForce' = inForce
      /\ \A m \in Lookups : m # l => lookup'[m] = lookup[m] /\ inForce'[m] = inForce[m]
  BY <1>3, <1>4 DEF FindRedirectURIs, Inv, TypeOK
<1>6. LookupOK(l)'
  BY <1>1, <1>3, <1>5 DEF LookupOK
<1> QED
  BY <1>5, <1>6, LookupStepKeeps DEF FindRedirectURIs
-----------------------------------------------------------------------------
(***************************************************************************)
(* The theorems                                                            *)
(***************************************************************************)
LEMMA InvInit == Init => Inv
<1> SUFFICES ASSUME Init PROVE Inv
  OBVIOUS
<1>1. TypeOK
  BY MaxCrashesAssumption DEF Init, TypeOK, NoDraft, NoLookup
<1>2. ASSUME NEW p \in Replicas PROVE ReplicaOK(p)
  <2>1. pc[p] = "down" /\ \A c \in Clients : lock[c] # p
    BY AbsentAssumption DEF Init
  <2> QED
    BY <2>1 DEF ReplicaOK, Held, UnseenOK
<1>3. \A l \in Lookups : LookupOK(l)
  BY DEF Init, NoLookup, LookupOK
<1>4. ASSUME NEW c \in Clients, clients[c] # NoRow
      PROVE  \E p \in Replicas : c \in Configured(p) /\ Settled(clients[c]) = Configuration[p][c]
  <2>1. clients[c] \in PossibleRows(c)
    BY <1>4 DEF Init
  <2>2. PICK p \in {q \in Replicas : c \in Configured(q)}, d \in BOOLEAN :
          clients[c] = [secret |-> Configuration[p][c].secret, uris |-> Configuration[p][c].uris,
                        disabled |-> d]
    BY <2>1 DEF PossibleRows
  <2>3. PICK configured \in SUBSET Clients \ {{}} : Configuration[p] \in [configured -> Settings]
    BY <2>2, ConfigurationAssumption
  <2>4. Configuration[p][c] \in Settings
    BY <2>2, <2>3 DEF Configured
  <2> QED
    BY <2>2, <2>4 DEF Settled, Settings
<1>5. LastStartWins
  BY AbsentAssumption DEF Init, LastStartWins
<1> QED
  BY <1>1, <1>2, <1>3, <1>4, <1>5 DEF Inv, ClientWhole

LEMMA StutterKeeps ==
  ASSUME Inv, UNCHANGED vars
  PROVE  Inv'
<1> USE DEF vars
<1>1. TypeOK'
  BY DEF Inv, TypeOK
<1>2. \A p \in Replicas : ReplicaOK(p)'
  BY DEF Inv, ReplicaOK, Held, WrittenOK, UnseenOK
<1>3. \A l \in Lookups : LookupOK(l)'
  BY DEF Inv, LookupOK
<1>4. ClientWhole' /\ LastStartWins'
  BY DEF Inv, ClientWhole, LastStartWins
<1> QED
  BY <1>1, <1>2, <1>3, <1>4 DEF Inv

LEMMA InvNext == Inv /\ [Next]_vars => Inv'
<1> SUFFICES ASSUME Inv, [Next]_vars PROVE Inv'
  OBVIOUS
<1>1. ASSUME NEW p \in Replicas, Sync(p) PROVE Inv'
  BY <1>1, FindStoredKeeps, InsertClientKeeps, UpdateClientKeeps, ReplaceRedirectURIsKeeps,
     SelectAllKeeps, DisableClientKeeps, CommitKeeps DEF Sync
<1>2. ASSUME NEW p \in Replicas, Start(p) PROVE Inv'
  BY <1>2, StartKeeps
<1>3. ASSUME NEW p \in Replicas, DeadlockAbort(p) \/ Crash(p) PROVE Inv'
  <2>1. crashes' \in 0..MaxCrashes /\ End(p) /\ UNCHANGED lookup
    BY <1>3, MaxCrashesAssumption DEF DeadlockAbort, Crash, Inv, TypeOK
  <2> QED
    BY <2>1, EndKeeps
<1>4. ASSUME NEW l \in Lookups, FindClient(l) \/ FindRedirectURIs(l) PROVE Inv'
  BY <1>4, FindClientKeeps, FindRedirectURIsKeeps
<1>5. CASE UNCHANGED vars
  BY <1>5, StutterKeeps
<1> QED
  BY <1>1, <1>2, <1>3, <1>4, <1>5 DEF Next

LEMMA InvAlways == Spec => []Inv
  BY InvInit, InvNext, PTL DEF Spec

(* Rows, drafts, replicas and lookups stay within their types. *)
THEOREM ClientsTyped == Spec => []TypeOK
<1>1. Inv => TypeOK
  BY InvImplies
<1> QED
  BY <1>1, InvAlways, PTL

(* Secret and redirect URIs of a client come from one configuration.       *)
THEOREM ClientsWhole == Spec => []ClientWhole
<1>1. Inv => ClientWhole
  BY InvImplies
<1> QED
  BY <1>1, InvAlways, PTL

(* The configuration of the last committed start is in force, but for the  *)
(* clients it could not see.                                               *)
THEOREM LastStartInForce == Spec => []LastStartWins
<1>1. Inv => LastStartWins
  BY InvImplies
<1> QED
  BY <1>1, InvAlways, PTL

(* What a lookup reports applied to the enabled client during the call.    *)
THEOREM LookupsTrue == Spec => []LookupTrueOnce
<1>1. Inv => LookupTrueOnce
  BY InvImplies
<1> QED
  BY <1>1, InvAlways, PTL
=============================================================================
