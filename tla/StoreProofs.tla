----------------------------- MODULE StoreProofs -----------------------------
(***************************************************************************)
(* Proofs about StoreAgreement for any number of calls, clients and        *)
(* entries.  What the memory store still holds, the database holds too,    *)
(* but for what it has no columns for and what its foreign keys refused;   *)
(* and what the memory store holds no longer is gone for one of four       *)
(* reasons.                                                                *)
(***************************************************************************)
EXTENDS StoreAgreement, TLAPS

Presenting == {"consume", "redeem", "validate", "find", "revoke"}

(* Callers read the time before they call, and present saved secrets. *)
CallInv ==
  \A r \in Calls :
    /\ now[r] <= clock
    /\ call[r] = NoCall => inDB[r] = <<"none">>
    /\ inDB[r] = <<"none">> => inMemory[r] = <<"none">>
    /\ call[r] # NoCall /\ call[r].op \in Presenting => call[r].secret \in Saved
    /\ inMemory[r] = <<"error">> /\ inDB[r] # <<"error">> =>
         call[r].op \in Presenting \cup {"save"}
    /\ r \in refused => inDB[r] = <<"error">>

(* A database row with the columns of a memory store's entry. *)
Same(row, stored) ==
  /\ stored # NoRow /\ stored.data = Columns(row.data)
  /\ stored.exp = row.exp /\ stored.consumed = row.consumed

(* Both stores hold the same entry, unless the database refused it, and in *)
(* memory a grant is never marked.                                         *)
Agrees(k) ==
  memory[k] # NoRow =>
    /\ k \in refused \/ Same(memory[k], db[k])
    /\ memory[k].data.table \in OIDCTables => ~memory[k].consumed

(* An entry and a row were saved by their call and keep the lifetime they  *)
(* got then.                                                               *)
Held(k) == memory[k] # NoRow => k \in Saved /\ memory[k].exp = now[k] + TTL

Owned(k) == db[k] # NoRow => k \in Saved \ refused /\ db[k].exp = now[k] + TTL

Gone(k) == \/ k \in lost \/ now[k] + TTL <= clock
           \/ db[k] = NoRow \/ db[k].consumed

Missing(k) == k \in Saved /\ memory[k] = NoRow => Gone(k)

StoreInv == \A k \in Calls : Agrees(k) /\ Held(k) /\ Owned(k) /\ Missing(k)

(* What NeverLaxer says of the two answers to a call. *)
Covered(m, d) ==
  Accepts(m) =>
    /\ Accepts(d)
    /\ \A data \in Data : m = Found(data) =>
         \E stored \in Data : d = Found(stored) /\ Used(stored) = Used(data)

IndInv == /\ TypeOK /\ CallInv /\ StoreInv
          /\ NeverLaxer /\ StricterWithReason

LEMMA InitIndInv == Init => IndInv
  <1> SUFFICES ASSUME Init PROVE IndInv
    OBVIOUS
  <1> USE DEF Init
  <1>1. TypeOK
    BY BoundsAssumption, ConfigurationsAssumption DEF TypeOK, Answers
  <1>2. CallInv /\ StoreInv
    BY BoundsAssumption DEF CallInv, StoreInv, Agrees, Held, Owned, Missing, Saved
  <1>3. NeverLaxer /\ StricterWithReason
    BY DEF NeverLaxer, Accepts, StricterWithReason
  <1> QED
    BY <1>1, <1>2, <1>3 DEF IndInv
-----------------------------------------------------------------------------
(***************************************************************************)
(* The parts of the operations                                             *)
(***************************************************************************)
(* The columns of a table keep its kind and all that the handlers use. *)
LEMMA ColumnsFacts ==
  ASSUME NEW data \in Data
  PROVE  /\ Columns(data) \in Data /\ Columns(data).table = data.table
         /\ Columns(data).client = data.client /\ Columns(data).uri = data.uri
         /\ Used(Columns(data)) = Used(data)
  <1>1. Columns(data) \in Stored
    BY DEF Columns, Data, Given, Stored, Contents
  <1>2. /\ Columns(data).table = data.table /\ Columns(data).client = data.client
        /\ Columns(data).uri = data.uri /\ Columns(data).account = data.account
    BY DEF Columns, Data, Given, Stored, Contents
  <1> QED
    BY <1>1, <1>2 DEF Data, Used

LEMMA FoundFacts ==
  ASSUME NEW data \in Data
  PROVE  /\ Found(data) \in Finds /\ Found(data) \in Answers
         /\ Accepts(Found(data))
         /\ \A other : Found(other) = Found(data) => other = data
  BY DEF Found, Finds, Answers, Accepts

LEMMA PlainAnswers ==
  /\ <<"none">> \notin Finds
  /\ <<"ok">> \notin Finds
  /\ <<"error">> \notin Finds
  BY DEF Found, Finds

(* An error is no acceptance, what was found is covered by what was found  *)
(* with the same use, and everything by an ok.                             *)
LEMMA CoveredFacts ==
  /\ \A d : Covered(<<"error">>, d) /\ Covered(<<"none">>, d)
  /\ Covered(<<"ok">>, <<"ok">>)
  /\ \A data, stored \in Data : Used(stored) = Used(data) =>
       Covered(Found(data), Found(stored))
  BY FoundFacts, PlainAnswers DEF Covered, Accepts, Found

(* Pruning drops expired entries and leaves the others as they are. *)
LEMMA PruneFacts ==
  ASSUME NEW rows \in [Calls -> Rows \cup {NoRow}], NEW tables, NEW t \in Nat,
         NEW k \in Calls
  PROVE  /\ Prune(rows, tables, t)[k] \in {rows[k], NoRow}
         /\ Prune(rows, tables, t)[k] # rows[k] =>
              rows[k] \in Rows /\ rows[k].exp <= t /\ rows[k].data.table \in tables
         /\ Prune(rows, tables, t)[k] # NoRow /\ rows[k].data.table \in tables =>
              rows[k].exp > t
  BY DEF Prune, Rows

LEMMA PruneType ==
  ASSUME NEW rows \in [Calls -> Rows \cup {NoRow}], NEW tables, NEW t \in Nat
  PROVE  Prune(rows, tables, t) \in [Calls -> Rows \cup {NoRow}]
  BY DEF Prune

Marked(row) == [row EXCEPT !.consumed = TRUE]

LEMMA MarkedFacts ==
  ASSUME NEW row \in Rows
  PROVE  /\ Marked(row) \in Rows /\ Marked(row).consumed
         /\ Marked(row).exp = row.exp /\ Marked(row).data = row.data
  BY DEF Marked, Rows

LEMMA WithDataFacts ==
  ASSUME NEW row \in Rows, NEW data \in Data
  PROVE  LET other == [row EXCEPT !.data = data]
         IN /\ other \in Rows /\ other.data = data
            /\ other.exp = row.exp /\ other.consumed = row.consumed
  BY DEF Rows

LEMMA SameFacts ==
  ASSUME NEW row \in Rows, NEW stored \in Rows, Same(row, stored)
  PROVE  /\ stored.data.table = row.data.table /\ stored.data.client = row.data.client
         /\ Party(stored) = Party(row) /\ Used(stored.data) = Used(row.data)
  <1>1. row.data \in Data
    BY DEF Rows
  <1> QED
    BY <1>1, ColumnsFacts DEF Same, Party

LEMMA OperationShape ==
  ASSUME NEW o \in Operations
  PROVE  /\ o.op \in Presenting <=> "secret" \in DOMAIN o
         /\ o.op \in Presenting => o.secret \in Calls
         /\ o.op = "save" => o.data \in Data
         /\ o.op \in Presenting \cup {"save", "cleanup"}
  BY DEF Operations, Presenting, Data

(* What an operation must do to the stores and answer to keep IndInv. *)
LEMMA AnswerKeeps ==
  ASSUME IndInv, NEW r \in Calls, call[r] # NoCall, inDB[r] = <<"none">>,
         NEW m \in Answers, NEW d \in Answers, Answer(r, m, d),
         d # <<"none">>,
         memory' \in [Calls -> Rows \cup {NoRow}],
         db' \in [Calls -> Rows \cup {NoRow}],
         lost \subseteq lost', lost' \subseteq Calls,
         refused' = refused \/ (refused' = refused \cup {r} /\ d = <<"error">>),
         \A k \in Calls : Agrees(k)',
         \A k \in Calls : memory'[k] # NoRow =>
           \/ memory[k] # NoRow /\ memory'[k].exp = memory[k].exp
           \/ k = r /\ call[r].op = "save" /\ m = <<"ok">> /\ memory'[k].exp = now[r] + TTL,
         \A k \in Calls : db'[k] # NoRow =>
           \/ db[k] # NoRow /\ db'[k].exp = db[k].exp /\ refused' = refused
           \/ db[k] # NoRow /\ db'[k].exp = db[k].exp /\ k # r
           \/ k = r /\ call[r].op = "save" /\ d = <<"ok">> /\ db'[k].exp = now[r] + TTL,
         \A k \in Calls : (k \in Saved \/ (k = r /\ call[r].op = "save")) /\ memory'[k] = NoRow =>
           Gone(k)',
         Subject(r) \in refused' \/ Covered(m, d),
         m = <<"error">> /\ d # <<"error">> => call[r].op \in Presenting \cup {"save"},
         m = <<"error">> /\ d # <<"error">> /\ call[r].op # "revoke" =>
           IF call[r].op = "save" THEN r \in lost'
           ELSE call[r].secret \in lost' \/ now[call[r].secret] + TTL <= clock
  PROVE  IndInv'
  <1>1. /\ inMemory' = [inMemory EXCEPT ![r] = m] /\ inDB' = [inDB EXCEPT ![r] = d]
        /\ UNCHANGED <<clock, config, parents, call, now>>
    BY DEF Answer
  <1> USE DEF IndInv
  <1>2. TypeOK'
    BY <1>1 DEF TypeOK
  <1>3. /\ Saved \subseteq Saved'
        /\ r \notin refused
        /\ \A k \in Saved' : k \in Saved \/ (k = r /\ call[r].op = "save")
        /\ call[r].op = "save" /\ <<"ok">> \in {m, d} => r \in Saved'
    <2>1. r \notin refused
      BY DEF CallInv
    <2>2. ASSUME NEW k \in Saved PROVE k \in Saved'
      <3>1. k # r
        BY <2>2 DEF Saved, CallInv
      <3> QED
        BY <1>1, <2>2, <3>1 DEF Saved, TypeOK
    <2> QED
      BY <1>1, <2>1, <2>2 DEF Saved, TypeOK
  <1>4. CallInv'
    <2> SUFFICES ASSUME NEW q \in Calls
                 PROVE  /\ now[q] <= clock
                        /\ call[q] = NoCall => inDB'[q] = <<"none">>
                        /\ inDB'[q] = <<"none">> => inMemory'[q] = <<"none">>
                        /\ call[q] # NoCall /\ call[q].op \in Presenting => call[q].secret \in Saved'
                        /\ inMemory'[q] = <<"error">> /\ inDB'[q] # <<"error">> =>
                             call[q].op \in Presenting \cup {"save"}
                        /\ q \in refused' => inDB'[q] = <<"error">>
      BY <1>1 DEF CallInv
    <2>1. CASE q = r
      BY <1>1, <1>3, <2>1 DEF CallInv, TypeOK
    <2>2. CASE q # r
      BY <1>1, <1>3, <2>2 DEF CallInv, TypeOK
    <2> QED
      BY <2>1, <2>2
  <1>5. StoreInv'
    <2> SUFFICES ASSUME NEW k \in Calls
                 PROVE  Agrees(k)' /\ Held(k)' /\ Owned(k)' /\ Missing(k)'
      BY DEF StoreInv
    <2>1. Held(k)'
      BY <1>1, <1>3 DEF StoreInv, Held
    <2>2. Owned(k)'
      BY <1>1, <1>3 DEF StoreInv, Owned
    <2>3. Missing(k)'
      BY <1>3 DEF Missing
    <2> QED
      BY <2>1, <2>2, <2>3
  <1>6. NeverLaxer'
    <2> SUFFICES ASSUME NEW q \in Calls, Subject(q) \notin refused'
                 PROVE  Covered(inMemory'[q], inDB'[q])
      BY <1>1 DEF NeverLaxer, Covered, Subject
    <2>1. CASE q = r
      BY <1>1, <2>1 DEF TypeOK
    <2>2. CASE q # r
      BY <1>1, <2>2 DEF TypeOK, NeverLaxer, Covered
    <2> QED
      BY <2>1, <2>2
  <1>7. StricterWithReason'
    <2> SUFFICES ASSUME NEW q \in Calls, inMemory'[q] = <<"error">>,
                        inDB'[q] # <<"error">>, call[q].op # "revoke"
                 PROVE  IF call[q].op = "save" THEN q \in lost'
                        ELSE LET k == call[q].secret IN k \in lost' \/ now[k] + TTL <= clock
      BY <1>1 DEF StricterWithReason
    <2>1. CASE q = r
      BY <1>1, <2>1 DEF TypeOK
    <2>2. CASE q # r
      BY <1>1, <2>2 DEF TypeOK, StricterWithReason
    <2> QED
      BY <2>1, <2>2
  <1> QED
    BY <1>2, <1>4, <1>5, <1>6, <1>7

(* What the operations of r start from. *)
LEMMA ServeFacts ==
  ASSUME IndInv, NEW r \in Calls, call[r] # NoCall
  PROVE  /\ now[r] \in Nat /\ now[r] <= clock /\ clock \in Nat /\ TTL \in Nat
         /\ call[r] \in Operations
         /\ call[r].op \in Presenting =>
              call[r].secret \in Saved /\ call[r].secret \in Calls /\ Subject(r) = call[r].secret
  <1>1. call[r] \in Operations /\ now[r] \in Nat /\ clock \in Nat
    BY BoundsAssumption DEF IndInv, TypeOK
  <1> QED
    BY <1>1, BoundsAssumption, OperationShape DEF IndInv, CallInv, Subject

(* Pruning at a time that has been keeps the stores in agreement. *)
LEMMA PruneKeeps ==
  ASSUME IndInv, NEW tables, NEW t \in Nat, t <= clock, NEW k \in Calls
  PROVE  LET row == Prune(memory, tables, t)[k]
         IN /\ row # NoRow =>
                 /\ row = memory[k] /\ row \in Rows
                 /\ k \in refused \/ (Same(row, db[k]) /\ db[k] \in Rows)
            /\ k \in Saved /\ row = NoRow => Gone(k)
            /\ db[k] # NoRow => db[k] \in Rows /\ k \notin refused
            /\ db[k] # NoRow /\ db[k].exp > t /\ ~db[k].consumed /\ row = NoRow =>
                 k \in lost \/ now[k] + TTL <= clock
  <1>1. /\ memory \in [Calls -> Rows \cup {NoRow}] /\ db[k] \in Rows \cup {NoRow}
        /\ now[k] \in Nat /\ clock \in Nat /\ TTL \in Nat
        /\ Agrees(k) /\ Held(k) /\ Owned(k) /\ Missing(k)
    BY BoundsAssumption DEF IndInv, TypeOK, StoreInv
  <1>2. /\ Prune(memory, tables, t)[k] \in {memory[k], NoRow}
        /\ Prune(memory, tables, t)[k] # memory[k] =>
             memory[k] \in Rows /\ memory[k].exp <= t
    BY <1>1, PruneFacts
  <1>3. CASE memory[k] = NoRow
    BY <1>1, <1>2, <1>3 DEF Missing, Gone, Owned
  <1>4. CASE memory[k] # NoRow /\ Prune(memory, tables, t)[k] = NoRow
    BY <1>1, <1>2, <1>4 DEF Held, Owned, Gone, Rows
  <1>5. CASE memory[k] # NoRow /\ Prune(memory, tables, t)[k] # NoRow
    BY <1>1, <1>2, <1>5 DEF Agrees, Same, Owned
  <1> QED
    BY <1>3, <1>4, <1>5
-----------------------------------------------------------------------------
(***************************************************************************)
(* The operations                                                          *)
(***************************************************************************)
LEMMA SaveKeeps ==
  ASSUME IndInv, NEW r \in Calls, Save(r)
  PROVE  IndInv'
  <1> DEFINE data == call[r].data
             row == [data |-> data, exp |-> now[r] + TTL, consumed |-> FALSE]
             stored == [row EXCEPT !.data = Columns(data)]
             pruned == Prune(memory, StoreOf(data.table), clock)
  <1>1. call[r] # NoCall /\ call[r].op = "save" /\ inDB[r] = <<"none">>
    BY DEF Save, Serve
  <1>2. now[r] \in Nat /\ TTL \in Nat /\ data \in Data /\ Columns(data) \in Data
    BY <1>1, ServeFacts, OperationShape, ColumnsFacts
  <1>3. PICK full \in BOOLEAN, founded \in BOOLEAN :
          /\ memory' = IF full THEN pruned ELSE [pruned EXCEPT ![r] = row]
          /\ lost' = IF full THEN lost \cup {r} ELSE lost
          /\ db' = IF founded THEN [db EXCEPT ![r] = stored] ELSE db
          /\ refused' = IF founded THEN refused ELSE refused \cup {r}
          /\ Answer(r, IF full THEN <<"error">> ELSE <<"ok">>,
                       IF founded THEN <<"ok">> ELSE <<"error">>)
    BY DEF Save, Founded
  <1>4. pruned \in [Calls -> Rows \cup {NoRow}] /\ clock \in Nat
    BY <1>1, ServeFacts, PruneType DEF IndInv, TypeOK
  <1>5. ASSUME NEW k \in Calls
        PROVE  /\ pruned[k] # NoRow => pruned[k] = memory[k] /\ pruned[k] \in Rows
               /\ k \in Saved /\ pruned[k] = NoRow => Gone(k)
    BY <1>4, PruneKeeps
  <1>6. db[r] = NoRow /\ memory[r] = NoRow /\ r \notin refused
    BY <1>1 DEF IndInv, CallInv, StoreInv, Owned, Held, Saved
  <1>7. clock' = clock /\ now' = now
    BY <1>3 DEF Answer
  <1>8. row \in Rows /\ row.exp = now[r] + TTL /\ ~row.consumed /\ row.data = data
    BY <1>2 DEF Rows
  <1>9. /\ stored \in Rows /\ stored.exp = row.exp /\ stored.consumed = row.consumed
        /\ stored.data = Columns(data)
    BY <1>2, <1>8, WithDataFacts
  <1>10. row # NoRow /\ stored # NoRow
    BY <1>8, <1>9, RowAssumption
  <1> HIDE DEF row, stored, pruned, data
  <1>11. ASSUME NEW k \in Calls PROVE Agrees(k)'
    <2>1. CASE k = r /\ ~full
      <3>1. memory'[k] = row /\ (founded => db'[k] = stored)
        BY <1>3, <1>4, <2>1 DEF IndInv, TypeOK
      <3> QED
        BY <1>3, <1>8, <1>9, <1>10, <2>1, <3>1 DEF Agrees, Same, IndInv, TypeOK
    <2>2. CASE k = r /\ full
      BY <1>3, <1>5, <1>6, <2>2 DEF Agrees
    <2>3. CASE k # r
      <3>1. memory'[k] = pruned[k] /\ db'[k] = db[k] /\ refused \subseteq refused'
        BY <1>3, <1>4, <2>3 DEF IndInv, TypeOK
      <3> QED
        BY <1>5, <3>1 DEF Agrees, Same, IndInv, StoreInv
    <2> QED
      BY <2>1, <2>2, <2>3
  <1>12. ASSUME NEW k \in Calls, k \in Saved \/ k = r, memory'[k] = NoRow
         PROVE  Gone(k)'
    <2>1. CASE k = r
      BY <1>3, <1>4, <1>6, <1>8, <1>9, <1>10, <1>12, <2>1 DEF Gone, IndInv, TypeOK
    <2>2. CASE k # r
      BY <1>3, <1>4, <1>5, <1>7, <1>12, <2>2 DEF Gone, IndInv, TypeOK
    <2> QED
      BY <1>12, <2>1, <2>2
  <1>13. /\ memory' \in [Calls -> Rows \cup {NoRow}] /\ db' \in [Calls -> Rows \cup {NoRow}]
         /\ lost \subseteq lost' /\ lost' \subseteq Calls
    BY <1>3, <1>4, <1>8, <1>9, <1>10 DEF IndInv, TypeOK
  <1>14. ASSUME NEW k \in Calls, memory'[k] # NoRow
         PROVE  \/ memory[k] # NoRow /\ memory'[k].exp = memory[k].exp
                \/ k = r /\ ~full /\ memory'[k].exp = now[r] + TTL
    BY <1>3, <1>4, <1>5, <1>8, <1>9, <1>10, <1>14
  <1>15. ASSUME NEW k \in Calls, db'[k] # NoRow
         PROVE  \/ db[k] # NoRow /\ db'[k].exp = db[k].exp /\ k # r
                \/ k = r /\ founded /\ db'[k].exp = now[r] + TTL
    BY <1>3, <1>6, <1>8, <1>9, <1>10, <1>15 DEF IndInv, TypeOK
  <1>16. PICK m : m = IF full THEN <<"error">> ELSE <<"ok">>
    OBVIOUS
  <1>17. PICK d : d = IF founded THEN <<"ok">> ELSE <<"error">>
    OBVIOUS
  <1>18. /\ m \in Answers /\ d \in Answers /\ d # <<"none">> /\ Answer(r, m, d)
         /\ ~full => m = <<"ok">>
         /\ founded => d = <<"ok">>
         /\ refused' = refused \/ (refused' = refused \cup {r} /\ d = <<"error">>)
         /\ m = <<"error">> => r \in lost'
    BY <1>3, <1>16, <1>17 DEF Answers
  <1>19. Subject(r) \in refused' \/ Covered(m, d)
    <2>1. CASE founded
      BY <1>16, <1>17, <2>1, CoveredFacts
    <2>2. CASE ~founded
      <3>1. call[r] \in Operations /\ call[r].op \notin Presenting
        BY <1>1, ServeFacts DEF Presenting
      <3>2. Subject(r) = r
        BY <3>1, OperationShape DEF Subject
      <3> QED
        BY <1>3, <2>2, <3>2
    <2> QED
      BY <2>1, <2>2
  <1> QED
    BY <1>1, <1>11, <1>12, <1>13, <1>14, <1>15, <1>18, <1>19, AnswerKeeps DEF Presenting

(* The memory store takes out a grant exactly when the database marks one. *)
LEMMA RedeemKeeps ==
  ASSUME IndInv, NEW r \in Calls, call[r] # NoCall, inDB[r] = <<"none">>,
         call[r].op \in {"consume", "redeem"},
         NEW table \in OIDCTables, NEW acceptable, Redeem(r, table, acceptable)
  PROVE  IndInv'
  <1> DEFINE k == call[r].secret
             pruned == Prune(memory, OIDCTables, now[r])
             inM == Is(pruned[k], table) /\ Party(pruned[k]) \in acceptable
             inD == Live(db[k], table, now[r]) /\ Party(db[k]) \in acceptable
  <1>1. /\ memory' = IF inM THEN Without(pruned, k) ELSE pruned
        /\ db' = IF inD THEN [db EXCEPT ![k] = Marked(db[k])] ELSE db
        /\ Answer(r, IF inM THEN Found(memory[k].data) ELSE <<"error">>,
                     IF inD THEN Found(db[k].data) ELSE <<"error">>)
        /\ lost' = lost /\ refused' = refused
    BY DEF Redeem, Marked
  <1>2. /\ now[r] \in Nat /\ now[r] <= clock /\ clock \in Nat
        /\ k \in Saved /\ k \in Calls /\ Subject(r) = k
    BY ServeFacts DEF Presenting
  <1>3. pruned \in [Calls -> Rows \cup {NoRow}]
    BY <1>2, PruneType DEF IndInv, TypeOK
  <1>4. ASSUME NEW j \in Calls
        PROVE  /\ pruned[j] # NoRow =>
                    /\ pruned[j] = memory[j] /\ pruned[j] \in Rows
                    /\ j \in refused \/ (Same(pruned[j], db[j]) /\ db[j] \in Rows)
               /\ j \in Saved /\ pruned[j] = NoRow => Gone(j)
               /\ db[j] # NoRow => db[j] \in Rows /\ j \notin refused
               /\ db[j] # NoRow /\ db[j].exp > now[r] /\ ~db[j].consumed /\ pruned[j] = NoRow =>
                    j \in lost \/ now[j] + TTL <= clock
    BY <1>2, PruneKeeps
  <1>5. pruned[k] # NoRow /\ memory[k].data.table \in OIDCTables => memory[k].exp > now[r]
    BY <1>2, PruneFacts DEF IndInv, TypeOK
  <1>6. pruned[k] # NoRow /\ k \notin refused =>
          /\ db[k] # NoRow /\ db[k].exp = memory[k].exp /\ db[k].consumed = memory[k].consumed
          /\ db[k].data.table = memory[k].data.table /\ Party(db[k]) = Party(memory[k])
          /\ Used(db[k].data) = Used(memory[k].data)
    BY <1>2, <1>4, SameFacts DEF Same
  <1>7. inM => /\ memory[k] \in Rows /\ memory[k] # NoRow /\ pruned[k] = memory[k]
               /\ memory[k].data.table = table
    BY <1>2, <1>4 DEF Is
  <1>8. inM /\ k \notin refused => inD /\ Used(db[k].data) = Used(memory[k].data)
    BY <1>2, <1>5, <1>6, <1>7 DEF Is, Live, IndInv, StoreInv, Agrees
  <1>9. inD => db[k] \in Rows /\ db[k] # NoRow /\ db[k].exp > now[r] /\ ~db[k].consumed
    BY <1>2 DEF Live, Is, IndInv, TypeOK
  <1>10. inD /\ ~inM => pruned[k] = NoRow
    BY <1>2, <1>4, <1>6, <1>9 DEF Live, Is
  <1>11. clock' = clock /\ now' = now
    BY <1>1 DEF Answer
  <1>12. inD => Marked(db[k]) \in Rows /\ Marked(db[k]).consumed /\ Marked(db[k]).exp = db[k].exp
    BY <1>9, MarkedFacts
  <1> HIDE DEF pruned, inM, inD, k
  <1>13. ASSUME NEW j \in Calls PROVE Agrees(j)'
    <2>1. CASE memory'[j] = NoRow
      BY <2>1 DEF Agrees
    <2>2. CASE memory'[j] # NoRow
      <3>1. memory'[j] = pruned[j] /\ db'[j] = db[j]
        BY <1>1, <1>2, <1>3, <1>8, <1>10, <2>2 DEF Without, IndInv, TypeOK
      <3> QED
        BY <1>1, <1>4, <2>2, <3>1 DEF Agrees, Same, IndInv, StoreInv
    <2> QED
      BY <2>1, <2>2
  <1>14. ASSUME NEW j \in Calls, j \in Saved, memory'[j] = NoRow PROVE Gone(j)'
    <2>1. CASE j = k /\ inM
      <3>1. db'[j] = NoRow \/ db'[j].consumed
        BY <1>1, <1>2, <1>4, <1>8, <1>12, <2>1 DEF IndInv, TypeOK
      <3> QED
        BY <3>1 DEF Gone
    <2>2. CASE ~(j = k /\ inM)
      <3>1. Gone(j)
        BY <1>1, <1>3, <1>4, <1>14, <2>2 DEF Without
      <3>2. db'[j] = db[j] \/ db'[j].consumed
        BY <1>1, <1>2, <1>12 DEF IndInv, TypeOK
      <3> QED
        BY <1>1, <1>11, <3>1, <3>2 DEF Gone
    <2> QED
      BY <2>1, <2>2
  <1>15. /\ memory' \in [Calls -> Rows \cup {NoRow}] /\ db' \in [Calls -> Rows \cup {NoRow}]
         /\ lost \subseteq lost' /\ lost' \subseteq Calls
    BY <1>1, <1>3, <1>12 DEF Without, IndInv, TypeOK
  <1>16. ASSUME NEW j \in Calls, memory'[j] # NoRow
         PROVE  memory[j] # NoRow /\ memory'[j].exp = memory[j].exp
    BY <1>1, <1>3, <1>4, <1>16 DEF Without
  <1>17. ASSUME NEW j \in Calls, db'[j] # NoRow
         PROVE  db[j] # NoRow /\ db'[j].exp = db[j].exp
    BY <1>1, <1>2, <1>9, <1>12, <1>17 DEF IndInv, TypeOK
  <1>18. PICK m : m = IF inM THEN Found(memory[k].data) ELSE <<"error">>
    OBVIOUS
  <1>19. PICK d : d = IF inD THEN Found(db[k].data) ELSE <<"error">>
    OBVIOUS
  <1>20. /\ inM => memory[k].data \in Data
         /\ inD => db[k].data \in Data
    BY <1>7, <1>9 DEF Rows
  <1>21. /\ m \in Answers /\ d \in Answers /\ d # <<"none">>
         /\ m = <<"error">> /\ d # <<"error">> => inD /\ ~inM
    BY <1>18, <1>19, <1>20, FoundFacts DEF Answers, Accepts
  <1>22. k \in refused \/ Covered(m, d)
    BY <1>8, <1>18, <1>19, <1>20, CoveredFacts
  <1>23. inD /\ ~inM => k \in lost \/ now[k] + TTL <= clock
    BY <1>2, <1>4, <1>9, <1>10
  <1>24. Answer(r, m, d)
    BY <1>1, <1>18, <1>19
  <1> QED
    BY <1>1, <1>2, <1>13, <1>14, <1>15, <1>16, <1>17, <1>21, <1>22, <1>23, <1>24,
       AnswerKeeps DEF k, Presenting

(* The operations that only read: validate and find. *)
LEMMA ReadKeeps ==
  ASSUME IndInv, NEW r \in Calls, call[r] # NoCall, inDB[r] = <<"none">>,
         call[r].op \in {"validate", "find"},
         NEW tables, memory' = Prune(memory, tables, now[r]), UNCHANGED <<db, lost, refused>>,
         NEW inM \in BOOLEAN, NEW inD \in BOOLEAN,
         Answer(r, IF inM THEN Found(memory[call[r].secret].data) ELSE <<"error">>,
                   IF inD THEN Found(db[call[r].secret].data) ELSE <<"error">>),
         inM => memory'[call[r].secret] # NoRow /\ (call[r].secret \in refused \/ inD),
         inD => /\ db[call[r].secret] # NoRow /\ db[call[r].secret].exp > now[r]
                /\ ~db[call[r].secret].consumed,
         inD /\ ~inM => memory'[call[r].secret] = NoRow
  PROVE  IndInv'
  <1> DEFINE k == call[r].secret
  <1>1. /\ now[r] \in Nat /\ now[r] <= clock /\ clock \in Nat
        /\ k \in Saved /\ k \in Calls /\ Subject(r) = k
    BY ServeFacts DEF Presenting
  <1>2. memory' \in [Calls -> Rows \cup {NoRow}]
    BY <1>1, PruneType DEF IndInv, TypeOK
  <1>3. ASSUME NEW j \in Calls
        PROVE  /\ memory'[j] # NoRow =>
                    /\ memory'[j] = memory[j] /\ memory'[j] \in Rows
                    /\ j \in refused \/ (Same(memory'[j], db[j]) /\ db[j] \in Rows)
               /\ j \in Saved /\ memory'[j] = NoRow => Gone(j)
               /\ db[j] # NoRow => db[j] \in Rows /\ j \notin refused
               /\ db[j] # NoRow /\ db[j].exp > now[r] /\ ~db[j].consumed /\ memory'[j] = NoRow =>
                    j \in lost \/ now[j] + TTL <= clock
    BY <1>1, PruneKeeps
  <1>4. UNCHANGED <<clock, now>>
    BY DEF Answer
  <1>5. ASSUME NEW j \in Calls PROVE Agrees(j)'
    BY <1>3 DEF Agrees, Same, IndInv, StoreInv
  <1>6. ASSUME NEW j \in Calls, j \in Saved, memory'[j] = NoRow PROVE Gone(j)'
    BY <1>3, <1>4, <1>6 DEF Gone
  <1>7. /\ inM => memory[k].data \in Data
        /\ inD => db[k].data \in Data
        /\ inM /\ k \notin refused => Used(db[k].data) = Used(memory[k].data)
    BY <1>1, <1>3, SameFacts DEF Rows
  <1>8. PICK m : m = IF inM THEN Found(memory[k].data) ELSE <<"error">>
    OBVIOUS
  <1>9. PICK d : d = IF inD THEN Found(db[k].data) ELSE <<"error">>
    OBVIOUS
  <1>10. /\ m \in Answers /\ d \in Answers /\ d # <<"none">>
         /\ m = <<"error">> /\ d # <<"error">> => inD /\ ~inM
    BY <1>7, <1>8, <1>9, FoundFacts DEF Answers, Accepts
  <1>11. k \in refused \/ Covered(m, d)
    BY <1>7, <1>8, <1>9, CoveredFacts
  <1>12. inD /\ ~inM => k \in lost \/ now[k] + TTL <= clock
    BY <1>1, <1>3
  <1>13. Answer(r, m, d)
    BY <1>8, <1>9
  <1>14. db' \in [Calls -> Rows \cup {NoRow}] /\ lost \subseteq lost' /\ lost' \subseteq Calls
    BY DEF IndInv, TypeOK
  <1>15. ASSUME NEW j \in Calls, memory'[j] # NoRow
         PROVE  memory[j] # NoRow /\ memory'[j].exp = memory[j].exp
    BY <1>3, <1>15
  <1> QED
    BY <1>1, <1>2, <1>5, <1>6, <1>10, <1>11, <1>12, <1>13, <1>14, <1>15,
       AnswerKeeps DEF k, Presenting

LEMMA ValidateAccessTokenKeeps ==
  ASSUME IndInv, NEW r \in Calls, ValidateAccessToken(r)
  PROVE  IndInv'
  <1> DEFINE k == call[r].secret
             pruned == Prune(memory, OIDCTables, now[r])
  <1>1. call[r] # NoCall /\ call[r].op = "validate" /\ inDB[r] = <<"none">>
    BY DEF ValidateAccessToken, Serve
  <1>2. PICK inM \in BOOLEAN : inM = (Is(pruned[k], "token") /\ pruned[k].data.client \in config)
    OBVIOUS
  <1>3. PICK inD \in BOOLEAN :
          inD = (Live(db[k], "token", now[r]) /\ db[k].data.client \in config)
    OBVIOUS
  <1>4. /\ memory' = pruned
        /\ Answer(r, IF inM THEN Found(memory[k].data) ELSE <<"error">>,
                     IF inD THEN Found(db[k].data) ELSE <<"error">>)
        /\ UNCHANGED <<db, lost, refused>>
    BY <1>2, <1>3 DEF ValidateAccessToken
  <1>5. now[r] \in Nat /\ now[r] <= clock /\ k \in Saved /\ k \in Calls
    BY <1>1, ServeFacts DEF Presenting
  <1>6. /\ pruned[k] # NoRow /\ k \notin refused =>
             /\ pruned[k] = memory[k] /\ Same(pruned[k], db[k])
             /\ db[k].data.table = pruned[k].data.table
             /\ db[k].data.client = pruned[k].data.client
        /\ pruned[k] # NoRow /\ memory[k].data.table \in OIDCTables =>
             memory[k].exp > now[r] /\ ~memory[k].consumed
        /\ db[k] # NoRow => k \notin refused
    BY <1>5, PruneKeeps, PruneFacts, SameFacts DEF IndInv, TypeOK, StoreInv, Agrees
  <1>7. inM => pruned[k] # NoRow /\ (k \in refused \/ inD)
    BY <1>2, <1>3, <1>6 DEF Is, Live, OIDCTables, Same
  <1>8. inD => db[k] # NoRow /\ db[k].exp > now[r] /\ ~db[k].consumed
    BY <1>3 DEF Live, Is
  <1>9. inD /\ ~inM => pruned[k] = NoRow
    BY <1>2, <1>3, <1>6 DEF Live, Is
  <1> QED
    BY <1>1, <1>4, <1>7, <1>8, <1>9, ReadKeeps

LEMMA FindSessionKeeps ==
  ASSUME IndInv, NEW r \in Calls, FindSession(r)
  PROVE  IndInv'
  <1> DEFINE k == call[r].secret
             pruned == Prune(memory, SessionTables, now[r])
  <1>1. call[r] # NoCall /\ call[r].op = "find" /\ inDB[r] = <<"none">>
    BY DEF FindSession, Serve
  <1>2. PICK inM \in BOOLEAN : inM = Live(pruned[k], "session", now[r])
    BY DEF Live, Is
  <1>3. PICK inD \in BOOLEAN : inD = Live(db[k], "session", now[r])
    BY DEF Live, Is
  <1>4. /\ memory' = pruned
        /\ Answer(r, IF inM THEN Found(memory[k].data) ELSE <<"error">>,
                     IF inD THEN Found(db[k].data) ELSE <<"error">>)
        /\ UNCHANGED <<db, lost, refused>>
    BY <1>2, <1>3 DEF FindSession
  <1>5. now[r] \in Nat /\ now[r] <= clock /\ k \in Saved /\ k \in Calls
    BY <1>1, ServeFacts DEF Presenting
  <1>6. /\ pruned[k] # NoRow /\ k \notin refused =>
             Same(pruned[k], db[k]) /\ db[k].data.table = pruned[k].data.table
        /\ db[k] # NoRow => k \notin refused
    BY <1>5, PruneKeeps, SameFacts
  <1>7. inM => pruned[k] # NoRow /\ (k \in refused \/ inD)
    BY <1>2, <1>3, <1>6 DEF Is, Live, Same
  <1>8. inD => db[k] # NoRow /\ db[k].exp > now[r] /\ ~db[k].consumed
    BY <1>3 DEF Live, Is
  <1>9. inD /\ ~inM => pruned[k] = NoRow
    BY <1>2, <1>3, <1>6 DEF Live, Is, Same
  <1> QED
    BY <1>1, <1>4, <1>7, <1>8, <1>9, ReadKeeps

(* What was revoked before and still is in memory is expired or revoked in *)
(* the database as well, so revoking it there once more changes nothing.   *)
LEMMA RevokeKeeps ==
  ASSUME IndInv, NEW r \in Calls, Revoke(r)
  PROVE  IndInv'
  <1> DEFINE k == call[r].secret
             pruned == Prune(memory, SessionTables, now[r])
             inM == Is(pruned[k], "session")
             inD == Live(db[k], "session", now[r])
  <1>1. call[r] # NoCall /\ call[r].op = "revoke" /\ inDB[r] = <<"none">>
    BY DEF Revoke, Serve
  <1>2. /\ memory' = IF inM THEN [pruned EXCEPT ![k] = Marked(pruned[k])] ELSE pruned
        /\ db' = IF inD THEN [db EXCEPT ![k] = Marked(db[k])] ELSE db
        /\ Answer(r, IF inM THEN <<"ok">> ELSE <<"error">>, <<"ok">>)
        /\ lost' = lost /\ refused' = refused
    BY DEF Revoke, Marked
  <1>3. /\ now[r] \in Nat /\ now[r] <= clock /\ clock \in Nat
        /\ k \in Saved /\ k \in Calls
    BY <1>1, ServeFacts DEF Presenting
  <1>4. pruned \in [Calls -> Rows \cup {NoRow}]
    BY <1>3, PruneType DEF IndInv, TypeOK
  <1>5. ASSUME NEW j \in Calls
        PROVE  /\ pruned[j] # NoRow =>
                    /\ pruned[j] = memory[j] /\ pruned[j] \in Rows
                    /\ j \in refused \/ (Same(pruned[j], db[j]) /\ db[j] \in Rows)
               /\ j \in Saved /\ pruned[j] = NoRow => Gone(j)
               /\ db[j] # NoRow => db[j] \in Rows /\ j \notin refused
    BY <1>3, PruneKeeps
  <1>6. inM => /\ pruned[k] \in Rows /\ memory[k] = pruned[k]
               /\ pruned[k].data.table = "session" /\ pruned[k].exp > now[r]
    BY <1>3, <1>5, PruneFacts DEF Is, IndInv, TypeOK, SessionTables
  <1>7. inD => db[k] \in Rows /\ db[k] # NoRow /\ db[k].data.table = "session"
    BY <1>3 DEF Live, Is, IndInv, TypeOK
  <1>8. ASSUME NEW row \in Rows
        PROVE  /\ Marked(row) \in Rows /\ Marked(row).consumed /\ Marked(row) # NoRow
               /\ Marked(row).exp = row.exp /\ Marked(row).data = row.data
               /\ Marked(row).consumed = TRUE
    BY <1>8, MarkedFacts, RowAssumption DEF Marked, Rows
  <1>9. inM /\ k \notin refused =>
          /\ Same(pruned[k], db[k]) /\ db[k] \in Rows
          /\ db[k].data.table = "session" /\ db[k].exp > now[r]
          /\ ~inD => db[k].consumed
    BY <1>3, <1>5, <1>6, SameFacts DEF Same, Live, Is
  <1>10. inD /\ ~inM => pruned[k] = NoRow
    BY <1>3, <1>5, <1>7, SameFacts DEF Is
  <1>11. UNCHANGED <<clock, now>>
    BY <1>2 DEF Answer
  <1> HIDE DEF pruned, inM, inD, k
  <1>12. ASSUME NEW j \in Calls PROVE Agrees(j)'
    <2>1. CASE j # k
      <3>1. memory'[j] = pruned[j] /\ db'[j] = db[j]
        BY <1>2, <1>3, <1>4, <2>1 DEF IndInv, TypeOK
      <3> QED
        BY <1>2, <1>5, <3>1 DEF Agrees, Same, IndInv, StoreInv
    <2>2. CASE j = k /\ inM
      <3>1. memory'[j] = Marked(pruned[k]) /\ Marked(pruned[k]).data.table \notin OIDCTables
        BY <1>2, <1>3, <1>4, <1>6, <1>8, <2>2 DEF OIDCTables
      <3>2. k \in refused \/ Same(Marked(pruned[k]), db'[k])
        <4>1. CASE inD
          <5>1. db'[k] = Marked(db[k])
            BY <1>2, <1>3, <4>1 DEF IndInv, TypeOK
          <5> QED
            BY <1>6, <1>7, <1>8, <1>9, <2>2, <4>1, <5>1 DEF Same
        <4>2. CASE ~inD
          BY <1>2, <1>6, <1>8, <1>9, <2>2, <4>2 DEF Same, Rows
        <4> QED
          BY <4>1, <4>2
      <3> QED
        BY <1>2, <2>2, <3>1, <3>2 DEF Agrees
    <2>3. CASE j = k /\ ~inM
      <3>1. memory'[j] = pruned[j] /\ (pruned[j] # NoRow => db'[j] = db[j])
        BY <1>2, <1>3, <1>4, <1>10, <2>3 DEF IndInv, TypeOK
      <3> QED
        BY <1>2, <1>5, <3>1 DEF Agrees, Same, IndInv, StoreInv
    <2> QED
      BY <2>1, <2>2, <2>3
  <1>13. ASSUME NEW j \in Calls, j \in Saved, memory'[j] = NoRow PROVE Gone(j)'
    <2>1. pruned[j] = NoRow
      BY <1>2, <1>3, <1>4, <1>6, <1>8, <1>13
    <2>2. Gone(j)
      BY <1>5, <1>13, <2>1
    <2>3. db'[j] = db[j] \/ db'[j].consumed
      BY <1>2, <1>3, <1>7, <1>8 DEF IndInv, TypeOK
    <2> QED
      BY <1>2, <1>11, <2>2, <2>3 DEF Gone
  <1>14. /\ memory' \in [Calls -> Rows \cup {NoRow}] /\ db' \in [Calls -> Rows \cup {NoRow}]
         /\ lost \subseteq lost' /\ lost' \subseteq Calls
    BY <1>2, <1>4, <1>6, <1>7, <1>8 DEF IndInv, TypeOK
  <1>15. ASSUME NEW j \in Calls, memory'[j] # NoRow
         PROVE  memory[j] # NoRow /\ memory'[j].exp = memory[j].exp
    <2>1. CASE j = k /\ inM
      BY <1>2, <1>3, <1>4, <1>6, <1>8, <2>1, RowAssumption
    <2>2. CASE ~(j = k /\ inM)
      BY <1>2, <1>3, <1>4, <1>5, <1>15, <2>2
    <2> QED
      BY <2>1, <2>2
  <1>16. ASSUME NEW j \in Calls, db'[j] # NoRow
         PROVE  db[j] # NoRow /\ db'[j].exp = db[j].exp
    BY <1>2, <1>3, <1>7, <1>8, <1>16 DEF IndInv, TypeOK
  <1>17. CASE inM
    BY <1>1, <1>2, <1>12, <1>13, <1>14, <1>15, <1>16, <1>17, CoveredFacts, AnswerKeeps
       DEF Answers, Presenting
  <1>18. CASE ~inM
    BY <1>1, <1>2, <1>12, <1>13, <1>14, <1>15, <1>16, <1>18, CoveredFacts, AnswerKeeps
       DEF Answers, Presenting
  <1> QED
    BY <1>17, <1>18

LEMMA CleanupKeeps ==
  ASSUME IndInv, NEW r \in Calls, Cleanup(r)
  PROVE  IndInv'
  <1>1. call[r] # NoCall /\ call[r].op = "cleanup" /\ inDB[r] = <<"none">>
    BY DEF Cleanup, Serve
  <1>2. /\ memory' = Prune(memory, OIDCTables, now[r])
        /\ db' = Prune(db, OIDCTables, now[r])
        /\ Answer(r, <<"ok">>, <<"ok">>) /\ lost' = lost /\ refused' = refused
    BY DEF Cleanup
  <1>3. now[r] \in Nat /\ now[r] <= clock /\ clock \in Nat
    BY <1>1, ServeFacts
  <1>4. memory' \in [Calls -> Rows \cup {NoRow}] /\ db' \in [Calls -> Rows \cup {NoRow}]
    BY <1>2, <1>3, PruneType DEF IndInv, TypeOK
  <1>5. ASSUME NEW j \in Calls
        PROVE  /\ memory'[j] # NoRow =>
                    /\ memory'[j] = memory[j]
                    /\ j \in refused \/ (Same(memory'[j], db[j]) /\ db'[j] = db[j])
               /\ j \in Saved /\ memory'[j] = NoRow => Gone(j)
               /\ db'[j] \in {db[j], NoRow}
    <2>1. /\ memory \in [Calls -> Rows \cup {NoRow}] /\ db \in [Calls -> Rows \cup {NoRow}]
      BY DEF IndInv, TypeOK
    <2>2. /\ memory'[j] # NoRow =>
               /\ memory'[j] = memory[j] /\ memory'[j] \in Rows
               /\ j \in refused \/ (Same(memory'[j], db[j]) /\ db[j] \in Rows)
          /\ j \in Saved /\ memory'[j] = NoRow => Gone(j)
          /\ memory'[j] # NoRow /\ memory[j].data.table \in OIDCTables => memory[j].exp > now[r]
      BY <1>2, <1>3, <2>1, PruneKeeps, PruneFacts
    <2>3. /\ db'[j] \in {db[j], NoRow}
          /\ db'[j] # db[j] => db[j].exp <= now[r] /\ db[j].data.table \in OIDCTables
      BY <1>2, <1>3, <2>1, PruneFacts
    <2>4. ASSUME memory'[j] # NoRow, j \notin refused PROVE db'[j] = db[j]
      BY <1>3, <2>2, <2>3, <2>4, SameFacts DEF Rows, Same
    <2> QED
      BY <2>2, <2>3, <2>4
  <1>6. UNCHANGED <<clock, now>>
    BY <1>2 DEF Answer
  <1>7. ASSUME NEW j \in Calls PROVE Agrees(j)'
    BY <1>2, <1>5 DEF Agrees, Same, IndInv, StoreInv
  <1>8. ASSUME NEW j \in Calls, j \in Saved, memory'[j] = NoRow PROVE Gone(j)'
    BY <1>2, <1>5, <1>6, <1>8 DEF Gone
  <1>9. ASSUME NEW j \in Calls, db'[j] # NoRow
        PROVE  db[j] # NoRow /\ db'[j].exp = db[j].exp
    BY <1>5, <1>9
  <1>10. lost \subseteq lost' /\ lost' \subseteq Calls
    BY <1>2 DEF IndInv, TypeOK
  <1>11. ASSUME NEW j \in Calls, memory'[j] # NoRow
         PROVE  memory[j] # NoRow /\ memory'[j].exp = memory[j].exp
    BY <1>5, <1>11
  <1> QED
    BY <1>1, <1>2, <1>4, <1>7, <1>8, <1>9, <1>10, <1>11, CoveredFacts, AnswerKeeps DEF Answers

LEMMA CallKeeps ==
  ASSUME IndInv, NEW r \in Calls, Call(r)
  PROVE  IndInv'
  <1>1. PICK o \in Operations :
          /\ "secret" \in DOMAIN o => o.secret \in Saved
          /\ call' = [call EXCEPT ![r] = o]
    BY DEF Call
  <1>2. /\ call[r] = NoCall /\ now' = [now EXCEPT ![r] = clock]
        /\ UNCHANGED <<clock, config, parents, memory, db, inMemory, inDB, lost, refused>>
    BY DEF Call
  <1>3. o.op \in Presenting => o.secret \in Saved
    BY <1>1, OperationShape
  <1> USE DEF IndInv
  <1>4. inMemory[r] = <<"none">> /\ inDB[r] = <<"none">> /\ clock \in 0..MaxClock
    BY <1>2 DEF CallInv, TypeOK
  <1>5. Saved' = Saved /\ r \notin Saved
    BY <1>1, <1>2, <1>4 DEF Saved, TypeOK
  <1>6. TypeOK'
    BY <1>1, <1>2 DEF TypeOK
  <1>7. CallInv'
    <2> SUFFICES ASSUME NEW q \in Calls
                 PROVE  /\ now'[q] <= clock
                        /\ call'[q] = NoCall => inDB[q] = <<"none">>
                        /\ inDB[q] = <<"none">> => inMemory[q] = <<"none">>
                        /\ call'[q] # NoCall /\ call'[q].op \in Presenting => call'[q].secret \in Saved
                        /\ inMemory[q] = <<"error">> /\ inDB[q] # <<"error">> =>
                             call'[q].op \in Presenting \cup {"save"}
                        /\ q \in refused => inDB[q] = <<"error">>
      BY <1>2, <1>5 DEF CallInv
    <2>1. CASE q = r
      BY <1>1, <1>2, <1>3, <1>4, <2>1 DEF TypeOK, CallInv
    <2>2. CASE q # r
      BY <1>1, <1>2, <2>2 DEF TypeOK, CallInv
    <2> QED
      BY <2>1, <2>2
  <1>8. StoreInv'
    <2> SUFFICES ASSUME NEW k \in Calls
                 PROVE  Agrees(k)' /\ Held(k)' /\ Owned(k)' /\ Missing(k)'
      BY DEF StoreInv
    <2>1. k \in Saved => now'[k] = now[k]
      BY <1>2, <1>5 DEF TypeOK
    <2> QED
      BY <1>2, <1>5, <2>1 DEF StoreInv, Agrees, Same, Held, Owned, Missing, Gone
  <1>9. NeverLaxer'
    <2>1. ASSUME NEW q \in Calls, Accepts(inMemory[q]) PROVE Subject(q)' = Subject(q)
      BY <1>1, <1>2, <1>4, <2>1 DEF Accepts, Subject, TypeOK
    <2> QED
      BY <1>1, <1>2, <2>1 DEF NeverLaxer
  <1>10. StricterWithReason'
    <2> SUFFICES ASSUME NEW q \in Calls, inMemory[q] = <<"error">>,
                        inDB[q] # <<"error">>, call'[q].op # "revoke"
                 PROVE  IF call'[q].op = "save" THEN q \in lost
                        ELSE LET k == call'[q].secret IN k \in lost \/ now'[k] + TTL <= clock
      BY <1>2 DEF StricterWithReason
    <2>1. q # r /\ call'[q] = call[q]
      BY <1>1, <1>4 DEF TypeOK
    <2>2. CASE call[q].op = "save"
      BY <2>1, <2>2 DEF StricterWithReason
    <2>3. CASE call[q].op # "save"
      <3>1. call[q] # NoCall /\ call[q].secret \in Saved
        BY <2>3 DEF CallInv
      <3>2. now'[call[q].secret] = now[call[q].secret]
        BY <1>2, <1>5, <3>1 DEF TypeOK, Saved
      <3> QED
        BY <2>1, <2>3, <3>2 DEF StricterWithReason
    <2> QED
      BY <2>2, <2>3
  <1> QED
    BY <1>6, <1>7, <1>8, <1>9, <1>10

LEMMA CreateAccountKeeps ==
  ASSUME IndInv, NEW a \in Accounts, CreateAccount(a)
  PROVE  IndInv'
  <1>1. /\ parents' = parents \cup {a}
        /\ UNCHANGED <<clock, config, memory, db, call, now, inMemory, inDB, lost, refused>>
    BY DEF CreateAccount
  <1>2. TypeOK'
    BY <1>1 DEF IndInv, TypeOK
  <1> QED
    BY <1>1, <1>2 DEF IndInv, CallInv, StoreInv, Agrees, Same, Held, Owned, Missing, Gone,
       Saved, NeverLaxer, Subject, StricterWithReason

LEMMA RestartKeeps ==
  ASSUME IndInv, Restart
  PROVE  IndInv'
  <1>1. /\ config' \in Configurations /\ parents' = parents \cup config'
        /\ memory' = [k \in Calls |-> NoRow]
        /\ lost' = lost \cup {k \in Calls : memory[k] # NoRow}
        /\ UNCHANGED <<clock, db, call, now, refused>>
    BY DEF Restart
  <1>2. ASSUME NEW r \in Calls
        PROVE  \/ inMemory'[r] = inMemory[r] /\ inDB'[r] = inDB[r] /\ ~InProgress(r)
               \/ InProgress(r) /\ inMemory'[r] = <<"error">> /\ inDB'[r] = <<"error">>
    BY DEF Restart
  <1>3. /\ inMemory' \in [Calls -> Answers] /\ inDB' \in [Calls -> Answers]
    BY DEF Restart, IndInv, TypeOK, Answers
  <1> USE DEF IndInv
  <1>4. Saved' = Saved
    BY <1>1, <1>2 DEF Saved, InProgress, CallInv
  <1>5. TypeOK'
    BY <1>1, <1>3, ConfigurationsAssumption DEF TypeOK
  <1>6. CallInv'
    BY <1>1, <1>2, <1>4 DEF CallInv, InProgress
  <1>7. StoreInv'
    BY <1>1, <1>4 DEF StoreInv, Agrees, Held, Owned, Missing, Gone
  <1>8. NeverLaxer'
    BY <1>1, <1>2 DEF NeverLaxer, Subject, Accepts
  <1>9. StricterWithReason'
    BY <1>1, <1>2 DEF StricterWithReason
  <1> QED
    BY <1>5, <1>6, <1>7, <1>8, <1>9

LEMMA TickKeeps ==
  ASSUME IndInv, Tick
  PROVE  IndInv'
  <1>1. /\ clock' \in 0..MaxClock /\ clock <= clock' /\ clock \in Nat /\ clock' \in Nat
        /\ UNCHANGED <<config, parents, memory, db, call, now, inMemory, inDB, lost, refused>>
    BY BoundsAssumption DEF Tick, IndInv, TypeOK
  <1> USE DEF IndInv
  <1>2. TypeOK'
    BY <1>1 DEF TypeOK
  <1>3. Saved' = Saved
    BY <1>1 DEF Saved
  <1>4. ASSUME NEW k \in Calls
        PROVE  /\ now[k] <= clock => now[k] <= clock'
               /\ now[k] + TTL <= clock => now[k] + TTL <= clock'
    BY <1>1, BoundsAssumption DEF TypeOK
  <1>5. CallInv'
    BY <1>1, <1>3, <1>4 DEF CallInv
  <1>6. StoreInv'
    BY <1>1, <1>3, <1>4 DEF StoreInv, Agrees, Same, Held, Owned, Missing, Gone
  <1>7. NeverLaxer'
    BY <1>1 DEF NeverLaxer, Subject
  <1>8. StricterWithReason'
    <2> SUFFICES ASSUME NEW q \in Calls, inMemory[q] = <<"error">>,
                        inDB[q] # <<"error">>, call[q].op # "revoke"
                 PROVE  IF call[q].op = "save" THEN q \in lost
                        ELSE LET k == call[q].secret IN k \in lost \/ now[k] + TTL <= clock'
      BY <1>1 DEF StricterWithReason
    <2>1. CASE call[q].op = "save"
      BY <2>1 DEF StricterWithReason
    <2>2. CASE call[q].op # "save"
      <3>1. call[q].secret \in Calls
        BY <2>2 DEF CallInv, Saved
      <3> QED
        BY <1>4, <2>2, <3>1 DEF StricterWithReason
    <2> QED
      BY <2>1, <2>2
  <1> QED
    BY <1>2, <1>5, <1>6, <1>7, <1>8

LEMMA StutterKeeps ==
  ASSUME IndInv, UNCHANGED vars
  PROVE  IndInv'
  BY DEF vars, IndInv, TypeOK, CallInv, StoreInv, Agrees, Same, Held, Owned, Missing, Gone,
         Saved, NeverLaxer, Subject, StricterWithReason

LEMMA AnsweredKeeps ==
  ASSUME IndInv, NEW r \in Calls, Answered(r)
  PROVE  IndInv'
  <1>1. CASE ConsumeTransaction(r)
    BY <1>1, RedeemKeeps DEF ConsumeTransaction, Serve, OIDCTables
  <1>2. CASE RedeemAuthorizationCode(r)
    BY <1>2, RedeemKeeps DEF RedeemAuthorizationCode, Serve, OIDCTables
  <1> QED
    BY <1>1, <1>2, SaveKeeps, ValidateAccessTokenKeeps, FindSessionKeeps,
       RevokeKeeps, CleanupKeeps DEF Answered

LEMMA NextIndInv == IndInv /\ [Next]_vars => IndInv'
  BY CallKeeps, AnsweredKeeps, TickKeeps, CreateAccountKeeps, RestartKeeps, StutterKeeps DEF Next

LEMMA Invariance == Spec => []IndInv
  BY InitIndInv, NextIndInv, PTL DEF Spec

(* The state always has the declared shape. *)
THEOREM StoresTyped == Spec => []TypeOK
  <1>1. IndInv => TypeOK
    BY DEF IndInv
  <1> QED
    BY <1>1, Invariance, PTL

(* However many callers there are and in whatever order their times reach  *)
(* the stores: what the memory stores accept, the database accepts, with   *)
(* all that the handlers use of it - but for secrets saved for a client or *)
(* an account that has no row.                                             *)
THEOREM MemoryNeverLaxer == Spec => []NeverLaxer
  <1>1. IndInv => NeverLaxer
    BY DEF IndInv
  <1> QED
    BY <1>1, Invariance, PTL

(* The memory stores refuse what the database accepts only when the secret *)
(* has expired by now, or was forgotten or never taken in.                 *)
THEOREM MemoryStricterWithReason == Spec => []StricterWithReason
  <1>1. IndInv => StricterWithReason
    BY DEF IndInv
  <1> QED
    BY <1>1, Invariance, PTL
-----------------------------------------------------------------------------
(***************************************************************************)
(* The memory store implements SingleUse                                   *)
(***************************************************************************)
(* What was redeemed or forgotten does not come back, ... *)
Settled == {k \in Calls : inDB[k] # <<"none">>}

SpentInv ==
  \A k \in Calls :
    /\ k \in lost => k \in Settled /\ memory[k] = NoRow
    /\ (\E q \in Calls : Redeemed(q, k)) => k \in Saved /\ memory[k] = NoRow

(* ... and was redeemed by one call only. *)
OnceInv ==
  \A k, q1, q2 \in Calls : Redeemed(q1, k) /\ Redeemed(q2, k) => q1 = q2

(* A step in which nobody redeems, ... *)
Quiet == \A q, k \in Calls : Redeemed(q, k)' <=> Redeemed(q, k)

(* ... and one in which r does. *)
Taken(r, k) ==
  /\ Saved' = Saved /\ lost' = lost /\ k \in Saved
  /\ memory[k] # NoRow /\ memory'[k] = NoRow
  /\ \A q, j \in Calls : Redeemed(q, j)' <=> Redeemed(q, j) \/ (q = r /\ j = k)

Change ==
  /\ Saved \subseteq Saved' /\ Settled \subseteq Settled' /\ lost \subseteq lost'
  /\ \A k \in Settled : memory'[k] # NoRow => memory[k] # NoRow
  /\ \A k \in lost' \ lost : k \in Settled' /\ memory'[k] = NoRow
  /\ Quiet \/ \E r, k \in Calls : Taken(r, k)

LEMMA SavedSettled ==
  ASSUME IndInv
  PROVE  Saved \subseteq Settled
  BY DEF IndInv, CallInv, Saved, Settled

(* An operation that is no redemption answers, and prunes or stores. *)
LEMMA AnswerQuiet ==
  ASSUME IndInv, NEW r \in Calls, NEW m, NEW d, Answer(r, m, d),
         call[r].op \notin {"consume", "redeem"}
  PROVE  Quiet
  BY DEF Quiet, Redeemed, Answer, IndInv, TypeOK

LEMMA AnswerSaved ==
  ASSUME IndInv, NEW r \in Calls, NEW m, NEW d, Answer(r, m, d),
         inDB[r] = <<"none">>, d # <<"none">>
  PROVE  /\ Saved \subseteq Saved'
         /\ call[r].op # "save" => Saved' = Saved
         /\ Settled' = Settled \cup {r} /\ r \notin Settled
  <1>1. /\ inMemory' = [inMemory EXCEPT ![r] = m] /\ inDB' = [inDB EXCEPT ![r] = d]
        /\ call' = call
    BY DEF Answer
  <1>2. r \notin Saved
    BY DEF IndInv, CallInv, Saved
  <1>3. Settled' = Settled \cup {r} /\ r \notin Settled
    BY <1>1 DEF Settled, IndInv, TypeOK
  <1> QED
    BY <1>1, <1>2, <1>3 DEF Saved, IndInv, TypeOK

LEMMA SaveChange ==
  ASSUME IndInv, NEW r \in Calls, Save(r)
  PROVE  Change
  <1> DEFINE data == call[r].data
             row == [data |-> data, exp |-> now[r] + TTL, consumed |-> FALSE]
             pruned == Prune(memory, StoreOf(data.table), clock)
  <1>1. call[r] # NoCall /\ call[r].op = "save" /\ inDB[r] = <<"none">>
    BY DEF Save, Serve
  <1>2. PICK full \in BOOLEAN, founded \in BOOLEAN :
          /\ memory' = IF full THEN pruned ELSE [pruned EXCEPT ![r] = row]
          /\ lost' = IF full THEN lost \cup {r} ELSE lost
          /\ Answer(r, IF full THEN <<"error">> ELSE <<"ok">>,
                       IF founded THEN <<"ok">> ELSE <<"error">>)
    BY DEF Save, Founded
  <1>3. /\ Saved \subseteq Saved' /\ Settled' = Settled \cup {r} /\ r \notin Settled
    BY <1>1, <1>2, AnswerSaved
  <1>4. Quiet
    BY <1>1, <1>2, AnswerQuiet
  <1>5. pruned \in [Calls -> Rows \cup {NoRow}]
        /\ \A k \in Calls : pruned[k] \in {memory[k], NoRow}
    BY PruneType, PruneFacts, BoundsAssumption DEF IndInv, TypeOK
  <1>6. memory[r] = NoRow
    BY <1>3, SavedSettled DEF IndInv, StoreInv, Held
  <1> HIDE DEF row, pruned
  <1>7. \A k \in Settled : memory'[k] # NoRow => memory[k] # NoRow
    BY <1>2, <1>3, <1>5 DEF Settled
  <1>8. \A k \in lost' \ lost : k = r /\ memory'[k] = NoRow
    BY <1>2, <1>5, <1>6
  <1> QED
    BY <1>2, <1>3, <1>4, <1>7, <1>8 DEF Change

LEMMA RedeemChange ==
  ASSUME IndInv, NEW r \in Calls, call[r] # NoCall, inDB[r] = <<"none">>,
         call[r].op \in {"consume", "redeem"},
         NEW table \in OIDCTables, NEW acceptable, Redeem(r, table, acceptable)
  PROVE  Change
  <1> DEFINE k == call[r].secret
             pruned == Prune(memory, OIDCTables, now[r])
             inM == Is(pruned[k], table) /\ Party(pruned[k]) \in acceptable
  <1>1. PICK d : /\ memory' = IF inM THEN Without(pruned, k) ELSE pruned
                 /\ Answer(r, IF inM THEN Found(memory[k].data) ELSE <<"error">>, d)
                 /\ lost' = lost /\ d # <<"none">>
    BY DEF Redeem, Found
  <1>2. now[r] \in Nat /\ k \in Saved /\ k \in Calls
    BY ServeFacts DEF Presenting
  <1>3. /\ pruned \in [Calls -> Rows \cup {NoRow}]
        /\ \A j \in Calls : pruned[j] \in {memory[j], NoRow}
    BY <1>2, PruneType, PruneFacts DEF IndInv, TypeOK
  <1>4. Saved' = Saved /\ Settled \subseteq Settled'
    BY <1>1, AnswerSaved
  <1>5. \A j \in Calls : ~Redeemed(r, j)
    BY PlainAnswers DEF Redeemed, IndInv, CallInv
  <1>6. inM => /\ memory[k] \in Rows /\ memory[k] # NoRow
               /\ Found(memory[k].data) \in Finds
    BY <1>2, <1>3, FoundFacts DEF Is, Rows
  <1> HIDE DEF inM, pruned, k
  <1>7. \A j \in Calls : memory'[j] \in {memory[j], NoRow}
    BY <1>1, <1>3 DEF Without
  <1>8. \A q, j \in Calls : q # r => (Redeemed(q, j)' <=> Redeemed(q, j))
    BY <1>1 DEF Redeemed, Answer, IndInv, TypeOK
  <1>9. CASE inM
    <2>1. inMemory'[r] \in Finds /\ call' = call
      BY <1>1, <1>6, <1>9 DEF Answer, IndInv, TypeOK
    <2>2. \A j \in Calls : Redeemed(r, j)' <=> j = k
      BY <2>1 DEF Redeemed, k
    <2>3. memory'[k] = NoRow
      BY <1>1, <1>2, <1>3, <1>9 DEF Without
    <2>4. Taken(r, k)
      BY <1>1, <1>2, <1>4, <1>5, <1>6, <1>8, <1>9, <2>2, <2>3 DEF Taken
    <2>5. \E s, j \in Calls : Taken(s, j)
      BY <1>2, <2>4
    <2>6. \A j \in Settled : memory'[j] # NoRow => memory[j] # NoRow
      BY <1>7 DEF Settled
    <2> QED
      BY <1>1, <1>4, <2>5, <2>6 DEF Change
  <1>10. CASE ~inM
    <2>1. inMemory'[r] = <<"error">>
      BY <1>1, <1>10 DEF Answer, IndInv, TypeOK
    <2>2. \A j \in Calls : ~Redeemed(r, j)'
      BY <2>1, PlainAnswers DEF Redeemed
    <2>3. Quiet
      BY <1>5, <1>8, <2>2 DEF Quiet
    <2> QED
      BY <1>1, <1>4, <1>7, <2>3 DEF Change, Settled
  <1> QED
    BY <1>9, <1>10

LEMMA OtherChange ==
  ASSUME IndInv, NEW r \in Calls,
         ValidateAccessToken(r) \/ FindSession(r) \/ Revoke(r) \/ Cleanup(r)
  PROVE  Change
  <1>1. /\ call[r] # NoCall /\ inDB[r] = <<"none">> /\ lost' = lost
        /\ call[r].op \in {"validate", "find", "revoke", "cleanup"}
        /\ \E m, d : Answer(r, m, d) /\ d # <<"none">>
    BY DEF ValidateAccessToken, FindSession, Revoke, Cleanup, Serve, Found
  <1>2. now[r] \in Nat /\ memory \in [Calls -> Rows \cup {NoRow}]
    BY <1>1, ServeFacts DEF IndInv, TypeOK
  <1>3. \A k \in Calls : memory'[k] # NoRow => memory[k] # NoRow
    <2> SUFFICES ASSUME NEW k \in Calls, memory'[k] # NoRow PROVE memory[k] # NoRow
      OBVIOUS
    <2>1. CASE ~Revoke(r)
      <3>1. PICK tables : memory' = Prune(memory, tables, now[r])
        BY <2>1 DEF ValidateAccessToken, FindSession, Cleanup
      <3> QED
        BY <1>2, <3>1, PruneFacts
    <2>2. CASE Revoke(r)
      <3> DEFINE pruned == Prune(memory, SessionTables, now[r])
                 s == call[r].secret
      <3>1. \/ memory' = pruned
            \/ Is(pruned[s], "session") /\ memory' = [pruned EXCEPT ![s].consumed = TRUE]
        BY <2>2 DEF Revoke
      <3>2. pruned \in [Calls -> Rows \cup {NoRow}] /\ pruned[k] \in {memory[k], NoRow}
        BY <1>2, PruneType, PruneFacts
      <3> HIDE DEF pruned
      <3> QED
        BY <3>1, <3>2 DEF Is
    <2> QED
      BY <2>1, <2>2
  <1>4. Saved' = Saved /\ Settled \subseteq Settled' /\ Quiet
    BY <1>1, AnswerSaved, AnswerQuiet
  <1> QED
    BY <1>1, <1>3, <1>4 DEF Change, Settled

LEMMA CallChange ==
  ASSUME IndInv, NEW r \in Calls, Call(r)
  PROVE  Change
  <1>1. /\ call[r] = NoCall /\ UNCHANGED <<memory, inMemory, inDB, lost>>
        /\ \E o \in Operations : call' = [call EXCEPT ![r] = o]
    BY DEF Call
  <1>2. inMemory[r] = <<"none">> /\ inDB[r] = <<"none">>
    BY <1>1 DEF IndInv, CallInv
  <1>3. Saved' = Saved
    BY <1>1, <1>2 DEF Saved, IndInv, TypeOK
  <1>4. Quiet
    BY <1>1, <1>2, PlainAnswers DEF Quiet, Redeemed, IndInv, TypeOK
  <1> QED
    BY <1>1, <1>3, <1>4 DEF Change, Settled

LEMMA RestartChange ==
  ASSUME IndInv, Restart
  PROVE  Change
  <1>1. /\ memory' = [k \in Calls |-> NoRow] /\ call' = call
        /\ lost' = lost \cup {k \in Calls : memory[k] # NoRow}
    BY DEF Restart
  <1>2. ASSUME NEW r \in Calls
        PROVE  \/ inMemory'[r] = inMemory[r] /\ inDB'[r] = inDB[r] /\ ~InProgress(r)
               \/ InProgress(r) /\ inMemory'[r] = <<"error">> /\ inDB'[r] = <<"error">>
    BY DEF Restart
  <1>3. Saved' = Saved /\ Settled \subseteq Settled'
    BY <1>1, <1>2 DEF Saved, Settled, InProgress, IndInv, CallInv
  <1>4. \A k \in Calls : memory[k] # NoRow => k \in Settled
    BY SavedSettled DEF IndInv, StoreInv, Held
  <1>5. \A q, k \in Calls : InProgress(q) => ~Redeemed(q, k)
    BY PlainAnswers DEF InProgress, Redeemed, IndInv, CallInv
  <1>6. Quiet
    BY <1>1, <1>2, <1>5, PlainAnswers DEF Quiet, Redeemed
  <1> QED
    BY <1>1, <1>3, <1>4, <1>6 DEF Change, Settled

LEMMA NextChange ==
  ASSUME IndInv, [Next]_vars
  PROVE  Change
  <1>1. ASSUME NEW r \in Calls, Answered(r) PROVE Change
    <2>1. CASE ConsumeTransaction(r)
      BY <2>1, RedeemChange DEF ConsumeTransaction, Serve, OIDCTables
    <2>2. CASE RedeemAuthorizationCode(r)
      BY <2>2, RedeemChange DEF RedeemAuthorizationCode, Serve, OIDCTables
    <2> QED
      BY <1>1, <2>1, <2>2, SaveChange, OtherChange DEF Answered
  <1>2. CASE Tick \/ (\E a \in Accounts : CreateAccount(a)) \/ UNCHANGED vars
    BY <1>2 DEF Tick, CreateAccount, vars, Change, Quiet, Redeemed, Saved, Settled
  <1> QED
    BY <1>1, <1>2, CallChange, RestartChange DEF Next

LEMMA ChangeKeeps ==
  ASSUME IndInv, SpentInv, OnceInv, Change
  PROVE  SpentInv' /\ OnceInv'
  <1> USE SavedSettled
  <1>1. CASE Quiet
    BY <1>1 DEF Change, Quiet, SpentInv, OnceInv
  <1>2. ASSUME NEW r \in Calls, NEW k \in Calls, Taken(r, k)
        PROVE  SpentInv' /\ OnceInv'
    <2>1. \A q \in Calls : ~Redeemed(q, k)
      BY <1>2 DEF Taken, SpentInv
    <2>2. OnceInv'
      BY <1>2, <2>1 DEF Taken, OnceInv
    <2>3. SpentInv'
      BY <1>2 DEF Change, Taken, SpentInv
    <2> QED
      BY <2>2, <2>3
  <1> QED
    BY <1>1, <1>2 DEF Change

LEMMA Spending == Spec => [](SpentInv /\ OnceInv)
  <1>1. Init => SpentInv /\ OnceInv
    BY DEF Init, SpentInv, OnceInv, Redeemed
  <1>2. IndInv /\ SpentInv /\ OnceInv /\ [Next]_vars => (SpentInv /\ OnceInv)'
    BY NextChange, ChangeKeeps
  <1> QED
    BY <1>1, <1>2, Invariance, PTL DEF Spec

(* The beneficiary is the call that redeemed the grant. *)
BeneficiaryInv ==
  \A k \in Calls :
    /\ Beneficiary[k] \in Calls \cup {Nobody}
    /\ Beneficiary[k] # Nobody => Redeemed(Beneficiary[k], k)
    /\ \A q \in Calls : Redeemed(q, k) => Beneficiary[k] = q

LEMMA BeneficiaryRedeemed == OnceInv => BeneficiaryInv
  <1> SUFFICES ASSUME OnceInv, NEW k \in Calls
               PROVE  /\ Beneficiary[k] \in Calls \cup {Nobody}
                      /\ Beneficiary[k] # Nobody => Redeemed(Beneficiary[k], k)
                      /\ \A q \in Calls : Redeemed(q, k) => Beneficiary[k] = q
    BY DEF BeneficiaryInv
  <1>1. ASSUME NEW q \in Calls
        PROVE  Redeemers(k) = {q} <=> Redeemed(q, k)
    BY DEF OnceInv, Redeemers
  <1> QED
    BY <1>1, AbsentAssumption DEF Beneficiary

(* A grant is dead when it was spent. *)
StatusInv ==
  \A k \in Calls :
    Status[k] = IF k \notin Saved THEN "unissued"
                ELSE IF k \in lost \/ \E q \in Calls : Redeemed(q, k) THEN "dead"
                ELSE "live"

LEMMA SpentStatus == SpentInv => StatusInv
  BY DEF SpentInv, StatusInv, Status, Redeemers

LEMMA ChangeRefines ==
  ASSUME SpentInv, StatusInv, StatusInv', BeneficiaryInv, BeneficiaryInv', Change
  PROVE  Contract!Next
  <1>1. /\ Status = [k \in Calls |-> Status[k]]
        /\ Status' = [k \in Calls |-> Status'[k]]
        /\ Beneficiary = [k \in Calls |-> Beneficiary[k]]
        /\ Beneficiary' = [k \in Calls |-> Beneficiary'[k]]
    BY DEF Status, Beneficiary
  <1>2. CASE Quiet
    <2>1. \A k \in Calls : Beneficiary'[k] = Beneficiary[k]
      BY <1>2, AbsentAssumption DEF Quiet, BeneficiaryInv
    <2>2. ASSUME NEW k \in Calls
          PROVE  /\ Status'[k] \in Contract!Statuses
                 /\ Status[k] = "dead" => Status'[k] = "dead"
                 /\ Status[k] = "live" => Status'[k] # "unissued"
      BY <1>2 DEF Quiet, Change, StatusInv, Contract!Statuses
    <2>3. /\ Status' \in [Calls -> Contract!Statuses]
          /\ Beneficiary' \in [Calls -> Calls \cup {Nobody}]
      BY <1>1, <2>2 DEF BeneficiaryInv
    <2> QED
      BY <2>1, <2>2, <2>3 DEF Contract!Next, Contract!Renew
  <1>3. ASSUME NEW r \in Calls, NEW k \in Calls, Taken(r, k) PROVE Contract!Next
    <2>1. k \notin lost /\ \A q \in Calls : ~Redeemed(q, k)
      BY <1>3 DEF Taken, SpentInv
    <2>2. Status[k] = "live" /\ Status'[k] = "dead"
      BY <1>3, <2>1 DEF Taken, StatusInv
    <2>3. \A j \in Calls : j # k => Status'[j] = Status[j]
      BY <1>3 DEF Taken, StatusInv
    <2>4. Beneficiary'[k] = r
      BY <1>3 DEF Taken, BeneficiaryInv
    <2>5. ASSUME NEW j \in Calls, j # k PROVE Beneficiary'[j] = Beneficiary[j]
      BY <1>3, <2>5, AbsentAssumption DEF Taken, BeneficiaryInv
    <2>6. Contract!Redeem(k, r)
      BY <1>1, <2>2, <2>3, <2>4, <2>5 DEF Contract!Redeem
    <2> QED
      BY <2>6 DEF Contract!Next
  <1> QED
    BY <1>2, <1>3 DEF Change

(* The memory store implements the same one-time contract that OIDCFlow    *)
(* implements on PostgreSQL.                                               *)
THEOREM MemoryRefinement == Spec => ImplementsSingleUse
  <1>1. Init => Contract!Init
    BY DEF Init, Contract!Init, Status, Beneficiary, Redeemers, Redeemed, Saved
  <1>2. /\ (OnceInv => BeneficiaryInv) /\ (OnceInv' => BeneficiaryInv')
        /\ (SpentInv => StatusInv) /\ (SpentInv' => StatusInv')
    BY BeneficiaryRedeemed, SpentStatus, PTL
  <1>3. IndInv /\ SpentInv /\ SpentInv' /\ OnceInv /\ OnceInv' /\ [Next]_vars
          => [Contract!Next]_(Contract!vars)
    BY <1>2, NextChange, ChangeRefines
  <1> QED
    BY <1>1, <1>3, Invariance, Spending, PTL DEF Spec, ImplementsSingleUse, Contract!Spec
=============================================================================
