--------------------------- MODULE OIDCFlowProofs ---------------------------
(***************************************************************************)
(* Proofs about OIDCFlow for any number of requests, clients and rows.     *)
(***************************************************************************)
EXTENDS OIDCFlow, TLAPS

USE DEF Goto

(* A request past its arrival holds an input of its endpoint's shape; only *)
(* /authorize/resume and /token redeem grants, only /userinfo reads tokens. *)
InputInv ==
  \A r \in Requests :
    /\ pc[r] \in {"select", "update", "commitGrant"} => Kind[r] \in {"resume", "token"}
    /\ pc[r] \in {"findToken", "checkClient"} => Kind[r] = "userinfo"
    /\ pc[r] \notin {"idle", "refused"} =>
         /\ Kind[r] = "resume" => req[r] \in ResumeInputs
         /\ Kind[r] = "token" => req[r] \in TokenInputs
         /\ Kind[r] = "userinfo" => req[r] \in UserInfoInputs

Drafting == {"update", "commitGrant", "ready", "save", "commit", "checkClient"}
            \cup Cleaning

(* A request that has a row in the making has a whole one. *)
DraftInv == \A r \in Requests : pc[r] \in Drafting => draft[r] \in Rows

(* A row in the database belongs to a request that was answered. *)
RowInv == \A k \in Requests : db[k] # NoRow => pc[k] = "ok"

(* Only an existing row is locked: by the request consuming it, or by one  *)
(* whose cleanup deleted it and whose HTTP transaction is still open.      *)
LockInv ==
  \A k \in Requests : lock[k] # Free =>
    /\ db[k] # NoRow
    /\ \/ pc[lock[k]] = "commitGrant" /\ req[lock[k]].key = k
       \/ pc[lock[k]] \in Cleaning \cup {"save", "commit"}

(* Between UPDATE and commit, the request has the row to itself. *)
GrantInv ==
  \A r \in Requests : pc[r] = "commitGrant" =>
    lock[req[r].key] = r /\ ~db[req[r].key].consumed

(* An honoured grant can never be found redeemable again. *)
SpentInv ==
  \A r \in Requests : Honoured(r) =>
    /\ pc[req[r].key] = "ok"
    /\ db[req[r].key] = NoRow \/ db[req[r].key].consumed

IndInv == /\ TypeOK /\ InputInv /\ DraftInv /\ RowInv
          /\ LockInv /\ GrantInv /\ SpentInv /\ HonouredOnce

LEMMA InitIndInv == Init => IndInv
  <1> SUFFICES ASSUME Init PROVE IndInv
    OBVIOUS
  <1> USE DEF Init
  <1>1. TypeOK
    BY TTLAssumption DEF TypeOK, States
  <1>2. InputInv /\ DraftInv /\ RowInv /\ LockInv /\ GrantInv
    BY DEF InputInv, DraftInv, RowInv, LockInv, GrantInv, Drafting, Cleaning
  <1>3. SpentInv /\ HonouredOnce
    BY DEF SpentInv, HonouredOnce, Honoured, Cleaning
  <1> QED
    BY <1>1, <1>2, <1>3 DEF IndInv

(* The key of a redeeming request names a row. *)
LEMMA KeyInRequests ==
  ASSUME IndInv, NEW r \in Requests, pc[r] \notin {"idle", "refused"},
         Kind[r] # "authorize"
  PROVE  req[r].key \in Requests
  BY KindAssumption DEF IndInv, InputInv, ResumeInputs, TokenInputs, UserInfoInputs

(* A request that is refused without touching any row keeps the invariant. *)
LEMMA RefuseStep ==
  ASSUME IndInv, NEW r \in Requests, Refuse(r), UNCHANGED <<clock, registered, db>>,
         pc[r] # "ok"
  PROVE  IndInv'
  <1> USE DEF IndInv, Refuse
  <1>1. TypeOK'
    BY AbsentAssumption DEF TypeOK, Released, States, Finished
  <1>2. InputInv'
    BY DEF InputInv, TypeOK
  <1>3. DraftInv'
    BY DEF DraftInv, TypeOK, Drafting, Cleaning
  <1>4. RowInv'
    BY DEF RowInv, TypeOK
  <1>5. LockInv'
    BY DEF LockInv, TypeOK, Released, Cleaning
  <1>6. GrantInv'
    BY KeyInRequests, KindAssumption DEF GrantInv, InputInv, TypeOK, Released
  <1>7. SpentInv'
    BY KeyInRequests, KindAssumption DEF SpentInv, Honoured, TypeOK, Cleaning
  <1>8. HonouredOnce'
    BY DEF HonouredOnce, Honoured, TypeOK, Cleaning
  <1> QED
    BY <1>1, <1>2, <1>3, <1>4, <1>5, <1>6, <1>7, <1>8

LEMMA IssueStep ==
  ASSUME IndInv, NEW r \in Requests, pc[r] = "idle", Kind[r] = "authorize",
         NEW row \in Rows, Issue(r, row), UNCHANGED <<clock, registered, db>>
  PROVE  IndInv'
  <1> USE DEF IndInv, Issue
  <1>1. TypeOK'
    BY DEF TypeOK, States
  <1>2. InputInv' /\ DraftInv' /\ RowInv' /\ GrantInv'
    BY DEF InputInv, DraftInv, RowInv, GrantInv, TypeOK
  <1>3. LockInv'
    BY DEF LockInv, TypeOK, Cleaning
  <1>4. SpentInv' /\ HonouredOnce'
    BY DEF SpentInv, HonouredOnce, Honoured, TypeOK, Cleaning
  <1> QED
    BY <1>1, <1>2, <1>3, <1>4

LEMMA PresentStep ==
  ASSUME IndInv, NEW r \in Requests, pc[r] = "idle",
         NEW input \in Inputs, NEW state \in {"select", "findToken"},
         Present(r, input, state), UNCHANGED <<clock, registered, db>>,
         Kind[r] = "resume" => input \in ResumeInputs,
         Kind[r] = "token" => input \in TokenInputs,
         Kind[r] = "userinfo" => input \in UserInfoInputs,
         state = "select" => Kind[r] \in {"resume", "token"},
         state = "findToken" => Kind[r] = "userinfo"
  PROVE  IndInv'
  <1> USE DEF IndInv, Present
  <1>1. TypeOK'
    BY DEF TypeOK, States
  <1>2. InputInv' /\ DraftInv' /\ RowInv' /\ GrantInv'
    BY DEF InputInv, DraftInv, RowInv, GrantInv, TypeOK, Drafting, Cleaning
  <1>3. LockInv'
    BY DEF LockInv, TypeOK, Cleaning
  <1>4. SpentInv' /\ HonouredOnce'
    BY DEF SpentInv, HonouredOnce, Honoured, TypeOK, Cleaning
  <1> QED
    BY <1>1, <1>2, <1>3, <1>4

LEMMA ArriveStep ==
  ASSUME IndInv, NEW r \in Requests, Arrive(r)
  PROVE  IndInv'
  <1>1. pc[r] = "idle" /\ UNCHANGED <<clock, registered, db>>
    BY DEF Arrive, Authorize, ResumeAuthorization, Token, UserInfo
  <1>2. CASE Refuse(r)
    BY <1>1, <1>2, RefuseStep
  <1>3. CASE Authorize(r) /\ ~Refuse(r)
    <2>1. PICK c \in Clients, u \in Uris, v \in Verifiers, a \in Accounts \cup {NoAccount} :
            \/ a # NoAccount /\ Issue(r, NewRow("code", c, u, a, v))
            \/ Issue(r, NewRow("transaction", c, u, NoAccount, v))
      BY <1>3 DEF Authorize
    <2>2. PICK row \in Rows : Issue(r, row)
      BY <2>1 DEF Rows, NewRow
    <2> QED
      BY <1>1, <1>3, <2>2, IssueStep DEF Authorize
  <1>4. CASE ResumeAuthorization(r) /\ ~Refuse(r)
    BY <1>1, <1>4, PresentStep DEF ResumeAuthorization, Inputs, ResumeInputs
  <1>5. CASE Token(r) /\ ~Refuse(r)
    BY <1>1, <1>5, PresentStep DEF Token, Inputs
  <1>6. CASE UserInfo(r)
    BY <1>1, <1>6, PresentStep DEF UserInfo, Inputs, UserInfoInputs
  <1> QED
    BY <1>2, <1>3, <1>4, <1>5, <1>6 DEF Arrive

LEMMA SelectGrantStep ==
  ASSUME IndInv, NEW r \in Requests, SelectGrant(r)
  PROVE  IndInv'
  <1>1. pc[r] = "select" /\ UNCHANGED <<clock, registered, db>>
    BY DEF SelectGrant
  <1>2. CASE Refuse(r)
    BY <1>1, <1>2, RefuseStep
  <1>3. CASE ~Refuse(r)
    <2> DEFINE row == db[req[r].key]
    <2>1. /\ row # NoRow /\ PresentedFor(r, row)
          /\ Goto(r, "update")
          /\ draft' = [draft EXCEPT ![r] = Successor(r, row)]
          /\ UNCHANGED <<lock, req, now, todo>>
      BY <1>3 DEF SelectGrant, Redeemable
    <2>2. row \in Rows
      BY <1>1, <2>1, KeyInRequests DEF IndInv, TypeOK, InputInv
    <2>3. Successor(r, row) \in Rows
      BY <1>1, <2>1, <2>2
         DEF Successor, PresentedFor, Rows, IndInv, InputInv, ResumeInputs
    <2> HIDE DEF row
    <2> USE <1>1, <2>1, <2>3 DEF IndInv
    <2>4. TypeOK'
      BY DEF TypeOK, States
    <2>5. InputInv' /\ DraftInv' /\ RowInv' /\ GrantInv'
      BY DEF InputInv, DraftInv, RowInv, GrantInv, TypeOK, Drafting, Cleaning
    <2>6. LockInv'
      BY DEF LockInv, TypeOK, Cleaning
    <2>7. SpentInv' /\ HonouredOnce'
      BY DEF SpentInv, HonouredOnce, Honoured, TypeOK, Cleaning
    <2> QED
      BY <2>4, <2>5, <2>6, <2>7
  <1> QED
    BY <1>2, <1>3

LEMMA UpdateGrantStep ==
  ASSUME IndInv, NEW r \in Requests, UpdateGrant(r)
  PROVE  IndInv'
  <1>1. pc[r] = "update" /\ UNCHANGED <<clock, registered, db>>
    BY DEF UpdateGrant
  <1>2. CASE Refuse(r)
    BY <1>1, <1>2, RefuseStep
  <1>3. CASE ~Refuse(r)
    <2>1. /\ db[req[r].key] # NoRow /\ ~db[req[r].key].consumed
          /\ lock[req[r].key] = Free
          /\ Goto(r, "commitGrant")
          /\ lock' = [lock EXCEPT ![req[r].key] = r]
          /\ UNCHANGED <<req, draft, now, todo>>
      BY <1>3 DEF UpdateGrant, StillRedeemable, Redeemable
    <2>2. req[r].key \in Requests
      BY <1>1, KeyInRequests DEF IndInv, InputInv
    <2> USE <1>1, <2>1, <2>2 DEF IndInv
    <2>3. TypeOK'
      BY DEF TypeOK, States
    <2>4. InputInv' /\ DraftInv' /\ RowInv'
      BY DEF InputInv, DraftInv, RowInv, TypeOK, Drafting
    <2>5. LockInv'
      BY DEF LockInv, TypeOK, Cleaning
    <2>6. GrantInv'
      BY AbsentAssumption DEF GrantInv, TypeOK
    <2>7. SpentInv' /\ HonouredOnce'
      BY DEF SpentInv, HonouredOnce, Honoured, TypeOK, Cleaning
    <2> QED
      BY <2>3, <2>4, <2>5, <2>6, <2>7
  <1> QED
    BY <1>2, <1>3

(* The heart of the matter: the committing request holds the row's lock,   *)
(* so the row is unconsumed and nobody was honoured for it before.         *)
LEMMA CommitGrantStep ==
  ASSUME IndInv, NEW r \in Requests, CommitGrant(r)
  PROVE  IndInv'
  <1> DEFINE k == req[r].key
  <1>1. k \in Requests /\ Kind[r] \in {"resume", "token"} /\ pc[r] = "commitGrant"
    BY KeyInRequests DEF CommitGrant, IndInv, InputInv
  <1>2. /\ lock[k] = r /\ db[k] # NoRow /\ db[k] \in Rows /\ ~db[k].consumed /\ pc[k] = "ok"
        /\ \A j \in Requests : lock[j] = r => j = k
    BY <1>1, AbsentAssumption DEF IndInv, GrantInv, LockInv, RowInv, TypeOK, Cleaning
  <1>3. /\ db' = [db EXCEPT ![k] = [db[k] EXCEPT !.consumed = TRUE]]
        /\ [db[k] EXCEPT !.consumed = TRUE] \in Rows
        /\ [db[k] EXCEPT !.consumed = TRUE].consumed
    BY <1>1, <1>2 DEF CommitGrant, Rows, IndInv, TypeOK
  <1>4. \A q \in Requests : Honoured(q) => req[q].key # k
    BY <1>1, <1>2 DEF IndInv, SpentInv
  <1>5. /\ lock' = Released(r) /\ UNCHANGED <<clock, registered>>
        /\ \/ pc' = [pc EXCEPT ![r] = "refused"] /\ Refuse(r)
           \/ pc' = [pc EXCEPT ![r] = "ready"] /\ UNCHANGED <<req, draft, now, todo>>
    BY DEF CommitGrant, Refuse
  <1> HIDE DEF k
  <1>6. TypeOK'
    BY <1>1, <1>3, <1>5, AbsentAssumption
       DEF IndInv, TypeOK, Released, Refuse, States, Finished
  <1>7. InputInv'
    BY <1>1, <1>5 DEF IndInv, InputInv, TypeOK, Refuse
  <1>8. DraftInv'
    BY <1>1, <1>5 DEF IndInv, DraftInv, TypeOK, Refuse, Drafting, Cleaning
  <1>9. RowInv'
    BY <1>1, <1>2, <1>3, <1>5 DEF IndInv, RowInv, TypeOK
  <1>10. LockInv'
    BY <1>1, <1>2, <1>3, <1>5 DEF IndInv, LockInv, TypeOK, Released, Refuse, Cleaning, k
  <1>11. GrantInv'
    BY <1>1, <1>2, <1>3, <1>5, KeyInRequests
       DEF IndInv, GrantInv, InputInv, TypeOK, Released, Refuse
  <1>12. SpentInv'
    BY <1>1, <1>2, <1>3, <1>5, KeyInRequests
       DEF IndInv, SpentInv, Honoured, TypeOK, Refuse, Cleaning, k
  <1>13. HonouredOnce'
    BY <1>1, <1>4, <1>5
       DEF IndInv, HonouredOnce, Honoured, TypeOK, Refuse, Cleaning, k
  <1> QED
    BY <1>6, <1>7, <1>8, <1>9, <1>10, <1>11, <1>12, <1>13 DEF IndInv

(* The cleanup and the insertion leave every row alone until they commit. *)
LEMMA BeginCleanupStep ==
  ASSUME IndInv, NEW r \in Requests, BeginCleanup(r)
  PROVE  IndInv'
  <1> USE DEF IndInv, BeginCleanup, StartDelete
  <1>1. TypeOK'
    BY DEF TypeOK, States, Cleaning, Expired
  <1>2. InputInv' /\ DraftInv' /\ RowInv' /\ GrantInv'
    BY DEF InputInv, DraftInv, RowInv, GrantInv, TypeOK, Drafting
  <1>3. LockInv'
    BY DEF LockInv, TypeOK, Cleaning
  <1>4. SpentInv' /\ HonouredOnce'
    BY DEF SpentInv, HonouredOnce, Honoured, TypeOK, Cleaning
  <1> QED
    BY <1>1, <1>2, <1>3, <1>4

LEMMA DeleteRowStep ==
  ASSUME IndInv, NEW r \in Requests, DeleteRow(r)
  PROVE  IndInv'
  <1>1. PICK k \in Requests :
          /\ lock[k] = Free
          /\ lock' = [lock EXCEPT ![k] = IF db[k] = NoRow THEN Free ELSE r]
          /\ todo' = [todo EXCEPT ![r] = @ \ {k}]
    BY DEF DeleteRow, IndInv, TypeOK
  <1> USE <1>1 DEF IndInv, DeleteRow
  <1>2. TypeOK'
    BY DEF TypeOK
  <1>3. InputInv' /\ DraftInv' /\ RowInv'
    BY DEF InputInv, DraftInv, RowInv
  <1>4. LockInv'
    BY DEF LockInv, TypeOK
  <1>5. GrantInv'
    BY AbsentAssumption DEF GrantInv, TypeOK, Cleaning
  <1>6. SpentInv' /\ HonouredOnce'
    BY DEF SpentInv, HonouredOnce, Honoured
  <1> QED
    BY <1>2, <1>3, <1>4, <1>5, <1>6

LEMMA NextDeleteStep ==
  ASSUME IndInv, NEW r \in Requests, NextDelete(r)
  PROVE  IndInv'
  <1>1. PICK state \in Cleaning \cup {"save"} :
          pc[r] \in Cleaning /\ pc' = [pc EXCEPT ![r] = state]
    BY DEF NextDelete, StartDelete, Cleaning
  <1>2. todo' \in [Requests -> SUBSET Requests]
    BY DEF IndInv, TypeOK, NextDelete, StartDelete, Expired
  <1>3. UNCHANGED <<clock, registered, db, lock, req, draft, now>>
    BY DEF NextDelete
  <1> USE <1>1, <1>2, <1>3 DEF IndInv
  <1>4. TypeOK'
    BY DEF TypeOK, States
  <1>5. InputInv' /\ DraftInv' /\ RowInv' /\ GrantInv'
    BY DEF InputInv, DraftInv, RowInv, GrantInv, TypeOK, Drafting, Cleaning
  <1>6. LockInv'
    BY DEF LockInv, TypeOK, Cleaning
  <1>7. SpentInv' /\ HonouredOnce'
    BY DEF SpentInv, HonouredOnce, Honoured, TypeOK, Cleaning
  <1> QED
    BY <1>4, <1>5, <1>6, <1>7

LEMMA SaveStep ==
  ASSUME IndInv, NEW r \in Requests, Save(r)
  PROVE  IndInv'
  <1>1. draft[r] \in Rows /\ clock + TTL(draft[r].table) \in Nat
    BY TTLAssumption DEF IndInv, DraftInv, TypeOK, Save, TTL, Drafting
  <1>2. [draft[r] EXCEPT !.exp = clock + TTL(draft[r].table)] \in Rows
    BY <1>1 DEF Rows
  <1>3. draft' = [draft EXCEPT ![r] = [draft[r] EXCEPT !.exp = clock + TTL(draft[r].table)]]
    BY DEF Save
  <1> USE <1>2, <1>3 DEF IndInv, Save
  <1>4. TypeOK'
    BY DEF TypeOK, States
  <1>5. InputInv' /\ DraftInv' /\ RowInv' /\ GrantInv'
    BY DEF InputInv, DraftInv, RowInv, GrantInv, TypeOK, Drafting, Cleaning
  <1>6. LockInv'
    BY DEF LockInv, TypeOK, Cleaning
  <1>7. SpentInv' /\ HonouredOnce'
    BY DEF SpentInv, HonouredOnce, Honoured, TypeOK, Cleaning
  <1> QED
    BY <1>4, <1>5, <1>6, <1>7

(* What the deletions of r remove was locked by r, so no grant is being    *)
(* consumed there, and a consumed grant that is removed stays unusable.    *)
LEMMA CommitStep ==
  ASSUME IndInv, NEW r \in Requests, Commit(r)
  PROVE  IndInv'
  <1>1. draft[r] \in Rows /\ db[r] = NoRow
    BY DEF IndInv, DraftInv, RowInv, Commit, Drafting
  <1> USE <1>1 DEF IndInv, Commit, Swept, Released
  <1>2. TypeOK'
    BY AbsentAssumption DEF TypeOK, States, Finished
  <1>3. InputInv' /\ RowInv'
    BY DEF InputInv, RowInv, TypeOK
  <1>4. DraftInv'
    BY DEF DraftInv, TypeOK, Drafting, Cleaning
  <1>5. LockInv'
    BY DEF LockInv, TypeOK, Cleaning
  <1>6. GrantInv'
    <2> SUFFICES ASSUME NEW q \in Requests, pc'[q] = "commitGrant"
                 PROVE  lock'[req[q].key] = q /\ ~db'[req[q].key].consumed
      BY DEF GrantInv
    <2>1. q # r /\ pc[q] = "commitGrant" /\ req[q].key \in Requests
      BY KeyInRequests DEF InputInv, TypeOK
    <2>2. lock[req[q].key] = q /\ ~db[req[q].key].consumed /\ db[req[q].key] # NoRow
      BY <2>1, AbsentAssumption DEF GrantInv, LockInv
    <2> QED
      BY <2>1, <2>2 DEF TypeOK
  <1>7. SpentInv'
    BY KeyInRequests DEF SpentInv, Honoured, TypeOK, Cleaning
  <1>8. HonouredOnce'
    BY DEF HonouredOnce, Honoured, TypeOK, Cleaning
  <1> QED
    BY <1>2, <1>3, <1>4, <1>5, <1>6, <1>7, <1>8

LEMMA CommitFailsStep ==
  ASSUME IndInv, NEW r \in Requests, CommitFails(r)
  PROVE  IndInv'
  <1> USE DEF IndInv, CommitFails, Released
  <1>1. TypeOK'
    BY AbsentAssumption DEF TypeOK, States, Finished
  <1>2. InputInv' /\ RowInv'
    BY DEF InputInv, RowInv, TypeOK
  <1>3. DraftInv'
    BY DEF DraftInv, TypeOK, Drafting, Cleaning
  <1>4. LockInv'
    BY DEF LockInv, TypeOK, Cleaning
  <1>5. GrantInv'
    BY KeyInRequests DEF GrantInv, InputInv, TypeOK
  <1>6. SpentInv' /\ HonouredOnce'
    BY DEF SpentInv, HonouredOnce, Honoured, TypeOK, Cleaning
  <1> QED
    BY <1>1, <1>2, <1>3, <1>4, <1>5, <1>6

LEMMA UserInfoStep ==
  ASSUME IndInv, NEW r \in Requests, FindToken(r) \/ CheckClient(r), ~Refuse(r)
  PROVE  IndInv'
  <1>1. PICK row \in Rows, state \in {"checkClient", "ok"} :
          /\ pc[r] \in {"findToken", "checkClient"} /\ Kind[r] = "userinfo"
          /\ pc' = [pc EXCEPT ![r] = state]
          /\ draft' = [draft EXCEPT ![r] = row]
          /\ UNCHANGED <<clock, registered, db, lock, req, now, todo>>
    <2>1. CASE FindToken(r)
      <3>1. req[r].key \in Requests /\ pc[r] = "findToken" /\ Kind[r] = "userinfo"
        BY <2>1, KeyInRequests DEF FindToken, IndInv, InputInv
      <3>2. db[req[r].key] \in Rows
        BY <2>1, <3>1 DEF FindToken, ValidToken, IndInv, TypeOK
      <3> QED
        BY <2>1, <3>1, <3>2 DEF FindToken
    <2>2. CASE CheckClient(r)
      <3>1. /\ draft[r] \in Rows /\ draft \in [Requests -> Rows \cup {NoRow}]
            /\ Kind[r] = "userinfo"
        BY <2>2 DEF CheckClient, IndInv, InputInv, DraftInv, TypeOK, Drafting
      <3>2. draft' = [draft EXCEPT ![r] = draft[r]]
        BY <2>2, <3>1 DEF CheckClient
      <3> QED
        BY <2>2, <3>1, <3>2 DEF CheckClient
    <2> QED
      BY <2>1, <2>2
  <1> USE <1>1 DEF IndInv
  <1>2. TypeOK'
    BY DEF TypeOK, States, Finished
  <1>3. InputInv' /\ DraftInv' /\ RowInv' /\ GrantInv'
    BY DEF InputInv, DraftInv, RowInv, GrantInv, TypeOK, Drafting, Cleaning
  <1>4. LockInv'
    BY DEF LockInv, TypeOK, Cleaning
  <1>5. SpentInv' /\ HonouredOnce'
    BY DEF SpentInv, HonouredOnce, Honoured, TypeOK, Cleaning
  <1> QED
    BY <1>2, <1>3, <1>4, <1>5

LEMMA RefusedOrNot ==
  ASSUME IndInv, NEW r \in Requests, Fail(r) \/ FindToken(r) \/ CheckClient(r)
  PROVE  IndInv'
  <1>1. pc[r] # "ok" /\ UNCHANGED <<clock, registered, db>>
    BY DEF Fail, FindToken, CheckClient, InProgress, Finished
  <1>2. CASE Refuse(r)
    BY <1>1, <1>2, RefuseStep
  <1>3. CASE ~Refuse(r)
    BY <1>3, UserInfoStep DEF Fail
  <1> QED
    BY <1>2, <1>3

LEMMA RestStep ==
  ASSUME IndInv, Tick \/ EnsureClients \/ UNCHANGED vars
  PROVE  IndInv'
  <1>1. UNCHANGED <<db, lock, pc, req, draft, now, todo>>
    BY DEF Tick, EnsureClients, vars
  <1>2. clock' \in 0..MaxClock /\ registered' \in Configurations
    BY TTLAssumption DEF Tick, EnsureClients, vars, IndInv, TypeOK
  <1>3. TypeOK'
    BY <1>1, <1>2 DEF IndInv, TypeOK
  <1>4. InputInv' /\ DraftInv' /\ RowInv' /\ LockInv' /\ GrantInv'
    BY <1>1 DEF IndInv, InputInv, DraftInv, RowInv, LockInv, GrantInv
  <1>5. SpentInv' /\ HonouredOnce'
    BY <1>1 DEF IndInv, SpentInv, HonouredOnce, Honoured
  <1> QED
    BY <1>3, <1>4, <1>5 DEF IndInv

LEMMA NextIndInv == IndInv /\ [Next]_vars => IndInv'
  <1> SUFFICES ASSUME IndInv, [Next]_vars PROVE IndInv'
    OBVIOUS
  <1>1. CASE Tick \/ EnsureClients \/ UNCHANGED vars
    BY <1>1, RestStep
  <1>2. CASE \E r \in Requests : Arrive(r) \/ Fail(r)
    BY <1>2, ArriveStep, RefusedOrNot
  <1>3. ASSUME NEW r \in Requests, Step(r) PROVE IndInv'
    BY <1>3, SelectGrantStep, UpdateGrantStep, CommitGrantStep, BeginCleanupStep,
       DeleteRowStep, NextDeleteStep, SaveStep, CommitStep,
       CommitFailsStep, RefusedOrNot DEF Step
  <1> QED
    BY <1>1, <1>2, <1>3 DEF Next

(* The inductive invariant holds in every reachable state: locks, drafts    *)
(* and control states of requests and the rows they stand for agree.       *)
THEOREM Invariance == Spec => []IndInv
  BY InitIndInv, NextIndInv, PTL DEF Spec

(* The state always has the declared shape. *)
THEOREM TypeCorrect == Spec => []TypeOK
  <1>1. IndInv => TypeOK
    BY DEF IndInv
  <1> QED
    BY <1>1, Invariance, PTL

(* Whatever the number of requests and their interleaving, an authorization *)
(* transaction or code is honoured for at most one of them.                 *)
THEOREM SingleRedemption == Spec => []HonouredOnce
  <1>1. IndInv => HonouredOnce
    BY DEF IndInv
  <1> QED
    BY <1>1, Invariance, PTL

(* No request waits for a lock its own HTTP transaction holds. *)
THEOREM NeverWaitsForItself == Spec => []NoSelfWait
  <1>1. IndInv => NoSelfWait
    BY AbsentAssumption DEF IndInv, LockInv, NoSelfWait, TypeOK, Cleaning
  <1> QED
    BY <1>1, Invariance, PTL
-----------------------------------------------------------------------------
(***************************************************************************)
(* Rows only age, and the flow implements the one-time contract SingleUse: *)
(* two facts about every step, from the invariant above.                   *)
(***************************************************************************)
(* Times read lie in the past, so what a cleanup has yet to visit, and     *)
(* what it has locked, is expired.                                         *)
AgeInv ==
  /\ \A r \in Requests : now[r] <= clock
  /\ \A r \in Requests : \A k \in todo[r] :
       pc[k] = "ok" /\ (db[k] # NoRow => db[k].exp <= clock)
  /\ \A k \in Requests :
       lock[k] # Free /\ pc[lock[k]] # "commitGrant" => db[k].exp <= clock

(* How one row may change in a step of request r. *)
Aged(k, r) ==
  \/ db'[k] = db[k]
  \/ /\ db[k] # NoRow /\ ~db[k].consumed /\ lock[k] = r
     /\ db'[k] = [db[k] EXCEPT !.consumed = TRUE]
  \/ db[k] # NoRow /\ db[k].exp <= clock /\ lock[k] = r /\ db'[k] = NoRow
  \/ k = r /\ pc[k] = "commit"

HonouredStates == {"ready", "save", "commit", "ok"} \cup Cleaning

(* What a step of request r does to the rest of the state. *)
Effect(r) ==
  /\ pc[r] \notin Finished
  /\ clock' = clock
  /\ \A q \in Requests : q # r =>
       pc'[q] = pc[q] /\ req'[q] = req[q] /\ now'[q] = now[q] /\ todo'[q] = todo[q]
  /\ pc'[r] \in HonouredStates =>
       /\ req'[r] = req[r]
       /\ pc[r] \in HonouredStates \cup {"commitGrant"} \/ Kind[r] \in {"authorize", "userinfo"}
  /\ now'[r] <= clock
  /\ \A k \in todo'[r] : k \in todo[r] \/ (db[k] # NoRow /\ db[k].exp <= clock)
  /\ \A k \in Requests : Aged(k, r)
  /\ \A k \in Requests :
       \/ lock'[k] \in {lock[k], Free}
       \/ lock'[k] = r /\ pc'[r] = "commitGrant"
       \/ lock'[k] = r /\ k \in todo[r] /\ db[k] # NoRow
  /\ pc[r] = "commitGrant" => \A k \in Requests : lock'[k] # r

LEMMA RefuseEffect ==
  ASSUME IndInv, AgeInv, NEW r \in Requests, Refuse(r), pc[r] \notin Finished,
         UNCHANGED clock, \A k \in Requests : Aged(k, r)
  PROVE  Effect(r)
  BY TTLAssumption, AbsentAssumption 
     DEF IndInv, TypeOK, Effect, HonouredStates, Cleaning, Refuse, Released

LEMMA ArriveEffect ==
  ASSUME IndInv, AgeInv, NEW r \in Requests, Arrive(r)
  PROVE  Effect(r)
  <1>1. pc[r] = "idle" /\ UNCHANGED <<clock, registered, db>>
    BY DEF Arrive, Authorize, ResumeAuthorization, Token, UserInfo
  <1>2. \A k \in Requests : Aged(k, r)
    BY <1>1 DEF Aged
  <1>3. CASE Refuse(r)
    BY <1>1, <1>2, <1>3, RefuseEffect DEF Finished
  <1>4. CASE ~Refuse(r)
    <2>1. /\ \/ Kind[r] = "authorize" /\ Goto(r, "ready") /\ UNCHANGED req
             \/ /\ \E state \in {"select", "findToken"} : Goto(r, state)
                /\ \E input \in Inputs : req' = [req EXCEPT ![r] = input]
          /\ now' = now \/ now' = [now EXCEPT ![r] = clock]
          /\ UNCHANGED <<lock, todo>>
      BY <1>4 DEF Arrive, Authorize, ResumeAuthorization, Token, UserInfo, Issue,
                  Present, Inputs, ResumeInputs, UserInfoInputs
    <2> QED
      BY <1>1, <1>2, <2>1, TTLAssumption
         DEF IndInv, TypeOK, AgeInv, Effect, HonouredStates, Cleaning, Finished
  <1> QED
    BY <1>3, <1>4

LEMMA CommitGrantEffect ==
  ASSUME IndInv, AgeInv, NEW r \in Requests, CommitGrant(r)
  PROVE  Effect(r)
  <1>1. req[r].key \in Requests /\ pc[r] = "commitGrant"
    BY KeyInRequests DEF CommitGrant, IndInv, InputInv
  <1>2. /\ db' = [db EXCEPT ![req[r].key] = [db[req[r].key] EXCEPT !.consumed = TRUE]]
        /\ db[req[r].key] # NoRow /\ ~db[req[r].key].consumed /\ lock[req[r].key] = r
    BY <1>1, AbsentAssumption DEF CommitGrant, IndInv, GrantInv, LockInv
  <1>3. \A k \in Requests : Aged(k, r)
    BY <1>1, <1>2 DEF Aged, IndInv, TypeOK
  <1>4. CASE Refuse(r)
    BY <1>1, <1>3, <1>4, RefuseEffect DEF CommitGrant, Finished
  <1>5. CASE ~Refuse(r)
    BY <1>1, <1>3, <1>5, AbsentAssumption
       DEF CommitGrant, Effect, HonouredStates, Cleaning, IndInv, TypeOK, AgeInv, Released, Finished
  <1> QED
    BY <1>4, <1>5

LEMMA SweepAges ==
  ASSUME IndInv, AgeInv, NEW r \in Requests, pc[r] = "commit",
         NEW k \in Requests, k # r,
         db'[k] = Swept(r)[k]
  PROVE  Aged(k, r)
  BY AbsentAssumption DEF Swept, Aged, AgeInv, IndInv, LockInv, TypeOK

(* Most steps leave the rows alone. *)
LEMMA QuietStepEffect ==
  ASSUME IndInv, AgeInv, NEW r \in Requests, UNCHANGED <<clock, db>>, ~Refuse(r),
         \/ SelectGrant(r) \/ UpdateGrant(r) \/ BeginCleanup(r) \/ DeleteRow(r)
         \/ NextDelete(r) \/ Save(r) \/ CommitFails(r) \/ FindToken(r) \/ CheckClient(r)
  PROVE  Effect(r)
  <1>1. \A k \in Requests : Aged(k, r)
    BY DEF Aged
  <1> USE <1>1 DEF Effect, HonouredStates, Cleaning, Finished, IndInv, TypeOK, InputInv, AgeInv
  <1>2. CASE SelectGrant(r) \/ FindToken(r) \/ CheckClient(r)
    BY <1>2 DEF SelectGrant, FindToken, CheckClient
  <1>3. CASE UpdateGrant(r)
    <2>1. req[r].key \in Requests
      BY <1>3, KeyInRequests DEF UpdateGrant, InputInv
    <2> QED
      BY <1>3, <2>1 DEF UpdateGrant
  <1>4. CASE BeginCleanup(r)
    BY <1>4, TTLAssumption DEF BeginCleanup, StartDelete, Expired
  <1>5. CASE DeleteRow(r)
    BY <1>5 DEF DeleteRow, Cleaning
  <1>6. CASE NextDelete(r)
    <2>1. /\ pc[r] \in Cleaning
          /\ \E state \in Cleaning \cup {"save"} : pc' = [pc EXCEPT ![r] = state]
          /\ \E rows \in SUBSET Requests : todo' = [todo EXCEPT ![r] = rows]
          /\ UNCHANGED <<lock, req, now>>
      BY <1>6 DEF NextDelete, StartDelete, Expired, Cleaning
    <2>2. \A k \in todo'[r] : k \in Requests /\ (k \in todo[r] \/ (db[k] # NoRow /\ db[k].exp <= now[r]))
      BY <1>6 DEF NextDelete, StartDelete, Expired
    <2>3. \A k \in todo'[r] : k \in todo[r] \/ (db[k] # NoRow /\ db[k].exp <= clock)
      BY <2>2, TTLAssumption DEF Rows
    <2> QED
      BY <2>1, <2>3
  <1>7. CASE Save(r) \/ CommitFails(r)
    BY <1>7 DEF Save, CommitFails, Released
  <1> QED
    BY <1>2, <1>3, <1>4, <1>5, <1>6, <1>7

LEMMA StepEffect ==
  ASSUME IndInv, AgeInv, NEW r \in Requests, Step(r) \/ Fail(r)
  PROVE  Effect(r)
  <1>1. CASE Refuse(r) /\ UNCHANGED <<clock, registered, db>>
    <2>1. pc[r] \notin Finished
      BY DEF Step, SelectGrant, UpdateGrant, CommitGrant, BeginCleanup, DeleteRow,
             NextDelete, Save, Commit, CommitFails, FindToken,
             CheckClient, Fail, InProgress, Finished, Cleaning
    <2>2. \A k \in Requests : Aged(k, r)
      BY <1>1 DEF Aged
    <2> QED
      BY <1>1, <2>1, <2>2, RefuseEffect
  <1>2. CASE Commit(r)
    <2>1. \A k \in Requests : Aged(k, r)
      <3> SUFFICES ASSUME NEW k \in Requests PROVE Aged(k, r)
        OBVIOUS
      <3>1. CASE k = r
        BY <1>2, <3>1 DEF Commit, Aged
      <3>2. CASE k # r
        BY <1>2, <3>2, SweepAges DEF Commit, Swept
      <3> QED
        BY <3>1, <3>2
    <2> QED
      BY <1>2, <2>1, AbsentAssumption
         DEF Commit, Effect, HonouredStates, Cleaning, IndInv, TypeOK, AgeInv,
             Finished, Released
  <1> QED
    BY <1>1, <1>2, CommitGrantEffect, QuietStepEffect
       DEF Step, Fail, SelectGrant, UpdateGrant, BeginCleanup, DeleteRow, NextDelete,
           Save, CommitFails, FindToken, CheckClient

LEMMA InitAgeInv == Init => AgeInv
  BY DEF Init, AgeInv

LEMMA NextAgeInv ==
  ASSUME IndInv, AgeInv, [Next]_vars, IndInv'
  PROVE  AgeInv'
  <1>1. CASE Tick \/ EnsureClients \/ UNCHANGED vars
    <2>1. /\ UNCHANGED <<db, lock, pc, now, todo>>
          /\ clock \in Nat /\ clock' \in Nat /\ clock <= clock'
      BY <1>1, TTLAssumption DEF Tick, EnsureClients, vars, IndInv, TypeOK
    <2>2. \A k \in Requests : db[k] # NoRow => db[k].exp \in Nat
      BY DEF IndInv, TypeOK, Rows
    <2> QED
      BY <2>1, <2>2 DEF AgeInv, IndInv, LockInv, TypeOK
  <1>2. CASE \E r \in Requests : Effect(r)
    <2>1. PICK r \in Requests : Effect(r)
      BY <1>2
    <2>2. /\ clock \in Nat /\ clock' = clock
          /\ \A k \in Requests : Aged(k, r)
          /\ \A k \in Requests : db[k] # NoRow => db[k] \in Rows
      BY <2>1, TTLAssumption DEF Effect, IndInv, TypeOK
    <2>3. \A q \in Requests : now'[q] <= clock'
      BY <2>1 DEF Effect, AgeInv
    <2>4. \A k \in Requests : pc[k] = "ok" => pc'[k] = "ok"
      BY <2>1 DEF Effect, Finished
    <2>5. \A k \in Requests :
            pc[k] = "ok" /\ (db[k] # NoRow => db[k].exp <= clock) =>
              (db'[k] # NoRow => db'[k].exp <= clock')
      BY <2>2 DEF Aged, Rows
    <2>6. \A q \in Requests : \A k \in todo'[q] :
            /\ k \in Requests /\ pc[k] = "ok"
            /\ db[k] # NoRow => db[k].exp <= clock
      BY <2>1 DEF Effect, AgeInv, IndInv, TypeOK, RowInv
    <2>7. \A k \in Requests :
            lock'[k] # Free /\ pc'[lock'[k]] # "commitGrant" => db'[k].exp <= clock'
      <3> SUFFICES ASSUME NEW k \in Requests, lock'[k] # Free,
                          pc'[lock'[k]] # "commitGrant"
                   PROVE  db'[k].exp <= clock'
        OBVIOUS
      <3>1. db'[k] # NoRow /\ lock'[k] \in Requests
        BY DEF IndInv, LockInv, TypeOK
      <3>2. CASE lock'[k] = r /\ k \in todo[r] /\ db[k] # NoRow
        BY <2>5, <3>1, <3>2 DEF AgeInv, IndInv, RowInv
      <3>3. CASE lock'[k] = lock[k]
        <4>1. db[k] # NoRow /\ pc[k] = "ok"
          BY <3>3 DEF IndInv, LockInv, RowInv
        <4>2. pc[lock[k]] # "commitGrant"
          BY <2>1, <3>1, <3>3 DEF Effect
        <4> QED
          BY <2>5, <3>1, <3>3, <4>1, <4>2 DEF AgeInv
      <3> QED
        BY <2>1, <3>2, <3>3 DEF Effect
    <2> QED
      BY <2>3, <2>4, <2>5, <2>6, <2>7 DEF AgeInv
  <1> QED
    BY <1>1, <1>2, ArriveEffect, StepEffect DEF Next

LEMMA Ageing == Spec => [](IndInv /\ AgeInv)
  BY InitIndInv, InitAgeInv, NextIndInv, NextAgeInv, Invariance, PTL DEF Spec

(* No step un-consumes a grant, changes what a row says, or removes a row  *)
(* that has not expired.                                                   *)
THEOREM RowsAge == Spec => RowsOnlyAge
  <1>1. ASSUME IndInv, AgeInv, [Next]_vars, NEW k \in Requests, db[k] # NoRow
        PROVE  \/ db'[k] = db[k]
               \/ db'[k] = [db[k] EXCEPT !.consumed = TRUE] /\ ~db[k].consumed
               \/ db'[k] = NoRow /\ db[k].exp <= clock
    <2>1. CASE Tick \/ EnsureClients \/ UNCHANGED vars
      BY <2>1 DEF Tick, EnsureClients, vars
    <2>2. CASE \E r \in Requests : Effect(r)
      BY <1>1, <2>2 DEF Effect, Aged, IndInv, RowInv
    <2> QED
      BY <1>1, <2>1, <2>2, ArriveEffect, StepEffect DEF Next
  <1>2. IndInv /\ AgeInv /\ [Next]_vars =>
          [\A k \in Requests : db[k] # NoRow =>
             \/ db'[k] = db[k]
             \/ db'[k] = [db[k] EXCEPT !.consumed = TRUE] /\ ~db[k].consumed
             \/ db'[k] = NoRow /\ db[k].exp <= clock]_vars
    BY <1>1
  <1> QED
    BY <1>2, Ageing, PTL DEF Spec, RowsOnlyAge

(***************************************************************************)
(* The refinement                                                          *)
(***************************************************************************)
BeneficiaryInv ==
  \A k \in Requests :
    /\ Beneficiary[k] \in Requests \cup {Free}
    /\ \A q \in Requests : Honoured(q) /\ req[q].key = k => Beneficiary[k] = q
    /\ Beneficiary[k] # Free => Honoured(Beneficiary[k]) /\ req[Beneficiary[k]].key = k

LEMMA BeneficiaryIsTheHonoured == IndInv => BeneficiaryInv
  <1> SUFFICES ASSUME IndInv, NEW k \in Requests
               PROVE  /\ Beneficiary[k] \in Requests \cup {Free}
                      /\ \A q \in Requests : Honoured(q) /\ req[q].key = k => Beneficiary[k] = q
                      /\ Beneficiary[k] # Free =>
                           Honoured(Beneficiary[k]) /\ req[Beneficiary[k]].key = k
    BY DEF BeneficiaryInv
  <1> DEFINE H(q) == Honoured(q) /\ req[q].key = k
  <1>1. Beneficiary[k] = IF \E q \in Requests : H(q) THEN CHOOSE q \in Requests : H(q) ELSE Free
    BY DEF Beneficiary
  <1>2. \A p, q \in Requests : H(p) /\ H(q) => p = q
    BY DEF IndInv, HonouredOnce
  <1> HIDE DEF H
  <1>3. /\ Beneficiary[k] \in Requests \cup {Free}
        /\ \A q \in Requests : H(q) => Beneficiary[k] = q
        /\ Beneficiary[k] # Free => H(Beneficiary[k])
    BY <1>1, <1>2
  <1> QED
    BY <1>3 DEF H

(* Who is honoured after a step was so before it, or redeems in it. *)
LEMMA HonouredChange ==
  ASSUME IndInv, NEW r \in Requests, Effect(r), NEW q \in Requests, Honoured(q)'
  PROVE  /\ req'[q] = req[q]
         /\ Honoured(q) \/ (q = r /\ pc[r] = "commitGrant")
  BY DEF Effect, HonouredStates, Honoured

LEMMA StatusChange ==
  ASSUME IndInv, NEW r \in Requests, Effect(r), NEW k \in Requests
  PROVE  /\ Status[k] \in Contract!Statuses /\ Status'[k] \in Contract!Statuses
         /\ Status[k] = "dead" => Status'[k] = "dead"
         /\ Status[k] = "live" => Status'[k] # "unissued"
  <1>1. pc[k] = "ok" => pc'[k] = "ok"
    BY DEF Effect, Finished
  <1>2. pc[k] = "ok" => Aged(k, r) /\ pc[k] # "commit"
    BY DEF Effect
  <1>3. db[k] # NoRow => db[k] \in Rows
    BY DEF IndInv, TypeOK
  <1> QED
    BY <1>1, <1>2, <1>3 DEF Status, Aged, Contract!Statuses, Rows

(* The commit of a grant's own transaction is the redemption; every other  *)
(* step at most renews: issues, expires and forgets.                       *)
LEMMA EffectRefines ==
  ASSUME IndInv, IndInv', NEW r \in Requests, Effect(r), BeneficiaryInv, BeneficiaryInv',
         pc[r] = "commitGrant" /\ Honoured(r)' => CommitGrant(r)
  PROVE  Contract!Next
  <1>1. /\ Status = [k \in Requests |-> Status[k]]
        /\ Status' = [k \in Requests |-> Status'[k]]
        /\ Beneficiary = [k \in Requests |-> Beneficiary[k]]
        /\ Beneficiary' = [k \in Requests |-> Beneficiary'[k]]
    BY DEF Status, Beneficiary
  <1>2. CASE pc[r] = "commitGrant" /\ Honoured(r)'
    <2> DEFINE g == req[r].key
    <2>1. g \in Requests /\ req'[r] = req[r] /\ CommitGrant(r)
      BY <1>2, KeyInRequests, HonouredChange DEF IndInv, InputInv
    <2>2. /\ lock[g] = r /\ db[g] # NoRow /\ db[g] \in Rows /\ ~db[g].consumed /\ pc[g] = "ok"
      BY <1>2, <2>1, AbsentAssumption DEF IndInv, GrantInv, LockInv, RowInv, TypeOK
    <2>3. /\ db' = [db EXCEPT ![g] = [db[g] EXCEPT !.consumed = TRUE]]
          /\ [db[g] EXCEPT !.consumed = TRUE].consumed
      BY <2>1, <2>2 DEF CommitGrant, Rows
    <2>4. pc' = [pc EXCEPT ![r] = "ready"]
      BY <1>2, <2>1 DEF CommitGrant, Honoured, IndInv, TypeOK, Refuse, Cleaning
    <2>5. Status[g] = "live" /\ Status'[g] = "dead"
      BY <2>1, <2>2, <2>3, <2>4, <1>2 DEF Status, IndInv, TypeOK
    <2>6. \A k \in Requests : k # g => Status'[k] = Status[k]
      BY <1>2, <2>1, <2>3, <2>4 DEF Status, IndInv, TypeOK
    <2>7. Beneficiary'[g] = r
      BY <1>2, <2>1 DEF BeneficiaryInv
    <2>8. \A k \in Requests : k # g => Beneficiary'[k] = Beneficiary[k]
      <3> SUFFICES ASSUME NEW k \in Requests, k # g
                   PROVE  Beneficiary'[k] = Beneficiary[k]
        OBVIOUS
      <3>1. \A q \in Requests : Honoured(q) /\ q # r => Honoured(q)' /\ req'[q] = req[q]
        BY DEF Effect, Honoured
      <3>2. ~Honoured(r)
        BY <1>2 DEF Honoured, Cleaning
      <3>3. CASE Beneficiary[k] # Free
        BY <3>1, <3>2, <3>3 DEF BeneficiaryInv
      <3>4. CASE Beneficiary'[k] # Free
        BY <2>1, <3>4, HonouredChange DEF BeneficiaryInv
      <3> QED
        BY <3>3, <3>4
    <2>9. Contract!Redeem(g, r)
      BY <1>1, <2>1, <2>5, <2>6, <2>7, <2>8 DEF Contract!Redeem
    <2> QED
      BY <2>1, <2>9 DEF Contract!Next
  <1>3. CASE ~(pc[r] = "commitGrant" /\ Honoured(r)')
    <2>1. \A k \in Requests : Beneficiary'[k] \in {Beneficiary[k], Free}
      BY <1>3, HonouredChange DEF BeneficiaryInv
    <2>2. Status' \in [Requests -> Contract!Statuses]
      BY <1>1, StatusChange
    <2>3. Beneficiary' \in [Requests -> Requests \cup {Free}]
      BY <1>1 DEF BeneficiaryInv
    <2> QED
      BY <2>1, <2>2, <2>3, StatusChange DEF Contract!Next, Contract!Renew
  <1> QED
    BY <1>2, <1>3

(* Concurrent redemption through SELECT, conditional UPDATE and commit     *)
(* implements the atomic one-time contract.                                *)
THEOREM Refinement == Spec => ImplementsSingleUse
  <1>1. Init => Contract!Init
    BY DEF Init, Contract!Init, Status, Beneficiary, Honoured, Cleaning
  <1>2. ASSUME IndInv, IndInv', AgeInv, BeneficiaryInv, BeneficiaryInv', [Next]_vars
        PROVE  Contract!Next \/ UNCHANGED Contract!vars
    <2>1. CASE Tick \/ EnsureClients \/ UNCHANGED vars
      BY <2>1 DEF Tick, EnsureClients, vars, Contract!vars, Status, Beneficiary, Honoured
    <2>2. ASSUME NEW r \in Requests, Arrive(r) \/ Step(r) \/ Fail(r)
          PROVE  Contract!Next \/ UNCHANGED Contract!vars
      <3>1. Effect(r)
        BY <1>2, <2>2, ArriveEffect, StepEffect
      <3>2. ASSUME pc[r] = "commitGrant", ~CommitGrant(r) PROVE ~Honoured(r)'
        <4>1. Refuse(r)
          BY <2>2, <3>2 DEF Arrive, Authorize, ResumeAuthorization, Token, UserInfo, Step,
             SelectGrant, UpdateGrant, BeginCleanup, DeleteRow, NextDelete, Save,
             Commit, CommitFails, FindToken, CheckClient, Fail, Cleaning
        <4> QED
          BY <1>2, <4>1 DEF Refuse, Honoured, IndInv, TypeOK, Cleaning
      <3> QED
        BY <1>2, <3>1, <3>2, EffectRefines
    <2> QED
      BY <1>2, <2>1, <2>2 DEF Next
  <1>3. (IndInv => BeneficiaryInv) /\ (IndInv' => BeneficiaryInv')
    BY BeneficiaryIsTheHonoured, PTL
  <1>4. (IndInv /\ AgeInv) /\ (IndInv /\ AgeInv)' /\ [Next]_vars => [Contract!Next]_(Contract!vars)
    BY <1>2, <1>3
  <1> QED
    BY <1>1, <1>4, Ageing, PTL DEF Spec, ImplementsSingleUse, Contract!Spec
-----------------------------------------------------------------------------
(***************************************************************************)
(* Who can be part of a deadlock.  A DELETE never meets a row its own      *)
(* transaction has locked: the three DELETEs of a cleanup are about        *)
(* different tables, and it begins with no lock in its hands.              *)
(***************************************************************************)
OrderInv ==
  /\ \A r \in Requests : todo[r] # {} => pc[r] \in Cleaning
  /\ \A r \in Requests : \A k \in todo[r] :
       /\ lock[k] # r
       /\ pc[r] = "cleanTokens" /\ db[k] # NoRow => db[k].table = "token"
       /\ pc[r] = "cleanCodes" /\ db[k] # NoRow => db[k].table = "code"
  /\ \A k \in Requests : lock[k] # Free =>
       /\ pc[lock[k]] = "cleanTokens" => db[k].table = "token"
       /\ pc[lock[k]] = "cleanCodes" => db[k].table # "transaction"

(* What OrderInv says of requests other than the one that takes the step. *)
LEMMA OthersOrdered ==
  ASSUME IndInv, IndInv', AgeInv, OrderInv, NEW r \in Requests, Effect(r),
         NEW q \in Requests, q # r
  PROVE  /\ todo'[q] # {} => pc'[q] \in Cleaning
         /\ \A k \in todo'[q] :
              /\ lock'[k] # q
              /\ pc'[q] = "cleanTokens" /\ db'[k] # NoRow => db'[k].table = "token"
              /\ pc'[q] = "cleanCodes" /\ db'[k] # NoRow => db'[k].table = "code"
         /\ \A k \in Requests : lock'[k] = q =>
              /\ pc'[q] = "cleanTokens" => db'[k].table = "token"
              /\ pc'[q] = "cleanCodes" => db'[k].table # "transaction"
<1>1. pc'[q] = pc[q] /\ todo'[q] = todo[q] /\ q # Free
  BY AbsentAssumption DEF Effect
<1>2. \A k \in Requests : lock'[k] = q => lock[k] = q
  BY <1>1 DEF Effect
<1>3. ASSUME NEW k \in todo[q]
      PROVE  /\ k \in Requests /\ lock'[k] # q
             /\ db'[k] # NoRow => db[k] # NoRow /\ db'[k].table = db[k].table
  <2>1. k \in Requests /\ pc[k] = "ok" /\ lock[k] # q
    BY DEF IndInv, TypeOK, AgeInv, OrderInv
  <2>2. Aged(k, r) /\ (db[k] # NoRow => db[k] \in Rows)
    BY <2>1 DEF Effect, IndInv, TypeOK
  <2>3. db[k] # NoRow => [db[k] EXCEPT !.consumed = TRUE].table = db[k].table
    BY <2>2 DEF Rows
  <2>4. db'[k] # NoRow => db[k] # NoRow /\ db'[k].table = db[k].table
    BY <2>1, <2>2, <2>3 DEF Aged
  <2> QED
    BY <1>2, <2>1, <2>4
<1>4. ASSUME NEW k \in Requests, lock[k] = q PROVE db'[k] = db[k]
  <2>1. db[k] # NoRow /\ pc[k] = "ok"
    BY <1>1, <1>4 DEF IndInv, LockInv, RowInv
  <2>2. Aged(k, r)
    BY DEF Effect
  <2> QED
    BY <1>4, <2>1, <2>2 DEF Aged
<1> QED
  BY <1>1, <1>2, <1>3, <1>4 DEF OrderInv

(* The same of the request itself, for the steps that are no part of a     *)
(* cleanup, or end it.                                                     *)
LEMMA OutsideCleanup ==
  ASSUME IndInv, IndInv', OrderInv, NEW r \in Requests,
         Arrive(r) \/ Step(r) \/ Fail(r),
         ~DeleteRow(r), ~NextDelete(r), ~BeginCleanup(r)
  PROVE  todo'[r] = {} /\ pc'[r] \notin Cleaning
<1> USE DEF IndInv, TypeOK, Cleaning
<1>1. CASE Refuse(r)
  BY <1>1 DEF Refuse
<1>2. CASE ~Refuse(r)
  <2>1. todo'[r] = todo[r] /\ pc[r] \notin Cleaning
    BY <1>2 DEF Arrive, Authorize, ResumeAuthorization, Token, UserInfo, Issue, Present, Step,
       SelectGrant, UpdateGrant, CommitGrant, Save, Commit, CommitFails, FindToken,
       CheckClient, Fail
  <2>2. pc'[r] \notin Cleaning
    BY <1>2 DEF Arrive, Authorize, ResumeAuthorization, Token, UserInfo, Issue, Present, Step,
       SelectGrant, UpdateGrant, CommitGrant, Save, Commit, CommitFails, FindToken,
       CheckClient, Fail
  <2> QED
    BY <2>1, <2>2 DEF OrderInv
<1> QED
  BY <1>1, <1>2

(* And for those of a cleanup. *)
LEMMA InCleanup ==
  ASSUME IndInv, OrderInv, NEW r \in Requests,
         BeginCleanup(r) \/ DeleteRow(r) \/ NextDelete(r)
  PROVE  /\ UNCHANGED db
         /\ todo'[r] # {} => pc'[r] \in Cleaning
         /\ \A k \in todo'[r] :
              /\ lock'[k] # r
              /\ pc'[r] = "cleanTokens" /\ db[k] # NoRow => db[k].table = "token"
              /\ pc'[r] = "cleanCodes" /\ db[k] # NoRow => db[k].table = "code"
         /\ \A k \in Requests : lock'[k] = r =>
              /\ pc'[r] = "cleanTokens" => db[k].table = "token"
              /\ pc'[r] = "cleanCodes" => db[k].table # "transaction"
<1>1. CASE BeginCleanup(r)
  <2>1. /\ UNCHANGED <<db, lock>> /\ pc[r] = "ready" /\ pc'[r] = "cleanTokens"
        /\ todo'[r] = Expired("token", clock)
    BY <1>1 DEF BeginCleanup, StartDelete, IndInv, TypeOK
  <2>2. \A k \in Requests : lock[k] # r
    BY <2>1, AbsentAssumption DEF IndInv, LockInv, Cleaning
  <2> QED
    BY <2>1, <2>2 DEF Expired, Cleaning
<1>2. CASE DeleteRow(r)
  <2>1. PICK k \in todo[r] :
          /\ lock' = [lock EXCEPT ![k] = IF db[k] = NoRow THEN Free ELSE r]
          /\ todo' = [todo EXCEPT ![r] = @ \ {k}]
    BY <1>2 DEF DeleteRow
  <2>2. k \in Requests /\ pc[r] \in Cleaning /\ UNCHANGED <<pc, db>> /\ todo[r] \subseteq Requests
    BY <1>2 DEF DeleteRow, IndInv, TypeOK
  <2>3. todo'[r] = todo[r] \ {k}
    BY <2>1 DEF IndInv, TypeOK
  <2>4. /\ \A j \in Requests : j # k => lock'[j] = lock[j]
        /\ lock'[k] = r => db[k] # NoRow
    BY <2>1, <2>2, AbsentAssumption DEF IndInv, TypeOK
  <2> QED
    BY <2>2, <2>3, <2>4, AbsentAssumption DEF OrderInv
<1>3. CASE NextDelete(r)
  <2>1. UNCHANGED <<db, lock>> /\ todo[r] = {}
    BY <1>3 DEF NextDelete
  <2>2. CASE pc[r] = "cleanTokens"
    <3>1. pc'[r] = "cleanCodes" /\ todo'[r] = Expired("code", now[r])
      BY <1>3, <2>2 DEF NextDelete, StartDelete, IndInv, TypeOK
    <3>2. \A k \in Requests : lock[k] = r => db[k].table = "token"
      BY <2>2, AbsentAssumption DEF OrderInv
    <3> QED
      BY <2>1, <3>1, <3>2 DEF Expired, Cleaning
  <2>3. CASE pc[r] = "cleanCodes"
    <3>1. pc'[r] = "cleanTransactions" /\ todo'[r] = Expired("transaction", now[r])
      BY <1>3, <2>3 DEF NextDelete, StartDelete, IndInv, TypeOK
    <3>2. \A k \in Requests : lock[k] = r => db[k].table # "transaction"
      BY <2>3, AbsentAssumption DEF OrderInv
    <3> QED
      BY <2>1, <3>1, <3>2 DEF Expired, Cleaning
  <2>4. CASE pc[r] = "cleanTransactions"
    <3>1. pc'[r] = "save" /\ todo'[r] = {}
      BY <1>3, <2>1, <2>4 DEF NextDelete, IndInv, TypeOK
    <3> QED
      BY <2>1, <3>1
  <2> QED
    BY <1>3, <2>2, <2>3, <2>4 DEF NextDelete, Cleaning
<1> QED
  BY <1>1, <1>2, <1>3

LEMMA NextOrderInv ==
  ASSUME IndInv, IndInv', AgeInv, OrderInv, [Next]_vars
  PROVE  OrderInv'
<1>1. CASE Tick \/ EnsureClients \/ UNCHANGED vars
  BY <1>1 DEF Tick, EnsureClients, vars, OrderInv
<1>2. ASSUME NEW r \in Requests, Arrive(r) \/ Step(r) \/ Fail(r) PROVE OrderInv'
  <2>1. Effect(r)
    BY <1>2, ArriveEffect, StepEffect
  <2>2. /\ todo'[r] # {} => pc'[r] \in Cleaning
        /\ \A k \in todo'[r] :
              /\ lock'[k] # r
              /\ pc'[r] = "cleanTokens" /\ db'[k] # NoRow => db'[k].table = "token"
              /\ pc'[r] = "cleanCodes" /\ db'[k] # NoRow => db'[k].table = "code"
        /\ \A k \in Requests : lock'[k] = r =>
              /\ pc'[r] = "cleanTokens" => db'[k].table = "token"
              /\ pc'[r] = "cleanCodes" => db'[k].table # "transaction"
    <3>1. CASE BeginCleanup(r) \/ DeleteRow(r) \/ NextDelete(r)
      BY <3>1, InCleanup
    <3>2. CASE ~(BeginCleanup(r) \/ DeleteRow(r) \/ NextDelete(r))
      BY <1>2, <3>2, OutsideCleanup DEF Cleaning
    <3> QED
      BY <3>1, <3>2
  <2>3. \A k \in Requests : lock'[k] # Free => lock'[k] \in Requests
    BY DEF IndInv, TypeOK
  <2> QED
    BY <2>1, <2>2, <2>3, OthersOrdered DEF OrderInv
<1> QED
  BY <1>1, <1>2 DEF Next

LEMMA Ordered == Spec => [](IndInv /\ OrderInv)
<1>1. Init => OrderInv
  BY DEF Init, OrderInv
<1>2. (IndInv /\ AgeInv) /\ (IndInv /\ AgeInv)' /\ OrderInv /\ [Next]_vars => OrderInv'
  BY NextOrderInv
<1> QED
  BY <1>1, <1>2, Ageing, PTL DEF Spec

(* Whoever is waited for and waits as well is cleaning up. *)
LEMMA WaitedForWaits ==
  ASSUME IndInv, OrderInv, NEW d \in Requests, NEW h \in Requests,
         h \in WaitsFor(d), WaitsFor(h) # {Free}, WaitsFor(h) # {}
  PROVE  pc[h] \in Cleaning
<1>1. PICK k \in Requests : lock[k] = h
  <2>1. pc[d] = "update" => req[d].key \in Requests
    BY KeyInRequests, KindAssumption DEF IndInv, InputInv
  <2>2. todo[d] \subseteq Requests
    BY DEF IndInv, TypeOK
  <2> QED
    BY <2>1, <2>2 DEF WaitsFor
<1>2. pc[h] \in Cleaning \cup {"commitGrant", "save", "commit"}
  BY <1>1, AbsentAssumption DEF IndInv, LockInv
<1>3. pc[h] # "update"
  BY <1>2 DEF Cleaning
<1>4. todo[h] # {}
  BY <1>3 DEF WaitsFor
<1> QED
  BY <1>4 DEF OrderInv

(* A cleanup never waits for itself. *)
LEMMA CleanupWaitsForOthers ==
  ASSUME IndInv, OrderInv, NEW h \in Requests, pc[h] \in Cleaning
  PROVE  h \notin WaitsFor(h)
  BY DEF WaitsFor, OrderInv, Cleaning

(* Whatever circle of waits there is, two cleanups are part of it: without *)
(* expired rows to delete, requests never deadlock, and the redemption of  *)
(* a grant never causes one.                                               *)
THEOREM OnlyCleanupsDeadlock == Spec => []DeadlockTakesTwoCleanups
<1>1. ASSUME IndInv, OrderInv, NEW D \in SUBSET Requests, D # {},
             \A d \in D : WaitsFor(d) \cap D # {}
      PROVE  \E r1, r2 \in D : r1 # r2 /\ pc[r1] \in Cleaning /\ pc[r2] \in Cleaning
  <2>1. ASSUME NEW d \in D PROVE \E h \in D : h \in WaitsFor(d) /\ pc[h] \in Cleaning
    <3>1. PICK h \in D : h \in WaitsFor(d)
      BY <1>1
    <3>2. WaitsFor(h) # {} /\ WaitsFor(h) # {Free}
      BY <1>1, AbsentAssumption
    <3> QED
      BY <1>1, <3>1, <3>2, WaitedForWaits
  <2>2. PICK d \in D : TRUE
    BY <1>1
  <2>3. PICK h \in D : pc[h] \in Cleaning
    BY <2>1
  <2>4. PICK g \in D : g \in WaitsFor(h) /\ pc[g] \in Cleaning
    BY <2>1
  <2>5. g # h
    BY <1>1, <2>3, <2>4, CleanupWaitsForOthers
  <2> QED
    BY <2>3, <2>4, <2>5
<1>2. IndInv /\ OrderInv => DeadlockTakesTwoCleanups
  BY <1>1 DEF DeadlockTakesTwoCleanups
<1> QED
  BY <1>2, Ordered, PTL

(* As long as any request is being served, one of them finds all it needs  *)
(* free - unless two cleanups are stuck, and PostgreSQL aborts one.        *)
THEOREM OnlyCleanupsGetStuck ==
  Spec => []((\E r \in Requests : InProgress(r)) =>
               \/ \E r \in Requests : InProgress(r) /\ ~Blocked(r)
               \/ \E r1, r2 \in Requests : /\ r1 # r2 /\ Blocked(r1) /\ Blocked(r2)
                                           /\ pc[r1] \in Cleaning /\ pc[r2] \in Cleaning)
<1>1. ASSUME IndInv, NEW d \in Requests, Blocked(d)
      PROVE  \E h \in Requests : h \in WaitsFor(d) /\ InProgress(h)
  <2>1. PICK k \in Requests : lock[k] # Free /\ lock[k] \in WaitsFor(d)
    <3>1. CASE pc[d] = "update"
      <4>1. req[d].key \in Requests
        BY <1>1, <3>1, KeyInRequests, KindAssumption DEF IndInv, InputInv
      <4> QED
        BY <1>1, <3>1, <4>1 DEF Blocked, WaitsFor, Cleaning
    <3>2. CASE pc[d] # "update"
      BY <1>1, <3>2 DEF Blocked, WaitsFor, IndInv, TypeOK
    <3> QED
      BY <3>1, <3>2
  <2>2. lock[k] \in Requests
    BY <1>1, <2>1 DEF IndInv, TypeOK
  <2>3. InProgress(lock[k])
    BY <1>1, <2>1 DEF IndInv, LockInv, InProgress, Finished, Cleaning
  <2> QED
    BY <2>1, <2>2, <2>3
<1>2. ASSUME IndInv, DeadlockTakesTwoCleanups, NEW q \in Requests, InProgress(q),
             \A r \in Requests : InProgress(r) => Blocked(r)
      PROVE  \E r1, r2 \in Requests : /\ r1 # r2 /\ Blocked(r1) /\ Blocked(r2)
                                      /\ pc[r1] \in Cleaning /\ pc[r2] \in Cleaning
  <2> DEFINE D == {r \in Requests : InProgress(r)}
  <2>1. D \in SUBSET Requests /\ D # {} /\ \A d \in D : Blocked(d)
    BY <1>2
  <2>2. \A d \in D : WaitsFor(d) \cap D # {}
    BY <1>1, <1>2
  <2> HIDE DEF D
  <2>3. PICK r1 \in D, r2 \in D : r1 # r2 /\ pc[r1] \in Cleaning /\ pc[r2] \in Cleaning
    BY <1>2, <2>1, <2>2 DEF DeadlockTakesTwoCleanups
  <2> QED
    BY <2>1, <2>3
<1>3. IndInv /\ DeadlockTakesTwoCleanups =>
        ((\E r \in Requests : InProgress(r)) =>
           \/ \E r \in Requests : InProgress(r) /\ ~Blocked(r)
           \/ \E r1, r2 \in Requests : /\ r1 # r2 /\ Blocked(r1) /\ Blocked(r2)
                                       /\ pc[r1] \in Cleaning /\ pc[r2] \in Cleaning)
  BY <1>2
<1> QED
  BY <1>3, Invariance, OnlyCleanupsDeadlock, PTL
=============================================================================
