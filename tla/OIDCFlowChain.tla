---------------------------- MODULE OIDCFlowChain ----------------------------
(***************************************************************************)
(* Proofs that OIDCFlow hands access on along an unbroken chain, for any   *)
(* number of requests: /authorize, perhaps /authorize/resume, /token,      *)
(* /userinfo.  The invariant ties each request to the one whose secret it  *)
(* presented; IndInv of OIDCFlowProofs is used, not proved again.          *)
(***************************************************************************)
EXTENDS OIDCFlowProofs

USE DEF Goto

Writing == {"ready", "save", "commit"} \cup Cleaning

Grounded(row) ==
  \E config \in Configurations :
    row.client \in DOMAIN config /\ row.uri \in config[row.client]

(* What r is going to insert stems from the grant it presented, ... *)
Redeems(r) ==
  LET q == req[r].key
  IN /\ pc[q] = "ok" /\ draft[r] \in Rows
     /\ SameGrant(draft[r], draft[q])
     /\ Kind[r] = "resume" =>
          /\ draft[q].table = "transaction" /\ draft[r].table = "code"
          /\ draft[r].account = req[r].account
     /\ Kind[r] = "token" =>
          /\ draft[q].table = "code" /\ draft[r].table = "token"
          /\ draft[r].account = draft[q].account
          /\ draft[q].client = req[r].client /\ draft[q].uri = req[r].uri

(* ... what r answers about is the token it presented, still alive then. *)
Reads(r) ==
  LET t == req[r].key
  IN /\ pc[t] = "ok" /\ Kind[t] = "token"
     /\ draft[r] = draft[t] /\ now[r] < draft[t].exp

Linked(r) ==
  /\ pc[r] = "ok" => draft[r] \in Rows
  /\ pc[r] \in Writing => Kind[r] # "userinfo"
  /\ Kind[r] = "authorize" /\ pc[r] \in Writing \cup {"ok"} =>
       Grounded(draft[r]) /\ draft[r].table \in {"transaction", "code"}
  /\ Kind[r] \in {"resume", "token"}
     /\ pc[r] \in Writing \cup {"update", "commitGrant", "ok"} => Redeems(r)
  /\ Kind[r] = "token" /\ pc[r] \in Writing \cup {"ok"} =>
       req[r].verifier = draft[r].challenge
  /\ Kind[r] = "userinfo" /\ pc[r] \in {"checkClient", "ok"} => Reads(r)

(* A stored row is what its request drafted; only grants get consumed. *)
Stored(k) ==
  db[k] # NoRow =>
    /\ Kind[k] # "userinfo"
    /\ SameGrant(db[k], draft[k])
    /\ db[k].table = draft[k].table /\ db[k].account = draft[k].account
    /\ db[k].table = "token" => db[k] = draft[k]

ChainInv == \A r \in Requests : Linked(r) /\ Stored(r)

(* The step is one of r, which has not been answered yet. *)
Frame(r) ==
  /\ pc[r] # "ok"
  /\ \A q \in Requests \ {r} :
       /\ pc'[q] = pc[q] /\ req'[q] = req[q]
       /\ draft'[q] = draft[q] /\ now'[q] = now[q]

-----------------------------------------------------------------------------
LEMMA InitChainInv == Init => ChainInv
  BY DEF Init, ChainInv, Linked, Stored, Writing, Cleaning

(* Everyone else's link holds on: the request it leads to was answered, so *)
(* it is not the one that takes the step.                                  *)
LEMMA OthersLinked ==
  ASSUME IndInv, ChainInv, NEW r \in Requests, Frame(r),
         NEW q \in Requests, q # r
  PROVE  Linked(q)'
  <1>1. /\ pc'[q] = pc[q] /\ req'[q] = req[q]
        /\ draft'[q] = draft[q] /\ now'[q] = now[q] /\ Linked(q)
    BY DEF Frame, ChainInv
  <1>2. ASSUME NEW k \in Requests, pc[k] = "ok"
        PROVE  pc'[k] = "ok" /\ draft'[k] = draft[k]
    BY <1>2 DEF Frame
  <1>3. ASSUME Kind[q] \in {"resume", "token"},
               pc[q] \in Writing \cup {"update", "commitGrant", "ok"}
        PROVE  Redeems(q)'
    <2>1. req[q].key \in Requests /\ Redeems(q)
      BY <1>1, <1>3, KeyInRequests DEF Linked, Writing, Cleaning
    <2> QED
      BY <1>1, <1>2, <2>1 DEF Redeems, SameGrant
  <1>4. ASSUME Kind[q] = "userinfo", pc[q] \in {"checkClient", "ok"}
        PROVE  Reads(q)'
    <2>1. req[q].key \in Requests /\ Reads(q)
      BY <1>1, <1>4, KeyInRequests DEF Linked
    <2> QED
      BY <1>1, <1>2, <2>1 DEF Reads
  <1> QED
    BY <1>1, <1>3, <1>4 DEF Linked, Grounded

LEMMA StoredKept ==
  ASSUME IndInv, ChainInv, NEW r \in Requests, Frame(r), db' = db,
         NEW k \in Requests
  PROVE  Stored(k)'
  <1>1. db[k] # NoRow => k # r
    BY DEF IndInv, RowInv, Frame
  <1> QED
    BY <1>1 DEF Stored, ChainInv, Frame, SameGrant

(* It is enough to look at the request that takes the step. *)
LEMMA StepKeeps ==
  ASSUME IndInv, ChainInv, NEW r \in Requests, Frame(r), db' = db, Linked(r)'
  PROVE  ChainInv'
  BY OthersLinked, StoredKept DEF ChainInv

LEMMA RefuseLinked ==
  ASSUME IndInv, NEW r \in Requests, Refuse(r), pc[r] # "ok"
  PROVE  Frame(r) /\ Linked(r)'
  <1>1. Frame(r) /\ pc'[r] = "refused"
    BY DEF IndInv, TypeOK, Refuse, Frame
  <1> QED
    BY <1>1 DEF Linked, Writing, Cleaning

(* On the way from "ready" to the answer only the lifetime is filled in. *)
LEMMA WritingLinked ==
  ASSUME IndInv, ChainInv, NEW r \in Requests, Frame(r),
         pc[r] \in Writing, pc'[r] \in Writing \cup {"ok"},
         req' = req, draft'[r] \in Rows, SameGrant(draft'[r], draft[r]),
         draft'[r].table = draft[r].table, draft'[r].account = draft[r].account
  PROVE  Linked(r)'
  <1>1. Linked(r)
    BY DEF ChainInv
  <1>2. Kind[r] # "userinfo" /\ pc'[r] # "checkClient"
    BY <1>1 DEF Linked, Writing, Cleaning
  <1>3. ASSUME Kind[r] \in {"resume", "token"} PROVE Redeems(r)'
    <2>1. req[r].key \in Requests /\ Redeems(r)
      BY <1>1, <1>3, KeyInRequests DEF Linked, Writing, Cleaning
    <2>2. req[r].key # r
      BY <2>1 DEF Frame, Redeems
    <2>3. pc'[req[r].key] = "ok" /\ draft'[req[r].key] = draft[req[r].key]
      BY <2>1, <2>2 DEF Frame, Redeems
    <2> QED
      BY <2>1, <2>3 DEF Redeems, SameGrant
  <1>4. Kind[r] = "authorize" =>
          Grounded(draft'[r]) /\ draft'[r].table \in {"transaction", "code"}
    BY <1>1 DEF Linked, Grounded, SameGrant
  <1>5. Kind[r] = "token" => req[r].verifier = draft'[r].challenge
    BY <1>1 DEF Linked, SameGrant
  <1> QED
    BY <1>2, <1>3, <1>4, <1>5 DEF Linked, Grounded
-----------------------------------------------------------------------------
LEMMA ArriveChain ==
  ASSUME IndInv, ChainInv, NEW r \in Requests, Arrive(r)
  PROVE  ChainInv'
  <1>1. pc[r] = "idle" /\ UNCHANGED <<clock, registered, db>>
    BY DEF Arrive, Authorize, ResumeAuthorization, Token, UserInfo
  <1>2. CASE Refuse(r)
    BY <1>1, <1>2, RefuseLinked, StepKeeps
  <1>3. CASE Authorize(r) /\ ~Refuse(r)
    <2>1. PICK c \in Clients, u \in Uris, v \in Verifiers, a \in Accounts \cup {NoAccount} :
            /\ ValidRequest(c, u)
            /\ \/ a # NoAccount /\ Issue(r, NewRow("code", c, u, a, v))
               \/ Issue(r, NewRow("transaction", c, u, NoAccount, v))
      BY <1>3 DEF Authorize
    <2>2. PICK row : /\ Issue(r, row) /\ row.client = c /\ row.uri = u
                     /\ row.table \in {"transaction", "code"}
      BY <2>1 DEF NewRow
    <2>3. Grounded(row)
      BY <2>1, <2>2 DEF ValidRequest, FindClient, Grounded, IndInv, TypeOK
    <2>4. Frame(r) /\ pc'[r] = "ready" /\ draft'[r] = row
      BY <1>1, <2>2 DEF Issue, Frame, IndInv, TypeOK
    <2>5. Linked(r)'
      BY <1>3, <2>2, <2>3, <2>4 DEF Linked, Authorize, Grounded
    <2> QED
      BY <1>1, <2>4, <2>5, StepKeeps
  <1>4. CASE ~Authorize(r) /\ ~Refuse(r)
    <2> SUFFICES Frame(r) /\ pc'[r] \in {"select", "findToken"}
      BY <1>1, StepKeeps DEF Linked, Writing, Cleaning
    <2>1. CASE ResumeAuthorization(r)
      <3>1. PICK k \in Requests, a \in Accounts \cup {NoAccount} :
              Present(r, [key |-> k, account |-> a], "select")
        BY <1>4, <2>1 DEF ResumeAuthorization
      <3> QED
        BY <1>1, <3>1 DEF Present, Frame, IndInv, TypeOK
    <2>2. CASE Token(r)
      <3>1. PICK input \in TokenInputs : Present(r, input, "select")
        BY <1>4, <2>2 DEF Token
      <3> QED
        BY <1>1, <3>1 DEF Present, Frame, IndInv, TypeOK
    <2>3. CASE UserInfo(r)
      <3>1. PICK k \in Requests : Present(r, [key |-> k], "findToken")
        BY <2>3 DEF UserInfo
      <3> QED
        BY <1>1, <3>1 DEF Present, Frame, IndInv, TypeOK
    <2> QED
      BY <1>4, <2>1, <2>2, <2>3 DEF Arrive
  <1> QED
    BY <1>2, <1>3, <1>4

(* The row selected is that of an answered request, and it is handed on.   *)
LEMMA SelectGrantChain ==
  ASSUME IndInv, ChainInv, NEW r \in Requests, SelectGrant(r)
  PROVE  ChainInv'
  <1>1. pc[r] = "select" /\ UNCHANGED <<clock, registered, db>>
    BY DEF SelectGrant
  <1>2. CASE Refuse(r)
    BY <1>1, <1>2, RefuseLinked, StepKeeps
  <1>3. CASE ~Refuse(r)
    <2> DEFINE q == req[r].key
               row == db[q]
    <2>1. /\ row # NoRow /\ PresentedFor(r, row)
          /\ Goto(r, "update")
          /\ draft' = [draft EXCEPT ![r] = Successor(r, row)]
          /\ UNCHANGED <<lock, req, now, todo>>
      BY <1>3 DEF SelectGrant, Redeemable
    <2>2. q \in Requests /\ Kind[r] \in {"resume", "token"}
      BY <1>1, KeyInRequests DEF IndInv, InputInv
    <2>3. /\ row \in Rows /\ pc[q] = "ok" /\ q # r /\ Stored(q)
          /\ Kind[r] = "resume" => req[r] \in ResumeInputs
      BY <1>1, <2>1, <2>2 DEF IndInv, RowInv, TypeOK, InputInv, ChainInv
    <2>4. Frame(r) /\ pc'[r] = "update" /\ draft'[r] = Successor(r, row) /\ req' = req
      BY <1>1, <2>1 DEF Frame, IndInv, TypeOK
    <2>5. /\ Successor(r, row) \in Rows /\ SameGrant(Successor(r, row), row)
          /\ Kind[r] = "resume" =>
               /\ Successor(r, row).table = "code"
               /\ Successor(r, row).account = req[r].account
          /\ Kind[r] = "token" =>
               /\ Successor(r, row).table = "token"
               /\ Successor(r, row).account = row.account
      BY <2>1, <2>3 DEF Successor, PresentedFor, Rows, SameGrant, ResumeInputs
    <2>6. pc'[q] = "ok" /\ draft'[q] = draft[q]
      BY <2>2, <2>3, <2>4 DEF Frame
    <2>7. Redeems(r)'
      BY <2>1, <2>3, <2>4, <2>5, <2>6 DEF Redeems, Stored, SameGrant, PresentedFor
    <2>8. Linked(r)'
      BY <2>2, <2>4, <2>7 DEF Linked, Writing, Cleaning
    <2> QED
      BY <1>1, <2>4, <2>8, StepKeeps
  <1> QED
    BY <1>2, <1>3

LEMMA UpdateGrantChain ==
  ASSUME IndInv, ChainInv, NEW r \in Requests, UpdateGrant(r)
  PROVE  ChainInv'
  <1>1. pc[r] = "update" /\ UNCHANGED <<clock, registered, db>>
    BY DEF UpdateGrant
  <1>2. CASE Refuse(r)
    BY <1>1, <1>2, RefuseLinked, StepKeeps
  <1>3. CASE ~Refuse(r)
    <2>1. Goto(r, "commitGrant") /\ UNCHANGED <<req, draft, now, todo>>
      BY <1>3 DEF UpdateGrant
    <2>2. Frame(r) /\ pc'[r] = "commitGrant"
      BY <1>1, <2>1 DEF Frame, IndInv, TypeOK
    <2>3. Kind[r] \in {"resume", "token"} /\ Redeems(r) /\ req[r].key \in Requests
      BY <1>1, KeyInRequests DEF ChainInv, Linked, IndInv, InputInv
    <2>4. Redeems(r)'
      BY <2>1, <2>2, <2>3 DEF Redeems, Frame, SameGrant
    <2>5. Linked(r)'
      BY <2>2, <2>3, <2>4 DEF Linked, Writing, Cleaning
    <2> QED
      BY <1>1, <2>2, <2>5, StepKeeps
  <1> QED
    BY <1>2, <1>3

(* The row consumed is a transaction or a code, never a token. *)
LEMMA CommitGrantChain ==
  ASSUME IndInv, ChainInv, NEW r \in Requests, CommitGrant(r)
  PROVE  ChainInv'
  <1> DEFINE k == req[r].key
  <1>1. /\ pc[r] = "commitGrant" /\ Kind[r] \in {"resume", "token"} /\ k \in Requests
        /\ Redeems(r) /\ Stored(k)
    BY KeyInRequests DEF CommitGrant, IndInv, InputInv, ChainInv, Linked
  <1>2. db[k] # NoRow /\ db[k] \in Rows /\ db[k].table # "token"
    BY <1>1, AbsentAssumption
       DEF IndInv, GrantInv, LockInv, TypeOK, Redeems, Stored
  <1>3. Frame(r)
    BY <1>1 DEF CommitGrant, Refuse, Frame, IndInv, TypeOK
  <1>4. Linked(r)'
    <2>1. CASE Refuse(r)
      BY <1>1, <2>1, RefuseLinked
    <2>2. CASE ~Refuse(r)
      <3>1. VerifyPKCE(r) /\ Goto(r, "ready") /\ UNCHANGED <<req, draft, now, todo>>
        BY <2>2 DEF CommitGrant
      <3>2. pc'[r] = "ready"
        BY <3>1 DEF IndInv, TypeOK
      <3>3. Redeems(r)'
        BY <1>1, <1>3, <3>1 DEF Redeems, Frame, SameGrant
      <3> QED
        BY <1>1, <3>1, <3>2, <3>3 DEF Linked, VerifyPKCE, Writing, Cleaning
    <2> QED
      BY <2>1, <2>2
  <1>5. ASSUME NEW j \in Requests PROVE Stored(j)'
    <2>1. db' = [db EXCEPT ![k] = [db[k] EXCEPT !.consumed = TRUE]] /\ Stored(j)
      BY DEF CommitGrant, ChainInv
    <2>2. db[j] # NoRow => j # r
      BY <1>1 DEF IndInv, RowInv
    <2>3. db'[j] # NoRow => draft'[j] = draft[j]
      BY <1>2, <1>3, <2>1, <2>2 DEF Frame, IndInv, TypeOK
    <2>4. CASE j = k
      <3>1. /\ db'[j].table = db[j].table /\ db'[j].account = db[j].account
            /\ SameGrant(db'[j], db[j])
        BY <1>1, <1>2, <2>1, <2>4 DEF Rows, SameGrant, IndInv, TypeOK
      <3> QED
        BY <1>1, <1>2, <2>3, <2>4, <3>1 DEF Stored, SameGrant
    <2>5. CASE j # k
      BY <2>1, <2>3, <2>5 DEF Stored, SameGrant, IndInv, TypeOK
    <2> QED
      BY <2>4, <2>5
  <1> QED
    BY <1>3, <1>4, <1>5, OthersLinked DEF ChainInv

LEMMA CleanupChain ==
  ASSUME IndInv, ChainInv, NEW r \in Requests,
         BeginCleanup(r) \/ DeleteRow(r) \/ NextDelete(r) \/ CommitFails(r)
  PROVE  ChainInv'
  <1>1. /\ pc[r] \in Writing
        /\ \E state \in Writing \cup {"ok"} : pc' = [pc EXCEPT ![r] = state]
        /\ UNCHANGED <<db, req, draft>>
        /\ now' = now \/ now' = [now EXCEPT ![r] = clock]
    <2>1. CASE BeginCleanup(r)
      BY <2>1 DEF BeginCleanup, StartDelete, Writing, Cleaning
    <2>2. CASE DeleteRow(r)
      <3>1. pc' = [pc EXCEPT ![r] = pc[r]]
        BY <2>2 DEF DeleteRow, IndInv, TypeOK
      <3> QED
        BY <2>2, <3>1 DEF DeleteRow, Writing
    <2>3. CASE NextDelete(r)
      BY <2>3 DEF NextDelete, StartDelete, Writing, Cleaning
    <2>4. CASE CommitFails(r)
      BY <2>4 DEF CommitFails, Writing
    <2> QED
      BY <2>1, <2>2, <2>3, <2>4
  <1>2. Frame(r) /\ pc'[r] \in Writing \cup {"ok"}
    BY <1>1 DEF Frame, IndInv, TypeOK, Writing, Cleaning
  <1>3. draft[r] \in Rows
    BY <1>1 DEF IndInv, DraftInv, Drafting, Writing
  <1>4. Linked(r)'
    BY <1>1, <1>2, <1>3, WritingLinked DEF SameGrant
  <1> QED
    BY <1>1, <1>2, <1>4, StepKeeps

LEMMA SaveChain ==
  ASSUME IndInv, ChainInv, NEW r \in Requests, Save(r)
  PROVE  ChainInv'
  <1>1. draft[r] \in Rows /\ clock + TTL(draft[r].table) \in Nat
    BY TTLAssumption DEF IndInv, DraftInv, TypeOK, Save, TTL, Drafting
  <1>2. PICK row : row = [draft[r] EXCEPT !.exp = clock + TTL(draft[r].table)]
    OBVIOUS
  <1>3. /\ row \in Rows /\ SameGrant(row, draft[r])
        /\ row.table = draft[r].table /\ row.account = draft[r].account
    BY <1>1, <1>2 DEF Rows, SameGrant
  <1>4. /\ pc[r] = "save" /\ pc' = [pc EXCEPT ![r] = "commit"]
        /\ draft' = [draft EXCEPT ![r] = row]
        /\ UNCHANGED <<db, req, now>>
    BY <1>2 DEF Save
  <1>5. Frame(r) /\ pc'[r] = "commit" /\ draft'[r] = row
    BY <1>4 DEF Frame, IndInv, TypeOK
  <1>6. Linked(r)'
    BY <1>3, <1>4, <1>5, WritingLinked DEF Writing
  <1> QED
    BY <1>4, <1>5, <1>6, StepKeeps

LEMMA CommitChain ==
  ASSUME IndInv, ChainInv, NEW r \in Requests, Commit(r)
  PROVE  ChainInv'
  <1>1. pc[r] = "commit" /\ draft[r] \in Rows /\ UNCHANGED <<req, draft, now>>
    BY DEF IndInv, DraftInv, Commit, Drafting
  <1>2. Frame(r) /\ pc'[r] = "ok"
    BY <1>1 DEF Commit, Frame, IndInv, TypeOK
  <1>3. Linked(r)'
    BY <1>1, <1>2, WritingLinked DEF Writing, SameGrant
  <1>4. ASSUME NEW k \in Requests PROVE Stored(k)'
    <2>1. CASE k = r
      <3>1. db'[r] = draft[r] /\ Kind[r] # "userinfo"
        BY <1>1 DEF Commit, Swept, ChainInv, Linked, Writing
      <3> QED
        BY <1>1, <2>1, <3>1 DEF Stored, SameGrant
    <2>2. CASE k # r
      <3>1. db'[k] \in {db[k], NoRow} /\ Stored(k)
        BY <2>2 DEF Commit, Swept, ChainInv
      <3> QED
        BY <1>1, <3>1 DEF Stored, SameGrant
    <2> QED
      BY <2>1, <2>2
  <1> QED
    BY <1>2, <1>3, <1>4, OthersLinked DEF ChainInv

LEMMA FindTokenChain ==
  ASSUME IndInv, ChainInv, NEW r \in Requests, FindToken(r)
  PROVE  ChainInv'
  <1>1. pc[r] = "findToken" /\ UNCHANGED <<clock, registered, db>>
    BY DEF FindToken
  <1>2. CASE Refuse(r)
    BY <1>1, <1>2, RefuseLinked, StepKeeps
  <1>3. CASE ~Refuse(r)
    <2> DEFINE t == req[r].key
    <2>1. /\ Goto(r, "checkClient") /\ draft' = [draft EXCEPT ![r] = db[t]]
          /\ db[t] # NoRow /\ db[t].table = "token" /\ db[t].exp > now[r]
          /\ UNCHANGED <<lock, req, now, todo>>
      BY <1>3 DEF FindToken, ValidToken
    <2>2. t \in Requests /\ Kind[r] = "userinfo"
      BY <1>1, KeyInRequests DEF IndInv, InputInv
    <2>3. /\ pc[t] = "ok" /\ t # r /\ db[t] = draft[t] /\ db[t] \in Rows
          /\ Kind[t] # "userinfo"
      BY <1>1, <2>1, <2>2 DEF IndInv, RowInv, TypeOK, ChainInv, Stored
    <2>4. Kind[t] = "token"
      BY <2>1, <2>2, <2>3, KindAssumption DEF ChainInv, Linked, Redeems
    <2>5. Frame(r) /\ pc'[r] = "checkClient" /\ draft'[r] = db[t]
      BY <1>1, <2>1 DEF Frame, IndInv, TypeOK
    <2>6. now[r] < draft[t].exp
      BY <2>1, <2>3 DEF Rows, IndInv, TypeOK
    <2>7. Reads(r)'
      BY <2>1, <2>2, <2>3, <2>4, <2>5, <2>6 DEF Reads, Frame
    <2>8. Linked(r)'
      BY <2>2, <2>5, <2>7 DEF Linked, Writing, Cleaning
    <2> QED
      BY <1>1, <2>5, <2>8, StepKeeps
  <1> QED
    BY <1>2, <1>3

LEMMA CheckClientChain ==
  ASSUME IndInv, ChainInv, NEW r \in Requests, CheckClient(r)
  PROVE  ChainInv'
  <1>1. pc[r] = "checkClient" /\ UNCHANGED <<clock, registered, db>>
    BY DEF CheckClient
  <1>2. CASE Refuse(r)
    BY <1>1, <1>2, RefuseLinked, StepKeeps
  <1>3. CASE ~Refuse(r)
    <2>1. Goto(r, "ok") /\ UNCHANGED <<lock, req, draft, now, todo>>
      BY <1>3 DEF CheckClient
    <2>2. Frame(r) /\ pc'[r] = "ok"
      BY <1>1, <2>1 DEF Frame, IndInv, TypeOK
    <2>3. /\ Kind[r] = "userinfo" /\ Reads(r) /\ req[r].key \in Requests
          /\ draft[r] \in Rows
      BY <1>1, KeyInRequests
         DEF ChainInv, Linked, IndInv, InputInv, DraftInv, Drafting
    <2>4. Reads(r)'
      BY <2>1, <2>2, <2>3 DEF Reads, Frame
    <2>5. Linked(r)'
      BY <2>1, <2>2, <2>3, <2>4 DEF Linked, Writing, Cleaning
    <2> QED
      BY <1>1, <2>2, <2>5, StepKeeps
  <1> QED
    BY <1>2, <1>3

LEMMA FailChain ==
  ASSUME IndInv, ChainInv, NEW r \in Requests, Fail(r)
  PROVE  ChainInv'
  BY RefuseLinked, StepKeeps DEF Fail, InProgress, Finished

LEMMA RestChain ==
  ASSUME IndInv, ChainInv, Tick \/ EnsureClients \/ UNCHANGED vars
  PROVE  ChainInv'
  <1>1. UNCHANGED <<db, pc, req, draft, now>>
    BY DEF Tick, EnsureClients, vars
  <1> QED
    BY <1>1 DEF ChainInv, Linked, Stored, Redeems, Reads, Grounded, SameGrant

LEMMA NextChainInv == IndInv /\ ChainInv /\ [Next]_vars => ChainInv'
  <1> SUFFICES ASSUME IndInv, ChainInv, [Next]_vars PROVE ChainInv'
    OBVIOUS
  <1>1. CASE Tick \/ EnsureClients \/ UNCHANGED vars
    BY <1>1, RestChain
  <1>2. CASE \E r \in Requests : Arrive(r) \/ Fail(r)
    BY <1>2, ArriveChain, FailChain
  <1>3. ASSUME NEW r \in Requests, Step(r) PROVE ChainInv'
    BY <1>3, SelectGrantChain, UpdateGrantChain, CommitGrantChain, CleanupChain,
       SaveChain, CommitChain, FindTokenChain, CheckClientChain DEF Step
  <1> QED
    BY <1>1, <1>2, <1>3 DEF Next

(* Every row, uncommitted row and request goes back to the /authorize      *)
(* request it belongs to, link by link.                                    *)
THEOREM Chained == Spec => []ChainInv
  BY Invariance, InitChainInv, NextChainInv, PTL DEF Spec
-----------------------------------------------------------------------------
(* A transaction stems from /authorize, a code from there or from a resumed *)
(* request: tokens and claims are no grants.                                *)
LEMMA TokenLinked ==
  ASSUME IndInv, ChainInv, NEW t \in Requests, Kind[t] = "token", pc[t] = "ok"
  PROVE  LET q == req[t].key
         IN /\ q \in Requests /\ Redeems(t) /\ draft[q] \in Rows
            /\ req[t].verifier = draft[t].challenge
            /\ Kind[q] \in {"authorize", "resume"}
  <1> DEFINE q == req[t].key
  <1>1. q \in Requests /\ Redeems(t) /\ req[t].verifier = draft[t].challenge
    BY KeyInRequests DEF ChainInv, Linked
  <1>2. pc[q] = "ok" /\ draft[q].table = "code" /\ draft[q] \in Rows
    BY <1>1 DEF Redeems, ChainInv, Linked
  <1>3. Kind[q] # "token"
    BY <1>1, <1>2 DEF ChainInv, Linked, Redeems
  <1>4. Kind[q] # "userinfo"
    <2> SUFFICES ASSUME Kind[q] = "userinfo" PROVE FALSE
      OBVIOUS
    <2>1. req[q].key \in Requests /\ Reads(q)
      BY <1>1, <1>2, KeyInRequests DEF ChainInv, Linked
    <2>2. Redeems(req[q].key)
      BY <2>1 DEF Reads, ChainInv, Linked
    <2> QED
      BY <1>2, <2>1, <2>2 DEF Reads, Redeems
  <1> QED
    BY <1>1, <1>2, <1>3, <1>4, KindAssumption

LEMMA ResumeLinked ==
  ASSUME IndInv, ChainInv, NEW q \in Requests, Kind[q] = "resume", pc[q] = "ok"
  PROVE  LET p == req[q].key
         IN p \in Requests /\ Redeems(q) /\ Kind[p] = "authorize"
  <1> DEFINE p == req[q].key
  <1>1. p \in Requests /\ Redeems(q)
    BY KeyInRequests DEF ChainInv, Linked
  <1>2. pc[p] = "ok" /\ draft[p].table = "transaction"
    BY <1>1 DEF Redeems
  <1>3. Kind[p] # "token" /\ Kind[p] # "resume"
    BY <1>1, <1>2 DEF ChainInv, Linked, Redeems
  <1>4. Kind[p] # "userinfo"
    <2> SUFFICES ASSUME Kind[p] = "userinfo" PROVE FALSE
      OBVIOUS
    <2>1. req[p].key \in Requests /\ Reads(p)
      BY <1>1, <1>2, KeyInRequests DEF ChainInv, Linked
    <2>2. Redeems(req[p].key)
      BY <2>1 DEF Reads, ChainInv, Linked
    <2> QED
      BY <1>2, <2>1, <2>2 DEF Reads, Redeems
  <1> QED
    BY <1>1, <1>3, <1>4, KindAssumption

LEMMA ChainBindsTokens == IndInv /\ ChainInv => TokenBinding
  <1> SUFFICES ASSUME IndInv, ChainInv,
                      NEW t \in Requests, Kind[t] = "token", pc[t] = "ok"
               PROVE  LET q == req[t].key
                          code == draft[q]
                      IN /\ pc[q] = "ok" /\ code.table = "code"
                         /\ code.client = req[t].client /\ code.uri = req[t].uri
                         /\ code.challenge = req[t].verifier
                         /\ draft[t].account = code.account /\ code.account # NoAccount
                         /\ SameGrant(draft[t], code)
                         /\ \E config \in Configurations :
                              code.client \in DOMAIN config /\ code.uri \in config[code.client]
                         /\ Kind[q] = "resume" =>
                              /\ pc[req[q].key] = "ok" /\ Kind[req[q].key] = "authorize"
                              /\ SameGrant(draft[req[q].key], code)
                              /\ code.account = req[q].account
    BY DEF TokenBinding
  <1> DEFINE q == req[t].key
             code == draft[q]
             p == req[q].key
  <1>1. /\ q \in Requests /\ Redeems(t) /\ code \in Rows
        /\ req[t].verifier = draft[t].challenge
        /\ Kind[q] \in {"authorize", "resume"}
    BY TokenLinked
  <1>2. /\ pc[q] = "ok" /\ code.table = "code"
        /\ code.client = req[t].client /\ code.uri = req[t].uri
        /\ code.challenge = req[t].verifier
        /\ draft[t].account = code.account /\ SameGrant(draft[t], code)
    BY <1>1 DEF Redeems, SameGrant
  <1>3. code.account # NoAccount
    BY <1>1, <1>2, AbsentAssumption DEF Rows
  <1>4. ASSUME Kind[q] = "resume"
        PROVE  /\ pc[p] = "ok" /\ Kind[p] = "authorize" /\ p \in Requests
               /\ SameGrant(draft[p], code) /\ code.account = req[q].account
    <2>1. p \in Requests /\ Redeems(q) /\ Kind[p] = "authorize"
      BY <1>1, <1>2, <1>4, ResumeLinked
    <2> QED
      BY <1>4, <2>1 DEF Redeems, SameGrant
  <1>5. Grounded(code)
    <2>1. CASE Kind[q] = "authorize"
      BY <1>1, <1>2, <2>1 DEF ChainInv, Linked
    <2>2. CASE Kind[q] = "resume"
      <3>1. Grounded(draft[p])
        BY <1>4, <2>2 DEF ChainInv, Linked
      <3> QED
        BY <1>4, <2>2, <3>1 DEF Grounded, SameGrant
    <2> QED
      BY <1>1, <2>1, <2>2
  <1> QED
    BY <1>2, <1>3, <1>4, <1>5 DEF Grounded

LEMMA ChainBindsClaims == IndInv /\ ChainInv => UserInfoBinding
  <1> SUFFICES ASSUME IndInv, ChainInv,
                      NEW u \in Requests, Kind[u] = "userinfo", pc[u] = "ok"
               PROVE  LET t == req[u].key
                      IN /\ Kind[t] = "token" /\ pc[t] = "ok"
                         /\ draft[u] = draft[t]
                         /\ draft[u].account = draft[req[t].key].account
                         /\ now[u] < draft[t].exp
    BY DEF UserInfoBinding
  <1>1. req[u].key \in Requests /\ Reads(u)
    BY KeyInRequests DEF ChainInv, Linked
  <1>2. Redeems(req[u].key)
    BY <1>1 DEF Reads, ChainInv, Linked
  <1> QED
    BY <1>1, <1>2 DEF Reads, Redeems

(* An access token is held through an unbroken chain: client, redirect URI, *)
(* account and PKCE challenge are those of the code, and those of the       *)
(* /authorize request it goes back to, which named a registered URI.        *)
THEOREM TokensBound == Spec => []TokenBinding
  BY Invariance, Chained, ChainBindsTokens, PTL

(* /userinfo answers for the account whose code the token came from, and    *)
(* only for a token that was alive when it was presented.                   *)
THEOREM ClaimsBound == Spec => []UserInfoBinding
  BY Invariance, Chained, ChainBindsClaims, PTL
=============================================================================
