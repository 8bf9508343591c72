--------------------------- MODULE AccountProofs ---------------------------
(***************************************************************************)
(* Proofs about AccountSession, for any requests, identities and times.    *)
(***************************************************************************)
EXTENDS AccountSession, TLAPS

Login(r) == Kind[r] \in {"callback", "passkey"}

Acting(r) == pc[r] = "load" \/ (Kind[r] = "use" /\ pc[r] = "ok")

Presented(r) ==
  Acting(r) \/ pc[r] \in {"verify", "revoke", "commitRevoke", "revoked"}

(* What a request that logs in knows.  Once it holds the lock of its       *)
(* identity, its account is the one it read there, or its own.             *)
LoginOK(r) ==
  /\ pc[r] \in {"find", "update", "create"} => Kind[r] = "callback"
  /\ pc[r] \in {"sign", "commit"} => Login(r)
  /\ Kind[r] = "callback" /\ pc[r] \in {"find", "update", "create", "sign", "commit", "ok"}
       => login[r] \in Identities
  /\ pc[r] = "update" => identity[login[r]] # NoAccount
  /\ Kind[r] = "callback" /\ pc[r] \in {"sign", "commit"}
       => /\ identityLock[login[r]] = r
          /\ account[r] = IF identity[login[r]] = NoAccount THEN r ELSE identity[login[r]]
  /\ Kind[r] = "passkey" /\ pc[r] \in {"sign", "commit"} => account[r] \in accounts
  /\ pc[r] = "commit" => draft[r] \in Rows /\ draft[r].account = account[r]
  /\ pc[r] # "orphan"

(* What a request under a session knows: the row it acts for, and that a   *)
(* logout it came after left the session dead.                             *)
UseOK(r) ==
  /\ pc[r] \in {"verify", "load"} => Kind[r] = "use"
  /\ pc[r] \in {"revoke", "commitRevoke", "revoked"} => Kind[r] = "logout"
  /\ Presented(r) => token[r] \in Answered
  /\ Acting(r) =>
       /\ session[token[r]] # NoRow
       /\ session[token[r]].account = account[r]
       /\ now[r] < session[token[r]].exp
       /\ token[r] \notin ended[r]
  /\ pc[r] = "commitRevoke" => sessionLock[token[r]] = r \/ ~Live(session[token[r]], now[r])
  /\ pc[r] = "revoked" => ~Live(session[token[r]], now[r])
  /\ now[r] <= clock
  /\ \A k \in ended[r] : k \in Answered /\ ~Live(session[k], now[r])

RequestOK(r) == LoginOK(r) /\ UseOK(r)

IdentityOK(i) ==
  /\ identity[i] # NoAccount => identity[i] \in accounts /\ identity[i] \in Answered
  /\ \A j \in Identities : identity[i] = identity[j] /\ identity[i] # NoAccount => i = j
  /\ identityLock[i] # Free =>
       /\ Kind[identityLock[i]] = "callback"
       /\ pc[identityLock[i]] \in {"sign", "commit"}
       /\ login[identityLock[i]] = i

SessionOK(k) ==
  /\ session[k] # NoRow =>
       /\ k \in Answered
       /\ session[k].account \in accounts
       /\ Kind[k] = "callback" => identity[login[k]] = session[k].account
  /\ sessionLock[k] # Free =>
       pc[sessionLock[k]] = "commitRevoke" /\ token[sessionLock[k]] = k /\ session[k] # NoRow

Inv ==
  /\ TypeOK
  /\ \A r \in Requests : RequestOK(r)
  /\ \A i \in Identities : IdentityOK(i)
  /\ \A a \in accounts : HasIdentity(a)
  /\ \A k \in Requests : SessionOK(k)

LEMMA InvImplies ==
  ASSUME Inv
  PROVE  TypeOK /\ OneAccountPerIdentity /\ ActsForItsLogin /\ LogoutEnds /\ NobodyOrphaned
<1>1. OneAccountPerIdentity
  BY DEF Inv, IdentityOK, OneAccountPerIdentity
<1>2. ASSUME NEW u \in Requests, Kind[u] = "use", pc[u] = "ok"
      PROVE  /\ session[token[u]] # NoRow
             /\ session[token[u]].account = account[u]
             /\ Kind[token[u]] = "callback" => identity[login[token[u]]] = account[u]
             /\ now[u] < session[token[u]].exp
             /\ token[u] \notin ended[u]
  <2>1. UseOK(u) /\ Acting(u) /\ Presented(u)
    BY <1>2 DEF Inv, RequestOK, Acting, Presented
  <2>2. token[u] \in Requests
    BY <2>1 DEF UseOK, Answered
  <2>3. SessionOK(token[u])
    BY <2>2 DEF Inv
  <2> QED
    BY <2>1, <2>3 DEF UseOK, SessionOK
<1>3. ActsForItsLogin /\ LogoutEnds
  BY <1>2 DEF ActsForItsLogin, LogoutEnds
<1>4. NobodyOrphaned
  BY DEF Inv, RequestOK, LoginOK, NobodyOrphaned
<1> QED
  BY <1>1, <1>3, <1>4 DEF Inv
-----------------------------------------------------------------------------
(***************************************************************************)
(* What a step of request r leaves as it was, for the others               *)
(***************************************************************************)
RowKept(k) ==
  \/ session'[k] = session[k]
  \/ /\ session[k] # NoRow /\ session'[k] # NoRow
     /\ session'[k].account = session[k].account
     /\ session'[k].exp = session[k].exp
     /\ session'[k].revoked

Frame(r) ==
  /\ pc[r] \notin Finished
  /\ \A q \in Requests : q # r =>
       /\ pc'[q] = pc[q] /\ login'[q] = login[q] /\ token'[q] = token[q]
       /\ account'[q] = account[q] /\ draft'[q] = draft[q]
       /\ now'[q] = now[q] /\ ended'[q] = ended[q]
  /\ clock' \in Nat /\ clock <= clock'
  /\ accounts \subseteq accounts'
  /\ \A i \in Identities :
       /\ identity[i] # NoAccount => identity'[i] = identity[i]
       /\ identityLock[i] \notin {r, Free} =>
            identityLock'[i] = identityLock[i] /\ identity'[i] = identity[i]
  /\ \A k \in Requests :
       /\ k \in Answered => RowKept(k)
       /\ sessionLock[k] \notin {r, Free} => sessionLock'[k] = sessionLock[k]

LEMMA AnsweredKept ==
  ASSUME NEW r \in Requests, Frame(r)
  PROVE  Answered \subseteq Answered'
  BY DEF Frame, Answered, Finished

LEMMA DeadStays ==
  ASSUME NEW r \in Requests, Frame(r), NEW k \in Answered, NEW t, ~Live(session[k], t)
  PROVE  ~Live(session'[k], t)
  BY DEF Frame, RowKept, Live, Answered

LEMMA OthersKept ==
  ASSUME Inv, NEW r \in Requests, Frame(r), NEW q \in Requests, q # r
  PROVE  RequestOK(q)'
<1>1. LoginOK(q) /\ UseOK(q)
  BY DEF Inv, RequestOK
<1>2. /\ pc'[q] = pc[q] /\ login'[q] = login[q] /\ token'[q] = token[q]
      /\ account'[q] = account[q] /\ draft'[q] = draft[q]
      /\ now'[q] = now[q] /\ ended'[q] = ended[q]
  BY DEF Frame
<1>3. LoginOK(q)'
  <2>1. q \notin {r, Free}
    BY AbsentAssumption
  <2>2. pc[q] = "update" => identity'[login[q]] # NoAccount
    BY <1>1 DEF LoginOK, Frame
  <2>3. Kind[q] = "callback" /\ pc[q] \in {"sign", "commit"}
          => identityLock'[login[q]] = q /\ identity'[login[q]] = identity[login[q]]
    BY <1>1, <2>1 DEF LoginOK, Frame
  <2>4. Kind[q] = "passkey" /\ pc[q] \in {"sign", "commit"} => account[q] \in accounts'
    BY <1>1 DEF LoginOK, Frame
  <2> QED
    BY <1>1, <1>2, <2>2, <2>3, <2>4 DEF LoginOK, Login
<1>4. UseOK(q)'
  <2>1. Presented(q) => token[q] \in Answered /\ token[q] \in Answered'
    BY <1>1, AnsweredKept DEF UseOK
  <2>2. Acting(q) =>
          /\ session'[token[q]] # NoRow
          /\ session'[token[q]].account = account[q]
          /\ now[q] < session'[token[q]].exp
    <3> SUFFICES ASSUME Acting(q)
                 PROVE  /\ session'[token[q]] # NoRow
                        /\ session'[token[q]].account = account[q]
                        /\ now[q] < session'[token[q]].exp
      OBVIOUS
    <3>1. token[q] \in Answered /\ token[q] \in Requests
      BY <2>1 DEF Presented, Answered
    <3>2. RowKept(token[q])
      BY <3>1 DEF Frame
    <3> QED
      BY <1>1, <3>2 DEF UseOK, RowKept
  <2>3. pc[q] = "commitRevoke" =>
          sessionLock'[token[q]] = q \/ ~Live(session'[token[q]], now[q])
    <3> SUFFICES ASSUME pc[q] = "commitRevoke"
                 PROVE  sessionLock'[token[q]] = q \/ ~Live(session'[token[q]], now[q])
      OBVIOUS
    <3>1. token[q] \in Answered /\ token[q] \in Requests
      BY <2>1 DEF Presented, Answered
    <3>2. CASE sessionLock[token[q]] = q
      BY <3>1, <3>2, AbsentAssumption DEF Frame
    <3>3. CASE ~Live(session[token[q]], now[q])
      BY <3>1, <3>3, DeadStays
    <3> QED
      BY <1>1, <3>2, <3>3 DEF UseOK
  <2>4. pc[q] = "revoked" => ~Live(session'[token[q]], now[q])
    BY <1>1, <2>1, DeadStays DEF UseOK, Presented
  <2>5. now[q] <= clock'
    <3>1. now[q] \in Nat /\ clock \in Nat
      BY DEF Inv, TypeOK
    <3> QED
      BY <1>1, <3>1 DEF UseOK, Frame
  <2>6. \A k \in ended[q] : k \in Answered' /\ ~Live(session'[k], now[q])
    BY <1>1, AnsweredKept, DeadStays DEF UseOK
  <2> QED
    BY <1>1, <1>2, <2>1, <2>2, <2>3, <2>4, <2>5, <2>6 DEF UseOK, Acting, Presented
<1> QED
  BY <1>3, <1>4 DEF RequestOK

(* The lock of identity i, of session k, after a step of r: free, held by  *)
(* the same request, or by r.                                              *)
IdentityLockOK(r, i) ==
  \/ identityLock'[i] = Free
  \/ identityLock'[i] = identityLock[i] /\ identityLock[i] # r
  \/ /\ identityLock'[i] = r /\ Kind[r] = "callback"
     /\ pc'[r] \in {"sign", "commit"} /\ login'[r] = i

SessionLockOK(r, k) ==
  \/ sessionLock'[k] = Free
  \/ sessionLock'[k] = sessionLock[k] /\ sessionLock[k] # r
  \/ /\ sessionLock'[k] = r /\ pc'[r] = "commitRevoke" /\ token'[r] = k
     /\ session[k] # NoRow

LEMMA IdentitiesKept ==
  ASSUME Inv, NEW r \in Requests, Frame(r), accounts' = accounts, identity' = identity,
         NEW i \in Identities, IdentityLockOK(r, i)
  PROVE  IdentityOK(i)'
<1>1. IdentityOK(i)
  BY DEF Inv
<1>2. identityLock[i] \in Requests \cup {Free}
  BY DEF Inv, TypeOK
<1>3. identity[i] # NoAccount => identity[i] \in accounts' /\ identity[i] \in Answered'
  BY <1>1, AnsweredKept DEF IdentityOK
<1>4. ASSUME identityLock'[i] # Free
      PROVE  /\ Kind[identityLock'[i]] = "callback"
             /\ pc'[identityLock'[i]] \in {"sign", "commit"}
             /\ login'[identityLock'[i]] = i
  BY <1>1, <1>2, <1>4 DEF IdentityOK, IdentityLockOK, Frame
<1> QED
  BY <1>1, <1>3, <1>4 DEF IdentityOK

(* A session whose account and locks are in order. *)
LEMMA SessionKept ==
  ASSUME Inv, NEW r \in Requests, Frame(r), NEW k \in Requests, SessionLockOK(r, k),
         session'[k] # NoRow => session[k] # NoRow /\ session'[k].account = session[k].account,
         session[k] # NoRow => session'[k] # NoRow
  PROVE  SessionOK(k)'
<1>1. SessionOK(k)
  BY DEF Inv
<1>2. sessionLock[k] \in Requests \cup {Free}
  BY DEF Inv, TypeOK
<1>3. ASSUME session'[k] # NoRow
      PROVE  /\ k \in Answered'
             /\ session'[k].account \in accounts'
             /\ Kind[k] = "callback" => identity'[login'[k]] = session'[k].account
  <2>1. /\ k \in Answered /\ session[k].account \in accounts
        /\ Kind[k] = "callback" => identity[login[k]] = session[k].account
        /\ session'[k].account = session[k].account
    BY <1>1, <1>3 DEF SessionOK
  <2>2. k # r /\ login'[k] = login[k]
    BY <2>1 DEF Frame, Answered, Finished
  <2>3. Kind[k] = "callback" => identity'[login[k]] = identity[login[k]]
    <3> SUFFICES ASSUME Kind[k] = "callback" PROVE identity'[login[k]] = identity[login[k]]
      OBVIOUS
    <3>1. login[k] \in Identities
      BY <2>1 DEF Inv, RequestOK, LoginOK, Answered
    <3>2. identity[login[k]] # NoAccount
      BY <2>1, AbsentAssumption DEF Inv, TypeOK
    <3> QED
      BY <3>1, <3>2 DEF Frame
  <2> QED
    BY <2>1, <2>2, <2>3, AnsweredKept DEF Frame
<1>4. ASSUME sessionLock'[k] # Free
      PROVE  /\ pc'[sessionLock'[k]] = "commitRevoke"
             /\ token'[sessionLock'[k]] = k
             /\ session'[k] # NoRow
  BY <1>1, <1>2, <1>4 DEF SessionOK, SessionLockOK, Frame
<1> QED
  BY <1>3, <1>4 DEF SessionOK

(* A step that commits nothing. *)
LEMMA StepKeeps ==
  ASSUME Inv, NEW r \in Requests, Frame(r), UNCHANGED tables, TypeOK', RequestOK(r)',
         \A i \in Identities : IdentityLockOK(r, i),
         \A k \in Requests : SessionLockOK(r, k)
  PROVE  Inv'
<1>1. accounts' = accounts /\ identity' = identity /\ session' = session
  BY DEF tables
<1>2. \A q \in Requests : RequestOK(q)'
  BY OthersKept
<1>3. \A i \in Identities : IdentityOK(i)'
  BY <1>1, IdentitiesKept
<1>4. \A k \in Requests : SessionOK(k)'
  BY <1>1, SessionKept
<1>5. \A a \in accounts' : HasIdentity(a)'
  BY <1>1 DEF Inv, HasIdentity
<1> QED
  BY <1>2, <1>3, <1>4, <1>5 DEF Inv

(* The locks of a request that never had any, or gives them back. *)
LEMMA LocksKept ==
  ASSUME Inv, NEW r \in Requests, UNCHANGED locks \/ Release(r),
         pc[r] \in {"sign", "commit"}
           => Release(r) \/ (pc'[r] \in {"sign", "commit"} /\ login'[r] = login[r]),
         pc[r] = "commitRevoke" => Release(r)
  PROVE  /\ \A i \in Identities : IdentityLockOK(r, i)
         /\ \A k \in Requests : SessionLockOK(r, k)
         /\ \A i \in Identities :
              identityLock[i] \notin {r, Free} => identityLock'[i] = identityLock[i]
         /\ \A k \in Requests :
              sessionLock[k] \notin {r, Free} => sessionLock'[k] = sessionLock[k]
         /\ identityLock' \in [Identities -> Requests \cup {Free}]
         /\ sessionLock' \in [Requests -> Requests \cup {Free}]
<1>1. /\ identityLock \in [Identities -> Requests \cup {Free}]
      /\ sessionLock \in [Requests -> Requests \cup {Free}]
      /\ r # Free
  BY AbsentAssumption DEF Inv, TypeOK
<1>2. CASE Release(r)
  BY <1>1, <1>2 DEF Release, IdentityLockOK, SessionLockOK
<1>3. CASE UNCHANGED locks /\ ~Release(r)
  <2>1. identityLock' = identityLock /\ sessionLock' = sessionLock
    BY <1>3 DEF locks
  <2>2. ASSUME NEW i \in Identities PROVE IdentityLockOK(r, i)
    <3>1. identityLock[i] = r => Kind[r] = "callback" /\ pc[r] \in {"sign", "commit"} /\ login[r] = i
      BY <1>1 DEF Inv, IdentityOK
    <3> QED
      BY <1>3, <2>1, <3>1 DEF IdentityLockOK
  <2>3. ASSUME NEW k \in Requests PROVE SessionLockOK(r, k)
    <3>1. sessionLock[k] # r
      BY <1>1, <1>3 DEF Inv, SessionOK
    <3> QED
      BY <2>1, <3>1 DEF SessionLockOK
  <2> QED
    BY <1>1, <2>1, <2>2, <2>3
<1> QED
  BY <1>2, <1>3

(* The variables of the requests after a step of r. *)
Local(r) ==
  /\ pc' \in [Requests -> States]
  /\ login' \in [Requests -> Identities \cup {NoToken}]
  /\ token' \in [Requests -> Requests \cup {NoToken}]
  /\ account' \in [Requests -> Requests \cup {NoAccount}]
  /\ draft' \in [Requests -> Rows \cup {NoRow}]
  /\ now' \in [Requests -> Nat]
  /\ ended' \in [Requests -> SUBSET Requests]
  /\ \A q \in Requests : q # r =>
       /\ pc'[q] = pc[q] /\ login'[q] = login[q] /\ token'[q] = token[q]
       /\ account'[q] = account[q] /\ draft'[q] = draft[q]
       /\ now'[q] = now[q] /\ ended'[q] = ended[q]

(* A step that neither commits nor takes a lock. *)
LEMMA PlainStep ==
  ASSUME Inv, NEW r \in Requests, pc[r] \notin Finished, UNCHANGED <<clock, tables>>, Local(r),
         UNCHANGED locks \/ Release(r),
         pc[r] \in {"sign", "commit"}
           => Release(r) \/ (pc'[r] \in {"sign", "commit"} /\ login'[r] = login[r]),
         pc[r] = "commitRevoke" => Release(r),
         Frame(r) => RequestOK(r)'
  PROVE  Inv'
<1>1. clock' = clock /\ accounts' = accounts /\ identity' = identity /\ session' = session
  BY DEF tables
<1>2. clock \in Nat /\ clock <= clock'
  BY <1>1 DEF Inv, TypeOK
<1>3. Frame(r)
  BY <1>1, <1>2, LocksKept DEF Frame, Local, RowKept
<1>4. TypeOK'
  BY <1>1, LocksKept DEF Inv, TypeOK, Local
<1> QED
  BY <1>3, <1>4, LocksKept, StepKeeps

(* Nothing is known of a request that was refused. *)
LEMMA RefusedOK ==
  ASSUME Inv, NEW r \in Requests, Frame(r), pc'[r] \in {"refused", "ignored"},
         now'[r] = now[r], ended'[r] = ended[r], clock' = clock
  PROVE  RequestOK(r)'
<1>1. UseOK(r)
  BY DEF Inv, RequestOK
<1>2. LoginOK(r)'
  BY DEF LoginOK
<1>3. now'[r] <= clock'
  BY <1>1 DEF UseOK
<1>4. \A k \in ended'[r] : k \in Answered' /\ ~Live(session'[k], now'[r])
  BY <1>1, AnsweredKept, DeadStays DEF UseOK
<1>5. ~Acting(r)' /\ ~Presented(r)'
  BY DEF Acting, Presented
<1> QED
  BY <1>2, <1>3, <1>4, <1>5 DEF UseOK, RequestOK

LEMMA AbortKeeps ==
  ASSUME Inv, NEW r \in Requests, pc[r] \notin Finished, NEW state \in {"refused", "ignored"},
         Abort(r, state), UNCHANGED <<clock, tables, inputs>>
  PROVE  Inv'
<1>1. Local(r)
  BY DEF Inv, TypeOK, Local, Abort, Goto, inputs, States, Finished
<1>2. pc'[r] = state /\ Release(r)
  BY DEF Abort, Goto, Inv, TypeOK
<1>3. now'[r] = now[r] /\ ended'[r] = ended[r] /\ clock' = clock
  BY DEF inputs
<1> QED
  BY <1>1, <1>2, <1>3, RefusedOK, PlainStep

(* Of a request that logs in, nothing else is to be known. *)
LEMMA LoggingInOK ==
  ASSUME Inv, NEW r \in Requests, Frame(r), Login(r), LoginOK(r)',
         pc'[r] \in {"find", "update", "create", "sign", "commit", "ok"},
         now'[r] = now[r], ended'[r] = ended[r], clock' = clock
  PROVE  RequestOK(r)'
<1>1. UseOK(r)
  BY DEF Inv, RequestOK
<1>2. now'[r] <= clock'
  BY <1>1 DEF UseOK
<1>3. \A k \in ended'[r] : k \in Answered' /\ ~Live(session'[k], now'[r])
  BY <1>1, AnsweredKept, DeadStays DEF UseOK
<1>4. ~Acting(r)' /\ ~Presented(r)'
  BY DEF Acting, Presented, Login
<1> QED
  BY <1>2, <1>3, <1>4 DEF UseOK, RequestOK
-----------------------------------------------------------------------------
(***************************************************************************)
(* The steps of a login                                                    *)
(***************************************************************************)
LEMMA CallbackKeeps ==
  ASSUME Inv, NEW r \in Requests, Callback(r)
  PROVE  Inv'
<1>1. Kind[r] = "callback" /\ pc[r] = "idle" /\ pc[r] \notin Finished
  BY DEF Callback, Finished
<1>2. CASE Abort(r, "refused") /\ UNCHANGED inputs
  BY <1>1, <1>2, AbortKeeps DEF Callback
<1>3. CASE /\ \E i \in Identities : login' = [login EXCEPT ![r] = i]
           /\ Goto(r, "find")
           /\ UNCHANGED <<locks, account, draft, token, now, ended>>
  <2>1. Local(r)
    BY <1>3 DEF Inv, TypeOK, Local, Goto, States
  <2>2. pc'[r] = "find" /\ login'[r] \in Identities
    BY <1>3 DEF Inv, TypeOK, Goto
  <2>3. ASSUME Frame(r) PROVE RequestOK(r)'
    <3>1. LoginOK(r)'
      BY <1>1, <2>2 DEF LoginOK
    <3> QED
      BY <1>1, <1>3, <2>2, <2>3, <3>1, LoggingInOK DEF Login, Callback
  <2> QED
    BY <1>1, <1>3, <2>1, <2>3, PlainStep DEF Callback
<1> QED
  BY <1>2, <1>3 DEF Callback

LEMMA FindIdentityKeeps ==
  ASSUME Inv, NEW r \in Requests, FindIdentity(r)
  PROVE  Inv'
<1>1. /\ pc[r] = "find" /\ pc[r] \notin Finished /\ Kind[r] = "callback"
      /\ login[r] \in Identities
  BY DEF FindIdentity, Finished, Inv, RequestOK, LoginOK
<1>2. Local(r)
  BY DEF FindIdentity, Inv, TypeOK, Local, Goto, States, inputs
<1>3. /\ pc'[r] \in {"create", "update"} /\ login'[r] = login[r]
      /\ pc'[r] = "update" => identity'[login[r]] # NoAccount
  BY DEF FindIdentity, Inv, TypeOK, Goto, inputs, tables
<1>4. ASSUME Frame(r) PROVE RequestOK(r)'
  <2>1. LoginOK(r)'
    BY <1>1, <1>3 DEF LoginOK
  <2> QED
    BY <1>1, <1>3, <1>4, <2>1, LoggingInOK DEF Login, FindIdentity, inputs
<1> QED
  BY <1>1, <1>2, <1>4, PlainStep DEF FindIdentity

(* r takes the lock of its identity and works for account a. *)
LEMMA LockIdentityKeeps ==
  ASSUME Inv, NEW r \in Requests, Kind[r] = "callback", pc[r] \in {"update", "create"},
         identityLock[login[r]] = Free,
         identityLock' = [identityLock EXCEPT ![login[r]] = r],
         NEW a \in Requests,
         a = IF identity[login[r]] = NoAccount THEN r ELSE identity[login[r]],
         account' = [account EXCEPT ![r] = a],
         Goto(r, "sign"),
         UNCHANGED <<clock, tables, sessionLock, draft, inputs>>
  PROVE  Inv'
<1>1. /\ pc[r] \notin Finished /\ pc[r] \notin {"revoke", "commitRevoke"}
      /\ login[r] \in Identities
  BY DEF Finished, Inv, RequestOK, LoginOK
<1>2. Local(r)
  BY DEF Inv, TypeOK, Local, Goto, States, inputs
<1>3. /\ pc'[r] = "sign" /\ login'[r] = login[r] /\ account'[r] = a
      /\ identityLock'[login[r]] = r /\ identity' = identity
  BY <1>1 DEF Inv, TypeOK, Goto, inputs, tables
<1>4. TypeOK'
  BY <1>2 DEF Inv, TypeOK, Local, tables
<1>5. /\ clock \in Nat /\ clock <= clock'
      /\ accounts' = accounts /\ session' = session /\ clock' = clock
  BY DEF Inv, TypeOK, tables
<1>6. \A i \in Identities :
        i # login[r] => identityLock'[i] = identityLock[i]
  BY DEF Inv, TypeOK
<1>7. Frame(r)
  BY <1>1, <1>2, <1>3, <1>5, <1>6 DEF Frame, Local, RowKept
<1>8. ASSUME NEW i \in Identities PROVE IdentityLockOK(r, i)
  <2>1. CASE i = login[r]
    BY <1>3, <2>1 DEF IdentityLockOK
  <2>2. CASE i # login[r]
    <3>1. identityLock[i] # r
      BY AbsentAssumption DEF Inv, IdentityOK
    <3> QED
      BY <1>6, <2>2, <3>1 DEF IdentityLockOK
  <2> QED
    BY <2>1, <2>2
<1>9. ASSUME NEW k \in Requests PROVE SessionLockOK(r, k)
  <2>1. sessionLock[k] # r
    BY AbsentAssumption DEF Inv, SessionOK
  <2> QED
    BY <2>1 DEF SessionLockOK
<1>10. RequestOK(r)'
  <2>1. LoginOK(r)'
    BY <1>1, <1>3 DEF LoginOK, Login
  <2> QED
    BY <1>3, <1>5, <1>7, <2>1, LoggingInOK DEF Login, inputs
<1> QED
  BY <1>4, <1>7, <1>8, <1>9, <1>10, StepKeeps

LEMMA UpdateIdentityKeeps ==
  ASSUME Inv, NEW r \in Requests, UpdateIdentity(r)
  PROVE  Inv'
<1>1. /\ pc[r] = "update" /\ Kind[r] = "callback"
      /\ login[r] \in Identities /\ identity[login[r]] # NoAccount
  BY DEF UpdateIdentity, Inv, RequestOK, LoginOK
<1>2. identity[login[r]] \in accounts /\ identity[login[r]] \in Requests
  BY <1>1 DEF Inv, IdentityOK, TypeOK
<1> QED
  BY <1>1, <1>2, LockIdentityKeeps DEF UpdateIdentity

LEMMA CreateAccountKeeps ==
  ASSUME Inv, NEW r \in Requests, CreateAccount(r)
  PROVE  Inv'
<1>1. pc[r] = "create" /\ Kind[r] = "callback" /\ pc[r] \notin Finished
  BY DEF CreateAccount, Inv, RequestOK, LoginOK, Finished
<1>2. CASE Abort(r, "refused")
  BY <1>1, <1>2, AbortKeeps DEF CreateAccount
<1>3. CASE ~Abort(r, "refused")
  BY <1>1, <1>3, LockIdentityKeeps DEF CreateAccount
<1> QED
  BY <1>2, <1>3

LEMMA PasskeyLoginKeeps ==
  ASSUME Inv, NEW r \in Requests, PasskeyLogin(r)
  PROVE  Inv'
<1>1. Kind[r] = "passkey" /\ pc[r] = "idle" /\ pc[r] \notin Finished
  BY DEF PasskeyLogin, Finished
<1>2. CASE Abort(r, "refused")
  BY <1>1, <1>2, AbortKeeps DEF PasskeyLogin
<1>3. ASSUME NEW a \in accounts,
             account' = [account EXCEPT ![r] = a],
             Goto(r, IF HasIdentity(a) THEN "sign" ELSE "orphan"),
             UNCHANGED <<locks, draft>>
      PROVE  Inv'
  <2>1. HasIdentity(a) /\ a \in Requests
    BY DEF Inv, TypeOK
  <2>2. Local(r)
    BY <1>3, <2>1 DEF PasskeyLogin, Inv, TypeOK, Local, Goto, States, inputs
  <2>3. pc'[r] = "sign" /\ account'[r] = a /\ accounts' = accounts
    BY <1>3, <2>1 DEF PasskeyLogin, Inv, TypeOK, Goto, tables
  <2>4. ASSUME Frame(r) PROVE RequestOK(r)'
    <3>1. LoginOK(r)'
      BY <1>1, <2>3 DEF LoginOK, Login
    <3> QED
      BY <1>1, <2>3, <2>4, <3>1, LoggingInOK DEF Login, PasskeyLogin, inputs
  <2> QED
    BY <1>1, <1>3, <2>2, <2>4, PlainStep DEF PasskeyLogin
<1> QED
  BY <1>2, <1>3 DEF PasskeyLogin

LEMMA SignKeeps ==
  ASSUME Inv, NEW r \in Requests, Sign(r)
  PROVE  Inv'
<1>1. pc[r] = "sign" /\ pc[r] \notin Finished /\ LoginOK(r) /\ Login(r)
  BY DEF Sign, Finished, Inv, RequestOK, LoginOK
<1>2. account[r] \in Requests
  <2>1. CASE Kind[r] = "callback"
    <3>1. login[r] \in Identities
      BY <1>1, <2>1 DEF LoginOK
    <3> QED
      BY <1>1, <2>1, <3>1 DEF LoginOK, Inv, TypeOK
  <2>2. CASE Kind[r] = "passkey"
    BY <1>1, <2>2 DEF LoginOK, Inv, TypeOK
  <2> QED
    BY <1>1, <2>1, <2>2 DEF Login
<1>3. clock + TTL \in Nat
  BY TTLAssumption DEF Inv, TypeOK
<1>4. PICK row \in Rows : row = [account |-> account[r], exp |-> clock + TTL, revoked |-> FALSE]
  BY <1>2, <1>3 DEF Rows
<1>5. row.account = account[r]
  BY <1>4
<1>6. draft' = [draft EXCEPT ![r] = row]
  BY <1>4 DEF Sign
<1>7. Local(r)
  BY <1>6 DEF Sign, Inv, TypeOK, Local, Goto, States, inputs
<1>8. /\ pc'[r] = "commit" /\ draft'[r] = row /\ account'[r] = account[r] /\ login'[r] = login[r]
      /\ identityLock' = identityLock /\ identity' = identity /\ accounts' = accounts
  BY <1>6 DEF Sign, Inv, TypeOK, Goto, inputs, tables, locks
<1>9. ASSUME Frame(r) PROVE RequestOK(r)'
  <2>1. LoginOK(r)'
    BY <1>1, <1>5, <1>8 DEF LoginOK
  <2> QED
    BY <1>1, <1>8, <1>9, <2>1, LoggingInOK DEF Sign, inputs
<1> QED
  BY <1>1, <1>7, <1>8, <1>9, PlainStep DEF Sign

LEMMA CommitFailsKeeps ==
  ASSUME Inv, NEW r \in Requests, CommitFails(r)
  PROVE  Inv'
<1>1. pc[r] = "commit" /\ pc[r] \notin Finished /\ LoginOK(r) /\ Login(r)
  BY DEF CommitFails, Finished, Inv, RequestOK, LoginOK
<1>2. Local(r)
  BY DEF CommitFails, Inv, TypeOK, Local, Goto, States, Finished, inputs
<1>3. pc'[r] = "ok" /\ login'[r] = login[r]
  BY DEF CommitFails, Inv, TypeOK, Goto, inputs
<1>4. ASSUME Frame(r) PROVE RequestOK(r)'
  <2>1. LoginOK(r)'
    BY <1>1, <1>3 DEF LoginOK, Login
  <2> QED
    BY <1>1, <1>3, <1>4, <2>1, LoggingInOK DEF CommitFails, inputs
<1>5. Release(r)
  BY DEF CommitFails
<1> QED
  BY <1>1, <1>2, <1>4, <1>5, PlainStep, <1>3 DEF CommitFails

(* The table of accounts grows by that of r, unless it is there already;   *)
(* the identity of a callback points to it.                                *)
LEMMA CommitKeeps ==
  ASSUME Inv, NEW r \in Requests, Commit(r)
  PROVE  Inv'
<1> DEFINE a == account[r]
<1>1. pc[r] = "commit" /\ pc[r] \notin Finished /\ LoginOK(r) /\ Login(r) /\ r \notin Answered
  BY DEF Commit, Finished, Inv, RequestOK, LoginOK, Answered
<1>2. Local(r)
  BY DEF Commit, Inv, TypeOK, Local, Goto, States, Finished, inputs
<1>3. /\ pc'[r] = "ok" /\ login' = login /\ clock' = clock /\ token' = token
      /\ now'[r] = now[r] /\ ended'[r] = ended[r]
      /\ accounts' = accounts \cup {a} /\ session' = [session EXCEPT ![r] = draft[r]]
      /\ identity' = IF Kind[r] = "callback" THEN [identity EXCEPT ![login[r]] = a] ELSE identity
  BY DEF Commit, Inv, TypeOK, Goto, inputs
<1>4. draft[r] \in Rows /\ draft[r].account = a /\ draft[r] # NoRow
  BY <1>1, AbsentAssumption DEF LoginOK, Rows
<1>5. a \in Requests
  BY <1>4 DEF Rows
<1>6. Kind[r] = "callback" => login[r] \in Identities /\ identityLock[login[r]] = r
  BY <1>1 DEF LoginOK
<1>7. /\ \A i \in Identities :
           IF Kind[r] = "callback" /\ i = login[r] THEN identity'[i] = a
           ELSE identity'[i] = identity[i]
      /\ session'[r] = draft[r]
      /\ \A k \in Requests : k # r => session'[k] = session[k]
  BY <1>3 DEF Inv, TypeOK
<1>8. \A i \in Identities : identity[i] # NoAccount => identity'[i] = identity[i]
  BY <1>1, <1>7 DEF LoginOK
<1>9. /\ \A i \in Identities : IdentityLockOK(r, i)
      /\ \A k \in Requests : SessionLockOK(r, k)
      /\ \A i \in Identities :
           identityLock[i] \notin {r, Free} => identityLock'[i] = identityLock[i]
      /\ \A k \in Requests :
           sessionLock[k] \notin {r, Free} => sessionLock'[k] = sessionLock[k]
      /\ identityLock' \in [Identities -> Requests \cup {Free}]
      /\ sessionLock' \in [Requests -> Requests \cup {Free}]
  <2>1. Release(r)
    BY DEF Commit
  <2> QED
    BY <2>1, LocksKept
<1>10. Frame(r)
  <2>1. \A i \in Identities : identityLock[i] \notin {r, Free} => identity'[i] = identity[i]
    BY <1>6, <1>7
  <2>2. \A k \in Requests : k \in Answered => RowKept(k)
    BY <1>1, <1>7 DEF RowKept
  <2>3. clock' \in Nat /\ clock <= clock' /\ accounts \subseteq accounts'
    BY <1>3 DEF Inv, TypeOK
  <2> QED
    BY <1>1, <1>2, <1>8, <1>9, <2>1, <2>2, <2>3 DEF Frame, Local
<1>11. TypeOK'
  <2>1. accounts' \subseteq Requests
    BY <1>3, <1>5 DEF Inv, TypeOK
  <2>2. identity' \in [Identities -> Requests \cup {NoAccount}]
    BY <1>3, <1>5 DEF Inv, TypeOK
  <2>3. session' \in [Requests -> Rows \cup {NoRow}]
    BY <1>3, <1>4 DEF Inv, TypeOK
  <2> QED
    BY <1>2, <1>3, <1>9, <2>1, <2>2, <2>3 DEF Inv, TypeOK, Local
<1>12. RequestOK(r)'
  <2>1. LoginOK(r)'
    BY <1>1, <1>3 DEF LoginOK, Login
  <2> QED
    BY <1>1, <1>3, <1>10, <2>1, LoggingInOK
<1>13. \A q \in Requests : RequestOK(q)'
  BY <1>10, <1>12, OthersKept
<1>14. r \in Answered'
  BY <1>1, <1>3 DEF Answered, Login
<1>15. ASSUME NEW i \in Identities, Kind[r] = "callback", i = login[r]
       PROVE  /\ identity'[i] = a /\ a \in Answered'
              /\ \A j \in Identities : identity'[j] = a => i = j
  <2>1. identity'[i] = a
    BY <1>7, <1>15
  <2>2. CASE identity[i] = NoAccount
    <3>1. a = r
      BY <1>1, <1>15, <2>2 DEF LoginOK
    <3>2. \A j \in Identities : identity[j] # r
      BY <1>1, AbsentAssumption DEF Inv, IdentityOK
    <3> QED
      BY <1>7, <1>14, <1>15, <2>1, <3>1, <3>2
  <2>3. CASE identity[i] # NoAccount
    <3>1. a = identity[i]
      BY <1>1, <1>15, <2>3 DEF LoginOK
    <3>2. \A j \in Identities : identity[i] = identity[j] => i = j
      BY <2>3 DEF Inv, IdentityOK
    <3>3. a \in Answered'
      BY <1>10, <2>3, <3>1, AnsweredKept DEF Inv, IdentityOK
    <3> QED
      BY <1>7, <1>15, <2>1, <3>1, <3>2, <3>3
  <2> QED
    BY <2>2, <2>3
<1>16. ASSUME NEW i \in Identities PROVE IdentityOK(i)'
  <2>1. IdentityOK(i)
    BY DEF Inv
  <2>2. identityLock[i] \in Requests \cup {Free}
    BY DEF Inv, TypeOK
  <2>3. identity'[i] # NoAccount => identity'[i] \in accounts' /\ identity'[i] \in Answered'
    <3>1. CASE Kind[r] = "callback" /\ i = login[r]
      BY <1>3, <1>15, <3>1
    <3>2. CASE ~(Kind[r] = "callback" /\ i = login[r])
      BY <1>3, <1>7, <1>10, <2>1, <3>2, AnsweredKept DEF IdentityOK
    <3> QED
      BY <3>1, <3>2
  <2>4. ASSUME NEW j \in Identities, identity'[i] = identity'[j], identity'[i] # NoAccount
        PROVE  i = j
    <3>1. CASE Kind[r] = "callback" /\ i = login[r]
      BY <1>15, <2>4, <3>1
    <3>2. CASE Kind[r] = "callback" /\ j = login[r]
      BY <1>15, <2>4, <3>2
    <3>3. CASE ~(Kind[r] = "callback" /\ (i = login[r] \/ j = login[r]))
      BY <1>7, <2>1, <2>4, <3>3 DEF IdentityOK
    <3> QED
      BY <3>1, <3>2, <3>3
  <2>5. ASSUME identityLock'[i] # Free
        PROVE  /\ Kind[identityLock'[i]] = "callback"
               /\ pc'[identityLock'[i]] \in {"sign", "commit"}
               /\ login'[identityLock'[i]] = i
    <3>1. IdentityLockOK(r, i)
      BY <1>9
    <3> QED
      BY <1>10, <2>1, <2>2, <2>5, <3>1 DEF IdentityOK, IdentityLockOK, Frame
  <2> QED
    BY <2>3, <2>4, <2>5 DEF IdentityOK
<1>17. ASSUME NEW b \in accounts' PROVE HasIdentity(b)'
  <2>1. CASE b \in accounts
    <3>1. PICK i \in Identities : identity[i] = b
      BY <2>1 DEF Inv, HasIdentity
    <3>2. identity'[i] = b
      BY <1>8, <2>1, <3>1, AbsentAssumption DEF Inv, TypeOK
    <3> QED
      BY <3>2 DEF HasIdentity
  <2>2. CASE b \notin accounts
    <3>1. b = a /\ Kind[r] = "callback"
      BY <1>1, <1>3, <2>2 DEF Login, LoginOK
    <3>2. identity'[login[r]] = b /\ login[r] \in Identities
      BY <1>6, <1>7, <3>1
    <3> QED
      BY <3>2 DEF HasIdentity
  <2> QED
    BY <2>1, <2>2
<1>18. ASSUME NEW k \in Requests PROVE SessionOK(k)'
  <2>1. CASE k = r
    <3>1. /\ session'[r].account \in accounts'
          /\ Kind[r] = "callback" => identity'[login'[r]] = session'[r].account
      BY <1>3, <1>4, <1>6, <1>7
    <3>2. sessionLock'[r] = Free
      <4>1. session[r] = NoRow /\ SessionLockOK(r, r) /\ SessionOK(r)
        BY <1>1, <1>9 DEF Inv, SessionOK
      <4> QED
        BY <1>3, <4>1 DEF SessionLockOK, SessionOK
    <3> QED
      BY <1>14, <2>1, <3>1, <3>2 DEF SessionOK
  <2>2. CASE k # r
    BY <1>7, <1>9, <1>10, <2>2, SessionKept
  <2> QED
    BY <2>1, <2>2
<1> QED
  BY <1>11, <1>13, <1>16, <1>17, <1>18 DEF Inv
-----------------------------------------------------------------------------
(***************************************************************************)
(* The steps under a session                                               *)
(***************************************************************************)
(* Of a request that does not log in, LoginOK says nothing. *)
LEMMA ActingOK ==
  ASSUME NEW r \in Requests, ~Login(r),
         pc'[r] \in {"verify", "load", "ok", "revoke", "commitRevoke", "revoked"}
  PROVE  LoginOK(r)'
  BY DEF LoginOK, Login

LEMMA PresentKeeps ==
  ASSUME Inv, NEW r \in Requests, NEW state \in {"verify", "revoke"}, Present(r, state),
         Kind[r] = IF state = "verify" THEN "use" ELSE "logout"
  PROVE  Inv'
<1>1. pc[r] = "idle" /\ pc[r] \notin Finished /\ clock \in Nat /\ clock' = clock
  BY DEF Present, Finished, Inv, TypeOK
<1>2. PICK k \in Answered : token' = [token EXCEPT ![r] = k]
  BY DEF Present
<1>3. k \in Requests
  BY DEF Answered
<1>4. ASSUME NEW d \in LoggedOut
      PROVE  d \in Answered /\ ~Live(session[d], clock)
  <2>1. PICK l \in Requests : pc[l] = "revoked" /\ d = token[l]
    BY DEF LoggedOut
  <2>2. d \in Answered /\ ~Live(session[d], now[l]) /\ now[l] <= clock
    BY <2>1 DEF Inv, RequestOK, UseOK, Presented
  <2>3. d \in Requests /\ now[l] \in Nat /\ session[d] \in Rows \cup {NoRow}
    BY <2>1, <2>2 DEF Inv, TypeOK, Answered
  <2> QED
    BY <1>1, <2>2, <2>3 DEF Live, Rows
<1>5. LoggedOut \subseteq Requests
  BY <1>4 DEF Answered
<1>6. Local(r)
  BY <1>1, <1>2, <1>3, <1>5 DEF Present, Inv, TypeOK, Local, Goto, States
<1>7. /\ pc'[r] = state /\ token'[r] = k /\ now'[r] = clock /\ ended'[r] = LoggedOut
      /\ session' = session
  BY <1>2 DEF Present, Inv, TypeOK, Goto, tables
<1>8. ASSUME Frame(r) PROVE RequestOK(r)'
  <2>1. LoginOK(r)'
    BY <1>7, ActingOK DEF Login
  <2>2. k \in Answered'
    BY <1>8, AnsweredKept
  <2>3. \A d \in ended'[r] : d \in Answered' /\ ~Live(session'[d], now'[r])
    BY <1>4, <1>7, <1>8, AnsweredKept
  <2>4. ~Acting(r)'
    BY <1>7 DEF Acting
  <2> QED
    BY <1>1, <1>7, <2>1, <2>2, <2>3, <2>4 DEF RequestOK, UseOK
<1> QED
  BY <1>1, <1>6, <1>8, PlainStep DEF Present

LEMMA VerifySessionKeeps ==
  ASSUME Inv, NEW r \in Requests, VerifySession(r)
  PROVE  Inv'
<1> DEFINE row == session[token[r]]
<1>1. /\ pc[r] = "verify" /\ pc[r] \notin Finished /\ Kind[r] = "use" /\ UseOK(r)
      /\ token[r] \in Answered
  BY DEF VerifySession, Finished, Inv, RequestOK, UseOK, Presented
<1>2. CASE Abort(r, "refused")
  BY <1>1, <1>2, AbortKeeps DEF VerifySession
<1>3. CASE /\ Live(row, now[r])
           /\ account' = [account EXCEPT ![r] = row.account]
           /\ Goto(r, "load")
           /\ UNCHANGED <<locks, draft>>
  <2>1. row \in Rows /\ row # NoRow /\ row.account \in Requests /\ now[r] < row.exp
    <3>1. row \in Rows \cup {NoRow}
      BY <1>1 DEF Inv, TypeOK, Answered
    <3> QED
      BY <1>3, <3>1 DEF Live, Rows, Inv, TypeOK
  <2>2. Local(r)
    BY <1>3, <2>1 DEF VerifySession, Inv, TypeOK, Local, Goto, States, inputs
  <2>3. /\ pc'[r] = "load" /\ account'[r] = row.account /\ token'[r] = token[r]
        /\ now'[r] = now[r] /\ ended'[r] = ended[r] /\ session' = session /\ clock' = clock
    BY <1>3 DEF VerifySession, Inv, TypeOK, Goto, inputs, tables
  <2>4. token[r] \notin ended[r]
    BY <1>1, <1>3 DEF UseOK
  <2>5. ASSUME Frame(r) PROVE RequestOK(r)'
    <3>1. LoginOK(r)'
      BY <1>1, <2>3, ActingOK DEF Login
    <3>2. token[r] \in Answered'
      BY <1>1, <2>5, AnsweredKept
    <3>3. \A d \in ended'[r] : d \in Answered' /\ ~Live(session'[d], now'[r])
      BY <1>1, <2>3, <2>5, AnsweredKept DEF UseOK
    <3> QED
      BY <1>1, <2>1, <2>3, <2>4, <3>1, <3>2, <3>3 DEF RequestOK, UseOK
  <2> QED
    BY <1>1, <1>3, <2>2, <2>5, PlainStep DEF VerifySession
<1> QED
  BY <1>2, <1>3 DEF VerifySession

LEMMA LoadAccountKeeps ==
  ASSUME Inv, NEW r \in Requests, LoadAccount(r)
  PROVE  Inv'
<1>1. /\ pc[r] = "load" /\ pc[r] \notin Finished /\ Kind[r] = "use" /\ UseOK(r)
      /\ token[r] \in Answered /\ Acting(r)
  BY DEF LoadAccount, Finished, Inv, RequestOK, UseOK, Presented, Acting
<1>2. account[r] \in accounts /\ HasIdentity(account[r])
  <2>1. SessionOK(token[r])
    BY <1>1 DEF Inv, Answered
  <2> QED
    BY <1>1, <2>1 DEF UseOK, SessionOK, Inv
<1>3. Local(r)
  BY <1>2 DEF LoadAccount, Inv, TypeOK, Local, Goto, States, Finished, inputs
<1>4. /\ pc'[r] = "ok" /\ account'[r] = account[r] /\ token'[r] = token[r]
      /\ now'[r] = now[r] /\ ended'[r] = ended[r] /\ session' = session /\ clock' = clock
  BY <1>2 DEF LoadAccount, Inv, TypeOK, Goto, inputs, tables
<1>5. ASSUME Frame(r) PROVE RequestOK(r)'
  <2>1. LoginOK(r)'
    BY <1>1, <1>4, ActingOK DEF Login
  <2>2. token[r] \in Answered'
    BY <1>1, <1>5, AnsweredKept
  <2>3. \A d \in ended'[r] : d \in Answered' /\ ~Live(session'[d], now'[r])
    BY <1>1, <1>4, <1>5, AnsweredKept DEF UseOK
  <2> QED
    BY <1>1, <1>4, <2>1, <2>2, <2>3 DEF RequestOK, UseOK
<1> QED
  BY <1>1, <1>3, <1>5, PlainStep DEF LoadAccount

LEMMA RevokeKeeps ==
  ASSUME Inv, NEW r \in Requests, Revoke(r)
  PROVE  Inv'
<1> DEFINE k == token[r]
<1>1. /\ pc[r] = "revoke" /\ pc[r] \notin Finished /\ Kind[r] = "logout" /\ UseOK(r)
      /\ k \in Answered /\ k \in Requests /\ sessionLock[k] = Free
  BY DEF Revoke, Finished, Inv, RequestOK, UseOK, Presented, Answered
<1>2. Local(r)
  BY DEF Revoke, Inv, TypeOK, Local, Goto, States, inputs
<1>3. PICK taken \in {r, Free} : taken = IF Live(session[k], now[r]) THEN r ELSE Free
  OBVIOUS
<1>4. sessionLock' = [sessionLock EXCEPT ![k] = taken]
  BY <1>3 DEF Revoke
<1>5. /\ pc'[r] = "commitRevoke" /\ token'[r] = k /\ now'[r] = now[r] /\ ended'[r] = ended[r]
      /\ session' = session /\ clock' = clock /\ identityLock' = identityLock
      /\ accounts' = accounts /\ identity' = identity
      /\ sessionLock'[k] = taken
      /\ \A q \in Requests : q # k => sessionLock'[q] = sessionLock[q]
  BY <1>1, <1>4 DEF Revoke, Inv, TypeOK, Goto, inputs, tables
<1>6. TypeOK'
  <2>1. sessionLock' \in [Requests -> Requests \cup {Free}]
    BY <1>3, <1>4 DEF Inv, TypeOK
  <2> QED
    BY <1>2, <1>5, <2>1 DEF Inv, TypeOK, Local
<1>7. Frame(r)
  <2>1. clock' \in Nat /\ clock <= clock'
    BY <1>5 DEF Inv, TypeOK
  <2> QED
    BY <1>1, <1>2, <1>5, <2>1 DEF Frame, Local, RowKept
<1>8. ASSUME NEW i \in Identities PROVE IdentityLockOK(r, i)
  <2>1. identityLock[i] # r
    BY <1>1, AbsentAssumption DEF Inv, IdentityOK
  <2> QED
    BY <1>5, <2>1 DEF IdentityLockOK
<1>9. ASSUME NEW q \in Requests PROVE SessionLockOK(r, q)
  <2>1. CASE q = k
    <3>1. taken = r => session[k] # NoRow
      BY <1>3, AbsentAssumption DEF Live
    <3> QED
      BY <1>3, <1>5, <2>1, <3>1 DEF SessionLockOK
  <2>2. CASE q # k
    <3>1. sessionLock[q] # r
      BY <1>1, AbsentAssumption DEF Inv, SessionOK
    <3> QED
      BY <1>5, <2>2, <3>1 DEF SessionLockOK
  <2> QED
    BY <2>1, <2>2
<1>10. RequestOK(r)'
  <2>1. LoginOK(r)'
    BY <1>1, <1>5, ActingOK DEF Login
  <2>2. k \in Answered'
    BY <1>1, <1>7, AnsweredKept
  <2>3. \A d \in ended'[r] : d \in Answered' /\ ~Live(session'[d], now'[r])
    BY <1>1, <1>5, <1>7, AnsweredKept DEF UseOK
  <2>4. sessionLock'[k] = r \/ ~Live(session'[k], now'[r])
    BY <1>3, <1>5
  <2>5. ~Acting(r)'
    BY <1>1, <1>5 DEF Acting
  <2> QED
    BY <1>1, <1>5, <2>1, <2>2, <2>3, <2>4, <2>5 DEF RequestOK, UseOK
<1> QED
  BY <1>6, <1>7, <1>8, <1>9, <1>10, StepKeeps DEF Revoke

LEMMA CommitRevokeKeeps ==
  ASSUME Inv, NEW r \in Requests, CommitRevoke(r)
  PROVE  Inv'
<1> DEFINE k == token[r]
<1>1. /\ pc[r] = "commitRevoke" /\ pc[r] \notin Finished /\ Kind[r] = "logout" /\ UseOK(r)
      /\ k \in Answered /\ k \in Requests
  BY DEF CommitRevoke, Finished, Inv, RequestOK, UseOK, Presented, Answered
<1>2. Local(r)
  BY DEF CommitRevoke, Inv, TypeOK, Local, Goto, States, Finished, inputs
<1>3. /\ pc'[r] = "revoked" /\ token'[r] = k /\ now'[r] = now[r] /\ ended'[r] = ended[r]
      /\ clock' = clock /\ accounts' = accounts /\ identity' = identity
  BY DEF CommitRevoke, Inv, TypeOK, Goto, inputs
<1>4. /\ \A i \in Identities : IdentityLockOK(r, i)
      /\ \A q \in Requests : SessionLockOK(r, q)
      /\ \A i \in Identities :
           identityLock[i] \notin {r, Free} => identityLock'[i] = identityLock[i]
      /\ \A q \in Requests :
           sessionLock[q] \notin {r, Free} => sessionLock'[q] = sessionLock[q]
      /\ identityLock' \in [Identities -> Requests \cup {Free}]
      /\ sessionLock' \in [Requests -> Requests \cup {Free}]
  <2>1. Release(r)
    BY DEF CommitRevoke
  <2> QED
    BY <1>1, <2>1, LocksKept
<1>5. ASSUME NEW q \in Requests
      PROVE  /\ session'[q] \in Rows \cup {NoRow}
             /\ RowKept(q)
             /\ sessionLock[q] = r => session'[q].revoked
             /\ session'[q] # NoRow
                  => session[q] # NoRow /\ session'[q].account = session[q].account
             /\ session[q] # NoRow => session'[q] # NoRow
  <2>1. session[q] \in Rows \cup {NoRow} /\ SessionOK(q)
    BY DEF Inv, TypeOK
  <2>2. CASE sessionLock[q] = r
    <3>1. session[q] \in Rows /\ session[q] # NoRow
      BY <2>1, <2>2, AbsentAssumption DEF SessionOK
    <3>2. session'[q] = [session[q] EXCEPT !.revoked = TRUE]
      BY <2>2 DEF CommitRevoke
    <3>3. /\ session'[q] \in Rows /\ session'[q].revoked
          /\ session'[q].account = session[q].account /\ session'[q].exp = session[q].exp
      BY <3>1, <3>2 DEF Rows
    <3>4. session'[q] # NoRow
      BY <3>3, AbsentAssumption DEF Rows
    <3> QED
      BY <3>1, <3>3, <3>4 DEF RowKept
  <2>3. CASE sessionLock[q] # r
    <3>1. session'[q] = session[q]
      BY <2>3 DEF CommitRevoke
    <3> QED
      BY <2>1, <2>3, <3>1 DEF RowKept
  <2> QED
    BY <2>2, <2>3
<1>6. session' \in [Requests -> Rows \cup {NoRow}]
  <2>1. session' = [q \in Requests |-> session'[q]]
    BY DEF CommitRevoke
  <2> QED
    BY <1>5, <2>1
<1>7. TypeOK'
  BY <1>2, <1>3, <1>4, <1>6 DEF Inv, TypeOK, Local
<1>8. Frame(r)
  <2>1. clock' \in Nat /\ clock <= clock'
    BY <1>3 DEF Inv, TypeOK
  <2> QED
    BY <1>1, <1>2, <1>3, <1>4, <1>5, <2>1 DEF Frame, Local
<1>9. RequestOK(r)'
  <2>1. LoginOK(r)'
    BY <1>1, <1>3, ActingOK DEF Login
  <2>2. k \in Answered'
    BY <1>1, <1>8, AnsweredKept
  <2>3. \A d \in ended'[r] : d \in Answered' /\ ~Live(session'[d], now'[r])
    BY <1>1, <1>3, <1>8, AnsweredKept, DeadStays DEF UseOK
  <2>4. ~Live(session'[k], now[r])
    <3>1. CASE sessionLock[k] = r
      BY <1>1, <1>5, <3>1 DEF Live
    <3>2. CASE ~Live(session[k], now[r])
      BY <1>1, <1>8, <3>2, DeadStays
    <3> QED
      BY <1>1, <3>1, <3>2 DEF UseOK
  <2>5. ~Acting(r)'
    BY <1>1, <1>3 DEF Acting
  <2> QED
    BY <1>1, <1>3, <2>1, <2>2, <2>3, <2>4, <2>5 DEF RequestOK, UseOK
<1>10. \A q \in Requests : RequestOK(q)'
  BY <1>8, <1>9, OthersKept
<1>11. \A i \in Identities : IdentityOK(i)'
  BY <1>3, <1>4, <1>8, IdentitiesKept
<1>12. \A q \in Requests : SessionOK(q)'
  BY <1>4, <1>5, <1>8, SessionKept
<1>13. \A a \in accounts' : HasIdentity(a)'
  BY <1>3 DEF Inv, HasIdentity
<1> QED
  BY <1>7, <1>10, <1>11, <1>12, <1>13 DEF Inv
-----------------------------------------------------------------------------
(***************************************************************************)
(* The theorems                                                            *)
(***************************************************************************)
LEMMA TickKeeps ==
  ASSUME Inv, Tick
  PROVE  Inv'
<1>1. /\ UNCHANGED <<accounts, identity, session, identityLock, sessionLock, pc, login, token,
                     account, draft, now, ended>>
      /\ clock' \in 0..MaxClock /\ clock <= clock'
  BY TTLAssumption DEF Tick, tables, locks, inputs, Inv, TypeOK
<1>2. TypeOK'
  BY <1>1 DEF Inv, TypeOK
<1>3. ASSUME NEW r \in Requests PROVE RequestOK(r)'
  <2>1. now[r] <= clock'
    <3>1. now[r] \in Nat /\ clock \in Nat /\ clock' \in Nat /\ now[r] <= clock
      BY <1>1 DEF Inv, TypeOK, RequestOK, UseOK
    <3> QED
      BY <1>1, <3>1
  <2> QED
    BY <1>1, <2>1 DEF Inv, RequestOK, LoginOK, UseOK, Acting, Presented, Answered
<1>4. \A i \in Identities : IdentityOK(i)'
  BY <1>1 DEF Inv, IdentityOK, Answered
<1>5. \A k \in Requests : SessionOK(k)'
  BY <1>1 DEF Inv, SessionOK, Answered
<1>6. \A a \in accounts' : HasIdentity(a)'
  BY <1>1 DEF Inv, HasIdentity
<1> QED
  BY <1>2, <1>3, <1>4, <1>5, <1>6 DEF Inv

LEMMA StutterKeeps ==
  ASSUME Inv, UNCHANGED vars
  PROVE  Inv'
  BY DEF vars, Inv, TypeOK, RequestOK, LoginOK, UseOK, Acting, Presented, Answered,
         IdentityOK, SessionOK, HasIdentity

LEMMA InvInit == Init => Inv
<1> SUFFICES ASSUME Init PROVE Inv
  OBVIOUS
<1>1. TypeOK
  BY TTLAssumption DEF Init, TypeOK, States
<1>2. ASSUME NEW r \in Requests PROVE RequestOK(r)
  <2>1. pc[r] = "idle" /\ now[r] = 0 /\ clock = 0 /\ ended[r] = {}
    BY DEF Init
  <2>2. LoginOK(r)
    BY <2>1 DEF LoginOK
  <2>3. UseOK(r)
    BY <2>1 DEF UseOK, Acting, Presented
  <2> QED
    BY <2>2, <2>3 DEF RequestOK
<1>3. \A i \in Identities : IdentityOK(i)
  BY DEF Init, IdentityOK
<1>4. \A k \in Requests : SessionOK(k)
  BY DEF Init, SessionOK
<1> QED
  BY <1>1, <1>2, <1>3, <1>4 DEF Inv, Init

LEMMA FailKeeps ==
  ASSUME Inv, NEW r \in Requests, Fail(r)
  PROVE  Inv'
<1>1. pc[r] \notin Finished
  BY DEF Fail, InProgress
<1> QED
  BY <1>1, AbortKeeps DEF Fail

LEMMA InvNext == Inv /\ [Next]_vars => Inv'
<1> SUFFICES ASSUME Inv, [Next]_vars PROVE Inv'
  OBVIOUS
<1>1. ASSUME NEW r \in Requests, Arrive(r) PROVE Inv'
  BY <1>1, CallbackKeeps, PasskeyLoginKeeps, PresentKeeps DEF Arrive, ReadSession, Logout
<1>2. ASSUME NEW r \in Requests, Step(r) PROVE Inv'
  BY <1>2, FindIdentityKeeps, UpdateIdentityKeeps, CreateAccountKeeps, SignKeeps, CommitKeeps,
     CommitFailsKeeps, VerifySessionKeeps, LoadAccountKeeps, RevokeKeeps, CommitRevokeKeeps
  DEF Step
<1>3. ASSUME NEW r \in Requests, Fail(r) PROVE Inv'
  BY <1>3, FailKeeps
<1>4. CASE Tick
  BY <1>4, TickKeeps
<1>5. CASE UNCHANGED vars
  BY <1>5, StutterKeeps
<1> QED
  BY <1>1, <1>2, <1>3, <1>4, <1>5 DEF Next

LEMMA InvAlways == Spec => []Inv
  BY InvInit, InvNext, PTL DEF Spec

(* Tables, locks and requests stay within their types. *)
THEOREM AccountsTyped == Spec => []TypeOK
<1>1. Inv => TypeOK
  BY InvImplies
<1> QED
  BY <1>1, InvAlways, PTL

(* However first logins race, fail and roll back, an identity has one      *)
(* account, and an account an identity.                                    *)
THEOREM NoDuplicateAccounts == Spec => []OneAccountPerIdentity
<1>1. Inv => OneAccountPerIdentity
  BY InvImplies
<1> QED
  BY <1>1, InvAlways, PTL

(* Whoever acts under a session acts for the account of a committed login. *)
THEOREM SessionsActForTheirLogin == Spec => []ActsForItsLogin
<1>1. Inv => ActsForItsLogin
  BY InvImplies
<1> QED
  BY <1>1, InvAlways, PTL

(* No request that comes after a carried out logout acts under its session.*)
THEOREM LogoutIsFinal == Spec => []LogoutEnds
<1>1. Inv => LogoutEnds
  BY InvImplies
<1> QED
  BY <1>1, InvAlways, PTL

(* No login or session leads to an account without its identity. *)
THEOREM NoOrphans == Spec => []NobodyOrphaned
<1>1. Inv => NobodyOrphaned
  BY InvImplies
<1> QED
  BY <1>1, InvAlways, PTL

(* Only the commits change rows: one adds a session under its own token    *)
(* and keeps the identity it has locked, the other revokes the session its *)
(* request presented.                                                      *)
LEMMA TablesForGood ==
  ASSUME Inv, NEW r \in Requests, Arrive(r) \/ Step(r) \/ Fail(r)
  PROVE  /\ \A i \in Identities : identity[i] # NoAccount => identity'[i] = identity[i]
         /\ \A k \in Requests : session[k] # NoRow /\ session'[k] # session[k] =>
              /\ session'[k] = [session[k] EXCEPT !.revoked = TRUE]
              /\ Kind[r] = "logout" /\ token[r] = k
              /\ pc[r] = "commitRevoke" /\ pc'[r] = "revoked"
<1>1. CASE Commit(r)
  <2>1. pc[r] = "commit" /\ session' = [session EXCEPT ![r] = draft[r]]
    BY <1>1 DEF Commit
  <2>2. session[r] = NoRow
    BY <2>1 DEF Inv, SessionOK, Answered
  <2>3. \A k \in Requests : session[k] # NoRow => session'[k] = session[k]
    BY <2>1, <2>2 DEF Inv, TypeOK
  <2>4. \A i \in Identities : identity[i] # NoAccount => identity'[i] = identity[i]
    BY <1>1, <2>1 DEF Commit, Inv, TypeOK, RequestOK, LoginOK
  <2> QED
    BY <2>3, <2>4
<1>2. CASE CommitRevoke(r)
  <2>1. /\ pc[r] = "commitRevoke" /\ pc'[r] = "revoked" /\ identity' = identity
        /\ \A k \in Requests : session'[k] = IF sessionLock[k] = r
                                               THEN [session[k] EXCEPT !.revoked = TRUE]
                                               ELSE session[k]
    BY <1>2 DEF CommitRevoke, Goto, Inv, TypeOK
  <2>2. Kind[r] = "logout"
    BY <2>1 DEF Inv, RequestOK, UseOK
  <2>3. \A k \in Requests : sessionLock[k] = r => token[r] = k
    BY AbsentAssumption DEF Inv, SessionOK
  <2> QED
    BY <2>1, <2>2, <2>3
<1>3. CASE ~Commit(r) /\ ~CommitRevoke(r)
  <2>1. UNCHANGED tables
    BY <1>3 DEF Arrive, Callback, PasskeyLogin, ReadSession, Logout, Present, Step, FindIdentity,
       UpdateIdentity, CreateAccount, Sign, CommitFails, VerifySession, LoadAccount, Revoke, Fail
  <2> QED
    BY <2>1 DEF tables
<1> QED
  BY <1>1, <1>2, <1>3

(* An identity stays with its account, and a session with what its login   *)
(* made of it until a logout that presented it commits.                    *)
THEOREM LoginsStay == Spec => LoginsForGood
<1> DEFINE Kept ==
      /\ \A i \in Identities : identity[i] # NoAccount => identity'[i] = identity[i]
      /\ \A k \in Requests : session[k] # NoRow /\ session'[k] # session[k] =>
           /\ session'[k] = [session[k] EXCEPT !.revoked = TRUE]
           /\ \E r \in Requests : /\ Kind[r] = "logout" /\ token[r] = k
                                  /\ pc[r] = "commitRevoke" /\ pc'[r] = "revoked"
<1>1. ASSUME Inv, [Next]_vars PROVE Kept
  <2>1. CASE Tick \/ UNCHANGED vars
    BY <2>1 DEF Tick, vars, tables
  <2>2. ASSUME NEW r \in Requests, Arrive(r) \/ Step(r) \/ Fail(r) PROVE Kept
    BY <1>1, <2>2, TablesForGood
  <2> QED
    BY <1>1, <2>1, <2>2 DEF Next
<1>2. Inv /\ [Next]_vars => [Kept]_vars
  BY <1>1
<1> QED
  BY <1>2, InvAlways, PTL DEF Spec, LoginsForGood
=============================================================================
