---------------------------- MODULE PasskeyProofs ----------------------------
(***************************************************************************)
(* Proofs about PasskeyCeremony for any number of requests, processes,     *)
(* accounts and credentials.  CeremonyBinding and ChallengeUsedOnce speak  *)
(* of answered requests only; the invariant says what must be true while a *)
(* request is on its way: who may hold a lock (LockInv), that the holder's *)
(* challenge is still the one it selected (HoldInv), that what it found    *)
(* about the credential is still so (CredentialInv), and that a used       *)
(* challenge never comes back (UsedInv, RowInv).                           *)
(***************************************************************************)
EXTENDS PasskeyCeremony, TLAPS

USE DEF Goto

(* A verifying request in one of these states has deleted its challenge. *)
Holding == {"verify", "rejected", "checkCredential", "insertCredential",
            "updateCredential", "commit"}

(* Which requests are in which states, and what they are about. *)
ShapeInv ==
  \A r \in Requests :
    /\ pc[r] = "idle" => req[r] = Nothing
    /\ pc[r] \in {"saveSession", "clean", "insertSession"} => ~Verifies(r)
    /\ pc[r] \in {"selectSession", "deleteSession"} \cup (Holding \ {"commit"}) => Verifies(r)
    /\ pc[r] \in {"checkCredential", "insertCredential"} => Kind[r] = "registerVerify"
    /\ pc[r] = "updateCredential" => Kind[r] = "loginVerify"
    /\ pc[r] \notin {"idle", "refused"} =>
         /\ Verifies(r) => req[r].key \in Requests
         /\ Ceremony(r) = "register" => req[r].account \in Accounts
         /\ Kind[r] = "loginOptions" => req[r].account = NoAccount
    /\ Verifies(r) /\ pc[r] \in {"checkCredential", "insertCredential",
                                 "updateCredential", "commit", "ok"} =>
         req[r].credential \in Credentials /\ req[r].account \in Accounts

(* A challenge in the database was stored by a request that was answered. *)
RowInv ==
  \A k \in Requests : sessions[k] # NoRow =>
    pc[k] = "ok" /\ ~Verifies(k) /\ sessions[k] = NewSession(k)

(* Only an existing challenge is locked: by the one request that consumes   *)
(* it, or by one that is deleting it as expired.                            *)
LockInv ==
  \A k \in Requests : lock[k] # Free =>
    /\ sessions[k] # NoRow
    /\ \/ /\ Verifies(lock[k]) /\ req[lock[k]].key = k
          /\ pc[lock[k]] \in Holding \cup {"rollback"}
       \/ /\ ~Verifies(lock[k]) /\ sessions[k].exp <= clock
          /\ pc[lock[k]] \in {"clean", "insertSession", "commit", "rollback"}

(* What a DELETE is still to visit is expired or gone for good. *)
TodoInv ==
  \A r, k \in Requests : k \in todo[r] =>
    pc[r] = "clean" /\ pc[k] = "ok" /\ (sessions[k] # NoRow => sessions[k].exp <= clock)

(* A challenge stays what it was when it was selected, if it stays at all. *)
SelectedInv ==
  \A r \in Requests : pc[r] = "deleteSession" =>
    LET k == req[r].key
    IN pc[k] = "ok" /\ (sessions[k] # NoRow => Consumable(r, sessions[k]))

HoldInv ==
  \A r \in Requests : Verifies(r) /\ pc[r] \in Holding =>
    LET k == req[r].key
    IN lock[k] = r /\ Consumable(r, sessions[k])

(* A registration that got past "verify" is for the account of its          *)
(* challenge; a login is for the account that has the credential.           *)
CredentialInv ==
  \A r \in Requests :
    /\ Kind[r] = "registerVerify" /\ pc[r] \in {"checkCredential", "insertCredential", "commit"} =>
         sessions[req[r].key].account = req[r].account
    /\ Kind[r] = "registerVerify" /\ pc[r] = "commit" =>
         credLock[req[r].credential] = r /\ owner[req[r].credential] = NoAccount
    /\ Kind[r] = "loginVerify" /\ pc[r] \in {"updateCredential", "commit"} =>
         owner[req[r].credential] = req[r].account

(* A challenge that was used is gone. *)
UsedInv ==
  \A r \in Requests : Verifies(r) /\ pc[r] = "ok" => sessions[req[r].key] = NoRow

IndInv == /\ TypeOK /\ ShapeInv /\ RowInv /\ LockInv /\ TodoInv /\ SelectedInv
          /\ HoldInv /\ CredentialInv /\ UsedInv /\ CeremonyBinding /\ ChallengeUsedOnce
-----------------------------------------------------------------------------
(* The invariant holds before any request has arrived. *)
LEMMA InitIndInv == Init => IndInv
  <1> SUFFICES ASSUME Init PROVE IndInv
    OBVIOUS
  <1>1. TypeOK
    BY LimitAssumption DEF Init, TypeOK, States, Subjects, Nothing
  <1> QED
    BY <1>1 DEF Init, IndInv, ShapeInv, RowInv, LockInv, TodoInv, SelectedInv, HoldInv,
       CredentialInv, UsedInv, CeremonyBinding, ChallengeUsedOnce, Holding

(* Request r takes a step that publishes nothing: the committed rows stay,  *)
(* it is not answered with success, and no other request is touched.        *)
Private(r) ==
  /\ UNCHANGED <<clock, sessions, owner>>
  /\ pc[r] # "ok" /\ pc'[r] \notin {"ok", "idle"}
  /\ \A q \in Requests : q # r =>
       pc'[q] = pc[q] /\ req'[q] = req[q] /\ now'[q] = now[q] /\ todo'[q] = todo[q]

(* What every such step preserves. *)
LEMMA PrivateStep ==
  ASSUME IndInv, NEW r \in Requests, Private(r)
  PROVE  /\ RowInv' /\ UsedInv' /\ CeremonyBinding' /\ ChallengeUsedOnce'
         /\ todo'[r] = {} => TodoInv'
         /\ pc'[r] # "deleteSession" => SelectedInv'
  <1> USE DEF IndInv, Private, Verifies
  <1>1. RowInv'
    BY DEF RowInv, NewSession, Ceremony
  <1>2. UsedInv'
    BY DEF UsedInv
  <1>3. CeremonyBinding'
    BY DEF CeremonyBinding, ShapeInv
  <1>4. ChallengeUsedOnce'
    BY DEF ChallengeUsedOnce
  <1>5. todo'[r] = {} => TodoInv'
    BY DEF TodoInv
  <1>6. pc'[r] # "deleteSession" => SelectedInv'
    BY DEF SelectedInv, Consumable, Ceremony, ShapeInv
  <1> QED
    BY <1>1, <1>2, <1>3, <1>4, <1>5, <1>6

-----------------------------------------------------------------------------
(***************************************************************************)
(* One lemma per step of a request.  All but Commit are private: each      *)
(* shows that, then the parts of the invariant that a private step can     *)
(* disturb through pc, req, lock or credLock.                              *)
(***************************************************************************)
LEMMA RollbackStep ==
  ASSUME IndInv, NEW r \in Requests, Rollback(r)
  PROVE  IndInv'
  <1> USE AbsentAssumption, KindAssumption, LimitAssumption
      DEF IndInv, Rollback, TypeOK, Subjects, Nothing, Verifies, Ceremony, Holding,
          Consumable, Finished, InProgress, FreedBy
  <1>1. TypeOK'
    BY DEF States, ShapeInv
  <1>2. Private(r)
    BY DEF Private, ShapeInv
  <1>3. ShapeInv'
    BY DEF ShapeInv
  <1>4. LockInv'
    BY DEF LockInv, HoldInv, ShapeInv, TodoInv, SelectedInv
  <1>5. HoldInv'
    BY DEF HoldInv, SelectedInv, ShapeInv, LockInv
  <1>6. CredentialInv'
    BY DEF CredentialInv, HoldInv, ShapeInv
  <1>7. todo'[r] = {}
    BY DEF TodoInv
  <1>8. pc'[r] # "deleteSession"
    OBVIOUS
  <1> QED
    BY <1>1, <1>2, <1>3, <1>4, <1>5, <1>6, <1>7, <1>8, PrivateStep

LEMMA BeginRegistrationStep ==
  ASSUME IndInv, NEW r \in Requests, BeginRegistration(r)
  PROVE  IndInv'
  <1> USE AbsentAssumption, KindAssumption, LimitAssumption
      DEF IndInv, BeginRegistration, TypeOK, Subjects, Nothing, Verifies, Ceremony, Holding,
          Consumable, Finished, InProgress, FreedBy
  <1>1. TypeOK'
    <2>1. pc' \in [Requests -> States]
      BY DEF States
    <2>2. req' \in [Requests -> Subjects]
      <3>1. ASSUME NEW a \in Accounts, req' = [req EXCEPT ![r].account = a]
            PROVE  req' \in [Requests -> Subjects]
        BY <3>1
      <3> QED
        BY <3>1
    <2>3. /\ now' \in [Requests -> Nat]
          /\ todo' \in [Requests -> SUBSET Requests]
      OBVIOUS
    <2>4. /\ lock' \in [Requests -> Requests \cup {Free}]
          /\ credLock' \in [Credentials -> Requests \cup {Free}]
          /\ mutex' \in [Processes -> Requests \cup {Free}]
      BY ProcessAssumption DEF ShapeInv
    <2> QED
      BY <2>1, <2>2, <2>3, <2>4
  <1>2. Private(r)
    BY DEF Private, ShapeInv
  <1>3. ShapeInv'
    BY DEF ShapeInv
  <1>4. LockInv'
    BY DEF LockInv, HoldInv, ShapeInv, TodoInv, SelectedInv
  <1>5. HoldInv'
    BY DEF HoldInv, SelectedInv, ShapeInv, LockInv
  <1>6. CredentialInv'
    BY DEF CredentialInv, HoldInv, ShapeInv
  <1>7. todo'[r] = {}
    BY DEF TodoInv
  <1>8. pc'[r] # "deleteSession"
    OBVIOUS
  <1> QED
    BY <1>1, <1>2, <1>3, <1>4, <1>5, <1>6, <1>7, <1>8, PrivateStep

LEMMA BeginLoginStep ==
  ASSUME IndInv, NEW r \in Requests, BeginLogin(r)
  PROVE  IndInv'
  <1> USE AbsentAssumption, KindAssumption, LimitAssumption
      DEF IndInv, BeginLogin, TypeOK, Subjects, Nothing, Verifies, Ceremony, Holding,
          Consumable, Finished, InProgress, FreedBy
  <1>1. TypeOK'
    BY DEF States, ShapeInv
  <1>2. Private(r)
    BY DEF Private, ShapeInv
  <1>3. ShapeInv'
    BY DEF ShapeInv
  <1>4. LockInv'
    BY DEF LockInv, HoldInv, ShapeInv, TodoInv, SelectedInv
  <1>5. HoldInv'
    BY DEF HoldInv, SelectedInv, ShapeInv, LockInv
  <1>6. CredentialInv'
    BY DEF CredentialInv, HoldInv, ShapeInv
  <1>7. todo'[r] = {}
    BY DEF TodoInv
  <1>8. pc'[r] # "deleteSession"
    OBVIOUS
  <1> QED
    BY <1>1, <1>2, <1>3, <1>4, <1>5, <1>6, <1>7, <1>8, PrivateStep

LEMMA SaveSessionStep ==
  ASSUME IndInv, NEW r \in Requests, SaveSession(r)
  PROVE  IndInv'
  <1> USE AbsentAssumption, KindAssumption, LimitAssumption
      DEF IndInv, SaveSession, TypeOK, Subjects, Nothing, Verifies, Ceremony, Holding,
          Consumable, Finished, InProgress, FreedBy
  <1>1. TypeOK'
    <2>1. pc' \in [Requests -> States]
      BY DEF States
    <2>2. req' \in [Requests -> Subjects]
      OBVIOUS
    <2>3. /\ now' \in [Requests -> Nat]
          /\ todo' \in [Requests -> SUBSET Requests]
      OBVIOUS
    <2>4. /\ lock' \in [Requests -> Requests \cup {Free}]
          /\ credLock' \in [Credentials -> Requests \cup {Free}]
          /\ mutex' \in [Processes -> Requests \cup {Free}]
      BY ProcessAssumption DEF ShapeInv
    <2> QED
      BY <2>1, <2>2, <2>3, <2>4
  <1>2. Private(r)
    BY DEF Private, ShapeInv
  <1>3. ShapeInv'
    BY DEF ShapeInv
  <1>4. LockInv'
    BY DEF LockInv, HoldInv, ShapeInv, TodoInv, SelectedInv
  <1>5. HoldInv'
    BY DEF HoldInv, SelectedInv, ShapeInv, LockInv
  <1>6. CredentialInv'
    BY DEF CredentialInv, HoldInv, ShapeInv
  <1>7. TodoInv'
    BY DEF TodoInv, RowInv, LockInv
  <1>8. pc'[r] # "deleteSession"
    OBVIOUS
  <1> QED
    BY <1>1, <1>2, <1>3, <1>4, <1>5, <1>6, <1>7, <1>8, PrivateStep

LEMMA DeleteExpiredStep ==
  ASSUME IndInv, NEW r \in Requests, DeleteExpired(r)
  PROVE  IndInv'
  <1> USE AbsentAssumption, KindAssumption, LimitAssumption
      DEF IndInv, DeleteExpired, TypeOK, Subjects, Nothing, Verifies, Ceremony, Holding,
          Consumable, Finished, InProgress, FreedBy
  <1>1. TypeOK'
    BY DEF States, ShapeInv
  <1>2. Private(r)
    BY DEF Private, ShapeInv
  <1>3. ShapeInv'
    BY DEF ShapeInv
  <1>4. LockInv'
    BY DEF LockInv, HoldInv, ShapeInv, TodoInv, SelectedInv
  <1>5. HoldInv'
    BY DEF HoldInv, SelectedInv, ShapeInv, LockInv
  <1>6. CredentialInv'
    BY DEF CredentialInv, HoldInv, ShapeInv
  <1>7. TodoInv'
    BY DEF TodoInv, RowInv, LockInv
  <1>8. pc'[r] # "deleteSession"
    OBVIOUS
  <1> QED
    BY <1>1, <1>2, <1>3, <1>4, <1>5, <1>6, <1>7, <1>8, PrivateStep

LEMMA EnsureSessionLimitStep ==
  ASSUME IndInv, NEW r \in Requests, EnsureSessionLimit(r)
  PROVE  IndInv'
  <1> USE AbsentAssumption, KindAssumption, LimitAssumption
      DEF IndInv, EnsureSessionLimit, Abandon, TypeOK, Subjects, Nothing, Verifies, Ceremony, Holding,
          Consumable, Finished, InProgress, FreedBy
  <1>1. TypeOK'
    BY DEF States, ShapeInv
  <1>2. Private(r)
    BY DEF Private, ShapeInv
  <1>3. ShapeInv'
    BY DEF ShapeInv
  <1>4. LockInv'
    BY DEF LockInv, HoldInv, ShapeInv, TodoInv, SelectedInv
  <1>5. HoldInv'
    BY DEF HoldInv, SelectedInv, ShapeInv, LockInv
  <1>6. CredentialInv'
    BY DEF CredentialInv, HoldInv, ShapeInv
  <1>7. todo'[r] = {}
    BY DEF TodoInv
  <1>8. pc'[r] # "deleteSession"
    OBVIOUS
  <1> QED
    BY <1>1, <1>2, <1>3, <1>4, <1>5, <1>6, <1>7, <1>8, PrivateStep

LEMMA InsertSessionStep ==
  ASSUME IndInv, NEW r \in Requests, InsertSession(r)
  PROVE  IndInv'
  <1> USE AbsentAssumption, KindAssumption, LimitAssumption
      DEF IndInv, InsertSession, TypeOK, Subjects, Nothing, Verifies, Ceremony, Holding,
          Consumable, Finished, InProgress, FreedBy
  <1>1. TypeOK'
    BY DEF States, ShapeInv
  <1>2. Private(r)
    BY DEF Private, ShapeInv
  <1>3. ShapeInv'
    BY DEF ShapeInv
  <1>4. LockInv'
    BY DEF LockInv, HoldInv, ShapeInv, TodoInv, SelectedInv
  <1>5. HoldInv'
    BY DEF HoldInv, SelectedInv, ShapeInv, LockInv
  <1>6. CredentialInv'
    BY DEF CredentialInv, HoldInv, ShapeInv
  <1>7. todo'[r] = {}
    BY DEF TodoInv
  <1>8. pc'[r] # "deleteSession"
    OBVIOUS
  <1> QED
    BY <1>1, <1>2, <1>3, <1>4, <1>5, <1>6, <1>7, <1>8, PrivateStep

LEMMA FinishRegistrationStep ==
  ASSUME IndInv, NEW r \in Requests, FinishRegistration(r)
  PROVE  IndInv'
  <1> USE AbsentAssumption, KindAssumption, LimitAssumption
      DEF IndInv, FinishRegistration, ConsumeSession, TypeOK, Subjects, Nothing, Verifies, Ceremony, Holding,
          Consumable, Finished, InProgress, FreedBy
  <1>1. TypeOK'
    <2>1. pc' \in [Requests -> States]
      BY DEF States
    <2>2. req' \in [Requests -> Subjects]
      OBVIOUS
    <2>3. /\ now' \in [Requests -> Nat]
          /\ todo' \in [Requests -> SUBSET Requests]
      OBVIOUS
    <2>4. /\ lock' \in [Requests -> Requests \cup {Free}]
          /\ credLock' \in [Credentials -> Requests \cup {Free}]
          /\ mutex' \in [Processes -> Requests \cup {Free}]
      BY ProcessAssumption DEF ShapeInv
    <2> QED
      BY <2>1, <2>2, <2>3, <2>4
  <1>2. Private(r)
    BY DEF Private, ShapeInv
  <1>3. ShapeInv'
    BY DEF ShapeInv
  <1>4. LockInv'
    BY DEF LockInv, HoldInv, ShapeInv, TodoInv, SelectedInv
  <1>5. HoldInv'
    BY DEF HoldInv, SelectedInv, ShapeInv, LockInv
  <1>6. CredentialInv'
    BY DEF CredentialInv, HoldInv, ShapeInv
  <1>7. todo'[r] = {}
    BY DEF TodoInv
  <1>8. pc'[r] # "deleteSession"
    OBVIOUS
  <1> QED
    BY <1>1, <1>2, <1>3, <1>4, <1>5, <1>6, <1>7, <1>8, PrivateStep

LEMMA FinishLoginStep ==
  ASSUME IndInv, NEW r \in Requests, FinishLogin(r)
  PROVE  IndInv'
  <1> USE AbsentAssumption, KindAssumption, LimitAssumption
      DEF IndInv, FinishLogin, ConsumeSession, TypeOK, Subjects, Nothing, Verifies, Ceremony, Holding,
          Consumable, Finished, InProgress, FreedBy
  <1>1. TypeOK'
    <2>1. pc' \in [Requests -> States]
      BY DEF States
    <2>2. req' \in [Requests -> Subjects]
      OBVIOUS
    <2>3. /\ now' \in [Requests -> Nat]
          /\ todo' \in [Requests -> SUBSET Requests]
      OBVIOUS
    <2>4. /\ lock' \in [Requests -> Requests \cup {Free}]
          /\ credLock' \in [Credentials -> Requests \cup {Free}]
          /\ mutex' \in [Processes -> Requests \cup {Free}]
      BY ProcessAssumption DEF ShapeInv
    <2> QED
      BY <2>1, <2>2, <2>3, <2>4
  <1>2. Private(r)
    BY DEF Private, ShapeInv
  <1>3. ShapeInv'
    BY DEF ShapeInv
  <1>4. LockInv'
    BY DEF LockInv, HoldInv, ShapeInv, TodoInv, SelectedInv
  <1>5. HoldInv'
    BY DEF HoldInv, SelectedInv, ShapeInv, LockInv
  <1>6. CredentialInv'
    BY DEF CredentialInv, HoldInv, ShapeInv
  <1>7. todo'[r] = {}
    BY DEF TodoInv
  <1>8. pc'[r] # "deleteSession"
    OBVIOUS
  <1> QED
    BY <1>1, <1>2, <1>3, <1>4, <1>5, <1>6, <1>7, <1>8, PrivateStep

LEMMA SelectSessionStep ==
  ASSUME IndInv, NEW r \in Requests, SelectSession(r)
  PROVE  IndInv'
  <1> USE AbsentAssumption, KindAssumption, LimitAssumption
      DEF IndInv, SelectSession, Abandon, TypeOK, Subjects, Nothing, Verifies, Ceremony, Holding,
          Consumable, Finished, InProgress, FreedBy
  <1>1. TypeOK'
    <2>1. pc' \in [Requests -> States]
      BY DEF States
    <2>2. req' \in [Requests -> Subjects]
      OBVIOUS
    <2>3. /\ now' \in [Requests -> Nat]
          /\ todo' \in [Requests -> SUBSET Requests]
      OBVIOUS
    <2>4. /\ lock' \in [Requests -> Requests \cup {Free}]
          /\ credLock' \in [Credentials -> Requests \cup {Free}]
          /\ mutex' \in [Processes -> Requests \cup {Free}]
      BY ProcessAssumption DEF ShapeInv
    <2> QED
      BY <2>1, <2>2, <2>3, <2>4
  <1>2. Private(r)
    BY DEF Private, ShapeInv
  <1>3. ShapeInv'
    BY DEF ShapeInv
  <1>4. LockInv'
    BY DEF LockInv, HoldInv, ShapeInv, TodoInv, SelectedInv
  <1>5. HoldInv'
    BY DEF HoldInv, SelectedInv, ShapeInv, LockInv
  <1>6. CredentialInv'
    BY DEF CredentialInv, HoldInv, ShapeInv
  <1>7. todo'[r] = {}
    BY DEF TodoInv
  <1>8. SelectedInv'
    BY DEF SelectedInv, RowInv, ShapeInv
  <1> QED
    BY <1>1, <1>2, <1>3, <1>4, <1>5, <1>6, <1>7, <1>8, PrivateStep

LEMMA DeleteSessionStep ==
  ASSUME IndInv, NEW r \in Requests, DeleteSession(r)
  PROVE  IndInv'
  <1> USE AbsentAssumption, KindAssumption, LimitAssumption
      DEF IndInv, DeleteSession, Abandon, TypeOK, Subjects, Nothing, Verifies, Ceremony, Holding,
          Consumable, Finished, InProgress, FreedBy
  <1>1. TypeOK'
    <2>1. pc' \in [Requests -> States]
      BY DEF States
    <2>2. req' \in [Requests -> Subjects]
      OBVIOUS
    <2>3. /\ now' \in [Requests -> Nat]
          /\ todo' \in [Requests -> SUBSET Requests]
      OBVIOUS
    <2>4. /\ lock' \in [Requests -> Requests \cup {Free}]
          /\ credLock' \in [Credentials -> Requests \cup {Free}]
          /\ mutex' \in [Processes -> Requests \cup {Free}]
      BY ProcessAssumption DEF ShapeInv
    <2> QED
      BY <2>1, <2>2, <2>3, <2>4
  <1>2. Private(r)
    BY DEF Private, ShapeInv
  <1>3. ShapeInv'
    BY DEF ShapeInv
  <1>4. LockInv'
    <2>1. \A k \in Requests : lock[k] # r
      BY DEF LockInv
    <2>2. CASE sessions[req[r].key] = NoRow
      BY <2>1, <2>2 DEF LockInv
    <2>3. CASE sessions[req[r].key] # NoRow
      <3>1. /\ pc'[r] = "verify" /\ req' = req /\ sessions' = sessions /\ clock' = clock
            /\ lock' = [lock EXCEPT ![req[r].key] = r]
        BY <2>3
      <3>2. Verifies(r) /\ req[r].key \in Requests
        BY DEF ShapeInv
      <3>3. \A q \in Requests : q # r => pc'[q] = pc[q]
        BY <2>3
      <3> HIDE DEF DeleteSession
      <3> QED
        BY <2>1, <2>3, <3>1, <3>2, <3>3 DEF LockInv
    <2> QED
      BY <2>2, <2>3
  <1>5. HoldInv'
    BY DEF HoldInv, SelectedInv, ShapeInv, LockInv
  <1>6. CredentialInv'
    BY DEF CredentialInv, HoldInv, ShapeInv
  <1>7. todo'[r] = {}
    BY DEF TodoInv
  <1>8. pc'[r] # "deleteSession"
    OBVIOUS
  <1> QED
    BY <1>1, <1>2, <1>3, <1>4, <1>5, <1>6, <1>7, <1>8, PrivateStep

LEMMA VerifyRegistrationStep ==
  ASSUME IndInv, NEW r \in Requests, VerifyRegistration(r)
  PROVE  IndInv'
  <1> USE AbsentAssumption, KindAssumption, LimitAssumption
      DEF IndInv, VerifyRegistration, Abandon, TypeOK, Subjects, Nothing, Verifies, Ceremony, Holding,
          Consumable, Finished, InProgress, FreedBy
  <1>1. TypeOK'
    BY DEF States, ShapeInv
  <1>2. Private(r)
    BY DEF Private, ShapeInv
  <1>3. ShapeInv'
    BY DEF ShapeInv
  <1>4. LockInv'
    BY DEF LockInv, HoldInv, ShapeInv, TodoInv, SelectedInv
  <1>5. HoldInv'
    BY DEF HoldInv, SelectedInv, ShapeInv, LockInv
  <1>6. CredentialInv'
    BY DEF CredentialInv, HoldInv, ShapeInv
  <1>7. todo'[r] = {}
    BY DEF TodoInv
  <1>8. pc'[r] # "deleteSession"
    OBVIOUS
  <1> QED
    BY <1>1, <1>2, <1>3, <1>4, <1>5, <1>6, <1>7, <1>8, PrivateStep

LEMMA VerifyLoginStep ==
  ASSUME IndInv, NEW r \in Requests, VerifyLogin(r)
  PROVE  IndInv'
  <1> USE AbsentAssumption, KindAssumption, LimitAssumption
      DEF IndInv, VerifyLogin, TypeOK, Subjects, Nothing, Verifies, Ceremony, Holding,
          Consumable, Finished, InProgress, FreedBy
  <1>1. TypeOK'
    BY DEF States, ShapeInv
  <1>2. Private(r)
    BY DEF Private, ShapeInv
  <1>3. ShapeInv'
    BY DEF ShapeInv
  <1>4. LockInv'
    BY DEF LockInv, HoldInv, ShapeInv, TodoInv, SelectedInv
  <1>5. HoldInv'
    BY DEF HoldInv, SelectedInv, ShapeInv, LockInv
  <1>6. CredentialInv'
    BY DEF CredentialInv, HoldInv, ShapeInv
  <1>7. todo'[r] = {}
    BY DEF TodoInv
  <1>8. pc'[r] # "deleteSession"
    OBVIOUS
  <1> QED
    BY <1>1, <1>2, <1>3, <1>4, <1>5, <1>6, <1>7, <1>8, PrivateStep

LEMMA CheckCredentialStep ==
  ASSUME IndInv, NEW r \in Requests, CheckCredential(r)
  PROVE  IndInv'
  <1> USE AbsentAssumption, KindAssumption, LimitAssumption
      DEF IndInv, CheckCredential, Abandon, TypeOK, Subjects, Nothing, Verifies, Ceremony, Holding,
          Consumable, Finished, InProgress, FreedBy
  <1>1. TypeOK'
    <2>1. pc' \in [Requests -> States]
      BY DEF States
    <2>2. req' \in [Requests -> Subjects]
      OBVIOUS
    <2>3. /\ now' \in [Requests -> Nat]
          /\ todo' \in [Requests -> SUBSET Requests]
      OBVIOUS
    <2>4. /\ lock' \in [Requests -> Requests \cup {Free}]
          /\ credLock' \in [Credentials -> Requests \cup {Free}]
          /\ mutex' \in [Processes -> Requests \cup {Free}]
      BY ProcessAssumption DEF ShapeInv
    <2> QED
      BY <2>1, <2>2, <2>3, <2>4
  <1>2. Private(r)
    BY DEF Private, ShapeInv
  <1>3. ShapeInv'
    BY DEF ShapeInv
  <1>4. LockInv'
    BY DEF LockInv, HoldInv, ShapeInv, TodoInv, SelectedInv
  <1>5. HoldInv'
    BY DEF HoldInv, SelectedInv, ShapeInv, LockInv
  <1>6. CredentialInv'
    BY DEF CredentialInv, HoldInv, ShapeInv
  <1>7. todo'[r] = {}
    BY DEF TodoInv
  <1>8. pc'[r] # "deleteSession"
    OBVIOUS
  <1> QED
    BY <1>1, <1>2, <1>3, <1>4, <1>5, <1>6, <1>7, <1>8, PrivateStep

LEMMA InsertCredentialStep ==
  ASSUME IndInv, NEW r \in Requests, InsertCredential(r)
  PROVE  IndInv'
  <1> USE AbsentAssumption, KindAssumption, LimitAssumption
      DEF IndInv, InsertCredential, Abandon, TypeOK, Subjects, Nothing, Verifies, Ceremony, Holding,
          Consumable, Finished, InProgress, FreedBy
  <1>1. TypeOK'
    <2>1. pc' \in [Requests -> States]
      BY DEF States
    <2>2. req' \in [Requests -> Subjects]
      OBVIOUS
    <2>3. /\ now' \in [Requests -> Nat]
          /\ todo' \in [Requests -> SUBSET Requests]
      OBVIOUS
    <2>4. /\ lock' \in [Requests -> Requests \cup {Free}]
          /\ credLock' \in [Credentials -> Requests \cup {Free}]
          /\ mutex' \in [Processes -> Requests \cup {Free}]
      <3>1. CASE owner[req[r].credential] # NoAccount
        BY <3>1, ProcessAssumption
      <3>2. CASE owner[req[r].credential] = NoAccount
        BY <3>2
      <3> QED
        BY <3>1, <3>2
    <2> QED
      BY <2>1, <2>2, <2>3, <2>4
  <1>2. Private(r)
    BY DEF Private, ShapeInv
  <1>3. ShapeInv'
    BY DEF ShapeInv
  <1>4. LockInv'
    BY DEF LockInv, HoldInv, ShapeInv, TodoInv, SelectedInv
  <1>5. HoldInv'
    BY DEF HoldInv, SelectedInv, ShapeInv, LockInv
  <1>6. CredentialInv'
    BY DEF CredentialInv, HoldInv, ShapeInv
  <1>7. todo'[r] = {}
    BY DEF TodoInv
  <1>8. pc'[r] # "deleteSession"
    OBVIOUS
  <1> QED
    BY <1>1, <1>2, <1>3, <1>4, <1>5, <1>6, <1>7, <1>8, PrivateStep

LEMMA UpdateCredentialStep ==
  ASSUME IndInv, NEW r \in Requests, UpdateCredential(r)
  PROVE  IndInv'
  <1> USE AbsentAssumption, KindAssumption, LimitAssumption
      DEF IndInv, UpdateCredential, TypeOK, Subjects, Nothing, Verifies, Ceremony, Holding,
          Consumable, Finished, InProgress, FreedBy
  <1>1. TypeOK'
    BY DEF States, ShapeInv
  <1>2. Private(r)
    BY DEF Private, ShapeInv
  <1>3. ShapeInv'
    BY DEF ShapeInv
  <1>4. LockInv'
    BY DEF LockInv, HoldInv, ShapeInv, TodoInv, SelectedInv
  <1>5. HoldInv'
    BY DEF HoldInv, SelectedInv, ShapeInv, LockInv
  <1>6. CredentialInv'
    BY DEF CredentialInv, HoldInv, ShapeInv
  <1>7. todo'[r] = {}
    BY DEF TodoInv
  <1>8. pc'[r] # "deleteSession"
    OBVIOUS
  <1> QED
    BY <1>1, <1>2, <1>3, <1>4, <1>5, <1>6, <1>7, <1>8, PrivateStep

LEMMA CommitFailsStep ==
  ASSUME IndInv, NEW r \in Requests, CommitFails(r)
  PROVE  IndInv'
  <1> USE AbsentAssumption, KindAssumption, LimitAssumption
      DEF IndInv, CommitFails, TypeOK, Subjects, Nothing, Verifies, Ceremony, Holding,
          Consumable, Finished, InProgress, FreedBy
  <1>1. TypeOK'
    BY DEF States, ShapeInv
  <1>2. Private(r)
    BY DEF Private, ShapeInv
  <1>3. ShapeInv'
    BY DEF ShapeInv
  <1>4. LockInv'
    BY DEF LockInv, HoldInv, ShapeInv, TodoInv, SelectedInv
  <1>5. HoldInv'
    BY DEF HoldInv, SelectedInv, ShapeInv, LockInv
  <1>6. CredentialInv'
    BY DEF CredentialInv, HoldInv, ShapeInv
  <1>7. todo'[r] = {}
    BY DEF TodoInv
  <1>8. pc'[r] # "deleteSession"
    OBVIOUS
  <1> QED
    BY <1>1, <1>2, <1>3, <1>4, <1>5, <1>6, <1>7, <1>8, PrivateStep

LEMMA FailStep ==
  ASSUME IndInv, NEW r \in Requests, Fail(r)
  PROVE  IndInv'
  <1> USE AbsentAssumption, KindAssumption, LimitAssumption
      DEF IndInv, Fail, Abandon, TypeOK, Subjects, Nothing, Verifies, Ceremony, Holding,
          Consumable, Finished, InProgress, FreedBy
  <1>1. TypeOK'
    BY DEF States, ShapeInv
  <1>2. Private(r)
    BY DEF Private, ShapeInv
  <1>3. ShapeInv'
    BY DEF ShapeInv
  <1>4. LockInv'
    BY DEF LockInv, HoldInv, ShapeInv, TodoInv, SelectedInv
  <1>5. HoldInv'
    BY DEF HoldInv, SelectedInv, ShapeInv, LockInv
  <1>6. CredentialInv'
    BY DEF CredentialInv, HoldInv, ShapeInv
  <1>7. todo'[r] = {}
    BY DEF TodoInv
  <1>8. pc'[r] # "deleteSession"
    OBVIOUS
  <1> QED
    BY <1>1, <1>2, <1>3, <1>4, <1>5, <1>6, <1>7, <1>8, PrivateStep

(* A commit publishes what r wrote: a new challenge, the removal of the     *)
(* challenges r had locked, and the owner of a new credential.              *)
LEMMA CommitStep ==
  ASSUME IndInv, NEW r \in Requests, Commit(r)
  PROVE  IndInv'
  <1> USE AbsentAssumption, KindAssumption, LimitAssumption
      DEF IndInv, TypeOK, Subjects, Verifies, Ceremony, Holding, Consumable, FreedBy
  <1>1. /\ pc[r] = "commit" /\ pc' = [pc EXCEPT ![r] = "ok"]
        /\ UNCHANGED <<clock, mutex, req, now, todo>>
        /\ lock' = FreedBy(r, lock) /\ credLock' = FreedBy(r, credLock)
    BY DEF Commit
  <1>2. \A q \in Requests : Verifies(q) /\ pc[q] \in Holding \cup {"ok"} => req[q].key \in Requests
    BY DEF ShapeInv
  <1>3. \A k \in Requests : k # r \/ Verifies(r) =>
          sessions'[k] = IF lock[k] = r THEN NoRow ELSE sessions[k]
    BY DEF Commit, Stored
  <1>4. ~Verifies(r) => sessions'[r] = NewSession(r)
    BY DEF Commit, Stored
  <1>5. Verifies(r) => /\ lock[req[r].key] = r /\ Consumable(r, sessions[req[r].key])
                       /\ sessions'[req[r].key] = NoRow
    BY <1>1, <1>2, <1>3 DEF HoldInv
  <1>6. /\ Kind[r] # "registerVerify" => owner' = owner
        /\ Kind[r] = "registerVerify" => owner' = [owner EXCEPT ![req[r].credential] = req[r].account]
    BY DEF Commit
  <1>7. \A c \in Credentials : owner[c] # NoAccount \/ credLock[c] # r => owner'[c] = owner[c]
    BY <1>1, <1>6 DEF CredentialInv, ShapeInv
  <1>8. TypeOK'
    <2>1. pc' \in [Requests -> States]
      BY <1>1 DEF States, Finished
    <2>2. sessions' \in [Requests -> Rows \cup {NoRow}]
      BY <1>1 DEF Commit, Stored, NewSession, Rows, ShapeInv
    <2>3. owner' \in [Credentials -> Accounts \cup {NoAccount}]
      BY <1>1, <1>6 DEF ShapeInv
    <2> QED
      BY <1>1, <2>1, <2>2, <2>3
  <1>9. ShapeInv'
    BY <1>1 DEF ShapeInv
  <1>10. RowInv'
    BY <1>1, <1>3, <1>4 DEF RowInv, NewSession
  <1>11. LockInv'
    BY <1>1, <1>3, <1>4 DEF LockInv, RowInv
  <1>12. TodoInv'
    BY <1>1, <1>3, <1>4 DEF TodoInv
  <1>13. SelectedInv'
    BY <1>1, <1>3, <1>4 DEF SelectedInv, ShapeInv
  <1>14. HoldInv'
    <2>1. \A q \in Requests : Verifies(q) /\ pc[q] \in Holding /\ q # r =>
            sessions'[req[q].key] = sessions[req[q].key] /\ lock'[req[q].key] = q
      BY <1>1, <1>2, <1>3, <1>4 DEF HoldInv, RowInv
    <2> QED
      BY <1>1, <1>2, <2>1 DEF HoldInv
  <1>15. CredentialInv'
    <2>1. \A q \in Requests : q # r /\ Verifies(q) /\ pc[q] \in Holding =>
            sessions'[req[q].key] = sessions[req[q].key]
      BY <1>1, <1>2, <1>3, <1>4 DEF HoldInv, RowInv
    <2> QED
      BY <1>1, <1>2, <1>7, <2>1 DEF CredentialInv, ShapeInv
  <1>16. UsedInv'
    <2>1. \A q \in Requests : Verifies(q) /\ pc[q] = "ok" => req[q].key # r
      BY <1>1 DEF CeremonyBinding
    <2> QED
      BY <1>1, <1>2, <1>3, <1>5, <2>1 DEF UsedInv
  <1>17. CeremonyBinding'
    <2>1. \A q \in Requests : Verifies(q) /\ pc[q] = "ok" =>
            owner'[req[q].credential] = owner[req[q].credential]
      BY <1>7 DEF CeremonyBinding, ShapeInv
    <2>2. ASSUME Verifies(r)
          PROVE  owner'[req[r].credential] = req[r].account
      BY <1>1, <1>6, <2>2 DEF CredentialInv, ShapeInv
    <2>3. ASSUME Verifies(r)
          PROVE  LET k == req[r].key
                 IN /\ pc[k] = "ok" /\ ~Verifies(k)
                    /\ sessions[k] = NewSession(k) /\ Consumable(r, sessions[k])
      BY <1>1, <1>2, <1>5, <2>3 DEF RowInv
    <2>4. Kind[r] = "registerVerify" => sessions[req[r].key].account = req[r].account
      BY <1>1 DEF CredentialInv
    <2>5. ASSUME Verifies(r)
          PROVE  LET k == req[r].key
                 IN /\ pc[k] = "ok" /\ now[r] < now[k] + TTL
                    /\ Kind[k] = IF Kind[r] = "registerVerify" THEN "registerOptions" ELSE "loginOptions"
                    /\ Kind[r] = "registerVerify" => req[k].account = req[r].account
      BY <1>2, <1>1, <2>3, <2>4, <2>5 DEF NewSession
    <2> QED
      BY <1>1, <1>2, <2>1, <2>2, <2>5 DEF CeremonyBinding
  <1>18. ChallengeUsedOnce'
    <2>1. \A q \in Requests : Verifies(q) /\ pc[q] = "ok" /\ Verifies(r) => req[q].key # req[r].key
      BY <1>2, <1>5 DEF UsedInv, HoldInv
    <2> QED
      BY <1>1, <2>1 DEF ChallengeUsedOnce
  <1> QED
    BY <1>8, <1>9, <1>10, <1>11, <1>12, <1>13, <1>14, <1>15, <1>16, <1>17, <1>18

(* Time passes: what has expired stays expired. *)
LEMMA TickStep ==
  ASSUME IndInv, Tick
  PROVE  IndInv'
  <1> USE LimitAssumption DEF IndInv, Tick, TypeOK
  <1>1. TypeOK'
    OBVIOUS
  <1>2. LockInv'
    BY DEF LockInv, Verifies, Holding, Rows
  <1>3. TodoInv'
    BY DEF TodoInv, Rows
  <1>4. ShapeInv' /\ RowInv' /\ SelectedInv'
    BY DEF ShapeInv, RowInv, SelectedInv, Verifies, NewSession, Ceremony, Consumable, Holding
  <1>5. HoldInv' /\ CredentialInv' /\ UsedInv' /\ CeremonyBinding' /\ ChallengeUsedOnce'
    BY DEF HoldInv, CredentialInv, UsedInv, CeremonyBinding, ChallengeUsedOnce, Verifies,
           Consumable, Ceremony, Holding
  <1> QED
    BY <1>1, <1>2, <1>3, <1>4, <1>5

(* Every step preserves the invariant. *)
LEMMA NextStep == IndInv /\ [Next]_vars => IndInv'
  <1> SUFFICES ASSUME IndInv, [Next]_vars PROVE IndInv'
    OBVIOUS
  <1>1. CASE UNCHANGED vars
    BY <1>1 DEF vars, IndInv, TypeOK, ShapeInv, RowInv, LockInv, TodoInv, SelectedInv, HoldInv,
       CredentialInv, UsedInv, CeremonyBinding, ChallengeUsedOnce, Holding, Verifies, Consumable,
       Ceremony, NewSession
  <1>2. CASE Tick
    BY <1>2, TickStep
  <1>3. ASSUME NEW r \in Requests, Arrive(r)
        PROVE  IndInv'
    BY <1>3, BeginRegistrationStep, BeginLoginStep, FinishRegistrationStep, FinishLoginStep
       DEF Arrive
  <1>4. ASSUME NEW r \in Requests, Step(r)
        PROVE  IndInv'
    BY <1>4, SaveSessionStep, DeleteExpiredStep, EnsureSessionLimitStep, InsertSessionStep,
       SelectSessionStep, DeleteSessionStep, VerifyRegistrationStep, VerifyLoginStep,
       CheckCredentialStep, InsertCredentialStep, UpdateCredentialStep, CommitStep,
       CommitFailsStep, RollbackStep DEF Step
  <1>5. ASSUME NEW r \in Requests, Fail(r)
        PROVE  IndInv'
    BY <1>5, FailStep
  <1> QED
    BY <1>1, <1>2, <1>3, <1>4, <1>5 DEF Next

(* The inductive invariant holds in every reachable state: the locks, the   *)
(* challenges and the requests that hold them always belong together.       *)
THEOREM Invariance == Spec => []IndInv
  <1>1. Init => IndInv
    BY InitIndInv
  <1>2. IndInv /\ [Next]_vars => IndInv'
    BY NextStep
  <1> QED
    BY <1>1, <1>2, PTL DEF Spec
-----------------------------------------------------------------------------
(* Every reachable state is well formed. *)
THEOREM TypeCorrect == Spec => []TypeOK
  <1>1. IndInv => TypeOK
    BY DEF IndInv
  <1> QED
    BY <1>1, Invariance, PTL

(* However many verifications run at once, a challenge admits one: the      *)
(* second waits for the first's deletion and then finds no row              *)
(* (persistence/passkeys.go:221-253).                                       *)
THEOREM SingleVerification == Spec => []ChallengeUsedOnce
  <1>1. IndInv => ChallengeUsedOnce
    BY DEF IndInv
  <1> QED
    BY <1>1, Invariance, PTL

(* Whatever registrations and logins run next to each other, each ends with *)
(* the credential of the account whose ceremony it was.                     *)
THEOREM CeremoniesAreBound == Spec => []CeremonyBinding
  <1>1. IndInv => CeremonyBinding
    BY DEF IndInv
  <1> QED
    BY <1>1, Invariance, PTL

(* A stored challenge changes in a commit only, and then it is the one the  *)
(* committing verification consumed or one that has expired.                *)
THEOREM ChallengeKept == Spec => ChallengeLostOnlyByUse
  <1> DEFINE Kept(k) ==
        sessions[k] # NoRow /\ sessions'[k] # sessions[k] =>
          /\ sessions'[k] = NoRow
          /\ \/ sessions[k].exp <= clock
             \/ \E r \in Requests : Verifies(r) /\ req[r].key = k /\ pc[r] = "commit" /\ pc'[r] = "ok"
  <1>1. ASSUME IndInv, NEW r \in Requests, Commit(r), NEW k \in Requests,
               sessions[k] # NoRow, sessions'[k] # sessions[k]
        PROVE  Kept(k)
    <2>1. k # r
      BY <1>1 DEF Commit, IndInv, RowInv
    <2>2. lock[k] = r /\ sessions'[k] = NoRow
      BY <1>1, <2>1 DEF Commit, Stored
    <2>3. pc[r] = "commit" /\ pc'[r] = "ok"
      BY <1>1 DEF Commit, IndInv, TypeOK
    <2>4. sessions[k].exp <= clock \/ (Verifies(r) /\ req[r].key = k)
      BY <2>2, <1>1, AbsentAssumption DEF IndInv, LockInv
    <2> QED
      BY <2>2, <2>3, <2>4
  <1>2. ASSUME IndInv, [Next]_vars, NEW k \in Requests
        PROVE  Kept(k)
    <2>1. CASE \E r \in Requests : Commit(r)
      BY <2>1, <1>1, <1>2
    <2>2. CASE ~ \E r \in Requests : Commit(r)
      <3>1. UNCHANGED sessions
        BY <1>2, <2>2 DEF Next, vars, Tick, Arrive, Step, Fail, Rollback, BeginRegistration,
           BeginLogin, SaveSession, DeleteExpired, EnsureSessionLimit, InsertSession,
           FinishRegistration, FinishLogin, SelectSession, DeleteSession, VerifyRegistration,
           VerifyLogin, CheckCredential, InsertCredential, UpdateCredential, CommitFails
      <3> QED
        BY <3>1
    <2> QED
      BY <2>1, <2>2
  <1>3. IndInv /\ [Next]_vars => [\A k \in Requests : Kept(k)]_vars
    BY <1>2
  <1> QED
    BY <1>3, Invariance, PTL DEF Spec, ChallengeLostOnlyByUse
-----------------------------------------------------------------------------
(***************************************************************************)
(* Challenges implement SingleUse.                                         *)
(***************************************************************************)
(* A step of request r only moves r, and is its first and last success if  *)
(* it commits.                                                             *)
Moves(r) ==
  /\ pc[r] \notin Finished
  /\ \A q \in Requests : q # r => pc'[q] = pc[q] /\ req'[q] = req[q] /\ todo'[q] = todo[q]
  /\ \/ Commit(r)
     \/ UNCHANGED sessions /\ pc'[r] # "ok"

LEMMA StepMoves ==
  ASSUME IndInv, NEW r \in Requests, Arrive(r) \/ Step(r) \/ Fail(r)
  PROVE  Moves(r)
<1> USE DEF IndInv, TypeOK, Moves, Finished, Abandon
<1>1. CASE Arrive(r)
  <2>1. /\ pc[r] = "idle" /\ UNCHANGED <<sessions, todo>>
        /\ \E state \in {"refused", "saveSession", "selectSession"} : pc' = [pc EXCEPT ![r] = state]
    BY <1>1 DEF Arrive, BeginRegistration, BeginLogin, FinishRegistration, FinishLogin, ConsumeSession
  <2>2. \A q \in Requests : q # r => req'[q] = req[q]
    BY <1>1 DEF Arrive, BeginRegistration, BeginLogin, FinishRegistration, FinishLogin, ConsumeSession
  <2> QED
    BY <2>1, <2>2
<1>2. CASE Fail(r)
  BY <1>2 DEF Fail, InProgress
<1>3. CASE SaveSession(r) \/ DeleteExpired(r) \/ EnsureSessionLimit(r) \/ InsertSession(r)
  BY <1>3 DEF SaveSession, DeleteExpired, EnsureSessionLimit, InsertSession
<1>4. CASE SelectSession(r) \/ DeleteSession(r)
  BY <1>4 DEF SelectSession, DeleteSession
<1>5. CASE VerifyRegistration(r)
  BY <1>5 DEF VerifyRegistration
<1>6. CASE VerifyLogin(r)
  BY <1>6 DEF VerifyLogin
<1>7. CASE CheckCredential(r) \/ InsertCredential(r) \/ UpdateCredential(r)
  BY <1>7 DEF CheckCredential, InsertCredential, UpdateCredential
<1>8. CASE Commit(r)
  BY <1>8 DEF Commit
<1>9. CASE CommitFails(r) \/ Rollback(r)
  BY <1>9 DEF CommitFails, Rollback
<1> QED
  BY <1>1, <1>2, <1>3, <1>4, <1>5, <1>6, <1>7, <1>8, <1>9 DEF Step

BeneficiaryInv ==
  \A k \in Challenges :
    /\ Beneficiary[k] \in Requests \cup {Free}
    /\ \A q \in Requests : VerifiedWith(q, k) => Beneficiary[k] = q
    /\ Beneficiary[k] # Free => VerifiedWith(Beneficiary[k], k)

LEMMA BeneficiaryIsTheVerified == IndInv => BeneficiaryInv
<1> SUFFICES ASSUME IndInv, NEW k \in Challenges
             PROVE  /\ Beneficiary[k] \in Requests \cup {Free}
                    /\ \A q \in Requests : VerifiedWith(q, k) => Beneficiary[k] = q
                    /\ Beneficiary[k] # Free => VerifiedWith(Beneficiary[k], k)
  BY DEF BeneficiaryInv
<1>1. Beneficiary[k] = IF \E q \in Requests : VerifiedWith(q, k)
                         THEN CHOOSE q \in Requests : VerifiedWith(q, k) ELSE Free
  BY DEF Beneficiary
<1>2. \A p, q \in Requests : VerifiedWith(p, k) /\ VerifiedWith(q, k) => p = q
  BY DEF IndInv, ChallengeUsedOnce, VerifiedWith
<1> QED
  BY <1>1, <1>2

(* A challenge once stored stays so or dies; a dead one stays dead.        *)
LEMMA StatusChange ==
  ASSUME IndInv, NEW r \in Requests, Moves(r), NEW k \in Challenges
  PROVE  /\ Status[k] \in Contract!Statuses /\ Status'[k] \in Contract!Statuses
         /\ Status[k] = "dead" => Status'[k] = "dead"
         /\ Status[k] = "live" => Status'[k] # "unissued"
<1>1. k \in Requests
  BY DEF Challenges
<1>2. pc[k] \in Finished => k # r /\ pc'[k] = pc[k]
  BY <1>1 DEF Moves
<1>3. sessions[k] # NoRow => pc[k] \in Finished
  BY <1>1 DEF IndInv, RowInv, Finished
<1>4. k # r /\ sessions[k] = NoRow => sessions'[k] = NoRow
  BY <1>1 DEF Moves, Commit, Stored
<1> QED
  BY <1>1, <1>2, <1>3, <1>4 DEF Status, Contract!Statuses

(* Who has verified after a step had done so before it, or commits in it. *)
LEMMA VerifiedChange ==
  ASSUME NEW r \in Requests, Moves(r), NEW q \in Requests, NEW k \in Challenges
  PROVE  q # r \/ ~(Verifies(r) /\ Commit(r)) => (VerifiedWith(q, k)' <=> VerifiedWith(q, k))
<1>1. CASE q # r
  BY <1>1 DEF Moves, VerifiedWith, Verifies
<1>2. CASE q = r /\ ~Commit(r)
  BY <1>2 DEF Moves, VerifiedWith, Verifies, Finished
<1>3. CASE q = r /\ ~Verifies(r)
  BY <1>3 DEF VerifiedWith, Verifies
<1> QED
  BY <1>1, <1>2, <1>3

(* The commit of a verification redeems its challenge, and no other.       *)
LEMMA CommitRedeems ==
  ASSUME IndInv, NEW r \in Requests, Commit(r), Verifies(r)
  PROVE  /\ req[r].key \in Challenges /\ VerifiedWith(r, req[r].key)'
         /\ Status[req[r].key] = "live" /\ Status'[req[r].key] = "dead"
         /\ \A k \in Challenges : k # req[r].key => Status'[k] = Status[k]
<1> DEFINE g == req[r].key
<1>1. /\ pc[r] = "commit" /\ pc' = [pc EXCEPT ![r] = "ok"] /\ req' = req
      /\ sessions' = Stored(r)
  BY DEF Commit
<1>2. g \in Requests /\ lock[g] = r /\ sessions[g] # NoRow
  BY <1>1 DEF IndInv, ShapeInv, HoldInv, Holding, Consumable
<1>3. g \in Challenges /\ pc[g] = "ok" /\ g # r
  BY <1>1, <1>2 DEF IndInv, RowInv, Challenges
<1>4. \A k \in Requests : k # r => pc'[k] = pc[k]
  BY <1>1
<1>5. \A k \in Requests : sessions'[k] = IF lock[k] = r THEN NoRow ELSE sessions[k]
  BY <1>1 DEF Stored, Verifies
<1>6. \A k \in Requests : lock[k] = r => k = g
  BY <1>1, AbsentAssumption DEF IndInv, LockInv
<1>7. pc'[r] = "ok"
  BY <1>1 DEF IndInv, TypeOK
<1>8. \A k \in Challenges : k \in Requests /\ k # r
  BY DEF Challenges
<1>9. Status[g] = "live" /\ Status'[g] = "dead"
  BY <1>2, <1>3, <1>4, <1>5 DEF Status, Finished
<1>10. \A k \in Challenges : k # g => Status'[k] = Status[k]
  BY <1>4, <1>5, <1>6, <1>8 DEF Status
<1> QED
  BY <1>1, <1>3, <1>7, <1>9, <1>10 DEF VerifiedWith, Verifies

LEMMA MoveRefines ==
  ASSUME IndInv, NEW r \in Requests, Moves(r), BeneficiaryInv, BeneficiaryInv'
  PROVE  Contract!Next
<1>1. /\ Status = [k \in Challenges |-> Status[k]]
      /\ Status' = [k \in Challenges |-> Status'[k]]
      /\ Beneficiary = [k \in Challenges |-> Beneficiary[k]]
      /\ Beneficiary' = [k \in Challenges |-> Beneficiary'[k]]
  BY DEF Status, Beneficiary, Challenges, Verifies
<1>2. CASE Verifies(r) /\ Commit(r)
  <2> PICK g : g = req[r].key
    OBVIOUS
  <2>1. /\ g \in Challenges /\ VerifiedWith(r, g)'
        /\ Status[g] = "live" /\ Status'[g] = "dead"
        /\ \A k \in Challenges : k # g => Status'[k] = Status[k]
    BY <1>2, CommitRedeems DEF Commit
  <2>2. Beneficiary'[g] = r
    BY <2>1 DEF BeneficiaryInv, Challenges, Verifies
  <2>3. ASSUME NEW k \in Challenges, k # g PROVE Beneficiary'[k] = Beneficiary[k]
    <3>1. ~VerifiedWith(r, k)' /\ ~VerifiedWith(r, k)
      BY <1>2, <2>3 DEF VerifiedWith, Commit
    <3>2. \A q \in Requests : VerifiedWith(q, k)' <=> VerifiedWith(q, k)
      BY <3>1, VerifiedChange
    <3> QED
      BY <3>2 DEF BeneficiaryInv, Challenges, Verifies
  <2>4. Contract!Redeem(g, r)
    BY <1>1, <2>1, <2>2, <2>3 DEF Contract!Redeem
  <2> QED
    BY <2>1, <2>4 DEF Contract!Next
<1>3. CASE ~(Verifies(r) /\ Commit(r))
  <2>1. ASSUME NEW k \in Challenges PROVE Beneficiary'[k] = Beneficiary[k]
    <3>1. \A q \in Requests : VerifiedWith(q, k)' <=> VerifiedWith(q, k)
      BY <1>3, VerifiedChange
    <3> QED
      BY <3>1 DEF BeneficiaryInv, Challenges, Verifies
  <2>2. Status' \in [Challenges -> Contract!Statuses]
    BY <1>1, StatusChange
  <2>3. Beneficiary' \in [Challenges -> Requests \cup {Free}]
    <3>1. \A k \in Challenges : Beneficiary'[k] \in Requests \cup {Free}
      BY <2>1 DEF BeneficiaryInv
    <3> QED
      BY <1>1, <3>1
  <2> QED
    BY <2>1, <2>2, <2>3, StatusChange DEF Contract!Next, Contract!Renew
<1> QED
  BY <1>2, <1>3

(* SELECT, DELETE and the commit of the request's own transaction implement *)
(* the atomic contract of one-time secrets, as the grants' own transactions *)
(* do in OIDCFlow.                                                          *)
THEOREM ChallengesRefine == Spec => ImplementsSingleUse
<1>1. Init => Contract!Init
  BY DEF Init, Contract!Init, Status, Beneficiary, VerifiedWith, Finished, Challenges
<1>2. ASSUME IndInv, BeneficiaryInv, BeneficiaryInv', [Next]_vars
      PROVE  Contract!Next \/ UNCHANGED Contract!vars
  <2>1. CASE Tick \/ UNCHANGED vars
    BY <2>1 DEF Tick, vars, Contract!vars, Status, Beneficiary, VerifiedWith, Challenges, Verifies
  <2>2. ASSUME NEW r \in Requests, Arrive(r) \/ Step(r) \/ Fail(r)
        PROVE  Contract!Next
    BY <1>2, <2>2, StepMoves, MoveRefines
  <2> QED
    BY <1>2, <2>1, <2>2 DEF Next
<1>3. (IndInv => BeneficiaryInv) /\ (IndInv' => BeneficiaryInv')
  BY BeneficiaryIsTheVerified, PTL
<1>4. IndInv /\ IndInv' /\ [Next]_vars => [Contract!Next]_(Contract!vars)
  BY <1>2, <1>3
<1> QED
  BY <1>1, <1>4, Invariance, PTL DEF Spec, ImplementsSingleUse, Contract!Spec
-----------------------------------------------------------------------------
(***************************************************************************)
(* Who can be part of a deadlock.  The mutex is in the hands of a request  *)
(* that cleans or counts; who writes a credential only has to commit or    *)
(* roll back; and a DELETE never meets a row of its own.                   *)
(***************************************************************************)
Guarded == {"clean", "insertSession"}

Ending == {"commit", "rollback"}

MutexInv ==
  /\ \A r \in Requests : pc[r] \in Guarded => mutex[Process[r]] = r
  /\ \A p \in Processes : mutex[p] # Free => pc[mutex[p]] \in Guarded

CredLockInv ==
  \A c \in Credentials : credLock[c] # Free => pc[credLock[c]] \in Ending

DeleteInv == \A r \in Requests : \A k \in todo[r] : lock[k] # r

WaitInv == MutexInv /\ CredLockInv /\ DeleteInv

(* What a step of r may do to each kind of lock. *)
LEMMA MutexStep ==
  ASSUME IndInv, MutexInv, NEW r \in Requests, Moves(r),
         \/ UNCHANGED mutex /\ (pc'[r] \in Guarded <=> pc[r] \in Guarded)
         \/ mutex' = FreedBy(r, mutex) /\ pc'[r] \notin Guarded
         \/ SaveSession(r)
  PROVE  MutexInv'
<1> USE AbsentAssumption, ProcessAssumption DEF IndInv, TypeOK, MutexInv, Moves
<1>1. CASE UNCHANGED mutex /\ (pc'[r] \in Guarded <=> pc[r] \in Guarded)
  BY <1>1
<1>2. CASE mutex' = FreedBy(r, mutex) /\ pc'[r] \notin Guarded
  BY <1>2 DEF FreedBy
<1>3. CASE SaveSession(r)
  <2>1. /\ mutex[Process[r]] = Free /\ mutex' = [mutex EXCEPT ![Process[r]] = r]
        /\ pc'[r] = "clean"
    BY <1>3 DEF SaveSession
  <2>2. \A q \in Requests : q # r /\ pc[q] \in Guarded => Process[q] # Process[r]
    BY <2>1
  <2> QED
    BY <2>1, <2>2 DEF Guarded
<1> QED
  BY <1>1, <1>2, <1>3

LEMMA CredLockStep ==
  ASSUME IndInv, CredLockInv, NEW r \in Requests, Moves(r),
         \/ UNCHANGED credLock /\ (pc[r] \in Ending => pc'[r] \in Ending)
         \/ credLock' = FreedBy(r, credLock)
         \/ /\ \E c \in Credentials : credLock' = [credLock EXCEPT ![c] = r]
            /\ pc'[r] = "commit"
  PROVE  CredLockInv'
  BY AbsentAssumption DEF IndInv, TypeOK, CredLockInv, Moves, FreedBy, Ending

LEMMA DeleteStep ==
  ASSUME IndInv, DeleteInv, NEW r \in Requests, Moves(r),
         \A k \in Requests : lock'[k] \in {lock[k], Free, r},
         \A k \in todo'[r] : lock'[k] # r
  PROVE  DeleteInv'
<1> SUFFICES ASSUME NEW q \in Requests, NEW k \in todo'[q] PROVE lock'[k] # q
  BY DEF DeleteInv
<1>1. CASE q = r
  BY <1>1
<1>2. CASE q # r
  <2>1. k \in todo[q] /\ k \in Requests
    BY <1>2 DEF Moves, IndInv, TypeOK
  <2> QED
    BY <1>2, <2>1, AbsentAssumption DEF DeleteInv
<1> QED
  BY <1>1, <1>2

(* A row is only still to be visited in "clean". *)
LEMMA NothingToVisit ==
  ASSUME IndInv, NEW r \in Requests, pc[r] # "clean"
  PROVE  todo[r] = {}
  BY DEF IndInv, TypeOK, TodoInv

LEMMA AbandonWaits ==
  ASSUME IndInv, WaitInv, NEW r \in Requests, Moves(r), Abandon(r)
  PROVE  WaitInv'
<1>1. pc'[r] = "rollback" /\ todo'[r] = {} /\ UNCHANGED <<lock, credLock>> /\ mutex' = FreedBy(r, mutex)
  BY DEF Abandon, IndInv, TypeOK
<1> QED
  BY <1>1, MutexStep, CredLockStep, DeleteStep DEF WaitInv, Guarded, Ending

LEMMA ArriveWaits ==
  ASSUME IndInv, WaitInv, NEW r \in Requests, Moves(r), Arrive(r)
  PROVE  WaitInv'
<1>1. /\ pc[r] = "idle" /\ UNCHANGED <<lock, credLock, mutex, todo>>
      /\ pc'[r] \in {"refused", "saveSession", "selectSession"}
  BY DEF Arrive, BeginRegistration, BeginLogin, FinishRegistration, FinishLogin, ConsumeSession,
         IndInv, TypeOK
<1>2. todo'[r] = {}
  BY <1>1, NothingToVisit
<1> QED
  BY <1>1, <1>2, MutexStep, CredLockStep, DeleteStep DEF WaitInv, Guarded, Ending

(* SaveSession up to its INSERT. *)
LEMMA SaveWaits ==
  ASSUME IndInv, WaitInv, NEW r \in Requests, Moves(r), ~Abandon(r),
         SaveSession(r) \/ DeleteExpired(r) \/ EnsureSessionLimit(r) \/ InsertSession(r)
  PROVE  WaitInv'
<1> USE DEF WaitInv, Guarded, Ending
<1>1. CASE SaveSession(r)
  <2>1. pc[r] = "saveSession" /\ pc'[r] = "clean" /\ UNCHANGED <<lock, credLock>>
        /\ todo'[r] \in SUBSET Requests
    BY <1>1 DEF SaveSession, IndInv, TypeOK
  <2>2. \A k \in Requests : lock[k] # r
    BY <2>1, AbsentAssumption DEF IndInv, LockInv, Holding
  <2> QED
    BY <1>1, <2>1, <2>2, MutexStep, CredLockStep, DeleteStep
<1>2. CASE DeleteExpired(r)
  <2>1. PICK k \in todo[r] :
          /\ lock' = [lock EXCEPT ![k] = IF sessions[k] = NoRow THEN Free ELSE r]
          /\ todo' = [todo EXCEPT ![r] = @ \ {k}]
    BY <1>2 DEF DeleteExpired
  <2>2. UNCHANGED <<credLock, mutex, pc>> /\ pc[r] = "clean" /\ k \in Requests
        /\ todo'[r] = todo[r] \ {k} /\ todo[r] \subseteq Requests
    BY <1>2, <2>1 DEF DeleteExpired, IndInv, TypeOK
  <2>3. \A j \in Requests : lock'[j] \in {lock[j], Free, r} /\ (j # k => lock'[j] = lock[j])
    BY <2>1, <2>2 DEF IndInv, TypeOK
  <2>4. \A j \in todo'[r] : lock'[j] # r
    BY <2>2, <2>3 DEF DeleteInv
  <2> QED
    BY <2>2, <2>3, <2>4, MutexStep, CredLockStep, DeleteStep
<1>3. CASE EnsureSessionLimit(r)
  <2>1. /\ pc[r] = "clean" /\ pc'[r] = "insertSession" /\ todo[r] = {}
        /\ UNCHANGED <<lock, credLock, mutex, todo>>
    BY <1>3 DEF EnsureSessionLimit, IndInv, TypeOK
  <2> QED
    BY <2>1, MutexStep, CredLockStep, DeleteStep
<1>4. CASE InsertSession(r)
  <2>1. /\ pc[r] = "insertSession" /\ pc'[r] = "commit" /\ mutex' = FreedBy(r, mutex)
        /\ UNCHANGED <<lock, credLock, todo>>
    BY <1>4 DEF InsertSession, IndInv, TypeOK
  <2>2. todo[r] = {}
    BY <2>1, NothingToVisit
  <2> QED
    BY <2>1, <2>2, MutexStep, CredLockStep, DeleteStep
<1> QED
  BY <1>1, <1>2, <1>3, <1>4

(* ConsumeSession, the verification and the write of the credential. *)
LEMMA VerifyWaits ==
  ASSUME IndInv, WaitInv, NEW r \in Requests, Moves(r), ~Abandon(r),
         \/ SelectSession(r) \/ DeleteSession(r) \/ VerifyRegistration(r) \/ VerifyLogin(r)
         \/ CheckCredential(r) \/ InsertCredential(r) \/ UpdateCredential(r)
  PROVE  WaitInv'
<1>1. /\ pc[r] \notin Guarded \cup Ending /\ pc'[r] \notin Guarded
      /\ UNCHANGED <<mutex, todo>>
  BY DEF SelectSession, DeleteSession, VerifyRegistration, VerifyLogin, CheckCredential,
         InsertCredential, UpdateCredential, Guarded, Ending, IndInv, TypeOK
<1>2. \A k \in Requests : lock'[k] \in {lock[k], Free, r}
  BY DEF SelectSession, DeleteSession, VerifyRegistration, VerifyLogin, CheckCredential,
         InsertCredential, UpdateCredential, IndInv, TypeOK
<1>3. todo'[r] = {}
  BY <1>1, NothingToVisit DEF Guarded
<1>4. \/ UNCHANGED credLock
      \/ /\ credLock' = [credLock EXCEPT ![req[r].credential] = r]
         /\ pc'[r] = "commit" /\ req[r].credential \in Credentials
  BY DEF SelectSession, DeleteSession, VerifyRegistration, VerifyLogin, CheckCredential,
         InsertCredential, UpdateCredential, IndInv, TypeOK, ShapeInv, Verifies
<1> QED
  BY <1>1, <1>2, <1>3, <1>4, MutexStep, CredLockStep, DeleteStep DEF WaitInv

LEMMA EndWaits ==
  ASSUME IndInv, WaitInv, NEW r \in Requests, Moves(r),
         Commit(r) \/ CommitFails(r) \/ Rollback(r)
  PROVE  WaitInv'
<1>1. /\ pc[r] \in Ending \cup {"rejected"} /\ pc'[r] \in Finished /\ UNCHANGED <<mutex, todo>>
      /\ lock' = FreedBy(r, lock) /\ credLock' = FreedBy(r, credLock)
  BY DEF Commit, CommitFails, Rollback, Ending, Finished, IndInv, TypeOK
<1>2. todo'[r] = {}
  BY <1>1, NothingToVisit DEF Ending
<1>3. \A k \in Requests : lock'[k] \in {lock[k], Free, r}
  BY <1>1 DEF FreedBy, IndInv, TypeOK
<1> QED
  BY <1>1, <1>2, <1>3, MutexStep, CredLockStep, DeleteStep DEF WaitInv, Guarded, Ending, Finished

LEMMA NextWaitInv ==
  ASSUME IndInv, WaitInv, [Next]_vars
  PROVE  WaitInv'
<1>1. CASE Tick \/ UNCHANGED vars
  BY <1>1 DEF Tick, vars, WaitInv, MutexInv, CredLockInv, DeleteInv
<1>2. ASSUME NEW r \in Requests, Arrive(r) \/ Step(r) \/ Fail(r) PROVE WaitInv'
  <2>1. Moves(r)
    BY <1>2, StepMoves
  <2> QED
    BY <1>2, <2>1, AbandonWaits, ArriveWaits, SaveWaits, VerifyWaits, EndWaits DEF Step, Fail
<1> QED
  BY <1>1, <1>2 DEF Next

LEMMA Waiting == Spec => [](IndInv /\ WaitInv)
<1>1. Init => WaitInv
  BY DEF Init, WaitInv, MutexInv, CredLockInv, DeleteInv, Guarded
<1>2. IndInv /\ WaitInv /\ [Next]_vars => WaitInv'
  BY NextWaitInv
<1> QED
  BY <1>1, <1>2, Invariance, PTL DEF Spec

(* Whoever is waited for holds a challenge, a credential or the mutex.     *)
LEMMA WaitedFor ==
  ASSUME IndInv, WaitInv, NEW d \in Requests, NEW h \in Requests, h \in WaitsFor(d)
  PROVE  /\ pc[h] \in Guarded \cup Holding \cup {"rollback"}
         /\ pc[d] \in {"insertCredential", "updateCredential"} => pc[h] \in Ending
<1>1. CASE pc[d] = "saveSession"
  BY <1>1, AbsentAssumption, ProcessAssumption DEF WaitsFor, WaitInv, MutexInv
<1>2. CASE pc[d] \in {"clean", "deleteSession"}
  <2>1. PICK k \in Requests : lock[k] = h
    BY <1>2 DEF WaitsFor, IndInv, TypeOK, ShapeInv
  <2> QED
    BY <1>2, <2>1, AbsentAssumption DEF IndInv, LockInv, Holding, Guarded
<1>3. CASE pc[d] \in {"insertCredential", "updateCredential"}
  <2>1. req[d].credential \in Credentials
    BY <1>3, KindAssumption DEF IndInv, ShapeInv, Verifies
  <2>2. credLock[req[d].credential] = h
    BY <1>3 DEF WaitsFor
  <2>3. pc[h] \in Ending
    BY <2>1, <2>2, AbsentAssumption DEF WaitInv, CredLockInv
  <2> QED
    BY <2>3 DEF Ending, Holding
<1> QED
  BY <1>1, <1>2, <1>3 DEF WaitsFor

(* If it waits in its turn, it is cleaning, or waits for somebody who does *)
(* not wait.                                                               *)
LEMMA CircleCleans ==
  ASSUME IndInv, WaitInv, NEW D \in SUBSET Requests, \A d \in D : WaitsFor(d) \cap D # {},
         NEW d \in D
  PROVE  \E h \in D : h \in WaitsFor(d) /\ pc[h] = "clean"
<1>1. PICK h \in D : h \in WaitsFor(d)
  OBVIOUS
<1>2. PICK g \in D : g \in WaitsFor(h)
  OBVIOUS
<1>3. WaitsFor(g) # {}
  OBVIOUS
<1>4. pc[g] \notin Ending
  BY <1>3 DEF WaitsFor, Ending
<1>5. pc[h] \notin {"insertCredential", "updateCredential"}
  BY <1>2, <1>4, WaitedFor
<1>6. pc[h] \in Guarded \cup Holding \cup {"rollback"}
  BY <1>1, WaitedFor
<1>7. pc[h] \in {"saveSession", "clean", "deleteSession"}
  BY <1>2, <1>5 DEF WaitsFor
<1> QED
  BY <1>1, <1>6, <1>7 DEF Guarded, Holding

(* In every circle of waits the DELETEs of two replicas cross.             *)
THEOREM DeadlockCrossesReplicas == Spec => []DeadlockTakesTwoReplicas
<1>1. ASSUME IndInv, WaitInv, NEW D \in SUBSET Requests, D # {},
             \A d \in D : WaitsFor(d) \cap D # {}
      PROVE  \E r1, r2 \in D : pc[r1] = "clean" /\ pc[r2] = "clean" /\ Process[r1] # Process[r2]
  <2>1. PICK d \in D : TRUE
    BY <1>1
  <2>2. PICK h \in D : pc[h] = "clean"
    BY <1>1, CircleCleans
  <2>3. PICK g \in D : g \in WaitsFor(h) /\ pc[g] = "clean"
    BY <1>1, CircleCleans
  <2>4. g # h
    BY <1>1, <2>2, <2>3 DEF WaitsFor, WaitInv, DeleteInv
  <2>5. mutex[Process[g]] = g /\ mutex[Process[h]] = h
    BY <1>1, <2>2, <2>3 DEF WaitInv, MutexInv, Guarded
  <2> QED
    BY <2>2, <2>3, <2>4, <2>5
<1>2. IndInv /\ WaitInv => DeadlockTakesTwoReplicas
  BY <1>1 DEF DeadlockTakesTwoReplicas
<1> QED
  BY <1>2, Waiting, PTL

(* Nothing request r waits for is free. *)
Blocked(r) == WaitsFor(r) # {} /\ Free \notin WaitsFor(r)

(* With one replica there is no deadlock: as long as any request is being  *)
(* served, one of them finds all it needs free.  (EveryRequestEnds, which  *)
(* TLC checks, also says that it is served in the end.)                    *)
THEOREM OneReplicaGoesOn ==
  ASSUME \A r1, r2 \in Requests : Process[r1] = Process[r2]
  PROVE  Spec => []((\E r \in Requests : InProgress(r)) =>
                      \E r \in Requests : InProgress(r) /\ ~Blocked(r))
<1>1. ASSUME IndInv, WaitInv, NEW d \in Requests, Blocked(d)
      PROVE  \E h \in Requests : h \in WaitsFor(d) /\ InProgress(h)
  <2>1. PICK h : h \in WaitsFor(d)
    BY <1>1 DEF Blocked
  <2>2. h # Free
    BY <1>1, <2>1 DEF Blocked
  <2>3. h \in Requests
    BY <1>1, <2>1, <2>2, KindAssumption, ProcessAssumption
       DEF WaitsFor, IndInv, TypeOK, ShapeInv, Verifies
  <2>4. InProgress(h)
    BY <1>1, <2>1, <2>3, WaitedFor DEF InProgress, Finished, Guarded, Holding
  <2> QED
    BY <2>1, <2>3, <2>4
<1>2. ASSUME IndInv, WaitInv, DeadlockTakesTwoReplicas, NEW q \in Requests, InProgress(q)
      PROVE  \E r \in Requests : InProgress(r) /\ ~Blocked(r)
  <2> SUFFICES ASSUME \A r \in Requests : InProgress(r) => Blocked(r) PROVE FALSE
    OBVIOUS
  <2> DEFINE D == {r \in Requests : InProgress(r)}
  <2>1. D \in SUBSET Requests /\ D # {}
    BY <1>2
  <2>2. \A d \in D : WaitsFor(d) \cap D # {}
    BY <1>1, <1>2
  <2> HIDE DEF D
  <2> QED
    BY <1>2, <2>1, <2>2 DEF DeadlockTakesTwoReplicas
<1>3. IndInv /\ WaitInv /\ DeadlockTakesTwoReplicas =>
        ((\E r \in Requests : InProgress(r)) => \E r \in Requests : InProgress(r) /\ ~Blocked(r))
  BY <1>2
<1> QED
  BY <1>3, Waiting, DeadlockCrossesReplicas, PTL
=============================================================================
