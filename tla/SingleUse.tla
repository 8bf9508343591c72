----------------------------- MODULE SingleUse -----------------------------
(***************************************************************************)
(* What the service promises about its one-time secrets - authorization    *)
(* transactions, authorization codes and passkey challenges: a grant is    *)
(* honoured for at most one request, and once it stopped being redeemable  *)
(* it stays so, whatever happens afterwards to the request that redeemed   *)
(* it.                                                                     *)
(*                                                                         *)
(* This is the contract that oidc.Store states for ConsumeTransaction and  *)
(* RedeemAuthorizationCode (infrastructure/oidc/store.go); OIDCFlow (the   *)
(* PostgreSQL store under concurrent HTTP requests) and StoreAgreement     *)
(* (the in-memory store) are shown to implement it, and PasskeyCeremony    *)
(* for the challenges of ConsumeSession (infrastructure/persistence/       *)
(* passkeys.go), which are redeemed in the request's own transaction.      *)
(***************************************************************************)
CONSTANTS Grants,   \* identities of the one-time secrets
          Users,    \* the requests that may redeem one
          Nobody    \* the absence of a beneficiary; not in Users

VARIABLES status,       \* status[g]: a grant is unissued, live or dead
          beneficiary   \* the request grant g is being honoured for

vars == <<status, beneficiary>>

Statuses == {"unissued", "live", "dead"}

Init == /\ status = [g \in Grants |-> "unissued"]
        /\ beneficiary = [g \in Grants |-> Nobody]

(* Redeem: the one step that turns a live grant into a right for u. *)
Redeem(g, u) ==
  /\ status[g] = "live"
  /\ status' = [status EXCEPT ![g] = "dead"]
  /\ beneficiary' = [beneficiary EXCEPT ![g] = u]

(* Renew: new grants become live, and others die unredeemed - they expired, *)
(* their redemption was refused, or they were announced but never stored.  *)
(* A beneficiary may also lose what it was given, but nobody gains here.   *)
Renew ==
  /\ status' \in [Grants -> Statuses]
  /\ \A g \in Grants :
       /\ status[g] = "dead" => status'[g] = "dead"
       /\ status[g] = "live" => status'[g] # "unissued"
  /\ beneficiary' \in [Grants -> Users \cup {Nobody}]
  /\ \A g \in Grants : beneficiary'[g] \in {beneficiary[g], Nobody}

Next == Renew \/ \E g \in Grants, u \in Users : Redeem(g, u)

Spec == Init /\ [][Next]_vars
=============================================================================
