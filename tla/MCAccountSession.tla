-------------------------- MODULE MCAccountSession --------------------------
(***************************************************************************)
(* Instances of AccountSession for TLC: which requests arrive.             *)
(***************************************************************************)
EXTENDS AccountSession, TLC

CONSTANTS Callbacks, Passkeys, Uses, Logouts

MCRequests == Callbacks \cup Passkeys \cup Uses \cup Logouts

MCKind ==
  [r \in MCRequests |-> IF r \in Callbacks THEN "callback"
                        ELSE IF r \in Passkeys THEN "passkey"
                        ELSE IF r \in Uses THEN "use" ELSE "logout"]

(* Requests of a kind and identities are only compared for equality. *)
Symmetric ==
  UNION {Permutations(Callbacks), Permutations(Logouts), Permutations(Identities)}
=============================================================================
