-------------------------- MODULE MCPasskeyCeremony --------------------------
(***************************************************************************)
(* Instances of PasskeyCeremony for TLC: which requests arrive.            *)
(***************************************************************************)
EXTENDS PasskeyCeremony, TLC

CONSTANTS RegisterOptions, RegisterVerify, LoginOptions, LoginVerify

MCRequests == RegisterOptions \cup RegisterVerify \cup LoginOptions \cup LoginVerify

MCKind ==
  [r \in MCRequests |-> IF r \in RegisterOptions THEN "registerOptions"
                        ELSE IF r \in RegisterVerify THEN "registerVerify"
                        ELSE IF r \in LoginOptions THEN "loginOptions" ELSE "loginVerify"]

(* All requests are served by one process. *)
MCProcess == [r \in MCRequests |-> CHOOSE p \in Processes : TRUE]

(* Requests to the same endpoint are interchangeable, as the data are. *)
Symmetric ==
  UNION {Permutations(RegisterOptions), Permutations(RegisterVerify),
         Permutations(LoginOptions), Permutations(LoginVerify),
         Permutations(Accounts), Permutations(Credentials)}

(* Accounts and credentials are only compared for equality. *)
SymmetricData == Permutations(Accounts) \cup Permutations(Credentials)
=============================================================================
