----------------------------- MODULE MCOIDCFlow -----------------------------
(***************************************************************************)
(* Instances of OIDCFlow for TLC: which requests arrive, and which clients *)
(* replicas are configured with.                                           *)
(***************************************************************************)
EXTENDS OIDCFlow, FiniteSets, TLC

CONSTANTS AuthorizeReqs, ResumeReqs, TokenReqs, UserInfoReqs

MCRequests == AuthorizeReqs \cup ResumeReqs \cup TokenReqs \cup UserInfoReqs

MCKind ==
  [r \in MCRequests |-> IF r \in AuthorizeReqs THEN "authorize"
                        ELSE IF r \in ResumeReqs THEN "resume"
                        ELSE IF r \in TokenReqs THEN "token" ELSE "userinfo"]

(* Each client with a URI of its own, ... *)
Own == CHOOSE f \in [Clients -> Uris] : \A c, d \in Clients : c # d => f[c] # f[d]

(* ... or any of them missing.                                             *)
MCConfigurations == {[c \in configured |-> {Own[c]}] : configured \in SUBSET Clients}

(* Two clients that share a URI, one of which has another one as well and  *)
(* may be disabled by a start.                                             *)
MCShared ==
  LET wide == CHOOSE d \in Clients : TRUE
  IN {[c \in configured |-> IF c = wide THEN Uris ELSE {Own[c]}] :
        configured \in {Clients, Clients \ {wide}}}

(* Requests to the same endpoint are interchangeable. *)
Symmetric ==
  UNION {Permutations(AuthorizeReqs), Permutations(ResumeReqs), Permutations(TokenReqs)}

(* Accounts and verifiers are only compared for equality. *)
SymmetricData == Permutations(Accounts) \cup Permutations(Verifiers)
=============================================================================
