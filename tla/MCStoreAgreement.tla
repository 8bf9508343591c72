-------------------------- MODULE MCStoreAgreement --------------------------
(***************************************************************************)
(* Instances of StoreAgreement for TLC.                                    *)
(***************************************************************************)
EXTENDS StoreAgreement, TLC

(* All clients, or one less. *)
MCConfigurations == {Clients} \cup {Clients \ {c} : c \in Clients}

(* Calls and clients are interchangeable: no definition tells them apart,  *)
(* and CHOOSE is only used where there is a single value to choose.        *)
Symmetric == Permutations(Calls) \cup Permutations(Clients)
=============================================================================
