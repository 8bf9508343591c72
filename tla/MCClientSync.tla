---------------------------- MODULE MCClientSync ----------------------------
(***************************************************************************)
(* Instances of ClientSync for TLC.  Two versions of the configuration     *)
(* share a client, change its secret and redirect URIs, and each has a     *)
(* client that the other one lacks; a third one shares no client with the  *)
(* first.                                                                  *)
(***************************************************************************)
EXTENDS ClientSync, TLC

CONSTANTS p1, p2, p3, shared, older, newer, s1, s2, u1, u2

MCConfiguration ==
  p1 :> (shared :> [secret |-> s1, uris |-> {u1}] @@ older :> [secret |-> s1, uris |-> {u1}])
  @@
  p2 :> (shared :> [secret |-> s2, uris |-> {u2}] @@ newer :> [secret |-> s2, uris |-> {u2}])
  @@
  p3 :> (newer :> [secret |-> s2, uris |-> {u2}])
=============================================================================
