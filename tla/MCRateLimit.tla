----------------------------- MODULE MCRateLimit -----------------------------
(***************************************************************************)
(* Instances of RateLimit for TLC.                                         *)
(***************************************************************************)
EXTENDS RateLimit, TLC

MCLimit == [k \in Keys |-> 2]

(* Picking places is what SelectSeq does (which no proof can look into).   *)
Lists == UNION {[1..n -> 0..MaxClock] : n \in 0..3}

ASSUME PickedSelects ==
  \A times \in Lists, t \in 0..MaxClock :
    LET young(s) == s + Window > t
    IN Picked(times, {i \in DOMAIN times : young(times[i])}) = SelectSeq(times, young)

(* Requests are only compared for equality. *)
Symmetric == Permutations(Requests)
=============================================================================
