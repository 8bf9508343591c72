----------------------------- MODULE RateProofs -----------------------------
(***************************************************************************)
(* Proofs about RateLimit for any number of requests and keys, any limits, *)
(* and any order in which the times reach the store.                       *)
(*                                                                         *)
(* WindowLimit and LimitedOnlyWhenFull count requests, the store only has  *)
(* times.  The invariant links the two: the entries of a key are the times *)
(* of different requests that were let through (Journal), and when the     *)
(* times came in order these are all that count now or later (Complete).   *)
(***************************************************************************)
EXTENDS RateLimit, FiniteSetTheorems, TLAPS

Times == 0..MaxClock

(* f names the request that entered each of the times. *)
Journal(times, k, f) ==
  /\ f \in [DOMAIN times -> Requests]
  /\ \A i, j \in DOMAIN times : f[i] = f[j] => i = j
  /\ \A i \in DOMAIN times :
       pc[f[i]] = "allowed" /\ key[f[i]] = k /\ now[f[i]] = times[i]

(* Whoever was let through in the window before t is in the list. *)
Complete(times, k, f, t) ==
  \A q \in Requests : pc[q] = "allowed" /\ key[q] = k /\ now[q] + Window > t =>
    \E i \in DOMAIN times : f[i] = q

Sorted(times) == \A i, j \in DOMAIN times : i <= j => times[i] <= times[j]

JournalInv ==
  \A k \in Keys : \E f :
    /\ Journal(timestamps[k], k, f)
    /\ ~overtaken => Sorted(timestamps[k]) /\ Complete(timestamps[k], k, f, latest)

RequestInv ==
  /\ \A r \in Requests : pc[r] # "idle" => key[r] \in Keys
  /\ \A r \in Requests : pc[r] = "allowed" => now[r] <= latest
  /\ IsFiniteSet({r \in Requests : pc[r] = "allowed"})

IndInv == TypeOK /\ RequestInv /\ JournalInv /\ WindowLimit
-----------------------------------------------------------------------------
(***************************************************************************)
(* What picking places of a list does                                      *)
(***************************************************************************)
LEMMA FirstNumbers ==
  ASSUME NEW n \in Nat
  PROVE  IsFiniteSet(1..n) /\ Cardinality(1..n) = n
<1>1. /\ IsFiniteSet(1..n)
      /\ Cardinality(1..n) = IF 1 > n THEN 0 ELSE n - 1 + 1
  BY FS_Interval
<1> QED
  BY <1>1

(* The places are numbered without gaps, in their order: so many entries   *)
(* are picked, in the order they had, and none is left out.                *)
LEMMA PickedPlaces ==
  ASSUME NEW T, NEW s \in Seq(T), NEW P \in SUBSET DOMAIN s
  PROVE  /\ Picked(s, P) \in Seq(T)
         /\ Len(Picked(s, P)) <= Len(s)
         /\ \E g \in [DOMAIN Picked(s, P) -> P] :
              /\ \A i, j \in DOMAIN Picked(s, P) : i < j => g[i] < g[j]
              /\ \A j \in DOMAIN Picked(s, P) : Picked(s, P)[j] = s[g[j]]
              /\ \A i \in P : \E j \in DOMAIN Picked(s, P) : g[j] = i
<1> DEFINE Upto(i) == {h \in P : h <= i}
           n == Cardinality(P)
           rank == [i \in P |-> Cardinality(Upto(i))]
           g == [j \in 1..n |-> CHOOSE i \in P : Cardinality(Upto(i)) = j]
<1>1. P \subseteq 1..Len(s) /\ P \subseteq Nat /\ Len(s) \in Nat
  OBVIOUS
<1>2. IsFiniteSet(P) /\ n \in Nat /\ n <= Len(s)
  <2>1. IsFiniteSet(1..Len(s)) /\ Cardinality(1..Len(s)) = Len(s)
    BY <1>1, FirstNumbers
  <2>2. IsFiniteSet(P) /\ n <= Len(s)
    BY <1>1, <2>1, FS_Subset
  <2> QED
    BY <2>2, FS_CardinalityType
<1>3. ASSUME NEW i \in P
      PROVE  IsFiniteSet(Upto(i)) /\ Cardinality(Upto(i)) \in 1..n
  <2>1. IsFiniteSet(Upto(i)) /\ Cardinality(Upto(i)) <= n
    BY <1>2, FS_Subset, Upto(i) \in SUBSET P
  <2>2. Cardinality(Upto(i)) \in Nat
    BY <2>1, FS_CardinalityType
  <2>3. i \in Upto(i)
    BY <1>1
  <2>4. Cardinality(Upto(i)) # 0
    BY <2>1, <2>3, FS_EmptySet
  <2> HIDE DEF Upto, n
  <2> QED
    BY <1>2, <2>1, <2>2, <2>4
<1>4. ASSUME NEW i \in P, NEW j \in P, i < j
      PROVE  Cardinality(Upto(i)) < Cardinality(Upto(j))
  <2>1. Upto(i) \in SUBSET Upto(j) /\ j \in Upto(j) /\ j \notin Upto(i)
    BY <1>1, <1>4
  <2> HIDE DEF Upto, n
  <2>2. /\ Cardinality(Upto(i)) <= Cardinality(Upto(j))
        /\ Cardinality(Upto(i)) # Cardinality(Upto(j))
    BY <1>3, <2>1, FS_Subset
  <2>3. Cardinality(Upto(i)) \in 1..n /\ Cardinality(Upto(j)) \in 1..n
    BY <1>3
  <2> QED
    BY <1>2, <2>2, <2>3
<1> HIDE DEF Upto, n
<1>5. rank \in Injection(P, 1..n)
  <2>1. rank \in [P -> 1..n]
    BY <1>3
  <2>2. ASSUME NEW i \in P, NEW j \in P, rank[i] = rank[j] PROVE i = j
    <3>1. ~(i < j) /\ ~(j < i)
      BY <1>2, <1>3, <1>4, <2>2
    <3> QED
      BY <1>1, <3>1
  <2> HIDE DEF rank
  <2> QED
    BY <2>1, <2>2 DEF Injection, IsInjective
<1>6. \A j \in 1..n : \E i \in P : Cardinality(Upto(i)) = j
  <2>1. IsFiniteSet(1..n) /\ Cardinality(1..n) = n
    BY <1>2, FirstNumbers
  <2>2. rank \in Surjection(P, 1..n)
    <3> HIDE DEF rank
    <3>1. Cardinality(P) = n
      BY DEF n
    <3> QED
      BY <1>5, <2>1, <3>1, FS_Injection
  <2> QED
    BY <2>2 DEF Surjection
<1>7. \A j \in 1..n : g[j] \in P /\ Cardinality(Upto(g[j])) = j
  BY <1>6
<1>8. Picked(s, P) = [j \in 1..n |-> s[g[j]]]
  BY DEF Picked, Upto, n
<1>9. g \in [1..n -> P]
  BY <1>7
<1> HIDE DEF g
<1>10. Picked(s, P) \in Seq(T) /\ Len(Picked(s, P)) = n /\ DOMAIN Picked(s, P) = 1..n
  <2>1. \A j \in 1..n : s[g[j]] \in T
    BY <1>1, <1>7
  <2>2. Picked(s, P) \in [1..n -> T]
    BY <1>8, <2>1
  <2> QED
    BY <1>2, <2>2
<1>11. ASSUME NEW i \in 1..n, NEW j \in 1..n, i < j PROVE g[i] < g[j]
  <2>1. g[i] \in P /\ g[j] \in P /\ Cardinality(Upto(g[i])) = i /\ Cardinality(Upto(g[j])) = j
    BY <1>7
  <2>2. g[i] \in Nat /\ g[j] \in Nat
    BY <1>1, <2>1
  <2>3. g[i] # g[j]
    BY <1>2, <1>11, <2>1
  <2>4. ~(g[j] < g[i])
    <3>1. g[j] < g[i] => j < i
      BY <1>4, <2>1
    <3> QED
      BY <1>2, <1>11, <3>1
  <2> QED
    BY <2>2, <2>3, <2>4
<1>12. ASSUME NEW i \in P PROVE \E j \in 1..n : g[j] = i
  <2>1. rank[i] = Cardinality(Upto(i)) /\ rank[i] \in 1..n
    BY <1>3
  <2>2. g[rank[i]] \in P /\ rank[g[rank[i]]] = rank[i]
    BY <1>7, <2>1
  <2> HIDE DEF rank
  <2> QED
    BY <1>5, <2>1, <2>2 DEF Injection, IsInjective
<1> QED
  BY <1>2, <1>8, <1>9, <1>10, <1>11, <1>12
-----------------------------------------------------------------------------
(***************************************************************************)
(* What allow does to the list of one key, before it enters its own time   *)
(***************************************************************************)
(* A purged list is complete too: when its last time is too old and the    *)
(* times came in order, all of it is.                                      *)
LEMMA PurgedJournal ==
  ASSUME NEW times \in Seq(Times), NEW k \in Keys, NEW t \in Times, NEW f,
         Journal(times, k, f), Stale(times, t),
         Sorted(times) /\ Complete(times, k, f, t)
  PROVE  Complete(<<>>, k, <<>>, t)
<1>1. /\ Len(times) \in Nat /\ Len(times) \in DOMAIN times
      /\ times[Len(times)] + Window < t
  BY DEF Stale
<1>2. ASSUME NEW i \in DOMAIN times PROVE ~(times[i] + Window > t)
  <2>1. times[i] <= times[Len(times)]
    BY <1>1 DEF Sorted
  <2> QED
    BY <1>1, <2>1, LimitAssumption DEF Times
<1> QED
  BY <1>2 DEF Complete, Journal

(* What is kept of a list are the young times, of the same requests.       *)
LEMMA KeptJournal ==
  ASSUME NEW times \in Seq(Times), NEW k \in Keys, NEW t \in Times, NEW f,
         Journal(times, k, f)
  PROVE  /\ Kept(times, t) \in Seq(Times)
         /\ Len(Kept(times, t)) <= Len(times)
         /\ \E h : /\ Journal(Kept(times, t), k, h)
                   /\ \A i \in DOMAIN Kept(times, t) : Kept(times, t)[i] + Window > t
                   /\ Complete(times, k, f, t) => Complete(Kept(times, t), k, h, t)
                   /\ Sorted(times) => Sorted(Kept(times, t))
<1> DEFINE places == {i \in DOMAIN times : times[i] + Window > t}
           kept == Kept(times, t)
<1>1. kept = Picked(times, places) /\ places \in SUBSET DOMAIN times
  BY DEF Kept
<1> HIDE DEF kept, places
<1>2. PICK g \in [DOMAIN kept -> places] :
        /\ \A i, j \in DOMAIN kept : i < j => g[i] < g[j]
        /\ \A j \in DOMAIN kept : kept[j] = times[g[j]]
        /\ \A i \in places : \E j \in DOMAIN kept : g[j] = i
  BY <1>1, PickedPlaces
<1>3. kept \in Seq(Times) /\ Len(kept) <= Len(times)
  BY <1>1, PickedPlaces
<1>4. DOMAIN kept \subseteq Nat /\ DOMAIN times \subseteq Nat
  BY <1>3
<1>5. \A j \in DOMAIN kept : g[j] \in DOMAIN times /\ times[g[j]] + Window > t
  BY <1>2 DEF places
<1> DEFINE h == [j \in DOMAIN kept |-> f[g[j]]]
<1>6. Journal(kept, k, h)
  <2>1. h \in [DOMAIN kept -> Requests]
    BY <1>5 DEF Journal
  <2>2. ASSUME NEW i \in DOMAIN kept, NEW j \in DOMAIN kept, h[i] = h[j] PROVE i = j
    <3>1. g[i] = g[j]
      BY <1>5, <2>2 DEF Journal
    <3>2. g[i] \in Nat /\ g[j] \in Nat /\ i \in Nat /\ j \in Nat
      BY <1>4, <1>5
    <3>3. ~(i < j) /\ ~(j < i)
      BY <1>2, <3>1, <3>2
    <3> QED
      BY <3>2, <3>3
  <2>3. ASSUME NEW i \in DOMAIN kept
        PROVE  pc[h[i]] = "allowed" /\ key[h[i]] = k /\ now[h[i]] = kept[i]
    BY <1>2, <1>5 DEF Journal
  <2> QED
    BY <2>1, <2>2, <2>3 DEF Journal
<1>7. \A i \in DOMAIN kept : kept[i] + Window > t
  BY <1>2, <1>5
<1>8. ASSUME Complete(times, k, f, t) PROVE Complete(kept, k, h, t)
  <2> SUFFICES ASSUME NEW q \in Requests, pc[q] = "allowed", key[q] = k, now[q] + Window > t
               PROVE  \E j \in DOMAIN kept : h[j] = q
    BY DEF Complete
  <2>1. PICK i \in DOMAIN times : f[i] = q
    BY <1>8 DEF Complete
  <2>2. i \in places
    BY <2>1 DEF Journal, places
  <2>3. PICK j \in DOMAIN kept : g[j] = i
    BY <1>2, <2>2
  <2> QED
    BY <2>1, <2>3
<1>9. ASSUME Sorted(times) PROVE Sorted(kept)
  <2> SUFFICES ASSUME NEW i \in DOMAIN kept, NEW j \in DOMAIN kept, i <= j
               PROVE  kept[i] <= kept[j]
    BY DEF Sorted
  <2>1. g[i] <= g[j]
    <3>1. i \in Nat /\ j \in Nat /\ g[i] \in Nat /\ g[j] \in Nat
      BY <1>4, <1>5
    <3>2. CASE i = j
      BY <3>1, <3>2
    <3>3. CASE i < j
      BY <1>2, <3>1, <3>3
    <3> QED
      BY <3>1, <3>2, <3>3
  <2> QED
    BY <1>2, <1>5, <1>9, <2>1 DEF Sorted
<1> HIDE DEF h
<1> QED
  BY <1>3, <1>6, <1>7, <1>8, <1>9 DEF kept
-----------------------------------------------------------------------------
(***************************************************************************)
(* The steps                                                               *)
(***************************************************************************)
LEMMA InitIndInv == Init => IndInv
<1> SUFFICES ASSUME Init PROVE IndInv
  OBVIOUS
<1>1. TypeOK
  <2>1. <<>> \in Seq(0..MaxClock) /\ Len(<<>>) = 0
    OBVIOUS
  <2>2. timestamps \in [Keys -> Seq(0..MaxClock)]
    BY <2>1 DEF Init
  <2>3. \A k \in Keys : Len(timestamps[k]) <= Limit[k]
    BY <2>1, LimitAssumption DEF Init
  <2>4. 0 \in 0..MaxClock /\ FALSE \in BOOLEAN
    BY LimitAssumption
  <2>5. /\ clock \in 0..MaxClock /\ latest \in 0..MaxClock /\ overtaken \in BOOLEAN
        /\ pc \in [Requests -> {"idle", "waiting", "allowed", "limited"}]
        /\ key \in [Requests -> Keys \cup {NoKey}] /\ now \in [Requests -> 0..MaxClock]
    BY <2>4 DEF Init
  <2> QED
    BY <2>2, <2>3, <2>5 DEF TypeOK
<1>2. RequestInv
  <2>1. {r \in Requests : pc[r] = "allowed"} = {}
    BY DEF Init
  <2> QED
    BY <2>1, FS_EmptySet DEF Init, RequestInv
<1>3. JournalInv
  <2> SUFFICES ASSUME NEW k \in Keys
               PROVE  /\ Journal(<<>>, k, <<>>)
                      /\ Sorted(<<>>) /\ Complete(<<>>, k, <<>>, latest)
    BY DEF Init, JournalInv
  <2> QED
    BY DEF Init, Journal, Sorted, Complete
<1>4. WindowLimit
  <2>1. \A k \in Keys, t \in 0..MaxClock : AllowedIn(k, t) = {}
    BY DEF Init, AllowedIn
  <2> QED
    BY <2>1, FS_EmptySet, LimitAssumption DEF WindowLimit
<1> QED
  BY <1>1, <1>2, <1>3, <1>4 DEF IndInv

Purged(k, t) == IF Stale(timestamps[k], t) THEN <<>> ELSE timestamps[k]

(* The lists allow finds after it dropped the stale keys. *)
LEMMA PurgedLists ==
  ASSUME IndInv, NEW t \in Times, NEW k \in Keys
  PROVE  /\ Purged(k, t) \in Seq(Times) /\ Len(Purged(k, t)) <= Limit[k]
         /\ \E f : /\ Journal(Purged(k, t), k, f)
                   /\ ~overtaken /\ latest <= t =>
                        Sorted(Purged(k, t)) /\ Complete(Purged(k, t), k, f, t)
<1>1. /\ timestamps[k] \in Seq(Times) /\ Len(timestamps[k]) <= Limit[k]
      /\ Limit[k] \in Nat \ {0}
  BY LimitAssumption DEF IndInv, TypeOK, Times
<1>2. PICK f : /\ Journal(timestamps[k], k, f)
               /\ ~overtaken => Sorted(timestamps[k]) /\ Complete(timestamps[k], k, f, latest)
  BY DEF IndInv, JournalInv
<1>3. ~overtaken /\ latest <= t => Complete(timestamps[k], k, f, t)
  <2> SUFFICES ASSUME ~overtaken, latest <= t, NEW q \in Requests,
                      pc[q] = "allowed", key[q] = k, now[q] + Window > t
               PROVE  \E i \in DOMAIN timestamps[k] : f[i] = q
    BY DEF Complete
  <2>1. now[q] + Window > latest
    BY LimitAssumption DEF IndInv, TypeOK, Times
  <2> QED
    BY <1>2, <2>1 DEF Complete
<1>4. CASE Stale(timestamps[k], t)
  <2>1. Purged(k, t) = <<>>
    BY <1>4 DEF Purged
  <2>2. Journal(<<>>, k, <<>>) /\ Sorted(<<>>)
    BY DEF Journal, Sorted
  <2>3. ~overtaken /\ latest <= t => Complete(<<>>, k, <<>>, t)
    BY <1>1, <1>2, <1>3, <1>4, PurgedJournal
  <2>4. <<>> \in Seq(Times) /\ Len(<<>>) <= Limit[k]
    BY <1>1
  <2> QED
    BY <2>1, <2>2, <2>3, <2>4
<1>5. CASE ~Stale(timestamps[k], t)
  <2>1. Purged(k, t) = timestamps[k]
    BY <1>5 DEF Purged
  <2> QED
    BY <1>1, <1>2, <1>3, <2>1
<1> QED
  BY <1>4, <1>5

(* What allow counts for request r: as many requests of its key as there   *)
(* are entries were let through in the window or at a later time, and when *)
(* the times came in order no others were.                                 *)
Recent(r) ==
  {q \in Requests : pc[q] = "allowed" /\ key[q] = key[r] /\ now[q] + Window > now[r]}

KeptFor(r) == Kept(Purged(key[r], now[r]), now[r])

LEMMA KeptList ==
  ASSUME IndInv, NEW r \in Requests, pc[r] = "waiting"
  PROVE  /\ KeptFor(r) \in Seq(Times) /\ Len(KeptFor(r)) <= Limit[key[r]]
         /\ \E f : /\ Journal(KeptFor(r), key[r], f)
                   /\ ~overtaken /\ latest <= now[r] =>
                        Sorted(KeptFor(r)) /\ Complete(KeptFor(r), key[r], f, now[r])
         /\ IsFiniteSet(Recent(r)) /\ Cardinality(Recent(r)) \in Nat
         /\ Len(KeptFor(r)) <= Cardinality(Recent(r))
         /\ ~overtaken /\ latest <= now[r] => Cardinality(Recent(r)) <= Len(KeptFor(r))
<1> DEFINE k == key[r]
           t == now[r]
           purged == Purged(k, t)
           kept == KeptFor(r)
<1>1. k \in Keys /\ t \in Times
  BY DEF IndInv, TypeOK, RequestInv, Times
<1>2. PICK f : /\ Journal(purged, k, f)
               /\ ~overtaken /\ latest <= t => Sorted(purged) /\ Complete(purged, k, f, t)
  BY <1>1, PurgedLists
<1>3. purged \in Seq(Times) /\ Len(purged) <= Limit[k]
  BY <1>1, PurgedLists
<1>4. kept = Kept(purged, t)
  BY DEF KeptFor
<1> HIDE DEF purged, kept
<1>5. PICK h : /\ Journal(kept, k, h)
               /\ \A i \in DOMAIN kept : kept[i] + Window > t
               /\ Complete(purged, k, f, t) => Complete(kept, k, h, t)
               /\ Sorted(purged) => Sorted(kept)
  BY <1>1, <1>2, <1>3, <1>4, KeptJournal
<1>6. kept \in Seq(Times) /\ Len(kept) <= Len(purged)
  BY <1>1, <1>2, <1>3, <1>4, KeptJournal
<1>7. Limit[k] \in Nat /\ Len(purged) \in Nat /\ Len(kept) \in Nat /\ DOMAIN kept = 1..Len(kept)
  BY <1>1, <1>3, <1>6, LimitAssumption
<1>8. IsFiniteSet(Recent(r)) /\ Cardinality(Recent(r)) \in Nat
  <2>1. Recent(r) \in SUBSET {q \in Requests : pc[q] = "allowed"}
    BY DEF Recent
  <2> QED
    BY <2>1, FS_Subset, FS_CardinalityType DEF IndInv, RequestInv
<1>9. IsFiniteSet(1..Len(kept)) /\ Cardinality(1..Len(kept)) = Len(kept)
  BY <1>7, FirstNumbers
<1>10. Len(kept) <= Cardinality(Recent(r))
  <2>1. h \in [1..Len(kept) -> Recent(r)]
    BY <1>5, <1>7 DEF Journal, Recent
  <2>2. h \in Injection(1..Len(kept), Recent(r))
    BY <1>5, <1>7, <2>1 DEF Injection, IsInjective, Journal
  <2> QED
    BY <1>8, <1>9, <2>2, FS_Injection
<1>11. ASSUME ~overtaken, latest <= t
       PROVE  Cardinality(Recent(r)) <= Len(kept)
  <2> DEFINE place == [q \in Recent(r) |-> CHOOSE i \in DOMAIN kept : h[i] = q]
  <2>1. \A q \in Recent(r) : \E i \in DOMAIN kept : h[i] = q
    BY <1>2, <1>5, <1>11 DEF Complete, Recent
  <2>2. \A q \in Recent(r) : place[q] \in 1..Len(kept) /\ h[place[q]] = q
    BY <1>7, <2>1
  <2>3. place \in [Recent(r) -> 1..Len(kept)]
    BY <2>2
  <2> HIDE DEF place
  <2>4. place \in Injection(Recent(r), 1..Len(kept))
    BY <2>2, <2>3 DEF Injection, IsInjective
  <2> QED
    BY <1>9, <2>4, FS_Injection
<1>12. kept = KeptFor(r)
  BY DEF kept
<1>13. Len(kept) <= Limit[k]
  BY <1>3, <1>6, <1>7
<1> QED
  BY <1>2, <1>5, <1>6, <1>8, <1>10, <1>11, <1>12, <1>13

(* Steps that let nobody through and leave the lists alone. *)
LEMMA IdleStep ==
  ASSUME IndInv, UNCHANGED <<timestamps, latest, overtaken>>, TypeOK',
         \A q \in Requests :
           \/ pc'[q] = pc[q] /\ key'[q] = key[q] /\ now'[q] = now[q]
           \/ pc[q] # "allowed" /\ pc'[q] # "allowed" /\ key'[q] \in Keys
  PROVE  IndInv'
<1> USE DEF IndInv
<1>1. \A q \in Requests : pc'[q] = "allowed" <=> pc[q] = "allowed"
  OBVIOUS
<1>2. \A q \in Requests : pc[q] = "allowed" => key'[q] = key[q] /\ now'[q] = now[q]
  OBVIOUS
<1>3. RequestInv'
  <2>1. {q \in Requests : pc'[q] = "allowed"} = {q \in Requests : pc[q] = "allowed"}
    BY <1>1
  <2> QED
    BY <1>1, <1>2, <2>1 DEF RequestInv
<1>4. JournalInv'
  <2> SUFFICES ASSUME NEW k \in Keys
               PROVE  \E f : /\ Journal(timestamps[k], k, f)'
                             /\ ~overtaken => Sorted(timestamps[k]) /\ Complete(timestamps[k], k, f, latest)'
    BY DEF JournalInv, Sorted
  <2>1. PICK f : /\ Journal(timestamps[k], k, f)
                 /\ ~overtaken => Sorted(timestamps[k]) /\ Complete(timestamps[k], k, f, latest)
    BY DEF JournalInv
  <2>2. Journal(timestamps[k], k, f)'
    BY <1>1, <1>2, <2>1 DEF Journal
  <2>3. ~overtaken => Complete(timestamps[k], k, f, latest)'
    BY <1>1, <1>2, <2>1 DEF Complete
  <2> QED
    BY <2>1, <2>2, <2>3
<1>5. WindowLimit'
  <2>1. \A k \in Keys, t \in 0..MaxClock : AllowedIn(k, t)' = AllowedIn(k, t)
    BY <1>1, <1>2 DEF AllowedIn
  <2> QED
    BY <2>1 DEF WindowLimit
<1> QED
  BY <1>3, <1>4, <1>5

LEMMA ReceiveStep ==
  ASSUME IndInv, NEW r \in Requests, Receive(r)
  PROVE  IndInv'
<1>1. TypeOK'
  BY DEF IndInv, TypeOK, Receive
<1> QED
  BY <1>1, IdleStep DEF IndInv, TypeOK, Receive

LEMMA TickStep ==
  ASSUME IndInv, Tick
  PROVE  IndInv'
<1>1. TypeOK'
  BY LimitAssumption DEF IndInv, TypeOK, Tick
<1> QED
  BY <1>1, IdleStep DEF Tick

(* The lists after allow: r's key has what was kept and, if it was let     *)
(* through, the time of r.                                                 *)
LEMMA AllowLists ==
  ASSUME IndInv, NEW r \in Requests, Allow(r)
  PROVE  /\ pc[r] = "waiting" /\ key[r] \in Keys /\ now[r] \in Times
         /\ UNCHANGED <<clock, key, now>>
         /\ latest' = IF now[r] < latest THEN latest ELSE now[r]
         /\ ~overtaken' => ~overtaken /\ latest <= now[r] /\ latest' = now[r]
         /\ DOMAIN timestamps' = Keys
         /\ \A k \in Keys : k # key[r] => timestamps'[k] = Purged(k, now[r])
         /\ \/ /\ Len(KeptFor(r)) >= Limit[key[r]]
               /\ pc' = [pc EXCEPT ![r] = "limited"]
               /\ timestamps'[key[r]] = KeptFor(r)
            \/ /\ ~(Len(KeptFor(r)) >= Limit[key[r]])
               /\ pc' = [pc EXCEPT ![r] = "allowed"]
               /\ timestamps'[key[r]] = Append(KeptFor(r), now[r])
<1>1. pc[r] = "waiting" /\ key[r] \in Keys /\ now[r] \in Times
  BY DEF Allow, IndInv, RequestInv, TypeOK, Times
<1> DEFINE purged == [j \in Keys |-> Purged(j, now[r])]
<1>2. \/ /\ Exhausted(key[r], Kept(purged[key[r]], now[r]))
         /\ timestamps' = [purged EXCEPT ![key[r]] = Kept(purged[key[r]], now[r])]
         /\ pc' = [pc EXCEPT ![r] = "limited"]
      \/ /\ ~Exhausted(key[r], Kept(purged[key[r]], now[r]))
         /\ timestamps' = [purged EXCEPT ![key[r]] = Append(Kept(purged[key[r]], now[r]), now[r])]
         /\ pc' = [pc EXCEPT ![r] = "allowed"]
  BY DEF Allow, Purged
<1>3. Kept(purged[key[r]], now[r]) = KeptFor(r)
  BY <1>1 DEF KeptFor
<1>4. ~overtaken' => ~overtaken /\ latest <= now[r] /\ latest' = now[r]
  <2>1. latest' = IF now[r] < latest THEN latest ELSE now[r]
    BY DEF Allow, TakeMutex
  <2>2. ~overtaken' => ~overtaken /\ ~(now[r] < latest)
    BY Zenon DEF Allow, TakeMutex
  <2> QED
    BY <1>1, <2>1, <2>2 DEF IndInv, TypeOK, Times
<1> QED
  BY <1>1, <1>2, <1>3, <1>4 DEF Exhausted, Allow, TakeMutex

(* Of the requests, allow only lets r through, or not. *)
LEMMA AllowOthers ==
  ASSUME IndInv, NEW r \in Requests, Allow(r)
  PROVE  /\ \A q \in Requests : q # r => pc'[q] = pc[q]
         /\ pc'[r] \in {"allowed", "limited"}
         /\ pc'[r] = "allowed" <=> ~(Len(KeptFor(r)) >= Limit[key[r]])
<1>1. CASE pc' = [pc EXCEPT ![r] = "limited"] /\ Len(KeptFor(r)) >= Limit[key[r]]
  BY <1>1 DEF IndInv, TypeOK
<1>2. CASE pc' = [pc EXCEPT ![r] = "allowed"] /\ ~(Len(KeptFor(r)) >= Limit[key[r]])
  BY <1>2 DEF IndInv, TypeOK
<1> QED
  BY <1>1, <1>2, AllowLists

LEMMA AllowTyped ==
  ASSUME IndInv, NEW r \in Requests, Allow(r)
  PROVE  TypeOK'
<1>1. /\ KeptFor(r) \in Seq(Times) /\ Len(KeptFor(r)) \in Nat
      /\ key[r] \in Keys /\ now[r] \in Times /\ Limit[key[r]] \in Nat
      /\ Len(KeptFor(r)) <= Limit[key[r]]
  <2>1. KeptFor(r) \in Seq(Times) /\ Len(KeptFor(r)) <= Limit[key[r]] /\ key[r] \in Keys
    BY AllowLists, KeptList
  <2> QED
    BY <2>1, AllowLists, LimitAssumption
<1>2. timestamps'[key[r]] \in Seq(Times) /\ Len(timestamps'[key[r]]) <= Limit[key[r]]
  <2>1. CASE timestamps'[key[r]] = KeptFor(r)
    BY <1>1, <2>1
  <2>2. CASE /\ timestamps'[key[r]] = Append(KeptFor(r), now[r])
             /\ ~(Len(KeptFor(r)) >= Limit[key[r]])
    BY <1>1, <2>2
  <2> QED
    BY <2>1, <2>2, AllowLists
<1>3. \A k \in Keys : timestamps'[k] \in Seq(Times) /\ Len(timestamps'[k]) <= Limit[k]
  <2> SUFFICES ASSUME NEW k \in Keys, k # key[r]
               PROVE  timestamps'[k] \in Seq(Times) /\ Len(timestamps'[k]) <= Limit[k]
    BY <1>2
  <2>1. timestamps'[k] = Purged(k, now[r])
    BY AllowLists
  <2>2. Purged(k, now[r]) \in Seq(Times) /\ Len(Purged(k, now[r])) <= Limit[k]
    BY <1>1, PurgedLists
  <2> QED
    BY <2>1, <2>2
<1>4. timestamps' \in [Keys -> Seq(Times)]
  <2>1. DOMAIN timestamps' = Keys /\ timestamps' = [k \in Keys |-> timestamps'[k]]
    BY DEF Allow, IndInv, TypeOK
  <2> QED
    BY <1>3, <2>1
<1>5. overtaken' \in BOOLEAN
  BY DEF Allow, TakeMutex
<1>6. latest' \in Times /\ clock' \in Times
  BY <1>1, AllowLists DEF IndInv, TypeOK, Times
<1>7. /\ pc' \in [Requests -> {"idle", "waiting", "allowed", "limited"}]
      /\ key' \in [Requests -> Keys \cup {NoKey}] /\ now' \in [Requests -> Times]
  BY DEF Allow, IndInv, TypeOK, Times
<1> QED
  BY <1>3, <1>4, <1>5, <1>6, <1>7 DEF TypeOK, Times

LEMMA AllowRequests ==
  ASSUME IndInv, NEW r \in Requests, Allow(r)
  PROVE  RequestInv'
<1> DEFINE Through == {q \in Requests : pc[q] = "allowed"}
<1>1. IsFiniteSet(Through \cup {r})
  BY FS_AddElement DEF IndInv, RequestInv
<1>2. {q \in Requests : pc'[q] = "allowed"} \in SUBSET (Through \cup {r})
  BY AllowOthers
<1>3. IsFiniteSet({q \in Requests : pc'[q] = "allowed"})
  BY <1>1, <1>2, FS_Subset
<1>4. latest <= latest' /\ now[r] <= latest'
  BY AllowLists DEF IndInv, TypeOK, Times
<1>5. \A q \in Requests : pc'[q] = "allowed" => now'[q] <= latest'
  BY <1>4, AllowLists, AllowOthers DEF IndInv, RequestInv, TypeOK, Times
<1>6. \A q \in Requests : pc'[q] # "idle" => key'[q] \in Keys
  BY AllowLists, AllowOthers DEF IndInv, RequestInv
<1> QED
  BY <1>3, <1>5, <1>6 DEF RequestInv

(* The requests in a list without r are still there after r's step. *)
LEMMA AllowJournalKept ==
  ASSUME IndInv, NEW r \in Requests, Allow(r), NEW times \in Seq(Times), NEW k \in Keys, NEW f,
         Journal(times, k, f)
  PROVE  /\ \A i \in DOMAIN times : f[i] \in Requests /\ f[i] # r
         /\ \A i \in DOMAIN times :
              pc'[f[i]] = "allowed" /\ key'[f[i]] = k /\ now'[f[i]] = times[i]
  BY AllowLists, AllowOthers DEF Journal

LEMMA AllowJournals ==
  ASSUME IndInv, NEW r \in Requests, Allow(r)
  PROVE  JournalInv'
<1> SUFFICES ASSUME NEW k \in Keys
             PROVE  \E f : /\ Journal(timestamps[k], k, f)'
                           /\ ~overtaken' => Sorted(timestamps'[k]) /\ Complete(timestamps[k], k, f, latest)'
  BY DEF JournalInv, Sorted
<1>1. /\ key[r] \in Keys /\ now[r] \in Times /\ pc[r] = "waiting" /\ UNCHANGED <<key, now>>
      /\ ~overtaken' => ~overtaken /\ latest <= now[r] /\ latest' = now[r]
  BY AllowLists
<1>2. CASE k # key[r]
  <2>1. timestamps'[k] = Purged(k, now[r]) /\ Purged(k, now[r]) \in Seq(Times)
    BY <1>1, <1>2, AllowLists, PurgedLists
  <2>2. PICK f : /\ Journal(Purged(k, now[r]), k, f)
                 /\ ~overtaken /\ latest <= now[r] =>
                      Sorted(Purged(k, now[r])) /\ Complete(Purged(k, now[r]), k, f, now[r])
    BY <1>1, PurgedLists
  <2> DEFINE times == timestamps'[k]
  <2>3. times = Purged(k, now[r])
    BY <2>1
  <2> HIDE DEF times
  <2>4. Journal(timestamps[k], k, f)'
    BY <2>1, <2>2, AllowJournalKept DEF Journal
  <2>5. ~overtaken' => Complete(timestamps[k], k, f, latest)'
    BY <1>1, <1>2, <2>1, <2>2, AllowOthers DEF Complete
  <2> QED
    BY <1>1, <2>1, <2>2, <2>4, <2>5
<1>3. CASE k = key[r]
  <2>1. PICK f : /\ Journal(KeptFor(r), k, f)
                 /\ ~overtaken /\ latest <= now[r] =>
                      Sorted(KeptFor(r)) /\ Complete(KeptFor(r), k, f, now[r])
    BY <1>1, <1>3, KeptList
  <2>2. KeptFor(r) \in Seq(Times)
    BY <1>1, KeptList
  <2>3. CASE pc'[r] # "allowed"
    <3>1. timestamps'[k] = KeptFor(r)
      BY <1>3, <2>3, AllowLists, AllowOthers
    <3>2. Journal(timestamps[k], k, f)'
      BY <2>1, <2>2, <3>1, AllowJournalKept DEF Journal
    <3>3. ~overtaken' => Complete(timestamps[k], k, f, latest)'
      BY <1>1, <2>1, <2>3, <3>1, AllowOthers DEF Complete
    <3> QED
      BY <1>1, <2>1, <3>1, <3>2, <3>3
  <2>4. CASE pc'[r] = "allowed"
    <3> DEFINE n == Len(KeptFor(r))
    <3> PICK h : h = [i \in 1..(n + 1) |-> IF i = n + 1 THEN r ELSE f[i]]
      OBVIOUS
    <3>1. timestamps'[k] = Append(KeptFor(r), now[r])
      BY <1>3, <2>4, AllowLists, AllowOthers
    <3>2. /\ n \in Nat /\ DOMAIN KeptFor(r) = 1..n /\ DOMAIN timestamps'[k] = 1..(n + 1)
          /\ timestamps'[k][n + 1] = now[r]
          /\ \A i \in 1..n : timestamps'[k][i] = KeptFor(r)[i]
      BY <1>1, <2>2, <3>1
    <3> HIDE DEF n
    <3>3. /\ h[n + 1] = r /\ \A i \in 1..n : h[i] = f[i]
          /\ \A i \in 1..n : f[i] \in Requests /\ f[i] # r /\ now[f[i]] = KeptFor(r)[i]
                             /\ pc'[f[i]] = "allowed" /\ key'[f[i]] = k
          /\ \A i, j \in 1..n : f[i] = f[j] => i = j
      <4>1. n + 1 \in 1..(n + 1) /\ \A i \in 1..n : i \in 1..(n + 1) /\ i # n + 1
        BY <3>2
      <4>2. h[n + 1] = r /\ \A i \in 1..n : h[i] = f[i]
        BY <4>1
      <4>3. \A i \in 1..n : f[i] \in Requests /\ f[i] # r /\ pc'[f[i]] = "allowed"
                            /\ key'[f[i]] = k
        BY <2>1, <2>2, <3>2, AllowJournalKept
      <4>4. \A i \in 1..n : now[f[i]] = KeptFor(r)[i]
        BY <2>1, <3>2 DEF Journal
      <4>5. \A i, j \in 1..n : f[i] = f[j] => i = j
        BY <2>1, <3>2 DEF Journal
      <4> QED
        BY <4>2, <4>3, <4>4, <4>5
    <3>4. Journal(timestamps[k], k, h)'
      <4>1. h \in [1..(n + 1) -> Requests]
        BY <3>2, <3>3
      <4>2. ASSUME NEW i \in 1..(n + 1), NEW j \in 1..(n + 1), h[i] = h[j] PROVE i = j
        <5>1. (i \in 1..n \/ i = n + 1) /\ (j \in 1..n \/ j = n + 1)
          BY <3>2
        <5> QED
          BY <3>3, <4>2, <5>1
      <4>3. ASSUME NEW i \in 1..(n + 1)
            PROVE  pc'[h[i]] = "allowed" /\ key'[h[i]] = k /\ now'[h[i]] = timestamps'[k][i]
        <5>1. i \in 1..n \/ i = n + 1
          BY <3>2
        <5> QED
          BY <1>1, <1>3, <2>4, <3>2, <3>3, <5>1
      <4> QED
        BY <3>2, <4>1, <4>2, <4>3 DEF Journal
    <3>5. ASSUME ~overtaken' PROVE Complete(timestamps[k], k, h, latest)'
      <4> SUFFICES ASSUME NEW q \in Requests, pc'[q] = "allowed", key'[q] = k,
                          now'[q] + Window > latest'
                   PROVE  \E i \in DOMAIN timestamps'[k] : h[i] = q
        BY DEF Complete
      <4>1. CASE q = r
        BY <3>2, <3>3, <4>1
      <4>2. CASE q # r
        <5>1. PICK i \in 1..n : f[i] = q
          BY <1>1, <2>1, <3>2, <3>5, <4>2, AllowOthers DEF Complete
        <5>2. i \in 1..(n + 1) /\ h[i] = q
          BY <3>2, <3>3, <5>1
        <5> QED
          BY <3>2, <5>2
      <4> QED
        BY <4>1, <4>2
    <3>6. ASSUME ~overtaken' PROVE Sorted(timestamps'[k])
      <4> SUFFICES ASSUME NEW i \in 1..(n + 1), NEW j \in 1..(n + 1), i <= j
                   PROVE  timestamps'[k][i] <= timestamps'[k][j]
        BY <3>2 DEF Sorted
      <4>1. CASE i \in 1..n /\ j \in 1..n
        BY <1>1, <2>1, <3>2, <3>6, <4>1 DEF Sorted
      <4>2. CASE i \in 1..n /\ j = n + 1
        <5>1. pc[f[i]] = "allowed" /\ f[i] \in Requests
          BY <2>1, <3>2, <4>2 DEF Journal
        <5>2. now[f[i]] <= now[r]
          BY <1>1, <3>6, <5>1 DEF IndInv, RequestInv, TypeOK, Times
        <5> QED
          BY <3>2, <3>3, <4>2, <5>2
      <4>3. CASE i = n + 1
        <5>1. j = n + 1
          BY <3>2, <4>3
        <5> QED
          BY <1>1, <3>2, <4>3, <5>1 DEF Times
      <4> QED
        BY <3>2, <4>1, <4>2, <4>3
    <3> QED
      BY <3>4, <3>5, <3>6
  <2> QED
    BY <2>3, <2>4
<1> QED
  BY <1>2, <1>3

(* The limit: a request is only let through next to fewer than Limit       *)
(* others, and those of its window are among them.                         *)
LEMMA AllowWindow ==
  ASSUME IndInv, NEW r \in Requests, Allow(r)
  PROVE  WindowLimit'
<1> SUFFICES ASSUME ~overtaken', NEW k \in Keys, NEW t \in Times
             PROVE  Cardinality(AllowedIn(k, t)') <= Limit[k]
  BY DEF WindowLimit, Times
<1>1. /\ key[r] \in Keys /\ now[r] \in Times /\ pc[r] = "waiting" /\ UNCHANGED <<key, now>>
      /\ ~overtaken /\ latest <= now[r]
  BY AllowLists
<1>2. Cardinality(AllowedIn(k, t)) <= Limit[k]
  BY <1>1 DEF IndInv, WindowLimit, Times
<1>3. CASE ~(pc'[r] = "allowed" /\ key[r] = k /\ now[r] <= t)
  <2>1. AllowedIn(k, t)' = AllowedIn(k, t)
    BY <1>1, <1>3, AllowOthers DEF AllowedIn
  <2> QED
    BY <1>2, <2>1
<1>4. CASE pc'[r] = "allowed" /\ key[r] = k /\ now[r] <= t
  <2>1. AllowedIn(k, t)' \in SUBSET (Recent(r) \cup {r})
    <3>1. ASSUME NEW q \in AllowedIn(k, t)', q # r PROVE q \in Recent(r)
      <4>1. q \in Requests /\ pc[q] = "allowed" /\ key[q] = key[r] /\ now[q] + Window > t
        BY <1>1, <1>4, <3>1, AllowOthers DEF AllowedIn
      <4>2. now[q] + Window > now[r]
        BY <1>1, <1>4, <4>1, LimitAssumption DEF IndInv, TypeOK, Times
      <4> QED
        BY <4>1, <4>2 DEF Recent
    <3> QED
      BY <3>1
  <2>2. /\ IsFiniteSet(Recent(r)) /\ Cardinality(Recent(r)) \in Nat
        /\ Cardinality(Recent(r)) <= Len(KeptFor(r))
        /\ KeptFor(r) \in Seq(Times)
    BY <1>1, KeptList
  <2>3. /\ IsFiniteSet(Recent(r) \cup {r})
        /\ Cardinality(Recent(r) \cup {r}) <= Cardinality(Recent(r)) + 1
    <3>1. /\ IsFiniteSet(Recent(r) \cup {r})
          /\ \/ Cardinality(Recent(r) \cup {r}) = Cardinality(Recent(r))
             \/ Cardinality(Recent(r) \cup {r}) = Cardinality(Recent(r)) + 1
      BY <2>2, FS_AddElement
    <3> QED
      BY <2>2, <3>1
  <2>4. /\ Cardinality(AllowedIn(k, t)') <= Cardinality(Recent(r) \cup {r})
        /\ Cardinality(AllowedIn(k, t)') \in Nat /\ Cardinality(Recent(r) \cup {r}) \in Nat
    BY <2>1, <2>3, FS_Subset, FS_CardinalityType
  <2>5. Len(KeptFor(r)) + 1 <= Limit[k]
    <3>1. ~(Len(KeptFor(r)) >= Limit[k]) /\ Limit[k] \in Nat
      BY <1>4, AllowOthers, LimitAssumption
    <3> QED
      BY <2>2, <3>1
  <2> QED
    BY <2>2, <2>3, <2>4, <2>5, LimitAssumption
<1> QED
  BY <1>3, <1>4
-----------------------------------------------------------------------------
LEMMA StutterStep ==
  ASSUME IndInv, UNCHANGED vars
  PROVE  IndInv'
<1>1. TypeOK'
  BY DEF IndInv, TypeOK, vars
<1> QED
  BY <1>1, IdleStep DEF vars

LEMMA NextIndInv == IndInv /\ [Next]_vars => IndInv'
<1> SUFFICES ASSUME IndInv, [Next]_vars PROVE IndInv'
  OBVIOUS
<1>1. ASSUME NEW r \in Requests, Allow(r) PROVE IndInv'
  BY <1>1, AllowTyped, AllowRequests, AllowJournals, AllowWindow DEF IndInv
<1> QED
  BY <1>1, ReceiveStep, TickStep, StutterStep DEF Next

LEMMA Invariance == Spec => []IndInv
  BY InitIndInv, NextIndInv, PTL DEF Spec

(* The store never has more times of a key than its limit, in whatever     *)
(* order they arrive (router/middleware.go:65-92).                         *)
THEOREM RatesTyped == Spec => []TypeOK
<1>1. IndInv => TypeOK
  BY DEF IndInv
<1> QED
  BY <1>1, Invariance, PTL

(* With times in the order of the clock no window sees more requests let   *)
(* through than its limit, for any limits, keys and number of requests.    *)
THEOREM LimitHolds == Spec => []WindowLimit
<1>1. IndInv => WindowLimit
  BY DEF IndInv
<1> QED
  BY <1>1, Invariance, PTL

(* Whoever is turned away had Limit others of its own key let through in   *)
(* the window before it or later.                                          *)
THEOREM NotLimitedForNothing == Spec => LimitedOnlyWhenFull
<1> DEFINE Full(r) ==
      pc[r] = "waiting" /\ pc'[r] = "limited" =>
        Cardinality({q \in Requests : /\ pc[q] = "allowed" /\ key[q] = key[r]
                                      /\ now[q] + Window > now[r]}) >= Limit[key[r]]
<1>1. ASSUME IndInv, [Next]_vars, NEW r \in Requests PROVE Full(r)
  <2> SUFFICES ASSUME pc[r] = "waiting", pc'[r] = "limited"
               PROVE  Cardinality(Recent(r)) >= Limit[key[r]]
    BY DEF Recent
  <2>1. Allow(r)
    <3>1. ASSUME NEW q \in Requests, Receive(q) PROVE FALSE
      BY <1>1, <3>1 DEF Receive, IndInv, TypeOK
    <3>2. ASSUME NEW q \in Requests, q # r, Allow(q) PROVE FALSE
      BY <1>1, <3>2, AllowOthers
    <3> QED
      BY <1>1, <3>1, <3>2 DEF Next, Tick, vars
  <2>2. Len(KeptFor(r)) >= Limit[key[r]] /\ key[r] \in Keys
    BY <1>1, <2>1, AllowOthers, AllowLists
  <2>3. /\ KeptFor(r) \in Seq(Times) /\ Cardinality(Recent(r)) \in Nat
        /\ Len(KeptFor(r)) <= Cardinality(Recent(r))
    BY <1>1, KeptList
  <2> QED
    BY <2>2, <2>3, LimitAssumption
<1>2. IndInv /\ [Next]_vars => [\A r \in Requests : Full(r)]_vars
  BY <1>1
<1> QED
  BY <1>2, Invariance, PTL DEF Spec, LimitedOnlyWhenFull
=============================================================================
