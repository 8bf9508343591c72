------------------------------ MODULE RateLimit ------------------------------
(***************************************************************************)
(* rateLimitMiddleware (router/middleware.go): a sliding window over the   *)
(* requests of one client address to one limited route.                    *)
(*                                                                         *)
(* A goroutine reads time.Now() before it takes the mutex of the store, so *)
(* the times enter the store in an order of the scheduler's choosing.  The *)
(* store is that of one process; it is empty after a restart.              *)
(***************************************************************************)
EXTENDS Naturals, Sequences, FiniteSets

CONSTANTS Requests,  \* requests to limited routes
          Keys,      \* client address and route
          Limit,     \* Limit[k]: the limit of the route of key k
          Window,    \* the same for every route
          MaxClock,  \* bound of the clock
          NoKey

ASSUME LimitAssumption == /\ Limit \in [Keys -> Nat \ {0}]
                          /\ Window \in Nat \ {0}
                          /\ MaxClock \in Nat

VARIABLES clock,       \* time.Now()
          timestamps,  \* store.requests; a key that is not in the map has <<>>
          pc,          \* control state of each request
          key, now,    \* the arguments of allow
          latest,      \* history: the latest time that took the mutex, and
          overtaken    \* whether an earlier one took it after a later one

vars == <<clock, timestamps, pc, key, now, latest, overtaken>>

TypeOK ==
  /\ clock \in 0..MaxClock
  /\ timestamps \in [Keys -> Seq(0..MaxClock)]
  /\ \A k \in Keys : Len(timestamps[k]) <= Limit[k]
  /\ pc \in [Requests -> {"idle", "waiting", "allowed", "limited"}]
  /\ key \in [Requests -> Keys \cup {NoKey}]
  /\ now \in [Requests -> 0..MaxClock]
  /\ latest \in 0..MaxClock
  /\ overtaken \in BOOLEAN

Init ==
  /\ clock = 0
  /\ timestamps = [k \in Keys |-> <<>>]
  /\ pc = [r \in Requests |-> "idle"]
  /\ key = [r \in Requests |-> NoKey]
  /\ now = [r \in Requests |-> 0]
  /\ latest = 0
  /\ overtaken = FALSE

(* The middleware finds a rule for the route and reads the time. *)
Receive(r) ==
  /\ pc[r] = "idle"
  /\ pc' = [pc EXCEPT ![r] = "waiting"]
  /\ \E k \in Keys : key' = [key EXCEPT ![r] = k]
  /\ now' = [now EXCEPT ![r] = clock]
  /\ UNCHANGED <<clock, timestamps, latest, overtaken>>

(* Judged by its last timestamp, the key is older than the window. *)
Stale(times, t) == times # <<>> /\ times[Len(times)] + Window < t

(* The entries at some places of a list, in their order: what a loop that   *)
(* appends them to an empty list leaves.                                    *)
Picked(times, places) ==
  [j \in 1..Cardinality(places) |->
     times[CHOOSE i \in places : Cardinality({h \in places : h <= i}) = j]]

MutantOfTwoWindows(times, t) ==
  Picked(times, {i \in DOMAIN times : times[i] + 2 * Window > t})

(* The timestamps after the cutoff t - Window. *)
Kept(times, t) == Picked(times, {i \in DOMAIN times : times[i] + Window > t})

MutantLimitPlusOne(k, kept) == Len(kept) > Limit[k]

Exhausted(k, kept) == Len(kept) >= Limit[k]

(* History: the times enter the store in the order of the clock, or not.    *)
TakeMutex(t) ==
  /\ latest' = IF t < latest THEN latest ELSE t
  /\ overtaken' = (overtaken \/ t < latest)

MutantRecordRejected(r) ==
  /\ pc[r] = "waiting"
  /\ LET k == key[r]
         purged == [j \in Keys |-> IF Stale(timestamps[j], now[r]) THEN <<>> ELSE timestamps[j]]
         kept == Kept(purged[k], now[r])
     IN /\ timestamps' = [purged EXCEPT ![k] = Append(kept, now[r])]
        /\ pc' = [pc EXCEPT ![r] = IF Exhausted(k, kept) THEN "limited" ELSE "allowed"]
  /\ TakeMutex(now[r])
  /\ UNCHANGED <<clock, key, now>>

(* allow, with the mutex held: stale keys are dropped from the map, the     *)
(* rest of the window is counted.                                           *)
Allow(r) ==
  /\ pc[r] = "waiting"
  /\ LET k == key[r]
         purged == [j \in Keys |-> IF Stale(timestamps[j], now[r]) THEN <<>> ELSE timestamps[j]]
         kept == Kept(purged[k], now[r])
     IN \/ /\ Exhausted(k, kept)
           /\ timestamps' = [purged EXCEPT ![k] = kept]
           /\ pc' = [pc EXCEPT ![r] = "limited"]
        \/ /\ ~Exhausted(k, kept)
           /\ timestamps' = [purged EXCEPT ![k] = Append(kept, now[r])]
           /\ pc' = [pc EXCEPT ![r] = "allowed"]
  /\ TakeMutex(now[r])
  /\ UNCHANGED <<clock, key, now>>

Tick ==
  /\ clock < MaxClock
  /\ clock' = clock + 1
  /\ UNCHANGED <<timestamps, pc, key, now, latest, overtaken>>

Next == Tick \/ \E r \in Requests : Receive(r) \/ Allow(r)

Spec == Init /\ [][Next]_vars
-----------------------------------------------------------------------------
(* The requests of key k that were let through at times in (t - Window, t]. *)
AllowedIn(k, t) ==
  {r \in Requests : /\ pc[r] = "allowed" /\ key[r] = k
                    /\ now[r] <= t /\ now[r] + Window > t}

(* "Returns true if within the limit" (router/middleware.go:65): when the   *)
(* mutex is taken in the order of the clock, at most Limit[k] requests are  *)
(* let through in every window, at its boundaries too.                      *)
WindowLimit ==
  ~overtaken =>
    \A k \in Keys, t \in 0..MaxClock : Cardinality(AllowedIn(k, t)) <= Limit[k]

(* In whatever order the times arrive, a request is only turned away when   *)
(* Limit[k] requests of its own key were let through within the window      *)
(* before it, or read a later time: being turned away costs nothing, and    *)
(* neither does the traffic of others.                                      *)
LimitedOnlyWhenFull ==
  [][\A r \in Requests : pc[r] = "waiting" /\ pc'[r] = "limited" =>
       Cardinality({q \in Requests : /\ pc[q] = "allowed" /\ key[q] = key[r]
                                     /\ now[q] + Window > now[r]}) >= Limit[key[r]]]_vars
=============================================================================
