---------------------------- MODULE InMemoryLimiter ----------------------------
(***************************************************************************)
(* MassiveRateLimiter: one thread of one process keeps the times of its    *)
(* calls in a deque and sleeps when the window is full.                    *)
(*                                                                         *)
(* Every time.monotonic() of the code is a reading of its own, and each is *)
(* later than the one before (the clock counts nanoseconds): until is the  *)
(* earliest tick of the next reading.  The module documents itself for a   *)
(* single caller; two threads in acquire are not modelled.                 *)
(***************************************************************************)
EXTENDS Integers, Sequences, FiniteSets

CONSTANTS max_requests,
          window,         \* window_seconds, in ticks of the clock
          MaxLag,         \* ticks a thread that is due may wait for the processor
          MaxAcquires,    \* calls of acquire (bound)
          LastCall,       \* no acquire call starts after this tick (bound)
          MaxTime         \* the last tick (bound)

\* the constructor's two checks, and the bounds
ASSUME InMemoryAssumption ==
    /\ max_requests \in Nat \ {0} /\ window \in Nat \ {0}
    /\ MaxLag \in Nat /\ MaxAcquires \in Nat /\ LastCall \in Nat /\ MaxTime \in Nat

VARIABLES now,            \* the monotonic clock
          timestamps,     \* the deque, oldest first
          pc,             \* where the caller is in acquire
          until,          \* it does not go on before this tick
          calls,          \* acquire calls made so far
          grants          \* history: the acquire calls that returned

vars == <<now, timestamps, pc, until, calls, grants>>

TypeOK ==
    /\ now \in 0 .. MaxTime
    /\ timestamps \in Seq(0 .. now)
    /\ pc \in {"idle", "full", "sleeping", "append"}
    /\ until \in Nat
    /\ calls \in 0 .. MaxAcquires
    /\ grants \subseteq [at : 0 .. MaxTime, ticket : 1 .. MaxAcquires]

Init == /\ now = 0 /\ timestamps = <<>> /\ pc = "idle" /\ until = 0
        /\ calls = 0 /\ grants = {}

-------------------------------------------------------------------------------
(* acquire                                                                 *)

Due == now >= until

outside(t) == t < now - window

\* pop from the left while the first one is outside the window
evict_expired ==
    \E k \in 0 .. Len(timestamps) :
      /\ \A j \in 1 .. k : outside(timestamps[j])
      /\ k < Len(timestamps) => ~outside(timestamps[k + 1])
      /\ timestamps' = SubSeq(timestamps, k + 1, Len(timestamps))

\* mutant: one call too many
Bug_is_full(n) == n > max_requests

\* mutant: the window counts as full one call early
Bug_full_early(n) == n >= max_requests - 1

is_full(n) == n >= max_requests

\* the first eviction, and the look at the length
acquire ==
    /\ pc = "idle" /\ Due
    /\ calls < MaxAcquires /\ now <= LastCall
    /\ calls' = calls + 1
    /\ evict_expired
    /\ pc' = IF is_full(Len(timestamps')) THEN "full" ELSE "append"
    /\ until' = now + 1
    /\ UNCHANGED <<now, grants>>

sleep_time == window - (now - timestamps[1])

sleep == /\ pc = "full" /\ Due
         /\ IF sleep_time > 0
            THEN pc' = "sleeping" /\ until' = now + sleep_time
            ELSE pc' = "append" /\ until' = now + 1
         /\ UNCHANGED <<now, timestamps, calls, grants>>

wake == /\ pc = "sleeping" /\ Due
        /\ evict_expired
        /\ pc' = "append" /\ until' = now + 1
        /\ UNCHANGED <<now, calls, grants>>

\* mutant: the time the call expires, not the time it was made
Bug_record == Append(timestamps, now + window)

\* mutant: the call is recorded twice
Bug_record_twice == Append(Append(timestamps, now), now)

record == Append(timestamps, now)

append == /\ pc = "append" /\ Due
          /\ timestamps' = record
          /\ grants' = grants \cup {[at |-> now, ticket |-> calls]}
          /\ pc' = "idle" /\ until' = now + 1
          /\ UNCHANGED <<now, calls>>

\* Time passes; a caller that is due runs within MaxLag.
Tick == /\ now < MaxTime
        /\ pc # "idle" => now < until + MaxLag
        /\ now' = now + 1
        /\ UNCHANGED <<timestamps, pc, until, calls, grants>>

Next == Tick \/ acquire \/ sleep \/ wake \/ append

Spec == Init /\ [][Next]_vars

-------------------------------------------------------------------------------
(* Properties.                                                             *)

Q == INSTANCE WindowQuota WITH MaxRequests <- max_requests, Window <- window,
                               Tickets <- 1 .. MaxAcquires

(* For one caller the deque keeps the quota: acquire sleeps once and does  *)
(* not look again, and still returns only as WindowQuota allows.           *)
QuotaSpec == Q!QSpec

(* The eviction is strict and its reading older than the append's: one     *)
(* entry that no longer counts may stay, never a second one.               *)
DequeBounded == Len(timestamps) <= max_requests + 1

(* "safe to call" need not mean slow: acquire sleeps only when             *)
(* max_requests calls lie in the window that ends now.                     *)
SleepsOnlyWhenFull ==
    [][pc = "full" /\ pc' = "sleeping" => Cardinality(Q!InWindow(now)) >= max_requests]_vars
===============================================================================
