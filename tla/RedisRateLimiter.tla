--------------------------- MODULE RedisRateLimiter ----------------------------
(***************************************************************************)
(* RedisSlidingWindowRateLimiter: callers in any process run one atomic    *)
(* Lua script against a sorted set and sleep for the wait it returns.      *)
(*                                                                         *)
(* Time is the Redis server's clock, in ticks; a member of the sorted set  *)
(* is its score (at) and the acquire call it was made for (ticket: caller  *)
(* and call number, the part uuid4 plays in the code).                     *)
(***************************************************************************)
EXTENDS Integers, FiniteSets

CONSTANTS Callers,      \* greenlets and processes that call acquire
          MaxRequests,  \* ARGV[1]
          Window,       \* ARGV[2], window_ms
          MaxJitter,    \* _MAX_JITTER_SECONDS
          FailOpen,     \* fail_open
          MayFail,      \* whether Redis may be unreachable
          MaxLag,       \* ticks a sleeper may oversleep
          MaxAcquires,  \* calls of acquire per caller (bound)
          LastCall,     \* no acquire call starts after this tick (bound)
          MaxTime       \* the last tick (bound)

ASSUME LimiterAssumption ==
    /\ MaxRequests \in Nat \ {0} /\ Window \in Nat \ {0} /\ MaxJitter \in Nat
    /\ FailOpen \in BOOLEAN /\ MayFail \in BOOLEAN
    /\ MaxLag \in Nat /\ MaxAcquires \in Nat /\ LastCall \in Nat /\ MaxTime \in Nat

VARIABLES now,       \* TIME of the Redis server
          zset,      \* the members of the limiter's key
          expires,   \* when PEXPIRE drops the key
          caller,    \* caller[c]: its acquire call
          calls,     \* calls[c]: acquire calls made so far
          grants,    \* history: the acquire calls that returned
          reserved   \* history: how many slots were reserved

vars == <<now, zset, expires, caller, calls, grants, reserved>>

Tickets == Callers \X (1 .. MaxAcquires)
Slots   == [at : 0 .. MaxTime, ticket : Tickets]

TypeOK ==
    /\ now \in 0 .. MaxTime
    /\ zset \subseteq Slots
    /\ expires \in 0 .. MaxTime + Window
    /\ caller \in [Callers -> [pc : {"idle", "acquiring", "raised"},
                               until : 0 .. MaxTime + Window + MaxJitter,
                               refused : Int]]
    /\ calls \in [Callers -> 0 .. MaxAcquires]
    /\ grants \subseteq Slots
    /\ reserved \in Nat

Init ==
    /\ now = 0 /\ zset = {} /\ expires = 0
    /\ caller = [c \in Callers |-> [pc |-> "idle", until |-> 0, refused |-> -1]]
    /\ calls = [c \in Callers |-> 0]
    /\ grants = {} /\ reserved = 0

-------------------------------------------------------------------------------
(* The script.                                                             *)

\* the key as a command sees it: nothing once its time to live has passed
Key == IF now >= expires THEN {} ELSE zset

\* ZREMRANGEBYSCORE key 0 now - window_ms, then what ZCARD counts
live == {e \in Key : e.at > now - Window}

\* mutant: one request too many
Bug_has_room == Cardinality(live) <= MaxRequests

has_room == Cardinality(live) < MaxRequests

slot(c) == [at |-> now, ticket |-> <<c, calls[c]>>]

\* mutant: the time to live is counted in another unit
Bug_key_ttl == Window - 1

key_ttl == Window

\* ZADD and PEXPIRE
reserve(c) ==
    /\ has_room
    /\ zset' = live \cup {slot(c)}
    /\ expires' = now + key_ttl
    /\ reserved' = reserved + 1

oldest == CHOOSE e \in live : \A f \in live : e.at <= f.at

\* mutant: the caller comes back one tick early
Bug_wait == oldest.at + Window - now - 1

\* mutant: the time it leaves, not how long until then
Bug_wait_until == oldest.at + Window

\* until the oldest entry leaves the window, at least one
wait == LET w == oldest.at + Window - now IN IF w < 1 THEN 1 ELSE w

\* mutant: the member is added before the room is checked
Bug_refuse(c) == /\ ~has_room
                 /\ zset' = live \cup {slot(c)}
                 /\ expires' = now + key_ttl
                 /\ UNCHANGED reserved

\* no room: only the eviction has happened
refuse(c) == ~has_room /\ zset' = live /\ UNCHANGED <<expires, reserved>>

-------------------------------------------------------------------------------
(* acquire                                                                 *)

acquire(c) ==
    /\ caller[c].pc # "acquiring"
    /\ calls[c] < MaxAcquires /\ now <= LastCall
    /\ caller' = [caller EXCEPT ![c] = [pc |-> "acquiring", until |-> now, refused |-> -1]]
    /\ calls' = [calls EXCEPT ![c] = @ + 1]
    /\ UNCHANGED <<now, zset, expires, grants, reserved>>

Awake(c) == caller[c].pc = "acquiring" /\ now >= caller[c].until

Return(c) == /\ caller' = [caller EXCEPT ![c].pc = "idle"]
             /\ grants' = grants \cup {slot(c)}

\* the script answered 0
acquire_returns(c) ==
    /\ Awake(c)
    /\ reserve(c)
    /\ Return(c)
    /\ UNCHANGED <<now, calls>>

\* the script answered a wait: sleep for it and some jitter, then loop
acquire_sleeps(c) ==
    /\ Awake(c)
    /\ refuse(c)
    /\ \E jitter \in 0 .. MaxJitter :
         caller' = [caller EXCEPT ![c] = [pc |-> "acquiring", until |-> now + wait + jitter,
                                          refused |-> reserved]]
    /\ UNCHANGED <<now, calls, grants>>

\* mutant: the error is swallowed and the call let through
Bug_never_raise(c) == Return(c)

\* except redis.RedisError: let the call through unmetered, or raise
on_redis_error(c) == IF FailOpen THEN Return(c)
                     ELSE /\ caller' = [caller EXCEPT ![c].pc = "raised"]
                          /\ UNCHANGED grants

\* Redis is unreachable; or the script ran and its reply was lost
acquire_fails(c) ==
    /\ MayFail
    /\ Awake(c)
    /\ \/ UNCHANGED <<zset, expires, reserved>>
       \/ reserve(c)
       \/ refuse(c)
    /\ on_redis_error(c)
    /\ UNCHANGED <<now, calls>>

\* Time passes; a caller that is due runs within MaxLag.
Tick == /\ now < MaxTime
        /\ \A c \in Callers : caller[c].pc = "acquiring" => now < caller[c].until + MaxLag
        /\ now' = now + 1
        /\ UNCHANGED <<zset, expires, caller, calls, grants, reserved>>

Next == Tick \/ \E c \in Callers : \/ acquire(c) \/ acquire_returns(c)
                                   \/ acquire_sleeps(c) \/ acquire_fails(c)

Spec == Init /\ [][Next]_vars

\* the clock runs, and a caller that is due is scheduled
Fairness == WF_vars(Tick) /\ \A c \in Callers : WF_vars(acquire_returns(c) \/ acquire_sleeps(c))

FairSpec == Spec /\ Fairness

-------------------------------------------------------------------------------
(* Properties.                                                             *)

Q == INSTANCE WindowQuota

(* A limiter that fails closed keeps the quota: whatever the interleaving  *)
(* of callers, lost replies and key expiry, acquire returns only as        *)
(* WindowQuota allows.                                                     *)
QuotaSpec == Q!QSpec

(* No window of time, wherever it ends, sees more than MaxRequests calls   *)
(* of acquire return.                                                      *)
WindowBound == \A t \in 0 .. MaxTime + Window : Cardinality(Q!InWindow(t)) <= MaxRequests

(* Neither the eviction nor PEXPIRE drops a reservation still in the       *)
(* window: every recent return is still counted by the next script.        *)
LiveGrantsCounted == ~FailOpen => {g \in grants : g.at > now - Window} \subseteq Key

(* "the sorted set holds at most max_requests entries per window".         *)
MembershipBounded == Cardinality(zset) <= MaxRequests

(* The wait the script computes is long enough: a caller that slept it and *)
(* is refused again has lost its slot to somebody else's reservation.      *)
WaitSuffices ==
    [][\A c \in Callers :
         caller[c].pc = "acquiring" /\ caller[c].refused # -1 /\ caller'[c].until > caller[c].until
           => reserved > caller[c].refused]_vars

(* acquire blocks but does not starve: with finitely many calls about,     *)
(* each returns (or raises).                                               *)
AcquireEnds == \A c \in Callers : caller[c].pc = "acquiring" ~> caller[c].pc # "acquiring"
===============================================================================
