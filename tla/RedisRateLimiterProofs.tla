------------------------ MODULE RedisRateLimiterProofs -------------------------
(***************************************************************************)
(* RedisSlidingWindowRateLimiter is type correct, and when it fails closed *)
(* it implements WindowQuota, hence keeps the quota over every window.     *)
(***************************************************************************)
EXTENDS RedisRateLimiter, FiniteSetTheorems, WellFoundedInduction, TLAPS

QP == INSTANCE WindowQuotaProofs

\* the operators of FiniteSets that come with the instances
LEMMA SameCardinality == \A S : /\ Q!Cardinality(S)  = Cardinality(S)
                                /\ QP!Cardinality(S) = Cardinality(S)
BY DEF Q!Cardinality, QP!Cardinality, Cardinality

-------------------------------------------------------------------------------
(* The inductive invariant.                                                *)

\* what the script keeps of the sorted set
ZsetInv == /\ zset \subseteq Slots
           /\ IsFiniteSet(zset) /\ Cardinality(zset) <= MaxRequests
           /\ \A e \in zset : e.at <= now /\ e.at + Window <= expires
           /\ expires \in 0 .. MaxTime + Window
           /\ reserved \in Nat

\* what acquire keeps of its callers
CallerInv == \A c \in Callers : caller[c].pc = "acquiring" => calls[c] > 0

Inv == TypeOK /\ ZsetInv /\ CallerInv

\* every recent return is still in the sorted set
GrantsInv == \A g \in grants : now - Window < g.at => g \in zset

\* a call that has not returned yet has not been granted
FreshInv == \A g \in grants, c \in Callers :
                /\ g.at <= now
                /\ g.ticket[1] = c => g.ticket[2] <= calls[c]
                /\ caller[c].pc = "acquiring" => g.ticket # <<c, calls[c]>>

QuotaInv == Inv /\ GrantsInv /\ FreshInv

-------------------------------------------------------------------------------
(* The script.                                                             *)

\* what the script counts is what is still in the window, expired key or not
LEMMA LiveFacts ==
    ASSUME Inv
    PROVE  /\ live = {e \in zset : e.at > now - Window}
           /\ IsFiniteSet(live) /\ Cardinality(live) \in Nat
           /\ Cardinality(live) <= MaxRequests
<1>1. live \subseteq zset
  BY DEF live, Key
<1>2. live = {e \in zset : e.at > now - Window}
  <2>1. ASSUME NEW e \in zset, e.at > now - Window PROVE ~(now >= expires)
    BY <2>1, LimiterAssumption DEF Inv, ZsetInv, TypeOK, Slots
  <2>2. CASE now >= expires
    BY <2>1, <2>2 DEF live, Key
  <2>3. CASE ~(now >= expires)
    BY <2>3 DEF live, Key
  <2> QED
    BY <2>2, <2>3
<1>3. IsFiniteSet(live) /\ Cardinality(live) <= Cardinality(zset)
  BY <1>1, FS_Subset DEF Inv, ZsetInv
<1>4. Cardinality(live) \in Nat /\ Cardinality(zset) \in Nat
  BY <1>3, FS_CardinalityType DEF Inv, ZsetInv
<1> QED
  BY <1>2, <1>3, <1>4, LimiterAssumption DEF Inv, ZsetInv

\* the member a script adds
LEMMA SlotType ==
    ASSUME Inv, NEW c \in Callers, caller[c].pc = "acquiring"
    PROVE  slot(c) \in Slots /\ slot(c).at = now /\ slot(c).ticket = <<c, calls[c]>>
BY LimiterAssumption DEF Inv, TypeOK, CallerInv, slot, Slots, Tickets

\* however the script ends, it leaves the sorted set as ZsetInv wants it
LEMMA ScriptKeepsZset ==
    ASSUME Inv, NEW c \in Callers, caller[c].pc = "acquiring", now' = now,
           reserve(c) \/ refuse(c) \/ UNCHANGED <<zset, expires, reserved>>
    PROVE  ZsetInv'
<1>1. CASE reserve(c)
  <2>1. zset' = live \cup {slot(c)} /\ expires' = now + Window /\ reserved' = reserved + 1
    BY <1>1 DEF reserve, key_ttl
  <2>2. IsFiniteSet(zset') /\ Cardinality(zset') <= MaxRequests
    <3>1. Cardinality(live) < MaxRequests
      BY <1>1 DEF reserve, has_room
    <3>2. Cardinality(zset') \in {Cardinality(live), Cardinality(live) + 1}
      BY <2>1, LiveFacts, FS_AddElement
    <3> QED
      BY <2>1, <3>1, <3>2, LiveFacts, FS_AddElement, LimiterAssumption
  <2>3. \A e \in zset' : e \in Slots /\ e.at <= now /\ e.at + Window <= expires'
    BY <2>1, LiveFacts, SlotType, LimiterAssumption DEF Inv, ZsetInv, TypeOK, Slots
  <2> QED
    BY <2>1, <2>2, <2>3, LimiterAssumption DEF Inv, ZsetInv, TypeOK
<1>2. CASE refuse(c)
  BY <1>2, LiveFacts DEF Inv, ZsetInv, refuse
<1>3. CASE UNCHANGED <<zset, expires, reserved>>
  BY <1>3 DEF Inv, ZsetInv
<1> QED
  BY <1>1, <1>2, <1>3

\* a non-empty set of slots has an oldest one
LEMMA OldestExists ==
    ASSUME NEW S, S # {}, \A e \in S : e.at \in Nat
    PROVE  \E e \in S : \A f \in S : e.at <= f.at
<1> DEFINE T == {e.at : e \in S}
           R == OpToRel(<, Nat)
<1>1. T \subseteq Nat /\ T # {}
  OBVIOUS
<1>2. \A x, y \in Nat : <<x, y>> \in R <=> x < y
  BY DEF OpToRel
<1>3. PICK x \in T : \A y \in T : ~ (<<y, x>> \in R)
  <2> HIDE DEF T
  <2>1. IsWellFoundedOn(R, Nat)
    BY NatLessThanWellFounded
  <2> HIDE DEF R
  <2> QED
    BY <1>1, <2>1, WFMin
<1>4. \A y \in T : x <= y
  <2> HIDE DEF R, T
  <2> SUFFICES ASSUME NEW y \in T PROVE x <= y
    OBVIOUS
  <2>1. x \in Nat /\ y \in Nat
    BY <1>1
  <2>2. ~ (y < x)
    BY <1>2, <1>3, <2>1
  <2> QED
    BY <2>1, <2>2
<1> QED
  BY <1>4

\* a refused caller is told to wait at least one tick and at most a window
LEMMA WaitType ==
    ASSUME Inv, ~has_room
    PROVE  wait \in 1 .. Window
<1>1. live # {}
  BY LiveFacts, FS_EmptySet, LimiterAssumption DEF has_room
<1>2. \A e \in live : e.at \in Nat /\ e.at <= now
  BY LiveFacts DEF Inv, ZsetInv, Slots
<1>3. oldest \in live
  BY <1>1, <1>2, OldestExists DEF oldest
<1> QED
  BY <1>2, <1>3, LiveFacts, LimiterAssumption DEF wait, Inv, TypeOK

-------------------------------------------------------------------------------
(* Type correctness, whether the limiter fails open or closed.             *)

\* a return is recorded as a slot
LEMMA ReturnKeepsTypes ==
    ASSUME Inv, NEW c \in Callers, caller[c].pc = "acquiring", Return(c)
    PROVE  /\ caller' \in [Callers -> [pc : {"idle", "acquiring", "raised"},
                                       until : 0 .. MaxTime + Window + MaxJitter,
                                       refused : Int]]
           /\ grants' \subseteq Slots
BY SlotType DEF Inv, TypeOK, Return

\* a call that starts
LEMMA acquireKeepsInv ==
    ASSUME Inv, NEW c \in Callers, acquire(c)
    PROVE  Inv'
<1>1. TypeOK'
  BY LimiterAssumption DEF Inv, TypeOK, acquire
<1>2. ZsetInv'
  BY DEF Inv, ZsetInv, acquire
<1>3. CallerInv'
  BY LimiterAssumption DEF Inv, TypeOK, CallerInv, acquire
<1> QED
  BY <1>1, <1>2, <1>3 DEF Inv

\* a call that gets its slot
LEMMA acquire_returnsKeepsInv ==
    ASSUME Inv, NEW c \in Callers, acquire_returns(c)
    PROVE  Inv'
<1>1. ZsetInv'
  BY ScriptKeepsZset DEF acquire_returns, Awake
<1>2. TypeOK'
  BY <1>1, ReturnKeepsTypes DEF Inv, TypeOK, ZsetInv, acquire_returns, Awake
<1>3. CallerInv'
  BY DEF Inv, TypeOK, CallerInv, acquire_returns, Return
<1> QED
  BY <1>1, <1>2, <1>3 DEF Inv

\* a call that is refused and sleeps
LEMMA acquire_sleepsKeepsInv ==
    ASSUME Inv, NEW c \in Callers, acquire_sleeps(c)
    PROVE  Inv'
<1>1. ZsetInv'
  BY ScriptKeepsZset DEF acquire_sleeps, Awake
<1>2. PICK jitter \in 0 .. MaxJitter :
        caller' = [caller EXCEPT ![c] = [pc |-> "acquiring", until |-> now + wait + jitter,
                                         refused |-> reserved]]
  BY DEF acquire_sleeps
<1>3. wait \in 1 .. Window
  BY WaitType DEF acquire_sleeps, refuse
<1>4. now + wait + jitter \in 0 .. MaxTime + Window + MaxJitter
  BY <1>3, LimiterAssumption DEF Inv, TypeOK
<1>5. TypeOK'
  BY <1>1, <1>2, <1>4 DEF Inv, TypeOK, ZsetInv, acquire_sleeps
<1>6. CallerInv'
  BY <1>2 DEF Inv, TypeOK, CallerInv, acquire_sleeps, Awake
<1> QED
  BY <1>1, <1>5, <1>6 DEF Inv

\* a call that meets a Redis error, whether the script ran or not
LEMMA acquire_failsKeepsInv ==
    ASSUME Inv, NEW c \in Callers, acquire_fails(c)
    PROVE  Inv'
<1>1. ZsetInv'
  BY ScriptKeepsZset DEF acquire_fails, Awake
<1>2. caller[c].pc = "acquiring" /\ on_redis_error(c) /\ UNCHANGED <<now, calls>>
  BY DEF acquire_fails, Awake
<1>3. TypeOK' /\ CallerInv'
  <2>1. CASE FailOpen
    <3>1. Return(c)
      BY <1>2, <2>1 DEF on_redis_error
    <3>2. TypeOK'
      BY <1>1, <1>2, <3>1, ReturnKeepsTypes DEF Inv, TypeOK, ZsetInv
    <3> QED
      BY <1>2, <3>1, <3>2 DEF Inv, TypeOK, CallerInv, Return
  <2>2. CASE ~FailOpen
    <3>1. caller' = [caller EXCEPT ![c].pc = "raised"] /\ UNCHANGED grants
      BY <1>2, <2>2 DEF on_redis_error
    <3> QED
      BY <1>1, <1>2, <3>1 DEF Inv, TypeOK, CallerInv, ZsetInv
  <2> QED
    BY <2>1, <2>2
<1> QED
  BY <1>1, <1>3 DEF Inv

\* time only moves members out of the window
LEMMA TickKeepsInv ==
    ASSUME Inv, Tick
    PROVE  Inv'
<1>1. TypeOK'
  BY LimiterAssumption DEF Inv, TypeOK, Tick
<1>2. ZsetInv'
  BY DEF Inv, TypeOK, ZsetInv, Tick, Slots
<1> QED
  BY <1>1, <1>2 DEF Inv, CallerInv, Tick

\* an empty key to begin with
LEMMA InitInv == Init => Inv
BY LimiterAssumption, FS_EmptySet DEF Init, Inv, TypeOK, ZsetInv, CallerInv

\* one case per action
LEMMA NextKeepsInv ==
    ASSUME Inv, [Next]_vars
    PROVE  Inv'
<1>1. CASE Tick
  BY <1>1, TickKeepsInv
<1>2. ASSUME NEW c \in Callers,
             acquire(c) \/ acquire_returns(c) \/ acquire_sleeps(c) \/ acquire_fails(c)
      PROVE  Inv'
  BY <1>2, acquireKeepsInv, acquire_returnsKeepsInv, acquire_sleepsKeepsInv, acquire_failsKeepsInv
<1>3. CASE UNCHANGED vars
  BY <1>3 DEF Inv, TypeOK, ZsetInv, CallerInv, vars
<1> QED
  BY <1>1, <1>2, <1>3 DEF Next

(* Every variable keeps its type; in particular the wait the script        *)
(* computes is between one tick and a window.                              *)
THEOREM TypeCorrect == Spec => []TypeOK
<1>1. Inv => TypeOK
  BY DEF Inv
<1>2. Inv /\ [Next]_vars => Inv'
  BY NextKeepsInv
<1> QED
  BY InitInv, <1>1, <1>2, PTL DEF Spec

(* "the sorted set holds at most max_requests entries per window".         *)
THEOREM MembershipIsBounded == Spec => []MembershipBounded
<1>1. Inv => MembershipBounded
  BY DEF Inv, ZsetInv, MembershipBounded
<1>2. Inv /\ [Next]_vars => Inv'
  BY NextKeepsInv
<1> QED
  BY InitInv, <1>1, <1>2, PTL DEF Spec

-------------------------------------------------------------------------------
(* The quota, when the limiter fails closed.                               *)

(* What the next script counts contains every return of the last window,   *)
(* so a return happens only when WindowQuota has room.                     *)
LEMMA RecentReturnsAreLive ==
    ASSUME QuotaInv
    PROVE  /\ QP!InWindow(now) \subseteq live
           /\ Q!InWindow(now) \subseteq live
BY LiveFacts DEF QuotaInv, GrantsInv, QP!InWindow, Q!InWindow

\* the script's room is the quota's room
LEMMA QuotaHasRoom ==
    ASSUME QuotaInv, has_room
    PROVE  Cardinality(Q!InWindow(now)) < MaxRequests
<1>1. Cardinality(Q!InWindow(now)) \in Nat /\ Cardinality(Q!InWindow(now)) <= Cardinality(live)
  BY RecentReturnsAreLive, LiveFacts, FS_Subset, FS_CardinalityType DEF QuotaInv
<1> QED
  BY <1>1, LiveFacts, LimiterAssumption DEF has_room, QuotaInv

\* the script drops no recent return
LEMMA ScriptKeepsGrants ==
    ASSUME QuotaInv, NEW c \in Callers, now' = now,
           reserve(c) \/ refuse(c) \/ UNCHANGED <<zset, expires, reserved>>
    PROVE  \A g \in grants : now - Window < g.at => g \in zset'
<1>1. live \subseteq zset' \/ zset' = zset
  BY DEF reserve, refuse
<1> QED
  BY <1>1, LiveFacts DEF QuotaInv, GrantsInv

\* the step of acquire that returns is a step WindowQuota allows
LEMMA acquire_returnsIsGrant ==
    ASSUME QuotaInv, NEW c \in Callers, acquire_returns(c)
    PROVE  QuotaInv' /\ Q!Grant(<<c, calls[c]>>) /\ <<c, calls[c]>> \in Tickets
<1> DEFINE e == slot(c)
<1>1. /\ caller[c].pc = "acquiring"
      /\ grants' = grants \cup {e}
      /\ caller' = [caller EXCEPT ![c].pc = "idle"]
      /\ zset' = live \cup {e}
      /\ UNCHANGED <<now, calls>>
      /\ has_room
  BY DEF acquire_returns, Awake, Return, reserve
<1>2. e = [at |-> now, ticket |-> <<c, calls[c]>>] /\ e \in Slots
  BY <1>1, SlotType DEF slot, QuotaInv
<1>3. <<c, calls[c]>> \in Tickets
  BY <1>2 DEF Slots
<1>4. e \notin grants
  BY <1>1, <1>2 DEF QuotaInv, FreshInv
<1>5. Q!Grant(<<c, calls[c]>>)
  BY <1>1, <1>2, <1>4, QuotaHasRoom, SameCardinality DEF Q!Grant
<1>6. Inv'
  BY acquire_returnsKeepsInv DEF QuotaInv
<1>7. GrantsInv'
  <2>1. \A g \in grants : now - Window < g.at => g \in zset'
    BY <1>1, ScriptKeepsGrants DEF acquire_returns
  <2> QED
    BY <1>1, <2>1 DEF GrantsInv
<1>8. FreshInv'
  <2> SUFFICES ASSUME NEW g \in grants', NEW d \in Callers
               PROVE  /\ g.at <= now
                      /\ g.ticket[1] = d => g.ticket[2] <= calls[d]
                      /\ caller'[d].pc = "acquiring" => g.ticket # <<d, calls[d]>>
    BY <1>1 DEF FreshInv
  <2>1. caller'[d].pc = "acquiring" => caller[d].pc = "acquiring" /\ d # c
    BY <1>1 DEF QuotaInv, Inv, TypeOK
  <2>2. CASE g \in grants
    BY <2>1, <2>2 DEF QuotaInv, FreshInv
  <2>3. CASE g = e
    <3>1. g.at = now /\ g.ticket = <<c, calls[c]>>
      BY <1>2, <2>3
    <3>2. now <= now /\ calls[c] <= calls[c]
      BY DEF QuotaInv, Inv, TypeOK
    <3> QED
      BY <2>1, <3>1, <3>2
  <2> QED
    BY <1>1, <2>2, <2>3
<1> QED
  BY <1>3, <1>5, <1>6, <1>7, <1>8 DEF QuotaInv

\* the other steps of a caller return nothing
LEMMA OtherStepsKeepQuotaInv ==
    ASSUME ~FailOpen, QuotaInv, NEW c \in Callers,
           acquire(c) \/ acquire_sleeps(c) \/ acquire_fails(c)
    PROVE  QuotaInv' /\ UNCHANGED <<now, grants>>
<1>1. UNCHANGED <<now, grants>>
  BY DEF acquire, acquire_sleeps, acquire_fails, on_redis_error
<1>2. Inv'
  BY acquireKeepsInv, acquire_sleepsKeepsInv, acquire_failsKeepsInv DEF QuotaInv
<1>3. GrantsInv'
  <2>1. \A g \in grants : now - Window < g.at => g \in zset'
    <3>1. CASE acquire(c)
      BY <3>1 DEF acquire, QuotaInv, GrantsInv
    <3>2. CASE acquire_sleeps(c) \/ acquire_fails(c)
      BY <1>1, <3>2, ScriptKeepsGrants DEF acquire_sleeps, acquire_fails
    <3> QED
      BY <3>1, <3>2
  <2> QED
    BY <1>1, <2>1 DEF GrantsInv
<1>4. FreshInv'
  <2> SUFFICES ASSUME NEW g \in grants, NEW d \in Callers
               PROVE  /\ g.ticket[1] = d => g.ticket[2] <= calls'[d]
                      /\ caller'[d].pc = "acquiring" => g.ticket # <<d, calls'[d]>>
    BY <1>1 DEF FreshInv, QuotaInv
  <2>0. g.ticket[2] \in Nat /\ calls[d] \in Nat /\ (g.ticket[1] = d => g.ticket[2] <= calls[d])
    BY DEF QuotaInv, FreshInv, Inv, TypeOK, Slots, Tickets
  <2>1. CASE acquire(c)
    <3>1. CASE d = c
      <4>1. calls'[d] = calls[d] + 1
        BY <2>1, <3>1 DEF acquire, QuotaInv, Inv, TypeOK
      <4> QED
        BY <2>0, <4>1
    <3>2. CASE d # c
      BY <2>0, <2>1, <3>2 DEF acquire, QuotaInv, Inv, TypeOK, FreshInv
    <3> QED
      BY <3>1, <3>2
  <2>2. CASE acquire_sleeps(c) \/ acquire_fails(c)
    <3>1. calls' = calls /\ caller[c].pc = "acquiring"
      BY <2>2 DEF acquire_sleeps, acquire_fails, Awake
    <3>2. caller'[d].pc = "acquiring" => caller[d].pc = "acquiring"
      BY <2>2, <3>1 DEF acquire_sleeps, acquire_fails, on_redis_error, QuotaInv, Inv, TypeOK
    <3> QED
      BY <2>0, <3>1, <3>2 DEF QuotaInv, FreshInv
  <2> QED
    BY <2>1, <2>2
<1> QED
  BY <1>1, <1>2, <1>3, <1>4 DEF QuotaInv

\* the clock of the limiter is the clock of the quota
LEMMA TickIsPass ==
    ASSUME QuotaInv, Tick
    PROVE  QuotaInv' /\ Q!Pass
<1>1. now \in Int /\ now' = now + 1 /\ UNCHANGED <<zset, caller, calls, grants>>
  BY LimiterAssumption DEF QuotaInv, Inv, TypeOK, Tick
<1>2. \A g \in grants : g.at \in Int
  BY DEF QuotaInv, Inv, TypeOK, Slots
<1>3. GrantsInv' /\ FreshInv'
  BY <1>1, <1>2, LimiterAssumption DEF QuotaInv, GrantsInv, FreshInv
<1> QED
  BY <1>1, <1>3, TickKeepsInv DEF QuotaInv, Q!Pass

\* every step of the limiter is a step of the quota or a stutter
LEMMA NextKeepsQuotaInv ==
    ASSUME ~FailOpen, QuotaInv, [Next]_vars
    PROVE  QuotaInv' /\ [Q!QNext]_(Q!qvars)
<1>1. CASE Tick
  BY <1>1, TickIsPass DEF Q!QNext
<1>2. ASSUME NEW c \in Callers, acquire_returns(c)
      PROVE  QuotaInv' /\ [Q!QNext]_(Q!qvars)
  BY <1>2, acquire_returnsIsGrant DEF Q!QNext
<1>3. ASSUME NEW c \in Callers, acquire(c) \/ acquire_sleeps(c) \/ acquire_fails(c)
      PROVE  QuotaInv' /\ [Q!QNext]_(Q!qvars)
  BY <1>3, OtherStepsKeepQuotaInv DEF Q!qvars
<1>4. CASE UNCHANGED vars
  <2>1. Inv'
    BY <1>4, NextKeepsInv DEF QuotaInv
  <2> QED
    BY <1>4, <2>1 DEF QuotaInv, GrantsInv, FreshInv, vars, Q!qvars
<1> QED
  BY <1>1, <1>2, <1>3, <1>4 DEF Next

\* nothing has returned to begin with
LEMMA InitQuotaInv == Init => QuotaInv /\ Q!QInit
BY InitInv DEF QuotaInv, GrantsInv, FreshInv, Init, Q!QInit

(* A limiter that fails closed implements WindowQuota: acquire returns     *)
(* only when the window has room, over every interleaving of callers, lost *)
(* replies and key expiry.                                                 *)
THEOREM ImplementsQuota ==
    ASSUME ~FailOpen
    PROVE  Spec => QuotaSpec
<1>1. QuotaInv /\ [Next]_vars => QuotaInv' /\ [Q!QNext]_(Q!qvars)
  BY NextKeepsQuotaInv
<1> QED
  BY InitQuotaInv, <1>1, PTL DEF Spec, QuotaSpec, Q!QSpec

(* No recent return is forgotten by the eviction or by PEXPIRE.            *)
THEOREM LiveGrantsAreCounted == Spec => []LiveGrantsCounted
<1>1. CASE FailOpen
  <2>1. LiveGrantsCounted
    BY <1>1 DEF LiveGrantsCounted
  <2> QED
    BY <2>1, PTL
<1>2. CASE ~FailOpen
  <2>1. QuotaInv /\ [Next]_vars => QuotaInv'
    BY <1>2, NextKeepsQuotaInv
  <2>2. QuotaInv => LiveGrantsCounted
    <3>1. QuotaInv => \A g \in grants : g.at > now - Window => g \in Key
      BY LiveFacts DEF QuotaInv, GrantsInv, live
    <3> QED
      BY <3>1 DEF LiveGrantsCounted
  <2> QED
    BY InitQuotaInv, <2>1, <2>2, PTL DEF Spec
<1> QED
  BY <1>1, <1>2

(* No window, wherever it ends, sees more than MaxRequests returns.        *)
THEOREM WindowIsBounded ==
    ASSUME ~FailOpen
    PROVE  Spec => []WindowBound
<1>1. QuotaSpec => QP!QSpec
  <2>1. \A t : Q!InWindow(t) = QP!InWindow(t)
    BY DEF Q!InWindow, QP!InWindow
  <2>2. [Q!QNext]_(Q!qvars) => [QP!QNext]_(QP!qvars)
    BY <2>1, SameCardinality
       DEF Q!QNext, QP!QNext, Q!qvars, QP!qvars, Q!Pass, QP!Pass, Q!Grant, QP!Grant
  <2>3. Q!QInit => QP!QInit
    BY DEF Q!QInit, QP!QInit
  <2> QED
    BY <2>2, <2>3, PTL DEF QuotaSpec, Q!QSpec, QP!QSpec
<1>2. QP!Quota => WindowBound
  BY SameCardinality, LimiterAssumption
     DEF QP!Quota, WindowBound, Q!InWindow, QP!InWindow
<1>3. Spec => QuotaSpec
  BY ImplementsQuota
<1>4. QP!QuotaParameters
  BY LimiterAssumption DEF QP!QuotaParameters
<1>5. QP!QSpec => []QP!Quota
  BY <1>4, QP!QuotaHolds
<1> QED
  BY <1>1, <1>2, <1>3, <1>5, PTL

-------------------------------------------------------------------------------
(* The wait.                                                               *)

\* the members that will still be in the window at time t
LiveAt(t) == {e \in zset : e.at > t - Window}

\* a sleeper finds room when its wait is over, unless somebody reserved since
WaitInv == \A c \in Callers :
    caller[c].pc = "acquiring" /\ caller[c].refused # -1 =>
        /\ caller[c].refused <= reserved
        /\ caller[c].refused = reserved => Cardinality(LiveAt(caller[c].until)) < MaxRequests

\* fewer members leave as much room
LEMMA LiveAtShrinks ==
    ASSUME Inv, NEW t \in Int, NEW S, S \subseteq LiveAt(t),
           Cardinality(LiveAt(t)) < MaxRequests
    PROVE  Cardinality(S) < MaxRequests
<1>1. IsFiniteSet(LiveAt(t))
  BY FS_Subset DEF Inv, ZsetInv, LiveAt
<1>2. IsFiniteSet(S) /\ Cardinality(S) <= Cardinality(LiveAt(t))
  BY <1>1, FS_Subset
<1>3. Cardinality(S) \in Nat /\ Cardinality(LiveAt(t)) \in Nat
  BY <1>1, <1>2, FS_CardinalityType
<1> QED
  BY <1>2, <1>3, LimiterAssumption

\* a caller that goes on sleeping, while a script may run for another one
LEMMA SleeperKeepsWait ==
    ASSUME Inv, WaitInv, NEW c \in Callers, caller'[c] = caller[c],
           caller[c].pc = "acquiring", caller[c].refused # -1,
           \/ zset' \subseteq zset /\ reserved' = reserved
           \/ reserved' = reserved + 1
    PROVE  /\ caller'[c].refused <= reserved'
           /\ caller'[c].refused = reserved' =>
                Cardinality(LiveAt(caller[c].until)') < MaxRequests
<1>1. /\ caller[c].refused \in Int /\ caller[c].until \in Int /\ reserved \in Nat
      /\ caller[c].refused <= reserved
      /\ caller[c].refused = reserved => Cardinality(LiveAt(caller[c].until)) < MaxRequests
  BY LimiterAssumption DEF Inv, TypeOK, WaitInv
<1>2. CASE reserved' = reserved + 1
  BY <1>1, <1>2
<1>3. CASE zset' \subseteq zset /\ reserved' = reserved
  <2>1. LiveAt(caller[c].until)' \subseteq LiveAt(caller[c].until)
    BY <1>3 DEF LiveAt
  <2> QED
    BY <1>1, <1>3, <2>1, LiveAtShrinks
<1> QED
  BY <1>2, <1>3

\* a script reserves a slot, or it only drops members
LEMMA ScriptReservesOrDrops ==
    ASSUME Inv, NEW c \in Callers,
           reserve(c) \/ refuse(c) \/ UNCHANGED <<zset, expires, reserved>>
    PROVE  \/ zset' \subseteq zset /\ reserved' = reserved
           \/ reserved' = reserved + 1
BY LiveFacts DEF reserve, refuse

\* the refused caller sleeps until the oldest member has left the window
LEMMA RefusedWaitsForRoom ==
    ASSUME Inv, NEW c \in Callers, refuse(c), NEW jitter \in Nat,
           NEW t, t = now + wait + jitter
    PROVE  Cardinality(LiveAt(t)') < MaxRequests
<1>1. live # {} /\ \A e \in live : e.at \in Nat
  BY LiveFacts, FS_EmptySet, LimiterAssumption DEF refuse, has_room, Inv, ZsetInv, Slots
<1>2. oldest \in live
  BY <1>1, OldestExists DEF oldest
<1>3. t >= oldest.at + Window /\ t \in Int /\ oldest.at \in Nat /\ now \in Nat
  <2>1. wait \in 1 .. Window /\ wait >= oldest.at + Window - now
    BY <1>1, <1>2, WaitType, LimiterAssumption DEF refuse, wait, Inv, TypeOK
  <2> QED
    BY <1>1, <1>2, <2>1, LimiterAssumption DEF Inv, TypeOK
<1>4. {e \in live : e.at > t - Window} \subseteq live \ {oldest}
  BY <1>1, <1>3, LimiterAssumption
<1>5. Cardinality(live \ {oldest}) = Cardinality(live) - 1 /\ IsFiniteSet(live \ {oldest})
  BY <1>2, LiveFacts, FS_RemoveElement
<1>6. Cardinality({e \in live : e.at > t - Window}) <= Cardinality(live) - 1
  BY <1>4, <1>5, FS_Subset
<1>7. Cardinality({e \in live : e.at > t - Window}) \in Nat
  BY <1>4, <1>5, FS_Subset, FS_CardinalityType
<1>8. Cardinality({e \in live : e.at > t - Window}) < MaxRequests
  BY <1>6, <1>7, LiveFacts, LimiterAssumption
<1>9. zset' = live
  BY DEF refuse
<1> QED
  BY <1>8, <1>9 DEF LiveAt

\* a Redis error raises nothing that a sleeper waits for
LEMMA ErrorMovesOne ==
    ASSUME Inv, NEW c \in Callers, acquire_fails(c)
    PROVE  /\ caller'[c].pc # "acquiring" /\ caller'[c].until = caller[c].until
           /\ \A d \in Callers : d # c => caller'[d] = caller[d]
BY DEF Inv, TypeOK, acquire_fails, on_redis_error, Return

\* one case per action: who moved, and what that leaves the others
LEMMA NextKeepsWaitInv ==
    ASSUME Inv, WaitInv, [Next]_vars
    PROVE  WaitInv'
<1> SUFFICES ASSUME NEW d \in Callers, caller'[d].pc = "acquiring", caller'[d].refused # -1
             PROVE  /\ caller'[d].refused <= reserved'
                    /\ caller'[d].refused = reserved' =>
                         Cardinality(LiveAt(caller[d].until)') < MaxRequests
  BY DEF WaitInv
<1>1. CASE Tick \/ UNCHANGED vars
  <2>1. caller'[d] = caller[d] /\ zset' = zset /\ reserved' = reserved
    BY <1>1 DEF Tick, vars
  <2> QED
    BY <2>1, SleeperKeepsWait
<1>2. ASSUME NEW c \in Callers, acquire(c)
      PROVE  caller'[d] = caller[d] /\ zset' = zset /\ reserved' = reserved
  BY <1>2 DEF acquire, Inv, TypeOK
<1>3. ASSUME NEW c \in Callers, acquire_returns(c) \/ acquire_fails(c)
      PROVE  /\ caller'[d] = caller[d]
             /\ \/ zset' \subseteq zset /\ reserved' = reserved
                \/ reserved' = reserved + 1
  <2>1. c # d /\ \A e \in Callers : e # c => caller'[e] = caller[e]
    BY <1>3, ErrorMovesOne DEF acquire_returns, Return, Inv, TypeOK
  <2> QED
    BY <1>3, <2>1, ScriptReservesOrDrops DEF acquire_returns, acquire_fails
<1>4. ASSUME NEW c \in Callers, acquire_sleeps(c), c # d
      PROVE  /\ caller'[d] = caller[d]
             /\ zset' \subseteq zset /\ reserved' = reserved
  BY <1>4, LiveFacts DEF acquire_sleeps, refuse, Inv, TypeOK
<1>5. CASE acquire_sleeps(d)
  <2>1. PICK jitter \in 0 .. MaxJitter :
          caller' = [caller EXCEPT ![d] = [pc |-> "acquiring", until |-> now + wait + jitter,
                                           refused |-> reserved]]
    BY <1>5 DEF acquire_sleeps
  <2>2. /\ caller'[d].until = now + wait + jitter
        /\ caller'[d].refused = reserved /\ reserved' = reserved /\ reserved \in Nat
    BY <1>5, <2>1 DEF acquire_sleeps, refuse, Inv, TypeOK
  <2>3. jitter \in Nat /\ refuse(d)
    BY <1>5, LimiterAssumption DEF acquire_sleeps
  <2>4. \A t : t = now + wait + jitter => Cardinality(LiveAt(t)') < MaxRequests
    BY <2>3, RefusedWaitsForRoom
  <2>5. Cardinality(LiveAt(caller[d].until)') < MaxRequests
    BY <2>2, <2>4 DEF LiveAt
  <2> QED
    BY <2>2, <2>5
<1> QED
  BY <1>1, <1>2, <1>3, <1>4, <1>5, SleeperKeepsWait DEF Next

\* whoever is refused again was overtaken
LEMMA RefusedAgain ==
    ASSUME Inv, WaitInv, [Next]_vars, NEW c \in Callers,
           caller[c].pc = "acquiring", caller[c].refused # -1,
           caller'[c].until > caller[c].until
    PROVE  reserved > caller[c].refused
<1>1. acquire_sleeps(c)
  <2>1. caller[c].until \in Int
    BY LimiterAssumption DEF Inv, TypeOK
  <2>2. caller'[c].until # caller[c].until
    BY <2>1
  <2>3. ~Tick /\ ~UNCHANGED vars
    BY <2>2 DEF Tick, vars
  <2>4. ASSUME NEW d \in Callers, acquire(d) \/ acquire_returns(d) \/ acquire_fails(d)
        PROVE  FALSE
    BY <2>2, <2>4, ErrorMovesOne DEF acquire, acquire_returns, Return, Inv, TypeOK
  <2>5. ASSUME NEW d \in Callers, acquire_sleeps(d), d # c
        PROVE  FALSE
    BY <2>2, <2>5 DEF acquire_sleeps, Inv, TypeOK
  <2> QED
    BY <2>3, <2>4, <2>5 DEF Next
<1>2. /\ caller[c].refused \in Int /\ reserved \in Nat /\ now \in Nat
      /\ caller[c].until \in Int /\ now >= caller[c].until /\ ~has_room
  BY <1>1, LimiterAssumption DEF Inv, TypeOK, acquire_sleeps, Awake, refuse
<1>3. live \subseteq LiveAt(caller[c].until)
  <2>1. \A e \in zset : e.at \in Nat
    BY DEF Inv, ZsetInv, Slots
  <2> QED
    BY <1>2, <2>1, LiveFacts, LimiterAssumption DEF LiveAt
<1>4. caller[c].refused # reserved
  BY <1>2, <1>3, LiveAtShrinks DEF WaitInv, has_room
<1> QED
  BY <1>2, <1>4 DEF WaitInv

(* The wait the script computes is long enough: a caller that slept it and *)
(* is refused again has lost its slot to another reservation, for any      *)
(* number of callers, quota, window and jitter, fail open or closed.       *)
THEOREM WaitIsSufficient == Spec => WaitSuffices
<1>1. Init => Inv /\ WaitInv
  BY InitInv DEF Init, WaitInv
<1>2. Inv /\ WaitInv /\ [Next]_vars => Inv' /\ WaitInv'
  BY NextKeepsInv, NextKeepsWaitInv
<1>3. Inv /\ WaitInv /\ [Next]_vars =>
        [\A c \in Callers :
           caller[c].pc = "acquiring" /\ caller[c].refused # -1 /\ caller'[c].until > caller[c].until
             => reserved > caller[c].refused]_vars
  BY RefusedAgain
<1> QED
  BY <1>1, <1>2, <1>3, PTL DEF Spec, WaitSuffices
===============================================================================
