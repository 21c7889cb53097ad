------------------------- MODULE InMemoryLimiterProofs -------------------------
(***************************************************************************)
(* With one caller MassiveRateLimiter implements WindowQuota, keeps at     *)
(* most one entry too many, and sleeps only when the window is full, for   *)
(* every quota and window.                                                 *)
(***************************************************************************)
EXTENDS InMemoryLimiter, FiniteSetTheorems, SequenceTheorems, TLAPS

QP == INSTANCE WindowQuotaProofs WITH MaxRequests <- max_requests, Window <- window,
                                      Tickets <- 1 .. MaxAcquires

\* the operators of FiniteSets that come with the instances
LEMMA SameCardinality == \A S : /\ Q!Cardinality(S)  = Cardinality(S)
                                /\ QP!Cardinality(S) = Cardinality(S)
BY DEF Q!Cardinality, QP!Cardinality, Cardinality

-------------------------------------------------------------------------------
(* The inductive invariant.                                                *)

\* the deque is in order, and older than the next reading
OrderInv == /\ \A j, k \in 1 .. Len(timestamps) : j < k => timestamps[j] < timestamps[k]
            /\ \A j \in 1 .. Len(timestamps) : timestamps[j] < until

\* an entry too many is the first, and outside the window of the next reading
PlaceInv ==
    /\ pc = "idle" => \/ Len(timestamps) <= max_requests
                      \/ /\ Len(timestamps) = max_requests + 1
                         /\ timestamps[1] + window < until
    /\ pc = "full" => Len(timestamps) = max_requests
    /\ pc = "sleeping" => Len(timestamps) = max_requests /\ timestamps[1] + window <= until
    /\ pc = "append" => \/ Len(timestamps) < max_requests
                        \/ /\ Len(timestamps) = max_requests
                           /\ timestamps[1] + window < until
    /\ pc # "idle" => calls \in 1 .. MaxAcquires

\* the deque records calls that returned, and every recent one of them
GrantsInv ==
    /\ \A g \in grants : g.at < until
    /\ \A g, h \in grants : g.at = h.at => g = h
    /\ \A g \in grants : now - window < g.at =>
         \E j \in 1 .. Len(timestamps) : timestamps[j] = g.at
    /\ \A j \in 1 .. Len(timestamps) : \E g \in grants : g.at = timestamps[j]

Inv == TypeOK /\ OrderInv /\ PlaceInv /\ GrantsInv

LEMMA Facts ==
    ASSUME Inv
    PROVE  /\ now \in Nat /\ until \in Nat /\ Len(timestamps) \in Nat
           /\ window \in Nat \ {0} /\ max_requests \in Nat \ {0}
           /\ \A j \in 1 .. Len(timestamps) : timestamps[j] \in 0 .. now
           /\ \A g \in grants : g.at \in 0 .. MaxTime
<1>1. timestamps \in Seq(0 .. now) /\ now \in Nat /\ until \in Nat
  BY InMemoryAssumption DEF Inv, TypeOK
<1>2. \A j \in 1 .. Len(timestamps) : timestamps[j] \in 0 .. now
  BY <1>1, ElementOfSeq
<1>3. Len(timestamps) \in Nat
  BY <1>1
<1>4. \A g \in grants : g.at \in 0 .. MaxTime
  BY DEF Inv, TypeOK
<1> QED
  BY <1>1, <1>2, <1>3, <1>4, InMemoryAssumption

\* what the eviction does: it drops the first k entries, all too old
LEMMA Evicted ==
    ASSUME Inv, evict_expired, now' = now
    PROVE  \E k \in 0 .. Len(timestamps) :
             /\ timestamps' \in Seq(0 .. now)
             /\ Len(timestamps') = Len(timestamps) - k
             /\ \A j \in 1 .. Len(timestamps') : timestamps'[j] = timestamps[j + k]
             /\ \A j \in 1 .. k : timestamps[j] < now - window
             /\ k < Len(timestamps) => timestamps[k + 1] >= now - window
<1>1. PICK k \in 0 .. Len(timestamps) :
         /\ \A j \in 1 .. k : outside(timestamps[j])
         /\ k < Len(timestamps) => ~outside(timestamps[k + 1])
         /\ timestamps' = SubSeq(timestamps, k + 1, Len(timestamps))
  BY DEF evict_expired
<1>2. \A j \in 1 .. k : timestamps[j] < now - window
  BY <1>1 DEF outside
<1>3. k < Len(timestamps) => timestamps[k + 1] >= now - window
  <2>1. k < Len(timestamps) => k + 1 \in 1 .. Len(timestamps)
    BY Facts
  <2> QED
    BY <1>1, <2>1, Facts DEF outside
<1>4. /\ k + 1 \in Int /\ Len(timestamps) \in Int
      /\ \A j \in k + 1 .. Len(timestamps) : timestamps[j] \in 0 .. now
  BY Facts
<1>5. /\ timestamps' \in Seq(0 .. now)
      /\ Len(timestamps') = IF k + 1 <= Len(timestamps) THEN Len(timestamps) - (k + 1) + 1 ELSE 0
      /\ \A j \in 1 .. Len(timestamps) - (k + 1) + 1 : timestamps'[j] = timestamps[(k + 1) + j - 1]
  BY <1>1, <1>4, SubSeqProperties
<1>6. Len(timestamps') = Len(timestamps) - k
  BY <1>5, Facts
<1>7. \A j \in 1 .. Len(timestamps') : timestamps'[j] = timestamps[j + k]
  BY <1>5, <1>6, Facts
<1> QED
  BY <1>2, <1>3, <1>5, <1>6, <1>7

\* the eviction keeps order, types and what the deque records
LEMMA EvictionKeeps ==
    ASSUME Inv, evict_expired, UNCHANGED <<now, grants>>, Due, until' = now + 1
    PROVE  /\ timestamps' \in Seq(0 .. now)
           /\ OrderInv' /\ GrantsInv'
           /\ Len(timestamps') \in Nat /\ Len(timestamps') <= Len(timestamps)
           /\ Len(timestamps') = Len(timestamps) =>
                \A j \in 1 .. Len(timestamps) : timestamps'[j] = timestamps[j]
           /\ Len(timestamps) > 0 /\ timestamps[1] + window < now =>
                Len(timestamps') < Len(timestamps)
<1>1. PICK k \in 0 .. Len(timestamps) :
         /\ timestamps' \in Seq(0 .. now)
         /\ Len(timestamps') = Len(timestamps) - k
         /\ \A j \in 1 .. Len(timestamps') : timestamps'[j] = timestamps[j + k]
         /\ \A j \in 1 .. k : timestamps[j] < now - window
         /\ k < Len(timestamps) => timestamps[k + 1] >= now - window
  BY Evicted
<1>2. \A j \in 1 .. Len(timestamps') : j + k \in 1 .. Len(timestamps)
  BY <1>1, Facts
<1>3. OrderInv'
  <2>1. \A j \in 1 .. Len(timestamps) : timestamps[j] \in Nat /\ timestamps[j] < until'
    BY Facts
  <2>2. \A j, l \in 1 .. Len(timestamps') :
          j < l => timestamps[j + k] < timestamps[l + k]
    <3>1. \A j, l \in 1 .. Len(timestamps') : j < l => j + k < l + k
      BY <1>1, Facts
    <3> QED
      BY <1>2, <3>1 DEF Inv, OrderInv
  <2> QED
    BY <1>1, <1>2, <2>1, <2>2 DEF OrderInv
<1>4. GrantsInv'
  <2>1. \A g \in grants : g.at < until'
    BY Facts DEF Inv, GrantsInv, Due
  <2>2. ASSUME NEW g \in grants, now - window < g.at
        PROVE  \E j \in 1 .. Len(timestamps') : timestamps'[j] = g.at
    <3>1. PICK j \in 1 .. Len(timestamps) : timestamps[j] = g.at
      BY <2>2 DEF Inv, GrantsInv
    <3>2. j > k
      BY <1>1, <2>2, <3>1, Facts
    <3>3. j - k \in 1 .. Len(timestamps') /\ (j - k) + k = j
      BY <1>1, <3>1, <3>2, Facts
    <3> QED
      BY <1>1, <3>1, <3>3
  <2>3. \A j \in 1 .. Len(timestamps') : \E g \in grants : g.at = timestamps'[j]
    BY <1>1, <1>2 DEF Inv, GrantsInv
  <2> QED
    BY <2>1, <2>2, <2>3 DEF Inv, GrantsInv
<1>5. Len(timestamps') = Len(timestamps) =>
        \A j \in 1 .. Len(timestamps) : timestamps'[j] = timestamps[j]
  <2> SUFFICES ASSUME Len(timestamps') = Len(timestamps), NEW j \in 1 .. Len(timestamps)
               PROVE  timestamps'[j] = timestamps[j]
    OBVIOUS
  <2>1. k = 0 /\ j + k = j
    BY <1>1, Facts
  <2> QED
    BY <1>1, <2>1
<1>6. Len(timestamps) > 0 /\ timestamps[1] + window < now =>
        Len(timestamps') < Len(timestamps)
  BY <1>1, Facts
<1> QED
  BY <1>1, <1>3, <1>4, <1>5, <1>6, Facts

-------------------------------------------------------------------------------
(* Each step keeps the invariant.                                          *)

LEMMA InitInv ==
    ASSUME Init
    PROVE  Inv
<1>1. timestamps = <<>> /\ Len(timestamps) = 0 /\ timestamps \in Seq(0 .. now)
  BY DEF Init
<1>2. TypeOK
  BY <1>1, InMemoryAssumption DEF Init, TypeOK
<1> QED
  BY <1>1, <1>2, InMemoryAssumption DEF Init, Inv, OrderInv, PlaceInv, GrantsInv

LEMMA acquireKeeps ==
    ASSUME Inv, acquire
    PROVE  Inv'
<1>1. /\ pc = "idle" /\ Due /\ evict_expired /\ UNCHANGED <<now, grants>> /\ until' = now + 1
      /\ calls' = calls + 1 /\ calls < MaxAcquires
      /\ pc' = IF Len(timestamps') >= max_requests THEN "full" ELSE "append"
  BY DEF acquire, is_full
<1>2. /\ timestamps' \in Seq(0 .. now) /\ OrderInv' /\ GrantsInv'
      /\ Len(timestamps') \in Nat /\ Len(timestamps') <= Len(timestamps)
      /\ Len(timestamps) > 0 /\ timestamps[1] + window < now => Len(timestamps') < Len(timestamps)
  BY <1>1, EvictionKeeps
<1>3. Len(timestamps') <= max_requests
  BY <1>1, <1>2, Facts DEF Inv, PlaceInv, Due
<1>4. TypeOK'
  BY <1>1, <1>2, Facts, InMemoryAssumption DEF Inv, TypeOK
<1>5. PlaceInv'
  <2>1. calls' \in 1 .. MaxAcquires
    BY <1>1, InMemoryAssumption DEF Inv, TypeOK
  <2> QED
    BY <1>1, <1>2, <1>3, <2>1, Facts DEF PlaceInv
<1> QED
  BY <1>2, <1>4, <1>5 DEF Inv

LEMMA sleepKeeps ==
    ASSUME Inv, sleep
    PROVE  Inv'
<1>1. /\ pc = "full" /\ Due /\ UNCHANGED <<now, timestamps, calls, grants>>
      /\ \/ sleep_time > 0 /\ pc' = "sleeping" /\ until' = now + sleep_time
         \/ ~(sleep_time > 0) /\ pc' = "append" /\ until' = now + 1
  BY DEF sleep
<1>2. Len(timestamps) = max_requests /\ 1 \in 1 .. Len(timestamps)
  BY <1>1, Facts DEF Inv, PlaceInv
<1>3. sleep_time \in Int /\ sleep_time = window - (now - timestamps[1])
  BY <1>2, Facts DEF sleep_time
<1>4. until' \in Nat /\ until' > now
  BY <1>1, <1>3, Facts
<1>5. TypeOK'
  BY <1>1, <1>4 DEF Inv, TypeOK
<1>6. OrderInv' /\ GrantsInv'
  BY <1>1, <1>4, Facts DEF Inv, OrderInv, GrantsInv, Due
<1>7. PlaceInv'
  BY <1>1, <1>2, <1>3, Facts DEF Inv, PlaceInv
<1> QED
  BY <1>5, <1>6, <1>7 DEF Inv

LEMMA wakeKeeps ==
    ASSUME Inv, wake
    PROVE  Inv'
<1>1. /\ pc = "sleeping" /\ Due /\ evict_expired /\ UNCHANGED <<now, grants, calls>>
      /\ until' = now + 1 /\ pc' = "append"
  BY DEF wake
<1>2. /\ timestamps' \in Seq(0 .. now) /\ OrderInv' /\ GrantsInv'
      /\ Len(timestamps') \in Nat /\ Len(timestamps') <= Len(timestamps)
      /\ Len(timestamps') = Len(timestamps) =>
           \A j \in 1 .. Len(timestamps) : timestamps'[j] = timestamps[j]
  BY <1>1, EvictionKeeps
<1>3. TypeOK'
  BY <1>1, <1>2, Facts DEF Inv, TypeOK
<1>4. Len(timestamps) = max_requests /\ 1 \in 1 .. Len(timestamps)
      /\ timestamps[1] + window <= now
  BY <1>1, Facts DEF Inv, PlaceInv, Due
<1>5. PlaceInv'
  <2>1. CASE Len(timestamps') < max_requests
    BY <1>1, <2>1 DEF Inv, PlaceInv
  <2>2. CASE Len(timestamps') = Len(timestamps)
    <3>1. timestamps'[1] + window < until'
      BY <1>1, <1>2, <1>4, <2>2, Facts
    <3> QED
      BY <1>1, <1>4, <2>2, <3>1 DEF Inv, PlaceInv
  <2> QED
    BY <1>2, <1>4, <2>1, <2>2, Facts
<1> QED
  BY <1>2, <1>3, <1>5 DEF Inv

LEMMA appendKeeps ==
    ASSUME Inv, append
    PROVE  Inv'
<1> DEFINE e == [at |-> now, ticket |-> calls]
<1>1. /\ pc = "append" /\ pc' = "idle" /\ Due /\ timestamps' = Append(timestamps, now)
      /\ grants' = grants \cup {e} /\ until' = now + 1 /\ UNCHANGED <<now, calls>>
  BY DEF append, record
<1>2. e.at = now /\ e \in [at : 0 .. MaxTime, ticket : 1 .. MaxAcquires]
  BY <1>1 DEF Inv, TypeOK, PlaceInv
<1> HIDE DEF e
<1>3. /\ timestamps' \in Seq(0 .. now) /\ Len(timestamps') = Len(timestamps) + 1
      /\ \A j \in 1 .. Len(timestamps) : timestamps'[j] = timestamps[j]
      /\ timestamps'[Len(timestamps) + 1] = now
  BY <1>1, Facts DEF Inv, TypeOK
<1>4. TypeOK'
  BY <1>1, <1>2, <1>3, Facts DEF Inv, TypeOK
<1>5. OrderInv'
  <2>1. \A j \in 1 .. Len(timestamps) : timestamps[j] < now
    BY <1>1, Facts DEF Inv, OrderInv, Due
  <2>2. ASSUME NEW j \in 1 .. Len(timestamps'), NEW k \in 1 .. Len(timestamps'), j < k
        PROVE  timestamps'[j] < timestamps'[k]
    <3>1. j \in 1 .. Len(timestamps) /\ (k \in 1 .. Len(timestamps) \/ k = Len(timestamps) + 1)
      BY <1>3, <2>2, Facts
    <3> QED
      BY <1>3, <2>1, <2>2, <3>1 DEF Inv, OrderInv
  <2>3. ASSUME NEW j \in 1 .. Len(timestamps')
        PROVE  timestamps'[j] < until'
    <3>1. j \in 1 .. Len(timestamps) \/ j = Len(timestamps) + 1
      BY <1>3, Facts
    <3> QED
      BY <1>1, <1>3, <2>1, <3>1, Facts
  <2> QED
    BY <2>2, <2>3 DEF OrderInv
<1>6. GrantsInv'
  <2>1. \A g \in grants : g.at < now
    BY <1>1, Facts DEF Inv, GrantsInv, Due
  <2>2. \A g \in grants' : g.at < until'
    BY <1>1, <1>2, <2>1, Facts
  <2>3. \A g, h \in grants' : g.at = h.at => g = h
    BY <1>1, <1>2, <2>1, Facts DEF Inv, GrantsInv
  <2>4. \A g \in grants' : now - window < g.at =>
          \E j \in 1 .. Len(timestamps') : timestamps'[j] = g.at
    <3> SUFFICES ASSUME NEW g \in grants', now - window < g.at
                 PROVE  \E j \in 1 .. Len(timestamps') : timestamps'[j] = g.at
      OBVIOUS
    <3>1. CASE g = e
      <4>1. Len(timestamps) + 1 \in 1 .. Len(timestamps')
        BY <1>3, Facts
      <4> QED
        BY <1>2, <1>3, <3>1, <4>1
    <3>2. CASE g \in grants
      <4>1. PICK j \in 1 .. Len(timestamps) : timestamps[j] = g.at
        BY <3>2 DEF Inv, GrantsInv
      <4>2. j \in 1 .. Len(timestamps')
        BY <1>3, Facts
      <4> QED
        BY <1>3, <4>1, <4>2
    <3> QED
      BY <1>1, <3>1, <3>2
  <2>5. \A j \in 1 .. Len(timestamps') : \E g \in grants' : g.at = timestamps'[j]
    BY <1>1, <1>2, <1>3, Facts DEF Inv, GrantsInv
  <2> QED
    BY <1>1, <2>2, <2>3, <2>4, <2>5 DEF GrantsInv
<1>7. PlaceInv'
  <2>1. CASE Len(timestamps) < max_requests
    BY <1>1, <1>3, <2>1, Facts DEF PlaceInv
  <2>2. CASE Len(timestamps) = max_requests /\ timestamps[1] + window < until
    <3>1. 1 \in 1 .. Len(timestamps)
      BY <2>2, Facts
    <3> QED
      BY <1>1, <1>3, <2>2, <3>1, Facts DEF PlaceInv, Due
  <2> QED
    BY <1>1, <2>1, <2>2 DEF Inv, PlaceInv
<1> QED
  BY <1>4, <1>5, <1>6, <1>7 DEF Inv

LEMMA TickKeeps ==
    ASSUME Inv, Tick
    PROVE  Inv'
<1>1. now' = now + 1 /\ now < MaxTime /\ UNCHANGED <<timestamps, pc, until, calls, grants>>
  BY DEF Tick
<1>2. timestamps \in Seq(0 .. now + 1)
  <2>1. timestamps \in Seq(0 .. now) /\ now \in Nat
    BY Facts DEF Inv, TypeOK
  <2>2. 0 .. now \subseteq 0 .. now + 1
    BY <2>1
  <2> QED
    BY <2>1, <2>2
<1>3. TypeOK'
  BY <1>1, <1>2, Facts, InMemoryAssumption DEF Inv, TypeOK
<1>4. OrderInv' /\ PlaceInv'
  BY <1>1 DEF Inv, OrderInv, PlaceInv
<1>5. GrantsInv'
  <2>1. \A g \in grants : (now + 1) - window < g.at =>
          \E j \in 1 .. Len(timestamps) : timestamps[j] = g.at
    <3>1. \A g \in grants : (now + 1) - window < g.at => now - window < g.at
      BY Facts, InMemoryAssumption
    <3> QED
      BY <3>1 DEF Inv, GrantsInv
  <2>2. \A g \in grants : g.at < until
    BY DEF Inv, GrantsInv
  <2>3. \A g, h \in grants : g.at = h.at => g = h
    BY DEF Inv, GrantsInv
  <2>4. \A j \in 1 .. Len(timestamps) : \E g \in grants : g.at = timestamps[j]
    BY DEF Inv, GrantsInv
  <2>5. timestamps' = timestamps /\ until' = until /\ grants' = grants /\ now' = now + 1
    BY <1>1
  <2> QED
    BY <2>1, <2>2, <2>3, <2>4, <2>5, Zenon DEF GrantsInv
<1> QED
  BY <1>3, <1>4, <1>5 DEF Inv

LEMMA NextInv ==
    ASSUME Inv, [Next]_vars
    PROVE  Inv'
<1>1. CASE UNCHANGED vars
  BY <1>1 DEF Inv, TypeOK, OrderInv, PlaceInv, GrantsInv, vars
<1> QED
  BY <1>1, acquireKeeps, sleepKeeps, wakeKeeps, appendKeeps, TickKeeps DEF Next

LEMMA AlwaysInv == Spec => []Inv
  BY InitInv, NextInv, PTL DEF Spec

-------------------------------------------------------------------------------
(* Theorems.                                                               *)

(* Every variable keeps its type.                                          *)
THEOREM TypeCorrect == Spec => []TypeOK
<1>1. Inv => TypeOK
  BY DEF Inv
<1> QED
  BY <1>1, AlwaysInv, PTL

(* The deque never holds more than one entry that does not count.          *)
THEOREM DequeIsBounded == Spec => []DequeBounded
<1>1. Inv => DequeBounded
  BY Facts DEF Inv, TypeOK, PlaceInv, DequeBounded
<1> QED
  BY <1>1, AlwaysInv, PTL

\* the calls of the window are counted by the entries that are in it
LEMMA RoomInWindow ==
    ASSUME Inv, pc = "append", Due
    PROVE  Cardinality(Q!InWindow(now)) < max_requests
<1> DEFINE S == Q!InWindow(now)
           n == Len(timestamps)
           T == IF n < max_requests THEN 1 .. n ELSE 2 .. n
           f == [g \in S |-> CHOOSE j \in T : timestamps[j] = g.at]
<1>1. /\ n \in Nat /\ (n < max_requests \/ (n = max_requests /\ timestamps[1] + window < until))
      /\ T \subseteq 1 .. n
  BY Facts DEF Inv, PlaceInv
<1>2. \A g \in S : g \in grants /\ now - window < g.at
  BY DEF Q!InWindow
<1>3. \A g \in S : \E j \in T : timestamps[j] = g.at
  <2> SUFFICES ASSUME NEW g \in S PROVE \E j \in T : timestamps[j] = g.at
    OBVIOUS
  <2>1. PICK j \in 1 .. n : timestamps[j] = g.at
    BY <1>2 DEF Inv, GrantsInv
  <2>2. n = max_requests => j # 1
    BY <1>1, <1>2, <2>1, Facts DEF Due
  <2> QED
    BY <1>1, <2>1, <2>2
<1>4. f \in Injection(S, T)
  <2>1. \A g \in S : f[g] \in T /\ timestamps[f[g]] = g.at
    BY <1>3
  <2>2. \A g, h \in S : f[g] = f[h] => g = h
    BY <1>2, <2>1 DEF Inv, GrantsInv
  <2>3. f \in [S -> T]
    BY <2>1
  <2> HIDE DEF f, S, T
  <2> QED
    BY <2>2, <2>3 DEF Injection, IsInjective
<1>5. IsFiniteSet(T) /\ Cardinality(T) < max_requests
  <2>1. CASE n < max_requests
    <3>1. T = 1 .. n
      BY <2>1
    <3>2. IsFiniteSet(1 .. n) /\ Cardinality(1 .. n) = IF 1 > n THEN 0 ELSE n - 1 + 1
      BY <1>1, FS_Interval
    <3> QED
      BY <1>1, <2>1, <3>1, <3>2, Facts
  <2>2. CASE ~(n < max_requests)
    <3>1. T = 2 .. n /\ n = max_requests
      BY <1>1, <2>2
    <3>2. IsFiniteSet(2 .. n) /\ Cardinality(2 .. n) = IF 2 > n THEN 0 ELSE n - 2 + 1
      BY <1>1, FS_Interval
    <3> QED
      BY <1>1, <3>1, <3>2, Facts
  <2> QED
    BY <2>1, <2>2
<1>6. IsFiniteSet(S) /\ Cardinality(S) <= Cardinality(T)
  <2> HIDE DEF f, S, T
  <2> QED
    BY <1>4, <1>5, FS_Injection
<1> QED
  BY <1>5, <1>6, FS_CardinalityType, Facts

(* For one caller the limiter implements WindowQuota: it sleeps once and   *)
(* appends without a second look, and that is enough.                      *)
THEOREM ImplementsQuota == Spec => QuotaSpec
<1>1. Init => Q!QInit
  BY DEF Init, Q!QInit
<1>2. Inv /\ [Next]_vars => [Q!QNext]_(Q!qvars)
  <2> SUFFICES ASSUME Inv, [Next]_vars
               PROVE  Q!QNext \/ UNCHANGED <<now, grants>>
    BY DEF Q!qvars
  <2>1. CASE append
    <3>1. /\ pc = "append" /\ Due /\ UNCHANGED now
          /\ grants' = grants \cup {[at |-> now, ticket |-> calls]}
      BY <2>1 DEF append
    <3>2. calls \in 1 .. MaxAcquires
      BY <3>1 DEF Inv, PlaceInv
    <3>3. [at |-> now, ticket |-> calls] \notin grants
      BY <3>1, Facts DEF Inv, GrantsInv, Due
    <3>4. Q!Grant(calls)
      BY <3>1, <3>3, RoomInWindow, SameCardinality DEF Q!Grant
    <3> QED
      BY <3>2, <3>4 DEF Q!QNext
  <2>2. CASE Tick
    BY <2>2, Facts DEF Tick, Q!QNext, Q!Pass
  <2>3. CASE acquire \/ sleep \/ wake \/ UNCHANGED vars
    BY <2>3 DEF acquire, sleep, wake, vars
  <2> QED
    BY <2>1, <2>2, <2>3 DEF Next
<1> QED
  BY <1>1, <1>2, AlwaysInv, PTL DEF Spec, QuotaSpec, Q!QSpec

\* there are finitely many grants
LEMMA FiniteSlots == IsFiniteSet([at : 0 .. MaxTime, ticket : 1 .. MaxAcquires])
<1> DEFINE P == (0 .. MaxTime) \X (1 .. MaxAcquires)
           R == [at : 0 .. MaxTime, ticket : 1 .. MaxAcquires]
           f == [r \in R |-> <<r.at, r.ticket>>]
<1>1. IsFiniteSet(P)
  <2>1. IsFiniteSet(0 .. MaxTime) /\ IsFiniteSet(1 .. MaxAcquires)
    BY FS_Interval, InMemoryAssumption
  <2> QED
    BY <2>1, FS_Product
<1>2. f \in [R -> P] /\ \A r, q \in R : f[r] = f[q] => r = q
  OBVIOUS
<1>3. f \in Injection(R, P)
  <2> HIDE DEF f, R, P
  <2> QED
    BY <1>2 DEF Injection, IsInjective
<1> HIDE DEF f, R, P
<1>4. IsFiniteSet(R)
  BY <1>1, <1>3, FS_Injection
<1> QED
  BY <1>4 DEF R

(* It never sleeps without need: a full window is behind every sleep.      *)
THEOREM SleepIsNeeded == Spec => SleepsOnlyWhenFull
<1>1. ASSUME Inv, sleep, pc' = "sleeping"
      PROVE  Cardinality(Q!InWindow(now)) >= max_requests
  <2> DEFINE S == 1 .. max_requests
             T == Q!InWindow(now)
             f == [j \in S |-> CHOOSE g \in grants : g.at = timestamps[j]]
  <2>1. pc = "full" /\ sleep_time > 0 /\ Len(timestamps) = max_requests
    BY <1>1 DEF sleep, Inv, PlaceInv
  <2>2. 1 \in 1 .. Len(timestamps) /\ now - window < timestamps[1]
    BY <1>1, <2>1, Facts DEF sleep_time
  <2>3. \A j \in S : timestamps[j] \in 0 .. now /\ now - window < timestamps[j]
    BY <1>1, <2>1, <2>2, Facts DEF Inv, OrderInv
  <2>4. \A j \in S : f[j] \in grants /\ f[j].at = timestamps[j]
    BY <1>1, <2>1 DEF Inv, GrantsInv
  <2>5. f \in [S -> T]
    <3>1. \A j \in S : f[j] \in T
      <4> HIDE DEF f
      <4> QED
        BY <1>1, <2>3, <2>4, Facts DEF Q!InWindow
    <3> QED
      BY <3>1
  <2>6. \A j, k \in S : f[j] = f[k] => j = k
    <3> HIDE DEF f
    <3>1. ASSUME NEW j \in S, NEW k \in S, f[j] = f[k]
          PROVE  j = k
      <4>1. timestamps[j] = timestamps[k]
        BY <2>4, <3>1
      <4> QED
        BY <1>1, <2>1, <2>3, <4>1, Facts DEF Inv, OrderInv
    <3> QED
      BY <3>1
  <2>7. IsFiniteSet(T)
    <3>1. IsFiniteSet([at : 0 .. MaxTime, ticket : 1 .. MaxAcquires])
      BY FiniteSlots
    <3>2. T \subseteq [at : 0 .. MaxTime, ticket : 1 .. MaxAcquires]
      BY <1>1 DEF Inv, TypeOK, Q!InWindow
    <3> QED
      BY <3>1, <3>2, FS_Subset
  <2>8. f \in Injection(S, T)
    <3> HIDE DEF f, S, T
    <3> QED
      BY <2>5, <2>6 DEF Injection, IsInjective
  <2>9. Cardinality(S) <= Cardinality(T)
    <3> HIDE DEF f, S, T
    <3> QED
      BY <2>7, <2>8, FS_Injection
  <2>10. Cardinality(S) = max_requests
    BY FS_Interval, InMemoryAssumption
  <2> QED
    BY <2>9, <2>10
<1>2. Inv /\ [Next]_vars =>
        [pc = "full" /\ pc' = "sleeping" => Cardinality(Q!InWindow(now)) >= max_requests]_vars
  BY <1>1 DEF Next, acquire, sleep, wake, append, Tick, vars
<1> QED
  BY <1>2, AlwaysInv, PTL DEF Spec, SleepsOnlyWhenFull
===============================================================================
