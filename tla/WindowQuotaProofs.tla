--------------------------- MODULE WindowQuotaProofs ---------------------------
(* WindowQuota keeps its quota over every window, not only the window that *)
(* ends now: the argument any limiter that implements it inherits.         *)
EXTENDS WindowQuota, FiniteSetTheorems, TLAPS

QTypeOK == /\ now \in Int
           /\ IsFiniteSet(grants)
           /\ \A g \in grants : g.at \in Int /\ g.at <= now

(* A set of requests that are all in the window ending now, and one more,  *)
(* is as large as the quota allows.                                        *)
LEMMA OneMore ==
    ASSUME QuotaParameters, NEW S, IsFiniteSet(S), NEW T, T \subseteq S, NEW x,
           Cardinality(S) < MaxRequests
    PROVE  /\ IsFiniteSet(T \cup {x})
           /\ Cardinality(T \cup {x}) <= MaxRequests
<1>1. IsFiniteSet(T) /\ Cardinality(T) <= Cardinality(S)
  BY FS_Subset
<1>2. Cardinality(T) \in Nat /\ Cardinality(S) \in Nat
  BY <1>1, FS_CardinalityType
<1>3. Cardinality(T \cup {x}) = IF x \in T THEN Cardinality(T) ELSE Cardinality(T) + 1
  BY <1>1, FS_AddElement
<1> QED
  BY <1>1, <1>2, <1>3, FS_AddElement DEF QuotaParameters

\* a window holds finitely many requests
LEMMA WindowFinite ==
    ASSUME QTypeOK, NEW t \in Int
    PROVE  IsFiniteSet(InWindow(t)) /\ Cardinality(InWindow(t)) \in Nat
<1>1. InWindow(t) \subseteq grants
  BY DEF InWindow
<1> QED
  BY <1>1, FS_Subset, FS_CardinalityType DEF QTypeOK

(* The quota is inductive because a request enters no window but those     *)
(* that start after now - Window, and there it joins requests that are all *)
(* in the window that ends now.                                            *)
LEMMA GrantKeepsQuota ==
    ASSUME QuotaParameters, QTypeOK, Quota, NEW k \in Tickets, Grant(k)
    PROVE  QTypeOK' /\ Quota'
<1> DEFINE e == [at |-> now, ticket |-> k]
<1>1. grants' = grants \cup {e} /\ now' = now /\ e.at = now
  BY DEF Grant
<1>2. QTypeOK'
  <2>1. IsFiniteSet(grants')
    BY <1>1, FS_AddElement DEF QTypeOK
  <2>2. now' \in Int /\ \A g \in grants' : g.at \in Int /\ g.at <= now'
    <3> HIDE DEF e
    <3> QED
      BY <1>1 DEF QTypeOK
  <2> QED
    BY <2>1, <2>2 DEF QTypeOK
<1>3. ASSUME NEW t \in Int
      PROVE  Cardinality(InWindow(t)') <= MaxRequests
  <2>1. CASE t - Window < now /\ now <= t
    <3>1. InWindow(t)' = InWindow(t) \cup {e}
      BY <1>1, <2>1 DEF InWindow
    <3>2. InWindow(t) \subseteq InWindow(now)
      BY <2>1 DEF InWindow, QTypeOK, QuotaParameters
    <3>3. Cardinality(InWindow(now)) < MaxRequests
      BY DEF Grant
    <3>4. IsFiniteSet(InWindow(now))
      BY WindowFinite DEF QTypeOK
    <3> QED
      BY <3>1, <3>2, <3>3, <3>4, OneMore
  <2>2. CASE ~(t - Window < now /\ now <= t)
    <3>1. InWindow(t)' = InWindow(t)
      BY <1>1, <2>2 DEF InWindow
    <3> QED
      BY <3>1 DEF Quota
  <2> QED
    BY <2>1, <2>2
<1> QED
  BY <1>2, <1>3 DEF Quota

\* time alone breaks no quota
LEMMA PassKeepsQuota ==
    ASSUME QTypeOK, Quota, Pass
    PROVE  QTypeOK' /\ Quota'
<1>1. QTypeOK'
  BY DEF QTypeOK, Pass
<1>2. \A t \in Int : InWindow(t)' = InWindow(t)
  BY DEF InWindow, Pass
<1> QED
  BY <1>1, <1>2 DEF Quota

(* The quota holds over every window for every MaxRequests and Window.     *)
THEOREM QuotaHolds ==
    ASSUME QuotaParameters
    PROVE  QSpec => []Quota
<1>1. QInit => QTypeOK /\ Quota
  <2> SUFFICES ASSUME QInit PROVE QTypeOK /\ Quota
    OBVIOUS
  <2>1. \A t \in Int : InWindow(t) = {}
    BY DEF QInit, InWindow
  <2> QED
    BY <2>1, FS_EmptySet DEF QInit, QTypeOK, Quota, QuotaParameters
<1>2. QTypeOK /\ Quota /\ [QNext]_qvars => (QTypeOK /\ Quota)'
  <2> SUFFICES ASSUME QTypeOK, Quota, [QNext]_qvars
               PROVE  (QTypeOK /\ Quota)'
    OBVIOUS
  <2>1. CASE Pass
    BY <2>1, PassKeepsQuota
  <2>2. CASE \E k \in Tickets : Grant(k)
    BY <2>2, GrantKeepsQuota
  <2>3. CASE UNCHANGED qvars
    <3>1. \A t \in Int : InWindow(t)' = InWindow(t)
      BY <2>3 DEF InWindow, qvars
    <3> QED
      BY <2>3, <3>1 DEF QTypeOK, Quota, qvars
  <2> QED
    BY <2>1, <2>2, <2>3 DEF QNext
<1> QED
  BY <1>1, <1>2, PTL DEF QSpec
===============================================================================
