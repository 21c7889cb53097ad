------------------------------ MODULE WindowQuota ------------------------------
(***************************************************************************)
(* What a rate limiter promises (IRateLimiter and the README's "stay       *)
(* within API quotas"): a caller is let through only while fewer than      *)
(* MaxRequests were let through in the Window that ends now.  How callers  *)
(* wait, fail or are woken is left to the limiter that implements it.      *)
(***************************************************************************)
EXTENDS Integers, FiniteSets

CONSTANTS MaxRequests,   \* requests allowed in a window
          Window,        \* its length, in clock ticks
          Tickets        \* what tells two requests apart

\* what a limiter's constructor insists on
QuotaParameters == MaxRequests \in Nat \ {0} /\ Window \in Nat \ {0}

VARIABLES now,           \* the clock
          grants         \* every request let through: when, and which

qvars == <<now, grants>>

\* the requests let through in the window that ends at t, t included
InWindow(t) == {g \in grants : t - Window < g.at /\ g.at <= t}

QInit == now = 0 /\ grants = {}

Grant(k) == /\ Cardinality(InWindow(now)) < MaxRequests
            /\ [at |-> now, ticket |-> k] \notin grants
            /\ grants' = grants \cup {[at |-> now, ticket |-> k]}
            /\ UNCHANGED now

Pass == now' \in Int /\ now' > now /\ UNCHANGED grants

QNext == Pass \/ \E k \in Tickets : Grant(k)

QSpec == QInit /\ [][QNext]_qvars

(* No window of this length, wherever it ends, holds more than MaxRequests *)
(* requests.                                                               *)
Quota == \A t \in Int : Cardinality(InWindow(t)) <= MaxRequests
===============================================================================
