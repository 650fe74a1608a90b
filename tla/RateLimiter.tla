----------------------------- MODULE RateLimiter -----------------------------
(***************************************************************************)
(* InMemoryRateLimiter and its TokenBuckets (services/rate_limiter.py) as  *)
(* enforce_rate_limit (dependencies/rate_limit.py) uses them: every        *)
(* request of a caller spends one token of the bucket of its key or is     *)
(* refused.  check() has no await, so it is one action, whichever of the   *)
(* caller's connections it serves.                                         *)
(*                                                                         *)
(* The bucket holds a real number of tokens and refills lazily.  Here a    *)
(* token is Unit units and the rate is Rate units a tick, so any rational  *)
(* rate is a choice of the two; Second ticks make a second, the grain the  *)
(* headers are rounded up to.  The rounding of floats is not modelled.     *)
(***************************************************************************)
EXTENDS Integers

CONSTANTS Keys,      \* the callers' key ids
          Capacity,  \* capacity, in tokens
          Unit,      \* units in a token
          Rate,      \* refill_rate, in units a tick
          Second,    \* ticks in a second
          MaxTime    \* bound: the last tick TLC looks at

ASSUME LimiterAssumption ==
    /\ Capacity \in Nat \ {0}
    /\ Unit \in Nat \ {0}
    /\ Rate \in Nat \ {0}
    /\ Second \in Nat \ {0}
    /\ MaxTime \in Nat

VARIABLES
    now,       \* the monotonic clock
    seen,      \* the keys with a bucket in _buckets
    tokens,    \* _tokens, in units
    updated,   \* _updated_at
    start,     \* history: an instant, of any choice
    admitted,  \* history: requests admitted since then
    retryAt,   \* history: when the last refusals said a token is back
    fullAt     \* history: when the last answer said the bucket is full

buckets == <<seen, tokens, updated>>
history == <<start, admitted, retryAt, fullAt>>
vars    == <<now, buckets, history>>

Full  == Capacity * Unit
Never == -1

TypeOK ==
    /\ now \in Nat
    /\ seen \subseteq Keys
    /\ tokens \in [Keys -> 0..Full]
    /\ updated \in [Keys -> Nat]
    /\ start \in [Keys -> Nat]
    /\ admitted \in [Keys -> Nat]
    /\ retryAt \in [Keys -> Nat \cup {Never}]
    /\ fullAt \in [Keys -> Nat]

Init ==
    /\ now = 0
    /\ seen = {}
    /\ tokens = [k \in Keys |-> Full]
    /\ updated = [k \in Keys |-> 0]
    /\ start = [k \in Keys |-> 0]
    /\ admitted = [k \in Keys |-> 0]
    /\ retryAt = [k \in Keys |-> Never]
    /\ fullAt = [k \in Keys |-> 0]

-----------------------------------------------------------------------------
(* With a fault: seconds are rounded down.                                 *)
FloorDiv(n, d) == n \div d

(* math.ceil of a quotient.                                                *)
CeilDiv(n, d) == (n + d - 1) \div d

(* With a fault: refilling is not capped.                                  *)
RefilledWithoutCap(k, t) ==
    IF k \notin seen THEN Full ELSE tokens[k] + (t - updated[k]) * Rate

(* _refill: what the bucket of k holds at time t if nobody takes from it.  *)
(* A key without a bucket is given a full one.                             *)
Refilled(k, t) ==
    LET gained == tokens[k] + (t - updated[k]) * Rate
    IN  IF k \notin seen \/ gained > Full THEN Full ELSE gained

(* retry_after and reset_after of a decision that leaves `left` units, as  *)
(* the headers give them: whole seconds, rounded up.                       *)
RetryAfter(left) == CeilDiv(Unit - left, Rate * Second)
ResetAfter(left) == CeilDiv(Full - left, Rate * Second)

(* With a fault: the time of the refill is not written down.               *)
LeftUndated(k, left) ==
    /\ seen' = seen \cup {k}
    /\ tokens' = [tokens EXCEPT ![k] = left]
    /\ fullAt' = [fullAt EXCEPT ![k] = now + ResetAfter(left) * Second]
    /\ UNCHANGED updated

Left(k, left) ==
    /\ seen' = seen \cup {k}
    /\ tokens' = [tokens EXCEPT ![k] = left]
    /\ updated' = [updated EXCEPT ![k] = now]
    /\ fullAt' = [fullAt EXCEPT ![k] = now + ResetAfter(left) * Second]

(* check and take, when there is a token: the request goes on.             *)
Admit(k) ==
    /\ Refilled(k, now) >= Unit
    /\ Left(k, Refilled(k, now) - Unit)
    /\ admitted' = [admitted EXCEPT ![k] = @ + 1]
    /\ retryAt' = [retryAt EXCEPT ![k] = Never]
    /\ UNCHANGED <<now, start>>

(* check and take, when there is none: 429 with a Retry-After.  The caller *)
(* holds the service to the earliest time it was ever told.                *)
Refuse(k) ==
    /\ Refilled(k, now) < Unit
    /\ Left(k, Refilled(k, now))
    /\ LET told == now + RetryAfter(Refilled(k, now)) * Second
       IN  retryAt' = [retryAt EXCEPT ![k] =
                          IF @ = Never \/ told < @ THEN told ELSE @]
    /\ UNCHANGED <<now, start, admitted>>

Tick ==
    /\ now < MaxTime
    /\ now' = now + 1
    /\ UNCHANGED <<buckets, history>>

(* An observer starts to count the requests of k.                          *)
Observe(k) ==
    /\ start' = [start EXCEPT ![k] = now]
    /\ admitted' = [admitted EXCEPT ![k] = 0]
    /\ UNCHANGED <<now, buckets, retryAt, fullAt>>

Next ==
    \/ \E k \in Keys : Admit(k) \/ Refuse(k) \/ Observe(k)
    \/ Tick

Spec == Init /\ [][Next]_vars

-----------------------------------------------------------------------------
(* Properties.                                                             *)

(* Whatever interval one looks at, a caller gets at most a full burst plus *)
(* what the steady rate refills over it, with no seam to fire two bursts   *)
(* across: the promise of the TokenBucket docstring over a fixed window.   *)
WindowBound ==
    \A k \in Keys : admitted[k] * Unit <= Full + Rate * (now - start[k])

(* Retry-After is the truth: a refused caller who comes back then is       *)
(* admitted, unless another of its requests took the token meanwhile, and  *)
(* asking too early, however often, does not put the moment off.           *)
RetryAfterKept ==
    \A k \in Keys :
        retryAt[k] # Never /\ now >= retryAt[k] => Refilled(k, now) >= Unit

(* X-RateLimit-Reset is the truth: "seconds until the bucket is full       *)
(* again" (README.md), if nothing is spent before.                         *)
ResetKept ==
    \A k \in Keys : now >= fullAt[k] => Refilled(k, now) = Full

Contract == INSTANCE BucketContract WITH
    Callers <- Keys,
    Brim    <- Full,
    Price   <- Unit,
    Drip    <- Rate,
    level   <- [k \in Keys |-> Refilled(k, now)],
    denied  <- {k \in Keys : retryAt[k] # Never}

(* A bucket that is refilled when a request asks for it, and made when the *)
(* first one does, is no different from one that fills all the time: a     *)
(* refusal costs nothing, and it does not matter when or how often it is   *)
(* looked at (_refill, check).                                             *)
KeepsContract == Contract!BucketSpec

=============================================================================
