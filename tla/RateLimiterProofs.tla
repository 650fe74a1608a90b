-------------------------- MODULE RateLimiterProofs --------------------------
(***************************************************************************)
(* Theorems about RateLimiter, for any callers, any capacity, any rational *)
(* rate and without a bound on time.                                       *)
(***************************************************************************)
EXTENDS RateLimiter, TLAPS

(* What a bucket that held h holds `age` ticks later.                      *)
Level(h, age) == IF h + age * Rate > Full THEN Full ELSE h + age * Rate

Held(k, t) == Level(tokens[k], t - updated[k])

(* The clock never runs behind what was written down, and a bucket that    *)
(* was never made counts as full.                                          *)
Past(k) ==
    /\ updated[k] <= now
    /\ start[k] <= now
    /\ k \notin seen => tokens[k] = Full

(* What was admitted since `start` and what could be admitted now together *)
(* never exceed a burst plus the refill.                                   *)
Spent(k) == admitted[k] * Unit + Held(k, now) <= Full + Rate * (now - start[k])

(* What the headers said will be true when the time comes.                 *)
Told(k) ==
    /\ retryAt[k] # Never => retryAt[k] >= updated[k] /\ Held(k, retryAt[k]) >= Unit
    /\ fullAt[k] >= updated[k] /\ Held(k, fullAt[k]) = Full

IInv == TypeOK /\ \A k \in Keys : Past(k) /\ Spent(k) /\ Told(k)

-----------------------------------------------------------------------------
(* Rounding up covers the quotient (math.ceil in enforce_rate_limit).      *)
LEMMA CeilCovers ==
    ASSUME NEW n \in Nat, NEW d \in Nat \ {0}
    PROVE  CeilDiv(n, d) \in Nat /\ CeilDiv(n, d) * d >= n
  BY DEF CeilDiv

(* A full bucket holds a token at least (capacity >= 1).                   *)
LEMMA FullHoldsOne == Full \in Nat /\ Full >= Unit
  BY LimiterAssumption DEF Full

(* A bucket stays within its capacity (the min of _refill).                *)
LEMMA LevelBounded ==
    ASSUME NEW h \in 0..Full, NEW a \in Nat
    PROVE  Level(h, a) \in 0..Full /\ Level(h, a) >= h /\ Level(h, 0) = h
<1>1. a * Rate \in Nat /\ 0 * Rate = 0
  BY LimiterAssumption
<1> QED
  BY <1>1, FullHoldsOne DEF Level

(* It only fills with time, and never faster than the rate.                *)
LEMMA LevelGrows ==
    ASSUME NEW h \in 0..Full, NEW a \in Nat, NEW b \in Nat
    PROVE  /\ Level(h, a) <= Level(h, a + b)
           /\ Level(h, a + b) <= Level(h, a) + Rate * b
<1>1. a * Rate \in Nat /\ b * Rate \in Nat /\ Rate * b = b * Rate
  BY LimiterAssumption
<1>2. (a + b) * Rate = a * Rate + b * Rate
  BY LimiterAssumption
<1> QED
  BY <1>1, <1>2, FullHoldsOne DEF Level

(* Refilling in two steps is refilling in one: a request that takes        *)
(* nothing does not change what the bucket will hold (take).               *)
LEMMA LevelComposes ==
    ASSUME NEW h \in 0..Full, NEW a \in Nat, NEW b \in Nat
    PROVE  Level(Level(h, a), b) = Level(h, a + b)
<1>1. a * Rate \in Nat /\ b * Rate \in Nat
  BY LimiterAssumption
<1>2. (a + b) * Rate = a * Rate + b * Rate
  BY LimiterAssumption
<1> QED
  BY <1>1, <1>2, FullHoldsOne DEF Level

(* The wait the headers give for what is missing to a level is long enough *)
(* to reach it (retry_after, reset_after).                                 *)
LEMMA WaitSuffices ==
    ASSUME NEW h \in 0..Full, NEW goal \in 0..Full, h <= goal
    PROVE  LET w == CeilDiv(goal - h, Rate * Second) * Second
           IN  w \in Nat /\ Level(h, w) >= goal
<1> DEFINE c == CeilDiv(goal - h, Rate * Second)
<1>1. goal - h \in Nat
  BY FullHoldsOne
<1>2. Rate * Second \in Nat \ {0}
  BY LimiterAssumption
<1>3. c \in Nat /\ c * (Rate * Second) >= goal - h
  BY <1>1, <1>2, CeilCovers
<1> HIDE DEF c
<1>4. c * Second \in Nat /\ (c * Second) * Rate = c * (Rate * Second)
  BY <1>3, LimiterAssumption
<1>5. Level(h, c * Second) >= goal
  <2> DEFINE gain == (c * Second) * Rate
  <2>1. gain \in Int
    BY <1>3, LimiterAssumption
  <2>2. gain >= goal - h
    BY <1>3, <1>4
  <2>3. Level(h, c * Second) = IF h + gain > Full THEN Full ELSE h + gain
    BY DEF Level
  <2> HIDE DEF gain
  <2> QED
    BY <2>1, <2>2, <2>3, FullHoldsOne
<1> QED
  BY <1>4, <1>5 DEF c

-----------------------------------------------------------------------------
(* What the model's own refill comes to, and what a take leaves behind.    *)
LEMMA RefilledIsHeld ==
    ASSUME IInv, NEW k \in Keys
    PROVE  /\ Refilled(k, now) = Held(k, now)
           /\ Held(k, now) \in 0..Full
           /\ Held(k, now) >= tokens[k]
<1>1. /\ tokens[k] \in 0..Full /\ updated[k] \in Nat /\ now \in Nat
      /\ updated[k] <= now /\ (k \notin seen => tokens[k] = Full)
  BY DEF IInv, TypeOK, Past
<1>2. now - updated[k] \in Nat
  BY <1>1
<1>3. Held(k, now) \in 0..Full /\ Held(k, now) >= tokens[k]
  BY <1>1, <1>2, LevelBounded DEF Held
<1>4. CASE k \in seen
  BY <1>3, <1>4 DEF Refilled, Held, Level
<1>5. CASE k \notin seen
  BY <1>1, <1>3, <1>5, FullHoldsOne DEF Refilled
<1> QED
  BY <1>3, <1>4, <1>5

(* The parts of the state a take does not decide on (check, take).         *)
LEMMA LeftTypes ==
    ASSUME IInv, NEW k \in Keys, NEW left \in 0..Full, Left(k, left)
    PROVE  /\ seen' = seen \cup {k}
           /\ tokens' \in [Keys -> 0..Full] /\ tokens'[k] = left
           /\ updated' \in [Keys -> Nat] /\ updated'[k] = now
           /\ fullAt' \in [Keys -> Nat]
           /\ fullAt'[k] >= now
           /\ Level(left, fullAt'[k] - now) = Full
           /\ \A q \in Keys \ {k} : /\ tokens'[q] = tokens[q]
                                     /\ updated'[q] = updated[q]
                                     /\ fullAt'[q] = fullAt[q]
<1> DEFINE w == ResetAfter(left) * Second
<1>1. TypeOK
  BY DEF IInv
<1>2. Full \in 0..Full /\ left <= Full
  BY FullHoldsOne
<1>3. w \in Nat /\ Level(left, w) >= Full
  BY <1>2, WaitSuffices DEF ResetAfter
<1>5. fullAt' = [fullAt EXCEPT ![k] = now + w]
  BY DEF Left
<1> HIDE DEF w
<1>4. Level(left, w) = Full
  <2>1. Level(left, w) \in 0..Full
    BY <1>3, LevelBounded
  <2> QED
    BY <1>3, <2>1, FullHoldsOne
<1>6. now + w \in Nat /\ (now + w) - now = w /\ now + w >= now
  BY <1>1, <1>3 DEF TypeOK
<1>7. /\ fullAt' \in [Keys -> Nat]
      /\ fullAt'[k] = now + w
      /\ \A q \in Keys \ {k} : fullAt'[q] = fullAt[q]
  BY <1>1, <1>5, <1>6 DEF TypeOK
<1>8. /\ tokens' \in [Keys -> 0..Full] /\ tokens'[k] = left
      /\ updated' \in [Keys -> Nat] /\ updated'[k] = now
      /\ \A q \in Keys \ {k} : tokens'[q] = tokens[q] /\ updated'[q] = updated[q]
  BY <1>1 DEF Left, TypeOK
<1>9. seen' = seen \cup {k}
  BY DEF Left
<1> QED
  BY <1>4, <1>6, <1>7, <1>8, <1>9

(* The bound and the promises of one key survive a step that changes       *)
(* nothing of it.                                                          *)
LEMMA OthersKeep ==
    ASSUME NEW q \in Keys, Past(q), Spent(q), Told(q), now' = now,
           tokens'[q] = tokens[q], updated'[q] = updated[q],
           start'[q] = start[q], admitted'[q] = admitted[q],
           retryAt'[q] = retryAt[q], fullAt'[q] = fullAt[q],
           q \in seen' <=> q \in seen
    PROVE  Past(q)' /\ Spent(q)' /\ Told(q)'
  BY DEF Past, Spent, Told, Held

(* A request that is admitted (take).                                      *)
LEMMA AdmitStep ==
    ASSUME IInv, NEW k \in Keys, Admit(k)
    PROVE  IInv'
<1> DEFINE a == Held(k, now)
           left == a - Unit
<1>1. /\ TypeOK /\ Past(k) /\ Spent(k)
      /\ \A q \in Keys : Past(q) /\ Spent(q) /\ Told(q)
  BY DEF IInv
<1>2. /\ Refilled(k, now) = a /\ a \in 0..Full /\ a >= Unit
  BY RefilledIsHeld DEF Admit
<1>3. Left(k, left) /\ left \in 0..Full
  BY <1>2, FullHoldsOne, LimiterAssumption DEF Admit
<1>4. admitted[k] * Unit + a <= Full + Rate * (now - start[k])
  BY <1>1 DEF Spent
<1> HIDE DEF a
<1>5. /\ seen' = seen \cup {k}
      /\ tokens' \in [Keys -> 0..Full] /\ tokens'[k] = left
      /\ updated' \in [Keys -> Nat] /\ updated'[k] = now
      /\ fullAt' \in [Keys -> Nat] /\ fullAt'[k] >= now
      /\ Level(left, fullAt'[k] - now) = Full
      /\ \A q \in Keys \ {k} : /\ tokens'[q] = tokens[q]
                               /\ updated'[q] = updated[q]
                               /\ fullAt'[q] = fullAt[q]
  BY <1>3, LeftTypes
<1>6. /\ admitted' \in [Keys -> Nat] /\ admitted'[k] = admitted[k] + 1
      /\ retryAt' \in [Keys -> Nat \cup {Never}] /\ retryAt'[k] = Never
      /\ now' = now /\ start' = start
      /\ \A q \in Keys \ {k} : admitted'[q] = admitted[q] /\ retryAt'[q] = retryAt[q]
  BY <1>1 DEF Admit, TypeOK
<1>7. TypeOK'
  BY <1>1, <1>5, <1>6 DEF TypeOK
<1>8. Past(k)'
  BY <1>1, <1>5, <1>6 DEF Past, TypeOK
<1>9. Spent(k)'
  <2>1. now - now = 0 /\ Level(left, 0) = left
    BY <1>1, <1>3, LevelBounded DEF TypeOK
  <2>2. Held(k, now)' = left
    BY <1>5, <1>6, <2>1 DEF Held
  <2>3. (admitted[k] + 1) * Unit = admitted[k] * Unit + Unit /\ admitted[k] * Unit \in Nat
    BY <1>1, LimiterAssumption DEF TypeOK
  <2>4. Full + Rate * (now - start[k]) \in Int
    BY <1>1, FullHoldsOne, LimiterAssumption DEF TypeOK
  <2>5. (admitted[k] + 1) * Unit + left <= Full + Rate * (now - start[k])
    BY <1>2, <1>4, <2>3, <2>4, LimiterAssumption
  <2> QED
    BY <1>6, <2>2, <2>5 DEF Spent
<1>10. Told(k)'
  BY <1>5, <1>6 DEF Told, Held
<1>11. ASSUME NEW q \in Keys, q # k PROVE Past(q)' /\ Spent(q)' /\ Told(q)'
  <2>1. /\ tokens'[q] = tokens[q] /\ updated'[q] = updated[q]
        /\ start'[q] = start[q] /\ admitted'[q] = admitted[q]
        /\ retryAt'[q] = retryAt[q] /\ fullAt'[q] = fullAt[q]
        /\ q \in seen' <=> q \in seen
        /\ now' = now
    <3>1. q \in Keys \ {k}
      BY <1>11
    <3>2. q \in seen' <=> q \in seen
      BY <1>5, <3>1
    <3> QED
      BY <1>5, <1>6, <3>1, <3>2
  <2>2. Past(q) /\ Spent(q) /\ Told(q)
    BY <1>1
  <2> QED
    BY <2>1, <2>2, OthersKeep
<1> QED
  BY <1>7, <1>8, <1>9, <1>10, <1>11 DEF IInv

(* A request that is refused (take): nothing is spent, and what was said   *)
(* to earlier refusals still holds.                                        *)
LEMMA RefuseStep ==
    ASSUME IInv, NEW k \in Keys, Refuse(k)
    PROVE  IInv'
<1> DEFINE a == Held(k, now)
           told == now + RetryAfter(a) * Second
<1>1. /\ TypeOK /\ Past(k) /\ Spent(k) /\ Told(k)
      /\ \A q \in Keys : Past(q) /\ Spent(q) /\ Told(q)
  BY DEF IInv
<1>2. /\ Refilled(k, now) = a /\ a \in 0..Full /\ a < Unit
  BY RefilledIsHeld DEF Refuse
<1>3. Left(k, a)
  BY <1>2 DEF Refuse
<1>4. admitted[k] * Unit + a <= Full + Rate * (now - start[k])
  BY <1>1 DEF Spent
<1>5. retryAt' = [retryAt EXCEPT ![k] = IF @ = Never \/ told < @ THEN told ELSE @]
  BY <1>2 DEF Refuse
<1>6. told \in Nat /\ told >= now /\ Level(a, told - now) >= Unit
  <2>1. Unit \in 0..Full /\ a <= Unit
    BY <1>2, FullHoldsOne, LimiterAssumption
  <2>2. /\ RetryAfter(a) * Second \in Nat
        /\ Level(a, RetryAfter(a) * Second) >= Unit
    BY <1>2, <2>1, WaitSuffices DEF RetryAfter
  <2>3. told - now = RetryAfter(a) * Second
    BY <1>1, <2>2 DEF TypeOK
  <2> QED
    BY <1>1, <2>2, <2>3 DEF TypeOK
<1>7. a = Level(tokens[k], now - updated[k])
  BY DEF Held
<1> HIDE DEF a, told
<1>8. /\ seen' = seen \cup {k}
      /\ tokens' \in [Keys -> 0..Full] /\ tokens'[k] = a
      /\ updated' \in [Keys -> Nat] /\ updated'[k] = now
      /\ fullAt' \in [Keys -> Nat] /\ fullAt'[k] >= now
      /\ Level(a, fullAt'[k] - now) = Full
      /\ \A q \in Keys \ {k} : /\ tokens'[q] = tokens[q]
                               /\ updated'[q] = updated[q]
                               /\ fullAt'[q] = fullAt[q]
  BY <1>2, <1>3, LeftTypes
<1>9. now' = now /\ start' = start /\ admitted' = admitted
  BY DEF Refuse
<1>10. /\ retryAt' \in [Keys -> Nat \cup {Never}]
       /\ retryAt'[k] = told \/ (retryAt[k] # Never /\ retryAt'[k] = retryAt[k])
       /\ \A q \in Keys \ {k} : retryAt'[q] = retryAt[q]
  BY <1>1, <1>5, <1>6 DEF TypeOK
<1>11. TypeOK'
  BY <1>1, <1>8, <1>9, <1>10 DEF TypeOK
<1>12. Past(k)'
  BY <1>1, <1>8, <1>9 DEF Past, TypeOK
<1>13. Spent(k)'
  <2>1. now - now = 0 /\ Level(a, 0) = a
    BY <1>1, <1>2, LevelBounded DEF TypeOK
  <2>2. Held(k, now)' = a
    BY <1>8, <1>9, <2>1 DEF Held
  <2> QED
    BY <1>4, <1>9, <2>2 DEF Spent
<1>14. retryAt'[k] # Never => retryAt'[k] >= now /\ Level(a, retryAt'[k] - now) >= Unit
  <2>1. CASE retryAt'[k] = told
    BY <1>6, <2>1
  <2>2. CASE retryAt[k] # Never /\ retryAt'[k] = retryAt[k]
    <3> DEFINE t == retryAt[k]
               h == tokens[k]
               u == updated[k]
    <3>1. t \in Nat /\ h \in 0..Full /\ u \in Nat /\ now \in Nat /\ u <= now
      BY <1>1, <2>2 DEF TypeOK, Past
    <3>2. t >= u /\ Level(h, t - u) >= Unit
      BY <1>1, <2>2 DEF Told, Held
    <3>3. Level(h, now - u) < Unit
      BY <1>2, <1>7
    <3> HIDE DEF t, h, u
    <3>4. t >= now
      <4> SUFFICES ASSUME t < now PROVE FALSE
        BY <3>1
      <4>1. t - u \in Nat /\ now - t \in Nat /\ (t - u) + (now - t) = now - u
        BY <3>1, <3>2
      <4>2. Level(h, t - u) <= Level(h, now - u)
        BY <3>1, <4>1, LevelGrows
      <4>3. Level(h, t - u) \in Int /\ Level(h, now - u) \in Int
        BY <3>1, <3>2, <4>1, LevelBounded, FullHoldsOne
      <4> QED
        BY <3>2, <3>3, <4>2, <4>3, LimiterAssumption
    <3>5. Level(a, t - now) = Level(h, t - u)
      <4>1. now - u \in Nat /\ t - now \in Nat /\ (now - u) + (t - now) = t - u
        BY <3>1, <3>4
      <4> QED
        BY <1>7, <3>1, <4>1, LevelComposes DEF h, u
    <3> QED
      BY <2>2, <3>2, <3>4, <3>5 DEF t
  <2> QED
    BY <1>10, <2>1, <2>2
<1>15. Told(k)'
  BY <1>8, <1>14 DEF Told, Held
<1>16. ASSUME NEW q \in Keys, q # k PROVE Past(q)' /\ Spent(q)' /\ Told(q)'
  <2>1. /\ tokens'[q] = tokens[q] /\ updated'[q] = updated[q]
        /\ start'[q] = start[q] /\ admitted'[q] = admitted[q]
        /\ retryAt'[q] = retryAt[q] /\ fullAt'[q] = fullAt[q]
        /\ q \in seen' <=> q \in seen
        /\ now' = now
    <3>1. q \in Keys \ {k}
      BY <1>16
    <3>2. q \in seen' <=> q \in seen
      BY <1>8, <3>1
    <3> QED
      BY <1>8, <1>9, <1>10, <3>1, <3>2
  <2>2. Past(q) /\ Spent(q) /\ Told(q)
    BY <1>1
  <2> QED
    BY <2>1, <2>2, OthersKeep
<1> QED
  BY <1>11, <1>12, <1>13, <1>15, <1>16 DEF IInv

(* Time passes: no bucket gains more than the rate (_refill).              *)
LEMMA ClockStep == IInv /\ Tick => IInv'
<1> SUFFICES ASSUME IInv, Tick PROVE IInv'
  OBVIOUS
<1>1. TypeOK /\ \A k \in Keys : Past(k) /\ Spent(k) /\ Told(k)
  BY DEF IInv
<1>2. /\ now' = now + 1
      /\ UNCHANGED <<seen, tokens, updated, start, admitted, retryAt, fullAt>>
  BY DEF Tick, buckets, history
<1>3. TypeOK'
  BY <1>1, <1>2 DEF TypeOK
<1>4. ASSUME NEW k \in Keys PROVE Past(k)' /\ Told(k)'
  BY <1>1, <1>2 DEF Past, Told, Held, TypeOK
<1>5. ASSUME NEW k \in Keys PROVE Spent(k)'
  <2> DEFINE h == tokens[k]
             age == now - updated[k]
             since == now - start[k]
  <2>1. /\ h \in 0..Full /\ age \in Nat /\ since \in Nat
        /\ (now + 1) - updated[k] = age + 1
        /\ (now + 1) - start[k] = since + 1
    BY <1>1 DEF TypeOK, Past
  <2>2. admitted[k] * Unit + Level(h, age) <= Full + Rate * since
    BY <1>1 DEF Spent, Held
  <2>3. /\ Held(k, now)' = Level(h, age + 1)
        /\ now' - start'[k] = since + 1
        /\ admitted'[k] = admitted[k]
    BY <1>2, <2>1 DEF Held
  <2>4. admitted[k] * Unit \in Nat
    BY <1>1, LimiterAssumption DEF TypeOK
  <2> HIDE DEF h, age, since
  <2>5. Level(h, age + 1) <= Level(h, age) + Rate * 1
    BY <2>1, LevelGrows
  <2>6. Level(h, age) \in 0..Full /\ Level(h, age + 1) \in 0..Full
    <3>1. Level(h, age) \in 0..Full
      BY <2>1, LevelBounded
    <3>2. age + 1 \in Nat
      BY <2>1
    <3>3. Level(h, age + 1) \in 0..Full
      BY <2>1, <3>2, LevelBounded
    <3> QED
      BY <3>1, <3>3
  <2>7. Rate * (since + 1) = Rate * since + Rate /\ Rate * since \in Nat /\ Rate * 1 = Rate
    BY <2>1, LimiterAssumption
  <2>8. admitted[k] * Unit + Level(h, age + 1) <= Full + Rate * (since + 1)
    <3> DEFINE spent == admitted[k] * Unit
               refill == Rate * since
               before == Level(h, age)
               after == Level(h, age + 1)
    <3>1. /\ spent \in Nat /\ refill \in Nat /\ before \in Int /\ after \in Int
          /\ Rate \in Nat /\ Full \in Nat
      BY <2>4, <2>6, <2>7, FullHoldsOne, LimiterAssumption
    <3>2. spent + before <= Full + refill /\ after <= before + Rate
      BY <2>2, <2>5, <2>7
    <3>3. Rate * (since + 1) = refill + Rate
      BY <2>7
    <3> HIDE DEF spent, refill, before, after
    <3>4. spent + after <= Full + (refill + Rate)
      BY <3>1, <3>2
    <3> QED
      BY <3>3, <3>4 DEF spent, after
  <2> QED
    BY <2>3, <2>8 DEF Spent
<1> QED
  BY <1>3, <1>4, <1>5 DEF IInv

(* Whenever one starts to look, there is at most a burst to give away.     *)
LEMMA ObserveStep ==
    ASSUME IInv, NEW k \in Keys, Observe(k)
    PROVE  IInv'
<1>1. TypeOK /\ \A q \in Keys : Past(q) /\ Spent(q) /\ Told(q)
  BY DEF IInv
<1>2. /\ UNCHANGED <<now, seen, tokens, updated, retryAt, fullAt>>
      /\ start' = [start EXCEPT ![k] = now]
      /\ admitted' = [admitted EXCEPT ![k] = 0]
  BY DEF Observe, buckets
<1>3. TypeOK'
  BY <1>1, <1>2 DEF TypeOK
<1>4. start'[k] = now /\ admitted'[k] = 0
  BY <1>1, <1>2 DEF TypeOK
<1>5. Past(k)' /\ Told(k)'
  BY <1>1, <1>2, <1>4 DEF Past, Told, Held, TypeOK
<1>6. Spent(k)'
  <2>1. Held(k, now)' = Held(k, now) /\ Held(k, now) \in 0..Full
    BY <1>2, RefilledIsHeld DEF Held
  <2>2. 0 * Unit = 0 /\ now - now = 0 /\ Rate * 0 = 0
    BY <1>1, LimiterAssumption DEF TypeOK
  <2>3. 0 * Unit + Held(k, now) <= Full + Rate * (now - now)
    BY <2>1, <2>2, FullHoldsOne
  <2> QED
    BY <1>2, <1>4, <2>1, <2>3 DEF Spent
<1>7. ASSUME NEW q \in Keys, q # k PROVE Past(q)' /\ Spent(q)' /\ Told(q)'
  <2>1. start'[q] = start[q] /\ admitted'[q] = admitted[q]
    BY <1>1, <1>2, <1>7 DEF TypeOK
  <2> QED
    BY <1>1, <1>2, <2>1, OthersKeep
<1> QED
  BY <1>3, <1>5, <1>6, <1>7 DEF IInv

(* A new process has full buckets.                                         *)
LEMMA InitIInv == Init => IInv
<1> SUFFICES ASSUME Init PROVE IInv
  OBVIOUS
<1>1. TypeOK
  BY FullHoldsOne DEF Init, TypeOK
<1>2. ASSUME NEW k \in Keys PROVE Past(k) /\ Spent(k) /\ Told(k)
  <2>1. /\ tokens[k] = Full /\ updated[k] = 0 /\ now = 0 /\ start[k] = 0
        /\ admitted[k] = 0 /\ retryAt[k] = Never /\ fullAt[k] = 0
    BY DEF Init
  <2>2. Level(Full, 0) = Full /\ 0 - 0 = 0 /\ 0 * Unit = 0 /\ Rate * 0 = 0
    BY LevelBounded, FullHoldsOne, LimiterAssumption
  <2>3. Held(k, 0) = Full
    BY <2>1, <2>2 DEF Held
  <2> QED
    BY <2>1, <2>2, <2>3, FullHoldsOne DEF Past, Spent, Told
<1> QED
  BY <1>1, <1>2 DEF IInv

-----------------------------------------------------------------------------
(* Every step keeps the clock ahead of what was written down, nobody ahead *)
(* of burst and refill, and what the headers said true.                    *)
LEMMA NextKeeps ==
    ASSUME IInv, [Next]_vars
    PROVE  IInv'
<1>1. ASSUME NEW k \in Keys, Admit(k) PROVE IInv'
  BY <1>1, AdmitStep
<1>2. ASSUME NEW k \in Keys, Refuse(k) PROVE IInv'
  BY <1>2, RefuseStep
<1>3. ASSUME NEW k \in Keys, Observe(k) PROVE IInv'
  BY <1>3, ObserveStep
<1>4. CASE Tick
  BY <1>4, ClockStep
<1>5. CASE UNCHANGED vars
  BY <1>5 DEF vars, buckets, history, IInv, TypeOK, Past, Spent, Told, Held
<1> QED
  BY <1>1, <1>2, <1>3, <1>4, <1>5 DEF Next

(* The inductive invariant holds throughout: the clock is ahead of what was *)
(* written down, nobody is ahead of burst and refill, and what the headers  *)
(* said still holds.                                                        *)
THEOREM Invariance == Spec => []IInv
<1>1. Init => IInv
  BY InitIInv
<1>2. IInv /\ [Next]_vars => IInv'
  BY NextKeeps
<1> QED
  BY <1>1, <1>2, PTL DEF Spec

(* Type correctness: a bucket never holds more than its capacity nor less  *)
(* than nothing.                                                           *)
THEOREM TypeCorrect == Spec => []TypeOK
  BY Invariance, PTL DEF IInv

(* Over any interval, of any length, a caller gets at most a burst plus    *)
(* the refill (TokenBucket).                                               *)
THEOREM WindowBounded == Spec => []WindowBound
<1>1. IInv => WindowBound
  <2> SUFFICES ASSUME IInv, NEW k \in Keys
               PROVE  admitted[k] * Unit <= Full + Rate * (now - start[k])
    BY DEF WindowBound
  <2>1. admitted[k] * Unit + Held(k, now) <= Full + Rate * (now - start[k])
    BY DEF IInv, Spent
  <2>2. Held(k, now) \in 0..Full
    BY RefilledIsHeld
  <2>3. admitted[k] * Unit \in Int /\ Full + Rate * (now - start[k]) \in Int
    BY FullHoldsOne, LimiterAssumption DEF IInv, TypeOK
  <2> QED
    BY <2>1, <2>2, <2>3, FullHoldsOne
<1> QED
  BY <1>1, Invariance, PTL

(* What a bucket will hold at a promised time it holds ever after.         *)
LEMMA HeldLater ==
    ASSUME IInv, NEW k \in Keys, NEW t \in Nat, t >= updated[k], now >= t
    PROVE  Held(k, t) <= Held(k, now) /\ Held(k, t) \in 0..Full
<1>1. /\ tokens[k] \in 0..Full /\ updated[k] \in Nat /\ now \in Nat
  BY DEF IInv, TypeOK
<1>2. /\ t - updated[k] \in Nat /\ now - t \in Nat
      /\ (t - updated[k]) + (now - t) = now - updated[k]
  BY <1>1
<1> QED
  BY <1>1, <1>2, LevelGrows, LevelBounded DEF Held

(* Retry-After keeps its word, for any capacity and rate.                  *)
THEOREM RetryAfterComesTrue == Spec => []RetryAfterKept
<1>1. IInv => RetryAfterKept
  <2> SUFFICES ASSUME IInv, NEW k \in Keys, retryAt[k] # Never, now >= retryAt[k]
               PROVE  Refilled(k, now) >= Unit
    BY DEF RetryAfterKept
  <2>1. retryAt[k] \in Nat /\ retryAt[k] >= updated[k] /\ Held(k, retryAt[k]) >= Unit
    BY DEF IInv, TypeOK, Told
  <2>2. Held(k, retryAt[k]) <= Held(k, now) /\ Held(k, retryAt[k]) \in 0..Full
    BY <2>1, HeldLater
  <2> QED
    BY <2>1, <2>2, RefilledIsHeld, FullHoldsOne, LimiterAssumption
<1> QED
  BY <1>1, Invariance, PTL

(* X-RateLimit-Reset keeps its word, for any capacity and rate.            *)
THEOREM ResetComesTrue == Spec => []ResetKept
<1>1. IInv => ResetKept
  <2> SUFFICES ASSUME IInv, NEW k \in Keys, now >= fullAt[k]
               PROVE  Refilled(k, now) = Full
    BY DEF ResetKept
  <2>1. fullAt[k] \in Nat /\ fullAt[k] >= updated[k] /\ Held(k, fullAt[k]) = Full
    BY DEF IInv, TypeOK, Told
  <2>2. Held(k, fullAt[k]) <= Held(k, now)
    BY <2>1, HeldLater
  <2> QED
    BY <2>1, <2>2, RefilledIsHeld, FullHoldsOne
<1> QED
  BY <1>1, Invariance, PTL

-----------------------------------------------------------------------------
(* RateLimiter implements BucketContract.                                  *)

Levels == [k \in Keys |-> Refilled(k, now)]
Denied == {k \in Keys : retryAt[k] # Never}

(* A bucket refilled on demand holds what one that fills all the time      *)
(* does, before a step and after it (_refill).                             *)
Seamless == Levels = [k \in Keys |-> Held(k, now)]

LEMMA LevelsAreHeld == (IInv => Seamless) /\ (IInv' => Seamless')
<1>1. IInv => Seamless
  BY RefilledIsHeld DEF Levels, Seamless
<1> QED
  BY <1>1, PTL

(* After a take the bucket holds what the take left, as if it had been     *)
(* filled all along, and so do the others (_refill, take).                 *)
LEMMA TakeIsSeen ==
    ASSUME IInv, IInv', NEW k \in Keys, NEW left \in 0..Full,
           Left(k, left), now' = now
    PROVE  Levels' = [Levels EXCEPT ![k] = left]
<1>1. /\ tokens'[k] = left /\ updated'[k] = now
      /\ \A q \in Keys \ {k} : tokens'[q] = tokens[q] /\ updated'[q] = updated[q]
  BY LeftTypes
<1>2. now - now = 0 /\ Level(left, 0) = left
  BY LevelBounded DEF IInv, TypeOK
<1>3. Held(k, now)' = left
  BY <1>1, <1>2 DEF Held
<1>4. ASSUME NEW q \in Keys, q # k PROVE Held(q, now)' = Held(q, now)
  BY <1>1, <1>4 DEF Held
<1> QED
  BY <1>3, <1>4, LevelsAreHeld DEF Seamless

(* What time adds to a bucket does not depend on when it was last looked   *)
(* at (_refill).                                                           *)
LEMMA TickFills ==
    ASSUME IInv, IInv', Tick, NEW k \in Keys
    PROVE  Held(k, now)' = IF Held(k, now) + Rate > Full THEN Full
                                                         ELSE Held(k, now) + Rate
<1>1. /\ tokens[k] \in 0..Full /\ updated[k] \in Nat /\ now \in Nat
      /\ updated[k] <= now
  BY DEF IInv, TypeOK, Past
<1>2. /\ tokens'[k] = tokens[k] /\ updated'[k] = updated[k] /\ now' = now + 1
  BY DEF Tick, buckets
<1>3. /\ now - updated[k] \in Nat /\ (now + 1) - updated[k] = (now - updated[k]) + 1
  BY <1>1
<1>4. Held(k, now)' = Level(Held(k, now), 1)
  BY <1>1, <1>2, <1>3, LevelComposes DEF Held
<1>5. 1 * Rate = Rate
  BY LimiterAssumption
<1> QED
  BY <1>4, <1>5 DEF Level

(* A request that is admitted takes its token out of a bucket that held    *)
(* it (check, take).                                                       *)
LEMMA AdmitGrants ==
    ASSUME IInv, IInv', NEW k \in Keys, Admit(k)
    PROVE  Contract!Grant(k)
<1>1. Refilled(k, now) \in 0..Full /\ Refilled(k, now) >= Unit
  BY RefilledIsHeld DEF Admit
<1>2. Refilled(k, now) - Unit \in 0..Full
  BY <1>1, FullHoldsOne, LimiterAssumption
<1>3. Levels' = [Levels EXCEPT ![k] = Refilled(k, now) - Unit]
  BY <1>2, TakeIsSeen DEF Admit
<1>4. Levels[k] = Refilled(k, now)
  BY DEF Levels
<1>5. Denied' = Denied \ {k}
  BY DEF Admit, Denied, IInv, TypeOK
<1> QED
  BY <1>1, <1>3, <1>4, <1>5 DEF Contract!Grant, Levels, Denied

(* A request is refused only when the bucket holds less than a token, and  *)
(* a refusal leaves what it holds alone (check, take).                     *)
LEMMA RefuseDenies ==
    ASSUME IInv, IInv', NEW k \in Keys, Refuse(k)
    PROVE  Contract!Deny(k)
<1>1. Refilled(k, now) \in 0..Full /\ Refilled(k, now) < Unit
  BY RefilledIsHeld DEF Refuse
<1>2. Levels' = [Levels EXCEPT ![k] = Refilled(k, now)]
  BY <1>1, TakeIsSeen DEF Refuse
<1>3. Levels' = Levels /\ Levels[k] = Refilled(k, now)
  BY <1>2 DEF Levels
<1>4. Denied' = Denied \cup {k}
  <2> DEFINE told == now + RetryAfter(Refilled(k, now)) * Second
  <2>1. retryAt' = [retryAt EXCEPT ![k] = IF @ = Never \/ told < @ THEN told ELSE @]
    BY DEF Refuse
  <2>2. told # Never
    <3>1. RetryAfter(Refilled(k, now)) \in Nat
      BY <1>1, FullHoldsOne, LimiterAssumption, CeilCovers DEF RetryAfter
    <3> QED
      BY <3>1, LimiterAssumption DEF IInv, TypeOK, Never
  <2> HIDE DEF told
  <2> QED
    BY <2>1, <2>2 DEF Denied, IInv, TypeOK
<1> QED
  BY <1>1, <1>3, <1>4 DEF Contract!Deny, Levels, Denied

(* Every step of the limiter is a step of the contract or leaves it alone. *)
LEMMA StepRefines ==
    ASSUME IInv, IInv', [Next]_vars
    PROVE  [Contract!ContractNext]_(Contract!contractVars)
<1>1. ASSUME NEW k \in Keys, Admit(k) PROVE Contract!ContractNext
  BY <1>1, AdmitGrants DEF Contract!ContractNext
<1>2. ASSUME NEW k \in Keys, Refuse(k) PROVE Contract!ContractNext
  BY <1>2, RefuseDenies DEF Contract!ContractNext
<1>3. ASSUME NEW k \in Keys, Observe(k) PROVE UNCHANGED Contract!contractVars
  <2>1. UNCHANGED <<now, seen, tokens, updated, retryAt>>
    BY <1>3 DEF Observe, buckets
  <2>2. Levels' = Levels /\ Denied' = Denied
    BY <2>1 DEF Levels, Denied, Refilled
  <2> QED
    BY <2>2 DEF Contract!contractVars, Levels, Denied
<1>4. CASE Tick
  <2>1. Levels' = [k \in Keys |-> IF Levels[k] + Rate > Full THEN Full
                                                            ELSE Levels[k] + Rate]
    BY <1>4, LevelsAreHeld, TickFills DEF Seamless
  <2>2. Denied' = Denied
    BY <1>4 DEF Tick, history, Denied
  <2>3. Contract!Fill
    BY <2>1, <2>2 DEF Contract!Fill, Levels, Denied
  <2> QED
    BY <2>3 DEF Contract!ContractNext
<1>5. CASE UNCHANGED vars
  <2>1. Levels' = Levels /\ Denied' = Denied
    BY <1>5 DEF vars, buckets, history, Levels, Denied, Refilled
  <2> QED
    BY <2>1 DEF Contract!contractVars, Levels, Denied
<1> QED
  BY <1>1, <1>2, <1>3, <1>4, <1>5 DEF Next

(* To a caller the bucket made and refilled on demand is one that fills    *)
(* all the time: for any capacity, any rate, any number of callers, and    *)
(* however often each of them asks (TokenBucket, InMemoryRateLimiter).     *)
THEOREM ContractKept == Spec => KeepsContract
<1>1. Init => Contract!ContractInit
  <2> SUFFICES ASSUME Init PROVE Contract!ContractInit
    OBVIOUS
  <2>1. Levels = [k \in Keys |-> Full] /\ Denied = {}
    BY DEF Init, Levels, Denied, Refilled
  <2> QED
    BY <2>1 DEF Contract!ContractInit, Levels, Denied
<1>2. IInv /\ IInv' /\ [Next]_vars => [Contract!ContractNext]_(Contract!contractVars)
  BY StepRefines
<1> QED
  BY <1>1, <1>2, Invariance, PTL DEF Spec, KeepsContract, Contract!BucketSpec

=============================================================================
