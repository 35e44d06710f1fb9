---------------------------- MODULE ServerProofs ----------------------------
(***************************************************************************)
(* LimiterInv is inductive, and the limits follow from it, for any number  *)
(* of keys, any capacities and refills, and any length of time.  The       *)
(* server carries it over: ServerInv is inductive, and its safety          *)
(* properties follow from it, for any number of requests and keys.         *)
(***************************************************************************)
EXTENDS Server, FiniteSetTheorems, TLAPS

-----------------------------------------------------------------------------
(***************************************************************************)
(* The rate limiter.                                                       *)
(***************************************************************************)
(* Arithmetic.                                                             *)
LEMMA ZeroTimes == ASSUME NEW r \in Nat PROVE 0 * r = 0
  OBVIOUS

LEMMA OneMore == ASSUME NEW n \in Nat, NEW r \in Nat PROVE (n + 1) * r = n * r + r
  OBVIOUS

LEMMA Product == ASSUME NEW n \in Nat, NEW r \in Nat PROVE n * r \in Nat
  OBVIOUS

LEMMA Longer == ASSUME NEW m \in Nat, NEW n \in Nat, NEW r \in Nat, m <= n PROVE m * r <= n * r
  <1>1. n - m \in Nat /\ n = m + (n - m)
    OBVIOUS
  <1>2. n * r = m * r + (n - m) * r
    BY <1>1
  <1>3. m * r \in Nat /\ (n - m) * r \in Nat
    BY <1>1, Product
  <1> QED
    BY <1>2, <1>3

(* What a refill returns.                                                  *)
LEMMA RefillLevel ==
  ASSUME now \in Nat, NEW b \in Buckets, NEW c \in Nat, NEW r \in Nat, b.level <= c, b.last <= now
  PROVE  /\ Refilled(b, c, r) \in Buckets
         /\ Refilled(b, c, r).level <= c
         /\ Refilled(b, c, r).level >= b.level
         /\ Refilled(b, c, r).last = now
         /\ b.last = now => Refilled(b, c, r).level = b.level
  <1>1. b.level \in Nat /\ b.last \in Nat /\ now - b.last \in Nat
    BY DEF Buckets
  <1>2. PICK p \in Nat : p = (now - b.last) * r
    BY <1>1, Product
  <1>3. b.last = now => p = 0
    BY <1>1, <1>2, ZeroTimes
  <1> DEFINE l == MinOf(c, b.level + p)
  <1>4. l \in Nat /\ l <= c /\ l >= b.level /\ (b.last = now => l = b.level)
    BY <1>1, <1>3 DEF MinOf
  <1>5. Refilled(b, c, r) = [level |-> l, last |-> now]
    BY <1>2 DEF Refilled
  <1> QED
    BY <1>4, <1>5 DEF Buckets

(* A tick later a bucket has refilled by one tick's worth at most, and is  *)
(* no emptier.                                                             *)
LEMMA RefillTick ==
  ASSUME now \in Nat, now' = now + 1,
         NEW b \in Buckets, NEW c \in Nat, NEW r \in Nat, b.level <= c, b.last <= now
  PROVE  Refilled(b, c, r)'.level <= Refilled(b, c, r).level + r
  <1>1. b.level \in Nat /\ b.last \in Nat /\ now - b.last \in Nat
    BY DEF Buckets
  <1>2. (now - b.last) * r \in Nat
    BY <1>1, Product
  <1>3. now' - b.last = (now - b.last) + 1
    BY <1>1
  <1>4. (now' - b.last) * r = (now - b.last) * r + r
    BY <1>1, <1>3, OneMore
  <1>5. Refilled(b, c, r).level = MinOf(c, b.level + (now - b.last) * r)
    BY DEF Refilled
  <1>6. Refilled(b, c, r)'.level = MinOf(c, b.level + (now' - b.last) * r)
    BY DEF Refilled
  <1>7. MinOf(c, b.level + ((now - b.last) * r + r)) <= MinOf(c, b.level + (now - b.last) * r) + r
    BY <1>1, <1>2 DEF MinOf
  <1> QED
    BY <1>4, <1>5, <1>6, <1>7

(* After a long time a bucket is full.                                     *)
LEMMA RefillFull ==
  ASSUME now \in Nat, NEW b \in Buckets, NEW c \in Nat, NEW r \in Nat, b.level <= c,
         NEW t \in Nat, c <= t * r, b.last + t <= now
  PROVE  Refilled(b, c, r).level = c
  <1>1. b.level \in Nat /\ b.last \in Nat /\ now - b.last \in Nat /\ t <= now - b.last
    BY DEF Buckets
  <1>2. t * r <= (now - b.last) * r
    BY <1>1, Longer
  <1>3. t * r \in Nat /\ (now - b.last) * r \in Nat
    BY <1>1, Product
  <1>4. MinOf(c, b.level + (now - b.last) * r) = c
    BY <1>1, <1>2, <1>3 DEF MinOf
  <1> QED
    BY <1>4 DEF Refilled

LEMMA ChargedBucket ==
  ASSUME NEW b \in Buckets, NEW n \in Nat, n <= b.level
  PROVE  /\ Charged(b, n) \in Buckets
         /\ Charged(b, n).level = b.level - n
         /\ Charged(b, n).last = b.last
  <1>1. b = [level |-> b.level, last |-> b.last] /\ b.level \in Nat /\ b.last \in Nat
    BY DEF Buckets
  <1>2. Charged(b, n) = [level |-> b.level - n, last |-> b.last]
    BY <1>1 DEF Charged
  <1> QED
    BY <1>1, <1>2 DEF Buckets

LEMMA FullBucket ==
  ASSUME now \in Nat, NEW c \in Nat
  PROVE  Full(c) \in Buckets /\ Full(c).level = c /\ Full(c).last = now
  BY DEF Full, Buckets

LEMMA RefillOfFull ==
  ASSUME now \in Nat, NEW c \in Nat, NEW r \in Nat
  PROVE  Refilled(Full(c), c, r).level = c
  <1>1. PICK b \in Buckets : b = Full(c) /\ b.level = c /\ b.last = now
    BY FullBucket
  <1>2. b.level <= c /\ b.last <= now
    BY <1>1
  <1> QED
    BY <1>1, <1>2, RefillLevel
-----------------------------------------------------------------------------
(* The buckets of a key, and what they hold now.                           *)
LEMMA KeyBuckets ==
  ASSUME LimiterTypeOK, Filled, NEW k \in Keys
  PROVE  /\ RequestBucket(k) \in Buckets /\ TokenBucket(k) \in Buckets
         /\ RequestBucket(k).level <= RequestCapacity /\ TokenBucket(k).level <= TokenCapacity
         /\ RequestBucket(k).last <= now /\ TokenBucket(k).last <= now
  <1>1. now \in Nat /\ RequestCapacity \in Nat /\ TokenCapacity \in Nat
    BY LimitsAssumption DEF LimiterTypeOK
  <1>2. CASE k \in DOMAIN lastSeen
    <2>1. RequestBucket(k) = requestBuckets[k] /\ TokenBucket(k) = tokenBuckets[k]
      BY <1>2 DEF RequestBucket, TokenBucket, LimiterTypeOK
    <2>2. requestBuckets[k] \in Buckets /\ tokenBuckets[k] \in Buckets /\ lastSeen[k] \in Nat
      BY <1>2 DEF LimiterTypeOK
    <2>3. /\ requestBuckets[k].level <= RequestCapacity /\ tokenBuckets[k].level <= TokenCapacity
          /\ requestBuckets[k].last <= lastSeen[k] /\ tokenBuckets[k].last <= lastSeen[k]
          /\ lastSeen[k] <= now
      BY <1>2 DEF Filled
    <2>4. requestBuckets[k].last \in Nat /\ tokenBuckets[k].last \in Nat
      BY <2>2 DEF Buckets
    <2> QED
      BY <1>1, <2>1, <2>2, <2>3, <2>4
  <1>3. CASE k \notin DOMAIN lastSeen
    <2>1. RequestBucket(k) = Full(RequestCapacity) /\ TokenBucket(k) = Full(TokenCapacity)
      BY <1>3 DEF RequestBucket, TokenBucket, LimiterTypeOK
    <2> QED
      BY <1>1, <2>1, FullBucket
  <1> QED
    BY <1>2, <1>3

LEMMA KeyLevels ==
  ASSUME LimiterTypeOK, Filled, NEW k \in Keys
  PROVE  /\ RequestsNow(k) \in Buckets /\ TokensNow(k) \in Buckets
         /\ RequestsNow(k).level \in Nat /\ TokensNow(k).level \in Nat
         /\ RequestsNow(k).level <= RequestCapacity /\ TokensNow(k).level <= TokenCapacity
         /\ RequestsNow(k).last = now /\ TokensNow(k).last = now
  <1>1. now \in Nat /\ {RequestCapacity, TokenCapacity, RequestRefill, TokenRefill} \subseteq Nat
    BY LimitsAssumption DEF LimiterTypeOK
  <1> QED
    BY <1>1, KeyBuckets, RefillLevel DEF RequestsNow, TokensNow, Buckets

LEMMA KeyLevelsNext ==
  LimiterTypeOK' /\ Filled' =>
    \A k \in Keys :
      /\ RequestsNow(k)'.level \in Nat /\ TokensNow(k)'.level \in Nat
      /\ RequestsNow(k)'.level <= RequestCapacity /\ TokensNow(k)'.level <= TokenCapacity
  <1> DEFINE Levels == \A k \in Keys :
                         /\ RequestsNow(k).level \in Nat /\ TokensNow(k).level \in Nat
                         /\ RequestsNow(k).level <= RequestCapacity
                         /\ TokensNow(k).level <= TokenCapacity
  <1>1. LimiterTypeOK /\ Filled => Levels
    BY KeyLevels
  <1> HIDE DEF Levels
  <1>2. LimiterTypeOK' /\ Filled' => Levels'
    BY <1>1, PTL
  <1> QED
    BY <1>2 DEF Levels

(* Setting the buckets of a key: the others are untouched.                 *)
LEMMA SetOne ==
  ASSUME LimiterTypeOK, Filled, NEW k \in Keys, NEW rb \in Buckets, NEW tb \in Buckets,
         rb.level <= RequestCapacity, tb.level <= TokenCapacity, rb.last <= now, tb.last <= now,
         SetBuckets(k, rb, tb), now' = now, UNCHANGED concurrent,
         windowStart' \in Nat, {windowRequests, windowTokens}' \subseteq [Keys -> Nat]
  PROVE  /\ LimiterTypeOK' /\ Filled'
         /\ RequestsNow(k)' = Refilled(rb, RequestCapacity, RequestRefill)
         /\ TokensNow(k)' = Refilled(tb, TokenCapacity, TokenRefill)
         /\ \A j \in Keys \ {k} : RequestsNow(j)' = RequestsNow(j) /\ TokensNow(j)' = TokensNow(j)
  <1>1. /\ DOMAIN lastSeen' = DOMAIN lastSeen \cup {k}
        /\ DOMAIN requestBuckets' = DOMAIN lastSeen \cup {k}
        /\ DOMAIN tokenBuckets' = DOMAIN lastSeen \cup {k}
    BY DEF SetBuckets, With, LimiterTypeOK
  <1>2. requestBuckets'[k] = rb /\ tokenBuckets'[k] = tb /\ lastSeen'[k] = now
    BY DEF SetBuckets, With
  <1>3. ASSUME NEW j \in DOMAIN lastSeen, j # k
        PROVE  /\ requestBuckets'[j] = requestBuckets[j] /\ tokenBuckets'[j] = tokenBuckets[j]
               /\ lastSeen'[j] = lastSeen[j]
    BY <1>3 DEF SetBuckets, With, LimiterTypeOK
  <1>4. LimiterTypeOK'
    BY <1>1, <1>2, <1>3 DEF LimiterTypeOK
  <1>5. Filled'
    BY <1>1, <1>2, <1>3 DEF Filled, LimiterTypeOK
  <1>6. RequestsNow(k)' = Refilled(rb, RequestCapacity, RequestRefill)
    BY <1>1, <1>2 DEF RequestsNow, RequestBucket, Refilled
  <1>7. TokensNow(k)' = Refilled(tb, TokenCapacity, TokenRefill)
    BY <1>1, <1>2 DEF TokensNow, TokenBucket, Refilled
  <1>8. ASSUME NEW j \in Keys \ {k}
        PROVE  RequestsNow(j)' = RequestsNow(j) /\ TokensNow(j)' = TokensNow(j)
    <2>1. CASE j \in DOMAIN lastSeen
      BY <1>1, <1>3, <2>1 DEF RequestsNow, TokensNow, RequestBucket, TokenBucket, Refilled, LimiterTypeOK
    <2>2. CASE j \notin DOMAIN lastSeen
      BY <1>1, <2>2 DEF RequestsNow, TokensNow, RequestBucket, TokenBucket, Refilled, Full, LimiterTypeOK
    <2> QED
      BY <2>1, <2>2
  <1> QED
    BY <1>4, <1>5, <1>6, <1>7, <1>8
-----------------------------------------------------------------------------
(* The burst and the refill so far cover w grants of cost c and level l.   *)
LEMMA Allowance ==
  ASSUME LimiterTypeOK
  PROVE  /\ Elapsed \in Nat
         /\ Elapsed * RequestRefill \in Nat /\ Elapsed * TokenRefill \in Nat
         /\ RequestCapacity \in Nat /\ TokenCapacity \in Nat
  <1>1. Elapsed \in Nat
    BY DEF LimiterTypeOK, Elapsed
  <1> QED
    BY <1>1, Product, LimitsAssumption

LEMMA InitLimiterInv == ASSUME LimiterInit PROVE LimiterInv
  <1>1. LimiterTypeOK
    BY LimitsAssumption DEF LimiterInit, LimiterTypeOK
  <1>2. Filled
    BY DEF LimiterInit, Filled
  <1>3. Covered
    <2> SUFFICES ASSUME NEW k \in Keys
                 PROVE  /\ windowRequests[k] * RequestCost + RequestsNow(k).level
                              <= RequestCapacity + Elapsed * RequestRefill
                        /\ windowTokens[k] + TokensNow(k).level
                              <= TokenCapacity + Elapsed * TokenRefill
                        /\ windowRequests[k] = 0 /\ windowTokens[k] = 0
      BY DEF Covered
    <2>1. windowRequests[k] = 0 /\ windowTokens[k] = 0
      BY DEF LimiterInit
    <2>2. 0 * RequestCost = 0
      BY ZeroTimes, LimitsAssumption
    <2>3. /\ RequestsNow(k).level \in Nat /\ RequestsNow(k).level <= RequestCapacity
          /\ TokensNow(k).level \in Nat /\ TokensNow(k).level <= TokenCapacity
      BY <1>1, <1>2, KeyLevels
    <2>4. /\ Elapsed * RequestRefill \in Nat /\ Elapsed * TokenRefill \in Nat
          /\ RequestCapacity \in Nat /\ TokenCapacity \in Nat
      BY <1>1, Allowance
    <2>5. /\ windowRequests[k] * RequestCost = 0
      BY <2>1, <2>2
    <2> QED
      BY <2>1, <2>3, <2>4, <2>5
  <1> QED
    BY <1>1, <1>2, <1>3 DEF LimiterInv

(* A grant takes from the level what it adds to the window.                *)
LEMMA GrantKeepsInv ==
  ASSUME LimiterInv, NEW k \in Keys, NEW n \in Estimates, Grant(k, n)
  PROVE  LimiterInv'
  <1>1. LimiterTypeOK /\ Filled /\ Covered
    BY DEF LimiterInv
  <1>2. /\ RequestsNow(k) \in Buckets /\ TokensNow(k) \in Buckets
        /\ RequestsNow(k).level \in Nat /\ TokensNow(k).level \in Nat
        /\ RequestsNow(k).level <= RequestCapacity /\ TokensNow(k).level <= TokenCapacity
        /\ RequestsNow(k).last = now /\ TokensNow(k).last = now
    BY <1>1, KeyLevels
  <1>3. /\ TokenBucket(k) \in Buckets /\ TokenBucket(k).level <= TokenCapacity
        /\ TokenBucket(k).last <= now
    BY <1>1, KeyBuckets
  <1>4. /\ now \in Nat /\ windowStart \in Nat /\ n \in Nat /\ RequestCost \in Nat
        /\ RequestCapacity \in Nat /\ TokenCapacity \in Nat
        /\ RequestRefill \in Nat /\ TokenRefill \in Nat
        /\ windowRequests \in [Keys -> Nat] /\ windowTokens \in [Keys -> Nat]
    BY <1>1, LimitsAssumption DEF LimiterTypeOK
  <1>5. /\ RequestsNow(k).level >= RequestCost
        /\ n = 0 \/ TokensNow(k).level >= n
        /\ SetBuckets(k, Charged(RequestsNow(k), RequestCost), TokensAfter(k, n))
        /\ IF now >= windowStart
              THEN /\ windowRequests' = [windowRequests EXCEPT ![k] = @ + 1]
                   /\ windowTokens' = [windowTokens EXCEPT ![k] = @ + n]
              ELSE UNCHANGED <<windowRequests, windowTokens>>
        /\ UNCHANGED concurrent /\ now' = now /\ windowStart' = windowStart
    BY DEF Grant, HasRequest, HasTokens
  <1>6. PICK rb \in Buckets : /\ rb = Charged(RequestsNow(k), RequestCost)
                              /\ rb.level = RequestsNow(k).level - RequestCost
                              /\ rb.last = now
    BY <1>2, <1>4, <1>5, ChargedBucket
  <1>7. PICK tb \in Buckets :
             /\ tb = TokensAfter(k, n)
             /\ tb.level <= TokenCapacity /\ tb.last <= now
             /\ Refilled(tb, TokenCapacity, TokenRefill).level = TokensNow(k).level - n
    <2>1. CASE n = 0
      <3>1. TokensAfter(k, n) = TokenBucket(k)
        BY <2>1 DEF TokensAfter
      <3>2. Refilled(TokenBucket(k), TokenCapacity, TokenRefill).level = TokensNow(k).level - n
        BY <1>2, <2>1 DEF TokensNow
      <3> QED
        BY <1>3, <3>1, <3>2
    <2>2. CASE n # 0
      <3>1. TokensAfter(k, n) = Charged(TokensNow(k), n)
        BY <2>2 DEF TokensAfter
      <3>2. PICK b \in Buckets : /\ b = Charged(TokensNow(k), n)
                                 /\ b.level = TokensNow(k).level - n /\ b.last = now
        BY <1>2, <1>4, <1>5, <2>2, ChargedBucket
      <3>3. b.level <= TokenCapacity /\ b.last <= now
        BY <1>2, <1>4, <3>2
      <3>4. Refilled(b, TokenCapacity, TokenRefill).level = b.level
        BY <1>4, <3>2, <3>3, RefillLevel
      <3> QED
        BY <3>1, <3>2, <3>3, <3>4
    <2> QED
      BY <2>1, <2>2
  <1>8. rb.level <= RequestCapacity /\ rb.last <= now
    BY <1>2, <1>4, <1>6
  <1>9. Refilled(rb, RequestCapacity, RequestRefill).level = RequestsNow(k).level - RequestCost
    BY <1>4, <1>6, <1>8, RefillLevel
  <1>10. windowStart' \in Nat /\ {windowRequests, windowTokens}' \subseteq [Keys -> Nat]
    BY <1>4, <1>5
  <1>11. /\ LimiterTypeOK' /\ Filled'
         /\ RequestsNow(k)' = Refilled(rb, RequestCapacity, RequestRefill)
         /\ TokensNow(k)' = Refilled(tb, TokenCapacity, TokenRefill)
         /\ \A j \in Keys \ {k} : RequestsNow(j)' = RequestsNow(j) /\ TokensNow(j)' = TokensNow(j)
    <2>1. SetBuckets(k, rb, tb)
      BY <1>5, <1>6, <1>7
    <2> QED
      BY <1>1, <1>5, <1>7, <1>8, <1>10, <2>1, SetOne
  <1>12. Elapsed' = Elapsed
    BY <1>5 DEF Elapsed
  <1>13. Covered'
    <2> SUFFICES ASSUME NEW j \in Keys
                 PROVE  /\ windowRequests'[j] * RequestCost + RequestsNow(j)'.level
                              <= RequestCapacity + Elapsed * RequestRefill
                        /\ windowTokens'[j] + TokensNow(j)'.level
                              <= TokenCapacity + Elapsed * TokenRefill
                        /\ now < windowStart => windowRequests'[j] = 0 /\ windowTokens'[j] = 0
      BY <1>5, <1>12 DEF Covered
    <2>1. /\ windowRequests[j] * RequestCost + RequestsNow(j).level
                <= RequestCapacity + Elapsed * RequestRefill
          /\ windowTokens[j] + TokensNow(j).level <= TokenCapacity + Elapsed * TokenRefill
          /\ now < windowStart => windowRequests[j] = 0 /\ windowTokens[j] = 0
      BY <1>1 DEF Covered
    <2>2. /\ windowRequests[j] \in Nat /\ windowTokens[j] \in Nat
          /\ windowRequests[j] * RequestCost \in Nat
      BY <1>4, Product
    <2>3. Elapsed * RequestRefill \in Nat /\ Elapsed * TokenRefill \in Nat
      BY <1>1, Allowance
    <2>4. RequestsNow(j).level \in Nat /\ TokensNow(j).level \in Nat
      BY <1>1, KeyLevels
    <2>5. CASE j # k
      <3>1. windowRequests'[j] = windowRequests[j] /\ windowTokens'[j] = windowTokens[j]
        BY <1>4, <1>5, <2>5
      <3>2. RequestsNow(j)' = RequestsNow(j) /\ TokensNow(j)' = TokensNow(j)
        BY <1>11, <2>5
      <3> QED
        BY <2>1, <3>1, <3>2
    <2>6. CASE j = k /\ now < windowStart
      <3>1. windowRequests'[j] = windowRequests[j] /\ windowTokens'[j] = windowTokens[j]
        BY <1>4, <1>5, <2>6
      <3>2. /\ RequestsNow(j)'.level = RequestsNow(j).level - RequestCost
            /\ TokensNow(j)'.level = TokensNow(j).level - n
        BY <1>7, <1>9, <1>11, <2>6
      <3>3. PICK w \in Nat : w = windowRequests[j] * RequestCost
        BY <2>2
      <3> QED
        BY <1>4, <2>1, <2>2, <2>3, <2>4, <3>1, <3>2, <3>3
    <2>7. CASE j = k /\ ~(now < windowStart)
      <3>1. windowRequests'[j] = windowRequests[j] + 1 /\ windowTokens'[j] = windowTokens[j] + n
        BY <1>4, <1>5, <2>7
      <3>2. /\ RequestsNow(j)'.level = RequestsNow(j).level - RequestCost
            /\ TokensNow(j)'.level = TokensNow(j).level - n
        BY <1>7, <1>9, <1>11, <2>7
      <3>3. PICK w \in Nat : w = windowRequests[j] * RequestCost
        BY <2>2
      <3>4. windowRequests'[j] * RequestCost = w + RequestCost
        BY <1>4, <2>2, <3>1, <3>3, OneMore
      <3>5. w + RequestCost + (RequestsNow(j).level - RequestCost)
              <= RequestCapacity + Elapsed * RequestRefill
        BY <1>4, <2>1, <2>3, <2>4, <3>3
      <3>6. windowTokens[j] + n + (TokensNow(j).level - n)
              <= TokenCapacity + Elapsed * TokenRefill
        BY <1>4, <2>1, <2>2, <2>3, <2>4
      <3> QED
        BY <2>7, <3>1, <3>2, <3>4, <3>5, <3>6
    <2> QED
      BY <2>5, <2>6, <2>7
  <1> QED
    BY <1>11, <1>13 DEF LimiterInv

(* A step that leaves what is granted and what every key could be granted. *)
LEMMA SameLevels ==
  ASSUME LimiterInv, LimiterTypeOK', Filled', UNCHANGED <<now, window>>,
         \A j \in Keys : /\ RequestsNow(j)'.level = RequestsNow(j).level
                         /\ TokensNow(j)'.level = TokensNow(j).level
  PROVE  LimiterInv'
  <1>1. Covered'
    BY DEF LimiterInv, Covered, window, Elapsed
  <1> QED
    BY <1>1 DEF LimiterInv

(* A refusal sets the key's buckets, to the same levels.                   *)
LEMMA RefuseSameLevels ==
  ASSUME LimiterTypeOK, Filled, NEW k \in Keys, NEW n \in Estimates, Refuse(k, n)
  PROVE  /\ LimiterTypeOK' /\ Filled'
         /\ \A j \in Keys : /\ RequestsNow(j)'.level = RequestsNow(j).level
                             /\ TokensNow(j)'.level = TokensNow(j).level
  <1>1. /\ RequestsNow(k) \in Buckets /\ TokensNow(k) \in Buckets
        /\ RequestsNow(k).level <= RequestCapacity /\ TokensNow(k).level <= TokenCapacity
        /\ RequestsNow(k).last = now /\ TokensNow(k).last = now
    BY KeyLevels
  <1>2. /\ RequestBucket(k) \in Buckets /\ TokenBucket(k) \in Buckets
        /\ RequestBucket(k).level <= RequestCapacity /\ TokenBucket(k).level <= TokenCapacity
        /\ RequestBucket(k).last <= now /\ TokenBucket(k).last <= now
    BY KeyBuckets
  <1>3. /\ now \in Nat /\ windowStart \in Nat
        /\ RequestCapacity \in Nat /\ TokenCapacity \in Nat
        /\ RequestRefill \in Nat /\ TokenRefill \in Nat
        /\ {windowRequests, windowTokens} \subseteq [Keys -> Nat]
    BY LimitsAssumption DEF LimiterTypeOK
  <1>4. /\ Refilled(RequestsNow(k), RequestCapacity, RequestRefill).level = RequestsNow(k).level
        /\ Refilled(TokensNow(k), TokenCapacity, TokenRefill).level = TokensNow(k).level
    <2>1. now <= now
      BY <1>3
    <2> QED
      BY <1>1, <1>3, <2>1, RefillLevel
  <1>5. PICK rb \in Buckets, tb \in Buckets :
             /\ SetBuckets(k, rb, tb)
             /\ rb \in {RequestBucket(k), RequestsNow(k)}
             /\ tb \in {TokenBucket(k), TokensNow(k)}
    BY <1>1, <1>2 DEF Refuse, RequestReturned
  <1>6. /\ rb.level <= RequestCapacity /\ tb.level <= TokenCapacity
        /\ rb.last <= now /\ tb.last <= now
    BY <1>1, <1>2, <1>3, <1>5
  <1>7. UNCHANGED <<concurrent, now, windowStart, windowRequests, windowTokens>>
    BY DEF Refuse, window
  <1>8. windowStart' \in Nat /\ {windowRequests, windowTokens}' \subseteq [Keys -> Nat]
    BY <1>3, <1>7
  <1>9. /\ LimiterTypeOK' /\ Filled'
        /\ RequestsNow(k)' = Refilled(rb, RequestCapacity, RequestRefill)
        /\ TokensNow(k)' = Refilled(tb, TokenCapacity, TokenRefill)
        /\ \A j \in Keys \ {k} : RequestsNow(j)' = RequestsNow(j) /\ TokensNow(j)' = TokensNow(j)
    BY <1>5, <1>6, <1>7, <1>8, SetOne
  <1>10. Refilled(rb, RequestCapacity, RequestRefill).level = RequestsNow(k).level
    BY <1>4, <1>5 DEF RequestsNow
  <1>11. Refilled(tb, TokenCapacity, TokenRefill).level = TokensNow(k).level
    BY <1>4, <1>5 DEF TokensNow
  <1> QED
    BY <1>9, <1>10, <1>11

(* acquire() and release() count, and touch no bucket.                     *)
LEMMA CountSameLevels ==
  ASSUME LimiterTypeOK, Filled, NEW k \in Keys, Acquire(k) \/ (Slots(k) > 0 /\ Release(k))
  PROVE  /\ LimiterTypeOK' /\ Filled'
         /\ \A j \in Keys : /\ RequestsNow(j)'.level = RequestsNow(j).level
                             /\ TokensNow(j)'.level = TokensNow(j).level
  <1>1. UNCHANGED <<requestBuckets, tokenBuckets, lastSeen, now, windowStart, windowRequests, windowTokens>>
    BY DEF Acquire, Release, buckets, window
  <1>2. /\ DOMAIN concurrent' \subseteq Keys
        /\ \A j \in DOMAIN concurrent' : concurrent'[j] \in Nat \ {0}
    <2>1. /\ DOMAIN concurrent \subseteq Keys /\ Slots(k) \in Nat
          /\ \A j \in DOMAIN concurrent : concurrent[j] \in Nat \ {0}
      BY DEF LimiterTypeOK, Slots
    <2>2. CASE Acquire(k)
      BY <2>1, <2>2 DEF Acquire, With
    <2>3. CASE Release(k) /\ Slots(k) - 1 > 0
      BY <2>1, <2>3 DEF Release, With
    <2>4. CASE Release(k) /\ ~(Slots(k) - 1 > 0)
      BY <2>1, <2>4 DEF Release, Restrict
    <2> QED
      BY <2>2, <2>3, <2>4
  <1>3. LimiterTypeOK'
    BY <1>1, <1>2 DEF LimiterTypeOK
  <1>4. Filled'
    BY <1>1 DEF Filled
  <1>5. \A j \in Keys : RequestsNow(j)' = RequestsNow(j) /\ TokensNow(j)' = TokensNow(j)
    BY <1>1 DEF RequestsNow, TokensNow, RequestBucket, TokenBucket, Refilled, Full
  <1> QED
    BY <1>3, <1>4, <1>5

(* gc() drops full buckets only, and an unknown key has full ones.         *)
LEMMA GcSameLevels ==
  ASSUME LimiterTypeOK, Filled, Gc
  PROVE  /\ LimiterTypeOK' /\ Filled'
         /\ \A j \in Keys : /\ RequestsNow(j)'.level = RequestsNow(j).level
                             /\ TokensNow(j)'.level = TokensNow(j).level
  <1>1. UNCHANGED <<concurrent, now, windowStart, windowRequests, windowTokens>>
    BY DEF Gc, window
  <1>2. Fresh \subseteq DOMAIN lastSeen
    BY DEF Fresh
  <1>3. /\ DOMAIN requestBuckets' = Fresh /\ DOMAIN tokenBuckets' = Fresh /\ DOMAIN lastSeen' = Fresh
        /\ \A j \in Fresh : /\ requestBuckets'[j] = requestBuckets[j]
                             /\ tokenBuckets'[j] = tokenBuckets[j]
                             /\ lastSeen'[j] = lastSeen[j]
    BY DEF Gc, Restrict
  <1>4. LimiterTypeOK'
    BY <1>1, <1>2, <1>3 DEF LimiterTypeOK
  <1>5. Filled'
    BY <1>1, <1>2, <1>3 DEF Filled
  <1>6. ASSUME NEW j \in Keys
        PROVE  /\ RequestsNow(j)'.level = RequestsNow(j).level
               /\ TokensNow(j)'.level = TokensNow(j).level
    <2>1. /\ now \in Nat /\ RequestCapacity \in Nat /\ TokenCapacity \in Nat
          /\ RequestRefill \in Nat /\ TokenRefill \in Nat /\ OlderThan \in Nat
      BY LimitsAssumption DEF LimiterTypeOK
    <2>2. CASE j \in Fresh
      BY <1>1, <1>2, <1>3, <2>2 DEF RequestsNow, TokensNow, RequestBucket, TokenBucket, Refilled, LimiterTypeOK
    <2>3. CASE j \notin DOMAIN lastSeen
      BY <1>1, <1>2, <1>3, <2>3 DEF RequestsNow, TokensNow, RequestBucket, TokenBucket, Refilled, Full, LimiterTypeOK
    <2>4. CASE j \in DOMAIN lastSeen \ Fresh
      <3>1. PICK rb \in Buckets, tb \in Buckets :
                 /\ rb = requestBuckets[j] /\ tb = tokenBuckets[j]
                 /\ rb.level <= RequestCapacity /\ tb.level <= TokenCapacity
                 /\ rb.last <= lastSeen[j] /\ tb.last <= lastSeen[j]
        BY <2>4 DEF LimiterTypeOK, Filled
      <3>2. lastSeen[j] \in Nat /\ lastSeen[j] < now - OlderThan
        BY <2>1, <2>4 DEF Fresh, LimiterTypeOK
      <3>3. rb.last + OlderThan <= now /\ tb.last + OlderThan <= now
        BY <2>1, <3>1, <3>2 DEF Buckets
      <3>4. /\ Refilled(rb, RequestCapacity, RequestRefill).level = RequestCapacity
            /\ Refilled(tb, TokenCapacity, TokenRefill).level = TokenCapacity
        BY <2>1, <3>1, <3>3, RefillFull, IdleAssumption
      <3>5. /\ RequestsNow(j) = Refilled(rb, RequestCapacity, RequestRefill)
            /\ TokensNow(j) = Refilled(tb, TokenCapacity, TokenRefill)
        BY <2>4, <3>1 DEF RequestsNow, TokensNow, RequestBucket, TokenBucket, LimiterTypeOK
      <3>6. /\ RequestsNow(j)' = Refilled(Full(RequestCapacity), RequestCapacity, RequestRefill)
            /\ TokensNow(j)' = Refilled(Full(TokenCapacity), TokenCapacity, TokenRefill)
        BY <1>1, <1>3, <2>4 DEF RequestsNow, TokensNow, RequestBucket, TokenBucket, Refilled, Full
      <3>7. /\ Refilled(Full(RequestCapacity), RequestCapacity, RequestRefill).level = RequestCapacity
            /\ Refilled(Full(TokenCapacity), TokenCapacity, TokenRefill).level = TokenCapacity
        BY <2>1, RefillOfFull
      <3> QED
        BY <3>4, <3>5, <3>6, <3>7
    <2> QED
      BY <2>2, <2>3, <2>4
  <1> QED
    BY <1>4, <1>5, <1>6

(* A tick: no bucket gains more than the allowance does, and before the    *)
(* period begins none holds more than its capacity.                        *)
LEMMA TickKeepsInv == ASSUME LimiterInv, Tick PROVE LimiterInv'
  <1>1. LimiterTypeOK /\ Filled /\ Covered
    BY DEF LimiterInv
  <1>2. /\ now' = now + 1 /\ UNCHANGED <<requestBuckets, tokenBuckets, lastSeen, concurrent>>
        /\ UNCHANGED <<windowStart, windowRequests, windowTokens>>
    BY DEF Tick, buckets, window
  <1>3. /\ now \in Nat /\ windowStart \in Nat
        /\ RequestCapacity \in Nat /\ TokenCapacity \in Nat
        /\ RequestRefill \in Nat /\ TokenRefill \in Nat /\ RequestCost \in Nat
        /\ windowRequests \in [Keys -> Nat] /\ windowTokens \in [Keys -> Nat]
    BY <1>1, LimitsAssumption DEF LimiterTypeOK
  <1>4. LimiterTypeOK'
    <2>1. now' \in Nat
      BY <1>2, <1>3
    <2> QED
      BY <1>1, <1>2, <2>1 DEF LimiterTypeOK
  <1>5. Filled'
    <2>1. \A k \in DOMAIN lastSeen : lastSeen[k] \in Nat /\ lastSeen[k] <= now
      BY <1>1 DEF LimiterTypeOK, Filled
    <2>2. \A k \in DOMAIN lastSeen : lastSeen[k] <= now'
      BY <1>2, <1>3, <2>1
    <2> QED
      BY <1>1, <1>2, <2>2 DEF Filled
  <1>6. ASSUME NEW k \in Keys
        PROVE  /\ RequestsNow(k)'.level <= RequestsNow(k).level + RequestRefill
               /\ TokensNow(k)'.level <= TokensNow(k).level + TokenRefill
    <2>1. CASE k \in DOMAIN lastSeen
      <3>1. PICK rb \in Buckets, tb \in Buckets : rb = RequestBucket(k) /\ tb = TokenBucket(k)
        BY <1>1, KeyBuckets
      <3>2. /\ rb.level <= RequestCapacity /\ tb.level <= TokenCapacity
            /\ rb.last <= now /\ tb.last <= now
        BY <1>1, <3>1, KeyBuckets
      <3>3. /\ RequestsNow(k)' = Refilled(rb, RequestCapacity, RequestRefill)'
            /\ TokensNow(k)' = Refilled(tb, TokenCapacity, TokenRefill)'
        BY <1>1, <1>2, <2>1, <3>1 DEF RequestsNow, TokensNow, RequestBucket, TokenBucket, Refilled, LimiterTypeOK
      <3>4. /\ RequestsNow(k) = Refilled(rb, RequestCapacity, RequestRefill)
            /\ TokensNow(k) = Refilled(tb, TokenCapacity, TokenRefill)
        BY <3>1 DEF RequestsNow, TokensNow
      <3>5. Refilled(rb, RequestCapacity, RequestRefill)'.level
              <= Refilled(rb, RequestCapacity, RequestRefill).level + RequestRefill
        BY <1>2, <1>3, <3>2, RefillTick
      <3>6. Refilled(tb, TokenCapacity, TokenRefill)'.level
              <= Refilled(tb, TokenCapacity, TokenRefill).level + TokenRefill
        BY <1>2, <1>3, <3>2, RefillTick
      <3> QED
        BY <3>3, <3>4, <3>5, <3>6
    <2>2. CASE k \notin DOMAIN lastSeen
      <3>1. /\ RequestBucket(k) = Full(RequestCapacity) /\ TokenBucket(k) = Full(TokenCapacity)
        BY <1>1, <2>2 DEF RequestBucket, TokenBucket, LimiterTypeOK
      <3>2. /\ RequestsNow(k).level = RequestCapacity /\ TokensNow(k).level = TokenCapacity
        BY <1>3, <3>1, RefillOfFull DEF RequestsNow, TokensNow
      <3>3. /\ RequestsNow(k)'.level \in Nat /\ RequestsNow(k)'.level <= RequestCapacity
            /\ TokensNow(k)'.level \in Nat /\ TokensNow(k)'.level <= TokenCapacity
        BY <1>4, <1>5, KeyLevelsNext
      <3> QED
        BY <1>3, <3>2, <3>3
    <2> QED
      BY <2>1, <2>2
  <1>7. Covered'
    <2> SUFFICES ASSUME NEW k \in Keys
                 PROVE  /\ windowRequests[k] * RequestCost + RequestsNow(k)'.level
                              <= RequestCapacity + Elapsed' * RequestRefill
                        /\ windowTokens[k] + TokensNow(k)'.level
                              <= TokenCapacity + Elapsed' * TokenRefill
                        /\ now' < windowStart => windowRequests[k] = 0 /\ windowTokens[k] = 0
      BY <1>2 DEF Covered
    <2>1. /\ windowRequests[k] * RequestCost + RequestsNow(k).level
                <= RequestCapacity + Elapsed * RequestRefill
          /\ windowTokens[k] + TokensNow(k).level <= TokenCapacity + Elapsed * TokenRefill
          /\ now < windowStart => windowRequests[k] = 0 /\ windowTokens[k] = 0
      BY <1>1 DEF Covered
    <2>2. PICK w \in Nat : w = windowRequests[k] * RequestCost
      BY <1>3, Product
    <2>3. now < windowStart => w = 0
      BY <1>3, <2>1, <2>2, ZeroTimes
    <2>4. PICK er \in Nat, et \in Nat : er = Elapsed * RequestRefill /\ et = Elapsed * TokenRefill
      BY <1>1, Allowance
    <2>5. /\ RequestsNow(k).level \in Nat /\ RequestsNow(k).level <= RequestCapacity
          /\ TokensNow(k).level \in Nat /\ TokensNow(k).level <= TokenCapacity
      BY <1>1, KeyLevels
    <2>6. /\ RequestsNow(k)'.level \in Nat /\ RequestsNow(k)'.level <= RequestCapacity
          /\ TokensNow(k)'.level \in Nat /\ TokensNow(k)'.level <= TokenCapacity
      BY <1>4, <1>5, KeyLevelsNext
    <2>7. windowTokens[k] \in Nat
      BY <1>3
    <2>8. now' < windowStart => now < windowStart
      BY <1>2, <1>3
    <2>9. CASE now < windowStart
      <3>1. Elapsed' = 0
        BY <1>2, <1>3, <2>9 DEF Elapsed
      <3>2. Elapsed' * RequestRefill = 0 /\ Elapsed' * TokenRefill = 0
        BY <1>3, <3>1, ZeroTimes
      <3> QED
        BY <1>3, <2>1, <2>2, <2>3, <2>6, <2>8, <2>9, <3>2
    <2>10. CASE ~(now < windowStart)
      <3>1. Elapsed \in Nat /\ Elapsed' = Elapsed + 1
        BY <1>2, <1>3, <2>10 DEF Elapsed
      <3>2. Elapsed' * RequestRefill = er + RequestRefill /\ Elapsed' * TokenRefill = et + TokenRefill
        BY <1>3, <2>4, <3>1, OneMore
      <3>3. w + RequestsNow(k)'.level <= RequestCapacity + (er + RequestRefill)
        BY <1>3, <1>6, <2>1, <2>2, <2>4, <2>5, <2>6
      <3>4. windowTokens[k] + TokensNow(k)'.level <= TokenCapacity + (et + TokenRefill)
        BY <1>3, <1>6, <2>1, <2>4, <2>5, <2>6, <2>7
      <3> QED
        BY <2>2, <2>8, <2>10, <3>2, <3>3, <3>4
    <2> QED
      BY <2>9, <2>10
  <1> QED
    BY <1>4, <1>5, <1>7 DEF LimiterInv
-----------------------------------------------------------------------------
LEMMA LimiterStep == ASSUME LimiterInv, [LimiterNext]_limiterVars PROVE LimiterInv'
  <1>1. LimiterTypeOK /\ Filled
    BY DEF LimiterInv
  <1>2. ASSUME NEW k \in Keys, NEW n \in Estimates, Grant(k, n) PROVE LimiterInv'
    BY <1>2, GrantKeepsInv
  <1>3. ASSUME NEW k \in Keys, NEW n \in Estimates, Refuse(k, n) PROVE LimiterInv'
    <2>1. UNCHANGED <<now, window>>
      BY <1>3 DEF Refuse
    <2> QED
      BY <1>1, <1>3, <2>1, RefuseSameLevels, SameLevels
  <1>4. ASSUME NEW k \in Keys, Acquire(k) \/ (Slots(k) > 0 /\ Release(k)) PROVE LimiterInv'
    <2>1. UNCHANGED <<now, window>>
      BY <1>4 DEF Acquire, Release
    <2> QED
      BY <1>1, <1>4, <2>1, CountSameLevels, SameLevels
  <1>5. CASE Gc
    <2>1. UNCHANGED <<now, window>>
      BY <1>5 DEF Gc
    <2> QED
      BY <1>1, <1>5, <2>1, GcSameLevels, SameLevels
  <1>6. CASE Tick
    BY <1>6, TickKeepsInv
  <1>7. CASE UNCHANGED limiterVars
    BY <1>7 DEF limiterVars, buckets, window, LimiterInv, LimiterTypeOK, Filled, Covered, Elapsed,
                RequestsNow, TokensNow, RequestBucket, TokenBucket, Refilled, Full
  <1> QED
    BY <1>2, <1>3, <1>4, <1>5, <1>6, <1>7 DEF LimiterNext

(* The inductive invariant of the rate limiter (ratelimit.py:73-153).      *)
THEOREM LimiterInvariance == LimiterSpec => []LimiterInv
  <1>1. LimiterInit => LimiterInv
    BY InitLimiterInv
  <1>2. LimiterInv /\ [LimiterNext]_limiterVars => LimiterInv'
    BY LimiterStep
  <1> QED
    BY <1>1, <1>2, PTL DEF LimiterSpec

(* Bucket levels and slot counts stay natural numbers: no charge and no    *)
(* release goes below zero, whatever gc() drops (ratelimit.py:96-153).     *)
THEOREM LimiterTypeCorrect == LimiterSpec => []LimiterTypeOK
  <1>1. LimiterInv => LimiterTypeOK
    BY DEF LimiterInv
  <1> QED
    BY <1>1, LimiterInvariance, PTL

(* In any period no key is granted more requests than a burst and what     *)
(* refills in the period (ratelimit.py:35-47, 96-117).                     *)
THEOREM RequestRateCorrect == LimiterSpec => []RequestRate
  <1>1. LimiterInv => RequestRate
    <2> SUFFICES ASSUME LimiterInv, NEW k \in Keys
                 PROVE  windowRequests[k] * RequestCost <= RequestCapacity + Elapsed * RequestRefill
      BY DEF RequestRate
    <2>1. LimiterTypeOK /\ Filled
      BY DEF LimiterInv
    <2>2. windowRequests[k] \in Nat /\ RequestCost \in Nat
      BY <2>1, LimitsAssumption DEF LimiterTypeOK
    <2>3. PICK w \in Nat : w = windowRequests[k] * RequestCost
      BY <2>2, Product
    <2>4. PICK e \in Nat : e = Elapsed * RequestRefill
      BY <2>1, Allowance
    <2>5. RequestCapacity \in Nat
      BY LimitsAssumption
    <2>6. RequestsNow(k).level \in Nat
      BY <2>1, KeyLevels
    <2>7. w + RequestsNow(k).level <= RequestCapacity + e
      BY <2>3, <2>4 DEF LimiterInv, Covered
    <2> QED
      BY <2>3, <2>4, <2>5, <2>6, <2>7
  <1> QED
    BY <1>1, LimiterInvariance, PTL

(* The same of prompt tokens (ratelimit.py:111).                           *)
THEOREM TokenRateCorrect == LimiterSpec => []TokenRate
  <1>1. LimiterInv => TokenRate
    <2> SUFFICES ASSUME LimiterInv, NEW k \in Keys
                 PROVE  windowTokens[k] <= TokenCapacity + Elapsed * TokenRefill
      BY DEF TokenRate
    <2>1. LimiterTypeOK /\ Filled
      BY DEF LimiterInv
    <2>2. windowTokens[k] \in Nat /\ TokenCapacity \in Nat
      BY <2>1, LimitsAssumption DEF LimiterTypeOK
    <2>3. PICK e \in Nat : e = Elapsed * TokenRefill
      BY <2>1, Allowance
    <2>4. TokensNow(k).level \in Nat
      BY <2>1, KeyLevels
    <2>5. windowTokens[k] + TokensNow(k).level <= TokenCapacity + e
      BY <2>3 DEF LimiterInv, Covered
    <2> QED
      BY <2>2, <2>3, <2>4, <2>5
  <1> QED
    BY <1>1, LimiterInvariance, PTL

(* No key exceeds either limit (ratelimit.py:96-117).                      *)
THEOREM GrantedRatesCorrect == LimiterSpec => []GrantedRates
  BY RequestRateCorrect, TokenRateCorrect, PTL DEF GrantedRates

(* A refused request costs nothing, in either bucket, and neither does a   *)
(* collection of idle keys (ratelimit.py:113, 143-153).                    *)
THEOREM RefusalsAreFree == LimiterSpec => OnlyGrantsCost
  <1> DEFINE Free(k) ==
        now' = now /\ now >= windowStart /\ windowRequests'[k] = windowRequests[k] =>
          /\ RequestsNow(k)'.level = RequestsNow(k).level
          /\ TokensNow(k)'.level = TokensNow(k).level
  <1>1. ASSUME LimiterInv, LimiterNext, NEW k \in Keys PROVE Free(k)
    <2>1. LimiterTypeOK /\ Filled
      BY <1>1 DEF LimiterInv
    <2>2. ASSUME NEW j \in Keys, NEW n \in Estimates, Grant(j, n), now >= windowStart,
                 windowRequests'[k] = windowRequests[k]
          PROVE  /\ RequestsNow(k)'.level = RequestsNow(k).level
                 /\ TokensNow(k)'.level = TokensNow(k).level
      <3>1. j # k
        BY <2>1, <2>2 DEF Grant, LimiterTypeOK
      <3>2. /\ SetBuckets(j, Charged(RequestsNow(j), RequestCost), TokensAfter(j, n))
            /\ now' = now
        BY <2>2 DEF Grant
      <3>3. k \in DOMAIN lastSeen <=> k \in DOMAIN lastSeen'
        BY <3>1, <3>2 DEF SetBuckets, With
      <3>4. /\ k \in DOMAIN requestBuckets <=> k \in DOMAIN requestBuckets'
            /\ k \in DOMAIN tokenBuckets <=> k \in DOMAIN tokenBuckets'
            /\ k \in DOMAIN requestBuckets => requestBuckets'[k] = requestBuckets[k]
            /\ k \in DOMAIN tokenBuckets => tokenBuckets'[k] = tokenBuckets[k]
        BY <3>1, <3>2 DEF SetBuckets, With
      <3>5. RequestBucket(k)' = RequestBucket(k) /\ TokenBucket(k)' = TokenBucket(k)
        BY <3>2, <3>4 DEF RequestBucket, TokenBucket, Full
      <3> QED
        BY <3>2, <3>5 DEF RequestsNow, TokensNow, Refilled
    <2>3. ASSUME NEW j \in Keys, NEW n \in Estimates, Refuse(j, n) PROVE Free(k)
      BY <2>1, <2>3, RefuseSameLevels
    <2>4. ASSUME NEW j \in Keys, Acquire(j) \/ (Slots(j) > 0 /\ Release(j)) PROVE Free(k)
      BY <2>1, <2>4, CountSameLevels
    <2>5. CASE Gc
      BY <2>1, <2>5, GcSameLevels
    <2>6. CASE Tick
      BY <2>1, <2>6 DEF Tick, LimiterTypeOK
    <2> QED
      BY <1>1, <2>2, <2>3, <2>4, <2>5, <2>6 DEF LimiterNext
  <1>2. LimiterInv /\ [LimiterNext]_limiterVars => [\A k \in Keys : Free(k)]_limiterVars
    BY <1>1
  <1> QED
    BY <1>2, LimiterInvariance, PTL DEF LimiterSpec, OnlyGrantsCost

-----------------------------------------------------------------------------
(***************************************************************************)
(* The server.                                                             *)
(***************************************************************************)
(* Finite sets of requests.                                                *)
LEMMA RequestSets == ASSUME NEW S \in SUBSET Requests PROVE IsFiniteSet(S) /\ Cardinality(S) \in Nat
  BY RequestsAssumption, FS_Subset, FS_CardinalityType

LEMMA OneIn ==
  ASSUME NEW S \in SUBSET Requests, NEW r \in Requests, r \notin S
  PROVE  Cardinality(S \cup {r}) = Cardinality(S) + 1
  BY RequestSets, FS_AddElement

LEMMA OneOut ==
  ASSUME NEW S \in SUBSET Requests, NEW r \in S
  PROVE  Cardinality(S \ {r}) = Cardinality(S) - 1 /\ Cardinality(S) > 0
  <1>1. Cardinality(S \ {r}) = Cardinality(S) - 1
    BY RequestSets, FS_RemoveElement
  <1>2. S \ {r} \in SUBSET Requests
    OBVIOUS
  <1>3. Cardinality(S \ {r}) \in Nat /\ Cardinality(S) \in Nat
    BY <1>2, RequestSets
  <1> QED
    BY <1>1, <1>3

LEMMA Fewer ==
  ASSUME NEW S \in SUBSET Requests, NEW T \in SUBSET S
  PROVE  Cardinality(T) <= Cardinality(S)
  BY RequestSets, FS_Subset

LEMMA NoneLeft == ASSUME NEW S \in SUBSET Requests, Cardinality(S) = 0 PROVE S = {}
  BY RequestSets, FS_EmptySet

(* The chunks of a step, and what is left of them.                         *)
Chunk == [from : Requests, final : BOOLEAN]

LEMMA ChunkSequence == ASSUME NEW n \in Nat, NEW cs \in [1..n -> Chunk] PROVE cs \in Seq(Chunk)
  OBVIOUS

LEMMA TailOfChunks ==
  ASSUME NEW cs \in Seq(Chunk), cs # << >>
  PROVE  /\ Head(cs) = cs[1] /\ 1 \in DOMAIN cs /\ Tail(cs) \in Seq(Chunk)
         /\ \A i \in DOMAIN Tail(cs) : i + 1 \in DOMAIN cs /\ Tail(cs)[i] = cs[i + 1]
         /\ \A i \in DOMAIN cs : i # 1 => i - 1 \in DOMAIN Tail(cs) /\ Tail(cs)[i - 1] = cs[i]
  <1>1. Len(cs) \in Nat /\ Len(cs) > 0 /\ DOMAIN cs = 1..Len(cs)
    OBVIOUS
  <1>2. Tail(cs) \in Seq(Chunk) /\ DOMAIN Tail(cs) = 1..(Len(cs) - 1)
    BY <1>1
  <1>3. \A i \in 1..(Len(cs) - 1) : Tail(cs)[i] = cs[i + 1]
    BY <1>1
  <1> QED
    BY <1>1, <1>2, <1>3
-----------------------------------------------------------------------------
(* The initial states.                                                     *)
LEMMA InitServerInv == ASSUME Init PROVE ServerInv
  <1>1. LimiterInv
    BY InitLimiterInv DEF Init
  <1>2. HandlersTypeOK
    <2>1. stuck \in BOOLEAN
      BY Zenon DEF Init
    <2>2. /\ streaming = {} /\ phase = [r \in Requests |-> "new"] /\ lock = None
          /\ live = {} /\ assemblers = {} /\ chunks = << >>
          /\ left = [r \in Requests |-> 0] /\ abandoned = 0
      BY DEF Init
    <2> QED
      BY <2>1, <2>2 DEF HandlersTypeOK, Phases
  <1>3. Cardinality({}) = 0
    BY FS_EmptySet
  <1>4. SlotsExact
    <2>1. \A k \in Keys : Slots(k) = 0 /\ Holders(k) = {}
      BY DEF Init, LimiterInit, Slots, Holders
    <2> QED
      BY <1>3, <2>1 DEF SlotsExact
  <1>5. EngineInv
    BY <1>3, NoneAssumption DEF Init, EngineInv, LockExact, DriverAlive, ChunksInTurn, LiveCounted,
                DriverAlone, OwnAnswer, MoreToCome, Emitters
  <1> QED
    BY <1>1, <1>2, <1>4, <1>5 DEF ServerInv

(* Steps outside the turns.                                                *)
LEMMA OutsideTurns ==
  ASSUME EngineInv, UNCHANGED <<lock, engine, chunks, abandoned>>,
         \A r \in Requests : phase'[r] = "driving" <=> phase[r] = "driving"
  PROVE  EngineInv'
  BY DEF EngineInv, LockExact, DriverAlive, ChunksInTurn, LiveCounted, DriverAlone, OwnAnswer,
         MoreToCome, Emitters, HasFinal, engine

(* Steps of r that neither take nor return its slot.                       *)
LEMMA SlotsKept ==
  ASSUME HandlersTypeOK, SlotsExact, UNCHANGED concurrent, NEW r \in Requests, NEW to,
         phase' = [phase EXCEPT ![r] = to],
         (to \in {"guarded", "driving", "leaving"}) <=> (phase[r] \in {"guarded", "driving", "leaving"})
  PROVE  SlotsExact'
  <1>1. \A k \in Keys : Holders(k)' = Holders(k)
    BY DEF Holders, HandlersTypeOK
  <1>2. \A k \in Keys : Slots(k)' = Slots(k)
    BY DEF Slots
  <1> QED
    BY <1>1, <1>2 DEF SlotsExact

LEMMA LimiterKept == ASSUME LimiterInv, UNCHANGED limiterVars PROVE LimiterInv'
  BY LimiterStep

LEMMA KeysOfRequests == ASSUME NEW r \in Requests PROVE KeyOf[r] \in Keys
  BY RequestsAssumption

(* Steps of the handler of r before and after its turn.                    *)
LEMMA CheckKeepsInv ==
  ASSUME ServerInv, NEW r \in Requests, CheckGranted(r) \/ CheckRefused(r)
  PROVE  ServerInv'
  <1>1. PICK k \in Keys : k = KeyOf[r]
    BY KeysOfRequests
  <1>2. LimiterInv /\ HandlersTypeOK /\ SlotsExact /\ EngineInv
    BY DEF ServerInv
  <1>3. PICK n \in Estimates : Grant(k, n) \/ Refuse(k, n)
    BY <1>1 DEF CheckGranted, CheckRefused
  <1>4. LimiterInv'
    BY <1>2, <1>3, LimiterStep DEF LimiterNext
  <1>5. PICK to \in {"checked", "closed"} : phase' = [phase EXCEPT ![r] = to]
    BY DEF CheckGranted, CheckRefused, Go
  <1>6. /\ phase[r] = "new" /\ UNCHANGED <<streaming, lock, engine, chunks, stuck, abandoned>>
    BY DEF CheckGranted, CheckRefused
  <1>7. UNCHANGED concurrent
    BY <1>3 DEF Grant, Refuse
  <1>8. HandlersTypeOK'
    BY <1>2, <1>5, <1>6 DEF HandlersTypeOK, Phases, engine
  <1>9. SlotsExact'
    BY <1>2, <1>5, <1>6, <1>7, SlotsKept
  <1>10. EngineInv'
    <2>1. \A q \in Requests : phase'[q] = "driving" <=> phase[q] = "driving"
      BY <1>2, <1>5, <1>6 DEF HandlersTypeOK
    <2> QED
      BY <1>2, <1>6, <2>1, OutsideTurns
  <1> QED
    BY <1>4, <1>8, <1>9, <1>10 DEF ServerInv

LEMMA MoveKeepsInv ==
  ASSUME ServerInv, NEW r \in Requests, Reject(r) \/ HeadersLost(r) \/ BeginRefused(r)
  PROVE  ServerInv'
  <1>1. LimiterInv /\ HandlersTypeOK /\ SlotsExact /\ EngineInv
    BY DEF ServerInv
  <1>2. PICK to \in {"closed", "leaving"} :
          /\ phase' = [phase EXCEPT ![r] = to]
          /\ \/ to = "closed" /\ phase[r] = "checked"
             \/ to = "leaving" /\ phase[r] = "guarded"
    <2>1. CASE Reject(r)
      BY <2>1 DEF Reject, Go
    <2>2. CASE HeadersLost(r) \/ BeginRefused(r)
      BY <2>2 DEF HeadersLost, BeginRefused, Go
    <2> QED
      BY <2>1, <2>2
  <1>3. UNCHANGED <<limiterVars, streaming, lock, engine, chunks, stuck, abandoned>>
    BY DEF Reject, HeadersLost, BeginRefused
  <1>4. LimiterInv'
    BY <1>1, <1>3, LimiterKept
  <1>5. HandlersTypeOK'
    BY <1>1, <1>2, <1>3 DEF HandlersTypeOK, Phases, engine
  <1>6. SlotsExact'
    <2>1. UNCHANGED concurrent
      BY <1>3 DEF limiterVars
    <2> QED
      BY <1>1, <1>2, <2>1, SlotsKept
  <1>7. EngineInv'
    <2>1. \A q \in Requests : phase'[q] = "driving" <=> phase[q] = "driving"
      BY <1>1, <1>2 DEF HandlersTypeOK
    <2> QED
      BY <1>1, <1>3, <2>1, OutsideTurns
  <1> QED
    BY <1>4, <1>5, <1>6, <1>7 DEF ServerInv

(* A limiter call that touches no bucket keeps the limiter's invariant.    *)
LEMMA CountKeepsInv ==
  ASSUME LimiterInv, NEW k \in Keys, Acquire(k) \/ (Slots(k) > 0 /\ Release(k))
  PROVE  LimiterInv'
  <1>1. LimiterTypeOK /\ Filled /\ UNCHANGED <<now, window>>
    BY DEF LimiterInv, Acquire, Release
  <1> QED
    BY <1>1, CountSameLevels, SameLevels

LEMMA EnterKeepsInv == ASSUME ServerInv, NEW r \in Requests, Enter(r) PROVE ServerInv'
  <1>1. LimiterInv /\ HandlersTypeOK /\ SlotsExact /\ EngineInv
    BY DEF ServerInv
  <1>2. PICK k \in Keys : k = KeyOf[r]
    BY KeysOfRequests
  <1>3. /\ Acquire(k) /\ phase[r] = "checked" /\ phase' = [phase EXCEPT ![r] = "guarded"]
        /\ streaming' \in {streaming, streaming \cup {r}}
        /\ UNCHANGED <<lock, engine, chunks, stuck, abandoned>>
    BY <1>2 DEF Enter, Go
  <1>4. LimiterInv'
    BY <1>1, <1>3, CountKeepsInv
  <1>5. HandlersTypeOK'
    BY <1>1, <1>3 DEF HandlersTypeOK, Phases, engine
  <1>6. SlotsExact'
    <2> SUFFICES ASSUME NEW j \in Keys PROVE Slots(j)' = Cardinality(Holders(j)')
      BY DEF SlotsExact
    <2>1. Slots(j) = Cardinality(Holders(j))
      BY <1>1 DEF SlotsExact
    <2>2. CASE j = k
      <3>1. Holders(j)' = Holders(j) \cup {r} /\ r \notin Holders(j) /\ Holders(j) \in SUBSET Requests
        BY <1>1, <1>2, <1>3, <2>2 DEF Holders, HandlersTypeOK
      <3>2. Cardinality(Holders(j) \cup {r}) = Cardinality(Holders(j)) + 1
        BY <3>1, OneIn
      <3>3. Slots(j)' = Slots(j) + 1
        BY <1>3, <2>2 DEF Acquire, With, Slots
      <3> QED
        BY <2>1, <3>1, <3>2, <3>3
    <2>3. CASE j # k
      <3>1. Holders(j)' = Holders(j)
        BY <1>1, <1>2, <1>3, <2>3 DEF Holders, HandlersTypeOK
      <3>2. Slots(j)' = Slots(j)
        BY <1>3, <2>3 DEF Acquire, With, Slots
      <3> QED
        BY <2>1, <3>1, <3>2
    <2> QED
      BY <2>2, <2>3
  <1>7. EngineInv'
    <2>1. \A q \in Requests : phase'[q] = "driving" <=> phase[q] = "driving"
      BY <1>1, <1>3 DEF HandlersTypeOK
    <2> QED
      BY <1>1, <1>3, <2>1, OutsideTurns
  <1> QED
    BY <1>4, <1>5, <1>6, <1>7 DEF ServerInv

LEMMA LeaveKeepsInv == ASSUME ServerInv, NEW r \in Requests, Leave(r) PROVE ServerInv'
  <1>1. LimiterInv /\ HandlersTypeOK /\ SlotsExact /\ EngineInv
    BY DEF ServerInv
  <1>2. PICK k \in Keys : k = KeyOf[r]
    BY KeysOfRequests
  <1>3. /\ Release(k) /\ phase[r] = "leaving" /\ phase' = [phase EXCEPT ![r] = "closed"]
        /\ streaming' = streaming \ {r}
        /\ UNCHANGED <<lock, engine, chunks, stuck, abandoned>>
    BY <1>2 DEF Leave, Go
  <1>4. /\ Holders(k) \in SUBSET Requests /\ r \in Holders(k)
        /\ Slots(k) = Cardinality(Holders(k))
    BY <1>1, <1>2, <1>3 DEF Holders, SlotsExact
  <1>5. /\ Cardinality(Holders(k) \ {r}) = Cardinality(Holders(k)) - 1
        /\ Cardinality(Holders(k)) > 0 /\ Cardinality(Holders(k)) \in Nat
    BY <1>4, OneOut, RequestSets
  <1>6. LimiterInv'
    BY <1>1, <1>3, <1>4, <1>5, CountKeepsInv
  <1>7. HandlersTypeOK'
    BY <1>1, <1>3 DEF HandlersTypeOK, Phases, engine
  <1>8. SlotsExact'
    <2> SUFFICES ASSUME NEW j \in Keys PROVE Slots(j)' = Cardinality(Holders(j)')
      BY DEF SlotsExact
    <2>1. CASE j = k
      <3>1. Holders(j)' = Holders(k) \ {r}
        BY <1>1, <1>2, <1>3, <2>1 DEF Holders, HandlersTypeOK
      <3>2. Slots(k)' = Slots(k) - 1
        <4>1. CASE Slots(k) - 1 > 0
          BY <1>3, <4>1 DEF Release, With, Slots
        <4>2. CASE ~(Slots(k) - 1 > 0)
          <5>1. Slots(k) - 1 = 0
            BY <1>4, <1>5, <4>2
          <5>2. Slots(k)' = 0
            BY <1>3, <4>2 DEF Release, Restrict, Slots
          <5> QED
            BY <5>1, <5>2
        <4> QED
          BY <4>1, <4>2
      <3> QED
        BY <1>4, <1>5, <2>1, <3>1, <3>2
    <2>2. CASE j # k
      <3>1. Holders(j)' = Holders(j)
        BY <1>1, <1>2, <1>3, <2>2 DEF Holders, HandlersTypeOK
      <3>2. Slots(j)' = Slots(j)
        BY <1>3, <2>2 DEF Release, With, Restrict, Slots
      <3> QED
        BY <1>1, <3>1, <3>2 DEF SlotsExact
    <2> QED
      BY <2>1, <2>2
  <1>9. EngineInv'
    <2>1. \A q \in Requests : phase'[q] = "driving" <=> phase[q] = "driving"
      BY <1>1, <1>3 DEF HandlersTypeOK
    <2> QED
      BY <1>1, <1>3, <2>1, OutsideTurns
  <1> QED
    BY <1>6, <1>7, <1>8, <1>9 DEF ServerInv

-----------------------------------------------------------------------------
(* Steps of the turn of r.  All of them leave the limiter alone.           *)
LEMMA TurnKeepsRest ==
  ASSUME ServerInv, NEW r \in Requests, UNCHANGED limiterVars,
         phase[r] \in {"guarded", "driving"},
         \/ UNCHANGED phase
         \/ phase' = [phase EXCEPT ![r] = "driving"]
         \/ phase' = [phase EXCEPT ![r] = "leaving"]
  PROVE  LimiterInv' /\ SlotsExact'
  <1>1. LimiterInv /\ HandlersTypeOK /\ SlotsExact
    BY DEF ServerInv
  <1>2. LimiterInv'
    BY <1>1, LimiterKept
  <1>3. UNCHANGED concurrent
    BY DEF limiterVars
  <1>4. CASE UNCHANGED phase
    <2>1. \A k \in Keys : Holders(k)' = Holders(k) /\ Slots(k)' = Slots(k)
      BY <1>3, <1>4 DEF Slots, Holders
    <2> QED
      BY <1>1, <1>2, <2>1 DEF SlotsExact
  <1>5. CASE phase' = [phase EXCEPT ![r] = "driving"] \/ phase' = [phase EXCEPT ![r] = "leaving"]
    <2>1. PICK to \in {"driving", "leaving"} : phase' = [phase EXCEPT ![r] = to]
      BY <1>5
    <2>2. (to \in {"guarded", "driving", "leaving"}) <=> (phase[r] \in {"guarded", "driving", "leaving"})
      OBVIOUS
    <2> QED
      BY <1>1, <1>2, <1>3, <2>1, <2>2, SlotsKept
  <1> QED
    BY <1>4, <1>5

LEMMA BeginKeepsInv == ASSUME ServerInv, NEW r \in Requests, Begin(r) PROVE ServerInv'
  <1>1. HandlersTypeOK /\ EngineInv
    BY DEF ServerInv
  <1>2. /\ phase[r] = "guarded" /\ lock = None /\ lock' = r
        /\ live' = live \cup {r} /\ assemblers' = assemblers \cup {r}
        /\ left' = [left EXCEPT ![r] = MaxChunks]
        /\ phase' = [phase EXCEPT ![r] = "driving"]
        /\ UNCHANGED <<limiterVars, streaming, chunks, stuck, abandoned>>
    BY DEF Begin, Go
  <1>3. LimiterInv' /\ SlotsExact'
    BY <1>2, TurnKeepsRest
  <1>4. HandlersTypeOK'
    BY <1>1, <1>2, ChunksAssumption DEF HandlersTypeOK, Phases
  <1>5. chunks = << >> /\ chunks' = << >> /\ ~HasFinal' /\ r # None
    BY <1>1, <1>2, NoneAssumption DEF EngineInv, ChunksInTurn, HasFinal
  <1>6. LockExact'
    BY <1>1, <1>2, NoneAssumption DEF EngineInv, LockExact, HandlersTypeOK
  <1>7. DriverAlive'
    BY <1>2, <1>6 DEF DriverAlive, LockExact
  <1>8. LiveCounted'
    <2>1. /\ Cardinality(live) <= abandoned /\ Cardinality(live) \in Nat
          /\ abandoned \in Nat /\ live \in SUBSET Requests
      BY <1>1, <1>2, RequestSets DEF EngineInv, LiveCounted, HandlersTypeOK
    <2>2. Cardinality(live \cup {r}) <= Cardinality(live) + 1
      <3>1. CASE r \in live
        <4>1. live \cup {r} = live
          BY <3>1
        <4> QED
          BY <2>1, <4>1
      <3>2. CASE r \notin live
        BY <2>1, <3>2, OneIn
      <3> QED
        BY <3>1, <3>2
    <2>3. Cardinality(live \cup {r}) \in Nat
      <3>1. live \cup {r} \in SUBSET Requests
        BY <2>1
      <3> QED
        BY <3>1, RequestSets
    <2>4. Cardinality(live') <= abandoned' + 1
      BY <1>2, <2>1, <2>2, <2>3
    <2> QED
      BY <1>2, <1>5, <2>4 DEF LiveCounted
  <1>9. DriverAlone'
    BY <1>1, <1>2, NoneAssumption DEF EngineInv, DriverAlone, HandlersTypeOK
  <1>10. OwnAnswer'
    BY <1>5 DEF OwnAnswer
  <1>11. MoreToCome'
    BY <1>1, <1>2, ChunksAssumption DEF EngineInv, MoreToCome, Emitters, HandlersTypeOK
  <1>12. ChunksInTurn'
    BY <1>2, <1>5 DEF ChunksInTurn
  <1> QED
    BY <1>3, <1>4, <1>6, <1>7, <1>8, <1>9, <1>10, <1>11, <1>12 DEF ServerInv, EngineInv

LEMMA StepKeepsInv == ASSUME ServerInv, NEW r \in Requests, Step(r) PROVE ServerInv'
  <1>1. HandlersTypeOK /\ EngineInv
    BY DEF ServerInv
  <1>2. /\ phase[r] = "driving" /\ chunks = << >> /\ lock = r /\ r # None
        /\ UNCHANGED <<limiterVars, streaming, phase, lock, assemblers, stuck, abandoned>>
    BY <1>1, NoneAssumption DEF Step, Drives, EngineInv, LockExact
  <1>3. PICK n \in 0..Cardinality(Emitters) : \E order \in [1..n -> Emitters] :
              IsInjective(order) /\ \E done \in SUBSET Emitters : Emit(order, done)
    BY DEF Step
  <1>4. PICK order \in [1..n -> Emitters], done \in SUBSET Emitters : Emit(order, done)
    BY <1>3
  <1>5. /\ Emitters \subseteq live /\ Emitters \subseteq Requests /\ Emitters \subseteq assemblers
        /\ Range(order) \subseteq Emitters /\ n \in Nat
    BY <1>1, <1>4, RequestSets DEF Emitters, Range, HandlersTypeOK
  <1>6. /\ done \subseteq Range(order)
        /\ \A q \in Range(order) : left[q] = 1 => q \in done
        /\ chunks' = [i \in 1..n |-> [from |-> order[i], final |-> order[i] \in done]]
        /\ live' = live \ done
        /\ left' = [q \in Requests |-> IF q \in Range(order) THEN left[q] - 1 ELSE left[q]]
    BY <1>4 DEF Emit
  <1>7. LimiterInv' /\ SlotsExact'
    BY <1>2, TurnKeepsRest
  <1>8. DOMAIN chunks' = 1..n /\ \A i \in 1..n : /\ chunks'[i].from = order[i]
                                                 /\ chunks'[i].final <=> order[i] \in done
    BY <1>6
  <1>9. HasFinal' <=> done # {}
    <2>1. ASSUME NEW q \in done PROVE HasFinal'
      <3>1. PICK i \in 1..n : order[i] = q
        BY <1>4, <1>6, <2>1 DEF Range
      <3> QED
        BY <1>8, <2>1, <3>1 DEF HasFinal
    <2>2. ASSUME HasFinal' PROVE done # {}
      BY <1>8, <2>2 DEF HasFinal
    <2> QED
      BY <2>1, <2>2
  <1>10. left \in [Requests -> Nat] /\ \A q \in Emitters : left[q] > 0
    BY <1>1 DEF EngineInv, MoreToCome, HandlersTypeOK
  <1>11. HandlersTypeOK'
    <2>1. chunks' \in Seq([from : Requests, final : BOOLEAN])
      <3>1. \A i \in 1..n : [from |-> order[i], final |-> order[i] \in done] \in Chunk
        BY <1>4, <1>5 DEF Chunk
      <3>2. PICK cs \in [1..n -> Chunk] : cs = chunks'
        BY <1>6, <3>1
      <3> QED
        BY <1>5, <3>2, ChunkSequence DEF Chunk
    <2>2. left' \in [Requests -> Nat]
      BY <1>5, <1>6, <1>10
    <2> QED
      BY <1>1, <1>2, <1>6, <2>1, <2>2 DEF HandlersTypeOK
  <1>12. LockExact'
    BY <1>1, <1>2 DEF EngineInv, LockExact
  <1>13. DriverAlive'
    <2>1. r \in live
      BY <1>1, <1>2 DEF EngineInv, DriverAlive, HasFinal
    <2>2. r \in live' \/ HasFinal'
      BY <1>6, <1>9, <2>1
    <2>3. \A q \in Requests : phase'[q] = "driving" => q = r
      BY <1>2, <1>12 DEF LockExact
    <2> QED
      BY <2>2, <2>3 DEF DriverAlive
  <1>14. LiveCounted'
    <2>1. Cardinality(live) <= abandoned + 1 /\ Cardinality(live) \in Nat /\ abandoned \in Nat
      BY <1>1, <1>2, RequestSets DEF EngineInv, LiveCounted, HandlersTypeOK, HasFinal
    <2>2. CASE done = {}
      BY <1>2, <1>6, <1>9, <2>1, <2>2 DEF LiveCounted
    <2>3. CASE done # {}
      <3>1. PICK q \in done : TRUE
        BY <2>3
      <3>2. /\ q \in live /\ live \in SUBSET Requests /\ live \ done \in SUBSET (live \ {q})
            /\ live \ {q} \in SUBSET Requests
        BY <1>1, <1>5, <1>6, <3>1 DEF HandlersTypeOK
      <3>3. Cardinality(live \ {q}) = Cardinality(live) - 1
        BY <3>2, OneOut
      <3>4. Cardinality(live \ done) <= Cardinality(live \ {q}) /\ Cardinality(live \ done) \in Nat
        <4>1. live \ done \in SUBSET Requests
          BY <3>2
        <4> QED
          BY <3>2, <4>1, Fewer, RequestSets
      <3>5. Cardinality(live') <= abandoned'
        BY <1>2, <1>6, <2>1, <3>3, <3>4
      <3> QED
        BY <1>9, <2>3, <3>5 DEF LiveCounted
    <2> QED
      BY <2>2, <2>3
  <1>15. DriverAlone'
    BY <1>1, <1>2, <1>6 DEF EngineInv, DriverAlone
  <1>16. OwnAnswer'
    <2> SUFFICES ASSUME abandoned' = 0, NEW i \in DOMAIN chunks' PROVE chunks'[i].from = lock'
      BY DEF OwnAnswer
    <2>1. order[i] \in live
      BY <1>4, <1>5, <1>8
    <2>2. live \subseteq {lock}
      BY <1>1, <1>2 DEF EngineInv, DriverAlone
    <2> QED
      BY <1>2, <1>8, <2>1, <2>2
  <1>17. MoreToCome'
    <2> SUFFICES ASSUME NEW q \in Emitters' PROVE left'[q] > 0
      BY DEF MoreToCome
    <2>1. q \in Emitters /\ q \notin done /\ q \in Requests
      BY <1>2, <1>5, <1>6 DEF Emitters
    <2> QED
      BY <1>6, <1>10, <2>1
  <1>18. ChunksInTurn'
    BY <1>2 DEF ChunksInTurn
  <1> QED
    BY <1>7, <1>11, <1>12, <1>13, <1>14, <1>15, <1>16, <1>17, <1>18 DEF ServerInv, EngineInv

LEMMA SpinKeepsInv == ASSUME ServerInv, NEW r \in Requests, Spin(r) PROVE ServerInv'
  <1>1. /\ stuck' = TRUE
        /\ UNCHANGED <<limiterVars, streaming, phase, lock, engine, chunks, abandoned>>
    BY DEF Spin
  <1>2. LimiterInv'
    BY <1>1, LimiterKept DEF ServerInv
  <1> QED
    BY <1>1, <1>2 DEF engine, limiterVars, ServerInv, HandlersTypeOK, SlotsExact, Slots, Holders,
            EngineInv, LockExact, DriverAlive, HasFinal, ChunksInTurn, LiveCounted, DriverAlone,
            OwnAnswer, MoreToCome, Emitters

LEMMA RelayKeepsInv == ASSUME ServerInv, NEW r \in Requests, Relay(r) PROVE ServerInv'
  <1>1. HandlersTypeOK /\ EngineInv
    BY DEF ServerInv
  <1>2. /\ phase[r] = "driving" /\ chunks # << >> /\ ~Head(chunks).final /\ chunks' = Tail(chunks)
        /\ UNCHANGED <<limiterVars, streaming, phase, lock, engine, stuck, abandoned>>
    BY DEF Relay, Ends
  <1>3. LimiterInv' /\ SlotsExact'
    BY <1>2, TurnKeepsRest
  <1>4. chunks \in Seq(Chunk)
    BY <1>1 DEF HandlersTypeOK, Chunk
  <1>5. /\ Head(chunks) = chunks[1] /\ Tail(chunks) \in Seq(Chunk)
        /\ \A i \in DOMAIN Tail(chunks) : i + 1 \in DOMAIN chunks /\ Tail(chunks)[i] = chunks[i + 1]
        /\ \A i \in DOMAIN chunks :
             i # 1 => i - 1 \in DOMAIN Tail(chunks) /\ Tail(chunks)[i - 1] = chunks[i]
    BY <1>2, <1>4, TailOfChunks
  <1>6. HasFinal' <=> HasFinal
    BY <1>2, <1>5 DEF HasFinal
  <1>7. HandlersTypeOK'
    BY <1>1, <1>2, <1>5 DEF HandlersTypeOK, Chunk, engine
  <1>8. OwnAnswer'
    BY <1>1, <1>2, <1>5 DEF EngineInv, OwnAnswer
  <1>9. ChunksInTurn'
    BY <1>1, <1>2, NoneAssumption DEF EngineInv, ChunksInTurn
  <1>10. LockExact' /\ DriverAlive' /\ LiveCounted' /\ DriverAlone' /\ MoreToCome'
    BY <1>1, <1>2, <1>6 DEF EngineInv, LockExact, DriverAlive, LiveCounted, DriverAlone, MoreToCome,
                            Emitters, engine
  <1> QED
    BY <1>3, <1>7, <1>8, <1>9, <1>10 DEF ServerInv, EngineInv

(* The end of a turn, whatever ends it: the driver leaves at most as many  *)
(* live requests behind as answers have broken off.                        *)
LEMMA EndKeepsInv ==
  ASSUME ServerInv, NEW r \in Requests, phase[r] = "driving", EndTurn(r),
         UNCHANGED <<limiterVars, streaming, left, stuck>>,
         live' \in SUBSET live, assemblers' \in SUBSET assemblers, abandoned' \in Nat,
         \/ abandoned' = abandoned /\ HasFinal
         \/ abandoned' = abandoned + 1
  PROVE  ServerInv'
  <1>1. HandlersTypeOK /\ EngineInv
    BY DEF ServerInv
  <1>2. lock' = None /\ chunks' = << >> /\ phase' = [phase EXCEPT ![r] = "leaving"]
    BY DEF EndTurn, Go
  <1>3. lock = r /\ r # None
    BY <1>1, NoneAssumption DEF EngineInv, LockExact
  <1>4. LimiterInv' /\ SlotsExact'
    BY <1>2, TurnKeepsRest
  <1>5. HandlersTypeOK'
    BY <1>1, <1>2 DEF HandlersTypeOK, Phases
  <1>6. LockExact' /\ ChunksInTurn' /\ OwnAnswer'
    BY <1>1, <1>2, <1>3, NoneAssumption DEF EngineInv, LockExact, ChunksInTurn, OwnAnswer, HandlersTypeOK
  <1>7. DriverAlive'
    BY <1>2, <1>6, NoneAssumption DEF DriverAlive, LockExact
  <1>8. Cardinality(live') <= abandoned' /\ Cardinality(live') \in Nat /\ live' \in SUBSET Requests
    <2>1. live \in SUBSET Requests /\ live' \in SUBSET Requests /\ abandoned \in Nat
      BY <1>1 DEF HandlersTypeOK
    <2>2. PICK L \in SUBSET live : L = live'
      OBVIOUS
    <2>3. Cardinality(L) <= Cardinality(live) /\ Cardinality(L) \in Nat /\ Cardinality(live) \in Nat
      BY <2>1, <2>2, Fewer, RequestSets
    <2>4. Cardinality(live) <= abandoned'
      BY <1>1, <1>3, <2>1, <2>3 DEF EngineInv, LiveCounted
    <2> QED
      BY <2>1, <2>2, <2>3, <2>4
  <1>9. LiveCounted'
    BY <1>2, <1>8 DEF LiveCounted
  <1>10. DriverAlone'
    <2>1. abandoned' = 0 => Cardinality(live') = 0
      BY <1>8
    <2>2. PICK L \in SUBSET Requests : L = live'
      BY <1>8
    <2>3. abandoned' = 0 => L = {}
      BY <2>1, <2>2, NoneLeft
    <2> QED
      BY <2>2, <2>3 DEF DriverAlone
  <1>11. MoreToCome'
    BY <1>1 DEF EngineInv, MoreToCome, Emitters
  <1> QED
    BY <1>4, <1>5, <1>6, <1>7, <1>9, <1>10, <1>11 DEF ServerInv, EngineInv
-----------------------------------------------------------------------------
LEMMA ServerStep == ASSUME ServerInv, [Next]_serverVars PROVE ServerInv'
  <1>1. HandlersTypeOK
    BY DEF ServerInv
  <1>2. ASSUME NEW r \in Requests, CheckGranted(r) \/ CheckRefused(r) PROVE ServerInv'
    BY <1>2, CheckKeepsInv
  <1>3. ASSUME NEW r \in Requests, Reject(r) \/ HeadersLost(r) \/ BeginRefused(r) PROVE ServerInv'
    BY <1>3, MoveKeepsInv
  <1>4. ASSUME NEW r \in Requests, Enter(r) PROVE ServerInv'
    BY <1>4, EnterKeepsInv
  <1>5. ASSUME NEW r \in Requests, Leave(r) PROVE ServerInv'
    BY <1>5, LeaveKeepsInv
  <1>6. ASSUME NEW r \in Requests, Begin(r) PROVE ServerInv'
    BY <1>6, BeginKeepsInv
  <1>7. ASSUME NEW r \in Requests, Step(r) PROVE ServerInv'
    BY <1>7, StepKeepsInv
  <1>8. ASSUME NEW r \in Requests, Relay(r) PROVE ServerInv'
    BY <1>8, RelayKeepsInv
  <1>9. ASSUME NEW r \in Requests, RelayLast(r) PROVE ServerInv'
    <2>1. /\ phase[r] = "driving" /\ chunks # << >> /\ Head(chunks).final /\ EndTurn(r)
          /\ assemblers' \in SUBSET assemblers
          /\ UNCHANGED <<limiterVars, streaming, live, left, stuck, abandoned>>
      BY <1>9 DEF RelayLast, Ends, AssemblersAfter
    <2>2. chunks \in Seq(Chunk)
      BY <1>1 DEF HandlersTypeOK, Chunk
    <2>3. HasFinal
      BY <2>1, <2>2, TailOfChunks DEF HasFinal
    <2>4. abandoned' \in Nat /\ live' \in SUBSET live
      BY <1>1, <2>1 DEF HandlersTypeOK
    <2> QED
      BY <2>1, <2>3, <2>4, EndKeepsInv
  <1>10. ASSUME NEW r \in Requests, StepRaises(r) \/ Disconnect(r) PROVE ServerInv'
    <2>1. /\ phase[r] = "driving" /\ EndTurn(r) /\ abandoned' = abandoned + 1
          /\ live' \in SUBSET live /\ assemblers' \in SUBSET assemblers
          /\ UNCHANGED <<limiterVars, streaming, left, stuck>>
      BY <1>10 DEF StepRaises, Disconnect, Drives, BrokenTurn, engine
    <2>2. abandoned' \in Nat
      BY <1>1, <2>1 DEF HandlersTypeOK
    <2> QED
      BY <2>1, <2>2, EndKeepsInv
  <1>11. ASSUME NEW r \in Requests, Spin(r) PROVE ServerInv'
    BY <1>11, SpinKeepsInv
  <1>12. CASE UNCHANGED serverVars
    <2>1. LimiterInv'
      BY <1>12, LimiterKept DEF serverVars, ServerInv
    <2> QED
      BY <1>12, <2>1 DEF serverVars, engine, limiterVars, ServerInv, HandlersTypeOK, SlotsExact, Slots,
              Holders, EngineInv, LockExact, DriverAlive, HasFinal, ChunksInTurn, LiveCounted,
              DriverAlone, OwnAnswer, MoreToCome, Emitters
  <1> QED
    BY <1>2, <1>3, <1>4, <1>5, <1>6, <1>7, <1>8, <1>9, <1>10, <1>11, <1>12 DEF Next, Handle

(* The server's inductive invariant (api.py:148-255, engine.py:112-164).   *)
THEOREM ServerInvariance == Spec => []ServerInv
  <1>1. Init => ServerInv
    BY InitServerInv
  <1>2. ServerInv /\ [Next]_serverVars => ServerInv'
    BY ServerStep
  <1> QED
    BY <1>1, <1>2, PTL DEF Spec

(* The server's and its limiter's variables keep their types.              *)
THEOREM ServerTypeCorrect == Spec => []TypeOK
  <1>1. ServerInv => TypeOK
    BY DEF ServerInv, LimiterInv, TypeOK
  <1> QED
    BY <1>1, ServerInvariance, PTL

(* However handlers end, a key has the slots of the requests it runs, no   *)
(* more and no fewer (api.py:174-178, ratelimit.py:163-175).               *)
THEOREM SlotsCorrect == Spec => []SlotsExact
  <1>1. ServerInv => SlotsExact
    BY DEF ServerInv
  <1> QED
    BY <1>1, ServerInvariance, PTL

(* One handler at a time drives the engine, and it has the lock            *)
(* (api.py:196, 229).                                                      *)
THEOREM LockCorrect == Spec => []LockExact
  <1>1. ServerInv => LockExact
    BY DEF ServerInv, EngineInv
  <1> QED
    BY <1>1, ServerInvariance, PTL

(* The loop of stream() never runs out of work without a final chunk       *)
(* (engine.py:158-162).                                                    *)
THEOREM DriverStaysAlive == Spec => []DriverAlive
  <1>1. ServerInv => DriverAlive
    BY DEF ServerInv, EngineInv
  <1> QED
    BY <1>1, ServerInvariance, PTL

(* Between turns no more requests are alive than answers have broken off   *)
(* (engine.py:161-164, api.py:251).                                        *)
THEOREM OrphansCorrect == Spec => []OrphansBounded
  <1>1. ServerInv => OrphansBounded
    BY DEF ServerInv, EngineInv, LiveCounted, OrphansBounded
  <1> QED
    BY <1>1, ServerInvariance, PTL

(* Until an answer breaks off, clients get the chunks of their own         *)
(* requests only (engine.py:159-160, api.py:230).                          *)
THEOREM AnswersAreOwn == Spec => []OwnAnswer
  <1>1. ServerInv => OwnAnswer
    BY DEF ServerInv, EngineInv
  <1> QED
    BY <1>1, ServerInvariance, PTL
=============================================================================
