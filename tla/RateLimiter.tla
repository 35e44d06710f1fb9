---------------------------- MODULE RateLimiter ----------------------------
(***************************************************************************)
(* The rate limiter, serve/ratelimit.py: for every API key a token bucket  *)
(* of requests, one of prompt tokens, and a count of running requests.     *)
(*                                                                         *)
(* Every call holds the limiter's lock from start to end, so a call is one *)
(* action.  Abstractions: a call reads the clock once; the levels of the   *)
(* buckets, floats in the code, are multiples of what refills in a tick.   *)
(***************************************************************************)
EXTENDS Integers, FiniteSets, Functions

CONSTANTS
  Keys,
  Estimates,                        (* estimated_tokens of the requests     *)
  RequestCost,                      (* one request, in bucket units         *)
  RequestCapacity, RequestRefill,   (* requests_per_minute, with bursts     *)
  TokenCapacity, TokenRefill,       (* tokens_per_minute, with bursts       *)
  ConcurrentPerKey,
  OlderThan,                        (* gc()'s older_than_s                  *)
  MaxTime,                          (* bound: ticks of the clock            *)
  MaxSlots                          (* bound: requests running with one key *)

ASSUME LimitsAssumption ==
  /\ Estimates \subseteq Nat
  /\ {RequestCost, RequestCapacity, RequestRefill, TokenCapacity, TokenRefill} \subseteq Nat
  /\ {ConcurrentPerKey, OlderThan, MaxTime, MaxSlots} \subseteq Nat

(* An hour refills any bucket: burst_multiplier is at most 60.             *)
ASSUME IdleAssumption ==
  /\ RequestCapacity <= OlderThan * RequestRefill
  /\ TokenCapacity <= OlderThan * TokenRefill

VARIABLES
  requestBuckets, tokenBuckets,  (* _requests, _tokens                      *)
  concurrent,                    (* _concurrent                             *)
  lastSeen,                      (* _last_seen                              *)
  now,                           (* time.monotonic()                        *)
  windowStart,                   (* history: a period of time begins here;  *)
  windowRequests, windowTokens   (*   what each key was granted in it       *)

buckets == <<requestBuckets, tokenBuckets, lastSeen>>
window == <<windowStart, windowRequests, windowTokens>>
limiterVars == <<buckets, concurrent, now, window>>

With(f, k, v) == [j \in DOMAIN f \cup {k} |-> IF j = k THEN v ELSE f[j]]

MinOf(m, n) == IF m <= n THEN m ELSE n

(***************************************************************************)
(* Bucket._refill(), and the two buckets of a key: an unknown key has full *)
(* ones, made on its first call.                                           *)
(***************************************************************************)
(* mutant: the time of the refill is not recorded                          *)
RefilledAgain(bucket, capacity, refill) ==
  [level |-> MinOf(capacity, bucket.level + (now - bucket.last) * refill), last |-> bucket.last]

Refilled(bucket, capacity, refill) ==
  [level |-> MinOf(capacity, bucket.level + (now - bucket.last) * refill), last |-> now]

Full(capacity) == [level |-> capacity, last |-> now]

Charged(bucket, amount) == [bucket EXCEPT !.level = @ - amount]

RequestBucket(k) == IF k \in DOMAIN requestBuckets THEN requestBuckets[k] ELSE Full(RequestCapacity)
TokenBucket(k) == IF k \in DOMAIN tokenBuckets THEN tokenBuckets[k] ELSE Full(TokenCapacity)

RequestsNow(k) == Refilled(RequestBucket(k), RequestCapacity, RequestRefill)
TokensNow(k) == Refilled(TokenBucket(k), TokenCapacity, TokenRefill)

Slots(k) == IF k \in DOMAIN concurrent THEN concurrent[k] ELSE 0

-----------------------------------------------------------------------------
LimiterInit ==
  /\ requestBuckets = << >> /\ tokenBuckets = << >>
  /\ concurrent = << >> /\ lastSeen = << >>
  /\ now = 0
  /\ windowStart \in 0..MaxTime
  /\ windowRequests = [k \in Keys |-> 0]
  /\ windowTokens = [k \in Keys |-> 0]

(***************************************************************************)
(* check(): the request is granted and charged, or refused.                *)
(***************************************************************************)
HasSlot(k) == Slots(k) < ConcurrentPerKey
HasRequest(k) == RequestsNow(k).level >= RequestCost

HasTokens(k, n) == n = 0 \/ TokensNow(k).level >= n

SetBuckets(k, requestBucket, tokenBucket) ==
  /\ requestBuckets' = With(requestBuckets, k, requestBucket)
  /\ tokenBuckets' = With(tokenBuckets, k, tokenBucket)
  /\ lastSeen' = With(lastSeen, k, now)

TokensAfter(k, n) == IF n = 0 THEN TokenBucket(k) ELSE Charged(TokensNow(k), n)

Grant(k, n) ==
  /\ HasSlot(k) /\ HasRequest(k) /\ HasTokens(k, n)
  /\ SetBuckets(k, Charged(RequestsNow(k), RequestCost), TokensAfter(k, n))
  /\ IF now >= windowStart
       THEN /\ windowRequests' = [windowRequests EXCEPT ![k] = @ + 1]
            /\ windowTokens' = [windowTokens EXCEPT ![k] = @ + n]
       ELSE UNCHANGED <<windowRequests, windowTokens>>
  /\ UNCHANGED <<concurrent, now, windowStart>>

RequestReturned(k) == RequestsNow(k)

Refuse(k, n) ==
  /\ \/ ~HasSlot(k) /\ SetBuckets(k, RequestBucket(k), TokenBucket(k))
     \/ HasSlot(k) /\ ~HasRequest(k) /\ SetBuckets(k, RequestsNow(k), TokenBucket(k))
     \/ /\ HasSlot(k) /\ HasRequest(k) /\ ~HasTokens(k, n)
        /\ SetBuckets(k, RequestReturned(k), TokensNow(k))
  /\ UNCHANGED <<concurrent, now, window>>

(***************************************************************************)
(* acquire() and release(), which a Guard calls around a request.          *)
(***************************************************************************)
Acquire(k) ==
  /\ concurrent' = With(concurrent, k, Slots(k) + 1)
  /\ UNCHANGED <<buckets, now, window>>

(* mutant: the last request leaves its slot behind                         *)
ReleaseAllButOne(k) ==
  /\ concurrent' = IF Slots(k) - 1 > 0 THEN With(concurrent, k, Slots(k) - 1) ELSE concurrent
  /\ UNCHANGED <<buckets, now, window>>

Release(k) ==
  /\ concurrent' = IF Slots(k) - 1 > 0 THEN With(concurrent, k, Slots(k) - 1)
                                       ELSE Restrict(concurrent, DOMAIN concurrent \ {k})
  /\ UNCHANGED <<buckets, now, window>>

(***************************************************************************)
(* gc() drops the buckets of the keys not seen for long.                   *)
(***************************************************************************)
Fresh == {k \in DOMAIN lastSeen : lastSeen[k] >= now - OlderThan}

Gc ==
  /\ Fresh # DOMAIN lastSeen
  /\ requestBuckets' = Restrict(requestBuckets, Fresh)
  /\ tokenBuckets' = Restrict(tokenBuckets, Fresh)
  /\ lastSeen' = Restrict(lastSeen, Fresh)
  /\ UNCHANGED <<concurrent, now, window>>

Tick == now < MaxTime /\ now' = now + 1 /\ UNCHANGED <<buckets, concurrent, window>>

LimiterNext ==
  \/ \E k \in Keys :
       \/ \E n \in Estimates : Grant(k, n) \/ Refuse(k, n)
       \/ Slots(k) < MaxSlots /\ Acquire(k)
       \/ Slots(k) > 0 /\ Release(k)
  \/ Gc
  \/ Tick

LimiterSpec == LimiterInit /\ [][LimiterNext]_limiterVars

-----------------------------------------------------------------------------
(***************************************************************************)
(* Properties.                                                             *)
(***************************************************************************)
Buckets == [level : Nat, last : Nat]

LimiterTypeOK ==
  /\ now \in Nat /\ windowStart \in Nat
  /\ DOMAIN requestBuckets = DOMAIN lastSeen /\ DOMAIN tokenBuckets = DOMAIN lastSeen
  /\ DOMAIN lastSeen \subseteq Keys
  /\ \A k \in DOMAIN lastSeen : /\ requestBuckets[k] \in Buckets /\ tokenBuckets[k] \in Buckets
                                /\ lastSeen[k] \in Nat
  /\ DOMAIN concurrent \subseteq Keys
  /\ \A k \in DOMAIN concurrent : concurrent[k] \in Nat \ {0}
  /\ {windowRequests, windowTokens} \subseteq [Keys -> Nat]

Elapsed == IF now > windowStart THEN now - windowStart ELSE 0

(* In any period of time a key is granted no more requests than a burst    *)
(* and what refills in it, whatever gc() drops in between: a fixed         *)
(* window's double burst across the boundary cannot happen.                *)
RequestRate ==
  \A k \in Keys :
    windowRequests[k] * RequestCost <= RequestCapacity + Elapsed * RequestRefill

(* The same of prompt tokens.                                              *)
TokenRate ==
  \A k \in Keys : windowTokens[k] <= TokenCapacity + Elapsed * TokenRefill

(* Both limits of a key.                                                   *)
GrantedRates == RequestRate /\ TokenRate

(* Only a granted request costs anything: what is refused, returned or     *)
(* dropped by gc() leaves every key able to do what it could before.       *)
OnlyGrantsCost ==
  [][\A k \in Keys :
       now' = now /\ now >= windowStart /\ windowRequests'[k] = windowRequests[k] =>
         /\ RequestsNow(k)'.level = RequestsNow(k).level
         /\ TokensNow(k)'.level = TokensNow(k).level]_limiterVars

-----------------------------------------------------------------------------
(***************************************************************************)
(* The inductive invariant: what was granted in the period and what could  *)
(* still be granted now are covered by the burst and the refill.           *)
(***************************************************************************)
Filled ==
  \A k \in DOMAIN lastSeen :
    /\ requestBuckets[k].level <= RequestCapacity /\ tokenBuckets[k].level <= TokenCapacity
    /\ requestBuckets[k].last <= lastSeen[k] /\ tokenBuckets[k].last <= lastSeen[k]
    /\ lastSeen[k] <= now

Covered ==
  \A k \in Keys :
    /\ windowRequests[k] * RequestCost + RequestsNow(k).level
         <= RequestCapacity + Elapsed * RequestRefill
    /\ windowTokens[k] + TokensNow(k).level <= TokenCapacity + Elapsed * TokenRefill
    /\ now < windowStart => windowRequests[k] = 0 /\ windowTokens[k] = 0

LimiterInv == LimiterTypeOK /\ Filled /\ Covered
=============================================================================
