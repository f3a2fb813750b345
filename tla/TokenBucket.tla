----------------------------- MODULE TokenBucket -----------------------------
(***************************************************************************)
(* pkg/security/ratelimit/tokenbucket.go: a bucket of tokens per key.      *)
(* Allow reads the clock before it takes the lock, so that callers may     *)
(* apply their times out of order.                                         *)
(*                                                                         *)
(* Tokens are counted in the time it takes to refill them: a token is      *)
(* worth Token units of time, and a bucket holds at most Capacity, Burst   *)
(* tokens. The middleware in front of it is in module Pipeline.            *)
(***************************************************************************)
EXTENDS Integers

CONSTANTS
  BucketKeys, BucketCallers,
  Observed,          \* the keys an observer looks at
  Token, Capacity,
  IdleTTL,           \* negative: buckets are never dropped; 0 asks for the default
  MaxBucketClock,    \* bound: how far time runs
  NoBucket, NoCall

(* NewTokenBucket refuses a rate or a burst that is not positive.          *)
ASSUME BucketAssumption ==
  /\ NoBucket \notin [tokens : 0..Capacity, lastSeen : Nat]
  /\ Token \in Nat \ {0} /\ Capacity \in Nat /\ Capacity >= Token
  /\ IdleTTL \in Int \ {0} /\ MaxBucketClock \in Nat /\ Observed \subseteq BucketKeys

VARIABLES
  buckets,        \* [keys -> [tokens, lastSeen] or NoBucket]
  allowing,       \* [callers -> [key, now] of the call under way, or NoCall]
  bucketClock,
  \* What an observer of some keys has seen, each a function of those keys:
  since,          \* the time it began to count
  spent,          \* worth of the tokens granted since
  mark,           \* the time up to which refills were counted
  slipped,        \* time counted again because a call was late
  dropped         \* how often the bucket was dropped since

observed == <<since, spent, mark, slipped, dropped>>
bucketVars == <<buckets, allowing, bucketClock, since, spent, mark, slipped, dropped>>

BucketInit ==
  /\ buckets = [k \in BucketKeys |-> NoBucket]
  /\ allowing = [c \in BucketCallers |-> NoCall]
  /\ bucketClock = 0
  /\ LET zero == [k \in Observed |-> 0] IN
     since = zero /\ spent = zero /\ mark = zero /\ slipped = zero /\ dropped = zero

(* Allow, up to the lock.                                                  *)
ReadClock(c, k) ==
  /\ allowing[c] = NoCall
  /\ allowing' = [allowing EXCEPT ![c] = [key |-> k, now |-> bucketClock]]
  /\ UNCHANGED <<buckets, bucketClock, observed>>

(* maybeReapLocked: the buckets idle at now.                               *)
Idle(now) ==
  {k \in BucketKeys : /\ IdleTTL >= 0 /\ buckets[k] # NoBucket
                      /\ buckets[k].lastSeen < now - IdleTTL}

Least(a, b) == IF a <= b THEN a ELSE b

(* Mutant: the refill is not capped.                                       *)
RefilledUncapped(k, now) ==
  IF k \in Idle(now) \/ buckets[k] = NoBucket THEN Capacity
  ELSE IF now > buckets[k].lastSeen THEN buckets[k].tokens + (now - buckets[k].lastSeen)
  ELSE buckets[k].tokens

(* The tokens of the bucket after the refill, full when it is new.         *)
Refilled(k, now) ==
  IF k \in Idle(now) \/ buckets[k] = NoBucket THEN Capacity
  ELSE IF now > buckets[k].lastSeen
  THEN Least(Capacity, buckets[k].tokens + (now - buckets[k].lastSeen))
  ELSE buckets[k].tokens

Positive(i) == IF i > 0 THEN i ELSE 0

Later(s, t) == IF s >= t THEN s ELSE t

(* Allow, under the lock: drop idle buckets, refill, and take a token if   *)
(* there is one; lastSeen becomes now even when now is older.              *)
Allow(c) ==
  /\ allowing[c] # NoCall
  /\ LET k == allowing[c].key
         now == allowing[c].now
         have == Refilled(k, now)
         pay == IF have >= Token THEN Token ELSE 0
     IN /\ buckets' = [x \in BucketKeys |->
                         IF x = k THEN [tokens |-> have - pay, lastSeen |-> now]
                         ELSE IF x \in Idle(now) THEN NoBucket ELSE buckets[x]]
        /\ spent' = [x \in Observed |-> IF x = k THEN spent[x] + pay ELSE spent[x]]
        /\ slipped' = [x \in Observed |-> IF x = k THEN slipped[x] + Positive(mark[x] - now)
                                          ELSE slipped[x]]
        /\ mark' = [x \in Observed |-> IF x = k THEN now
                                       ELSE IF x \in Idle(now) THEN Later(mark[x], now)
                                       ELSE mark[x]]
        /\ dropped' = [x \in Observed |-> IF x \in Idle(now) THEN dropped[x] + 1 ELSE dropped[x]]
  /\ allowing' = [allowing EXCEPT ![c] = NoCall]
  /\ UNCHANGED <<bucketClock, since>>

BucketTick ==
  /\ bucketClock < MaxBucketClock
  /\ bucketClock' = bucketClock + 1
  /\ UNCHANGED <<buckets, allowing, observed>>

(* An observer may begin to count at any moment; only history changes.     *)
Observe(k) ==
  /\ since' = [since EXCEPT ![k] = bucketClock]
  /\ spent' = [spent EXCEPT ![k] = 0]
  /\ mark' = [mark EXCEPT ![k] = bucketClock]
  /\ slipped' = [slipped EXCEPT ![k] = 0]
  /\ dropped' = [dropped EXCEPT ![k] = 0]
  /\ UNCHANGED <<buckets, allowing, bucketClock>>

BucketNext ==
  \/ \E k \in Observed : Observe(k)
  \/ \E c \in BucketCallers, k \in BucketKeys : ReadClock(c, k)
  \/ \E c \in BucketCallers : Allow(c)
  \/ BucketTick

BucketSpec == BucketInit /\ [][BucketNext]_bucketVars

-----------------------------------------------------------------------------
BucketTypeOK ==
  /\ buckets \in [BucketKeys -> [tokens : 0..Capacity, lastSeen : Nat] \cup {NoBucket}]
  /\ allowing \in [BucketCallers -> [key : BucketKeys, now : Nat] \cup {NoCall}]
  /\ bucketClock \in Nat
  /\ \A seen \in {since, spent, mark, slipped, dropped} : seen \in [Observed -> Nat]

(* What a bucket idle for longer than IdleTTL may lack, which it is given  *)
(* when it is dropped and reborn full: nothing, if a refill of the whole   *)
(* burst takes no longer than that.                                        *)
Windfall == Positive(Capacity - IdleTTL)

Regained(k) == dropped[k] * Windfall

(* In no window of time is a key granted more than its burst and what the  *)
(* rate refills in that time, plus the time by which late callers set the  *)
(* bucket back, plus the windfall of each time the bucket was dropped.     *)
(* Nothing makes IdleTTL cover the refill of a burst, the default of ten   *)
(* minutes does not at a low rate; where it does, drops add nothing        *)
(* (tokenbucket.go:64-84, 86-92, 94, 113, 135-145).                        *)
BucketBound ==
  \A k \in Observed :
    spent[k] <= Capacity + (bucketClock - since[k]) + slipped[k] + Regained(k)
=============================================================================
