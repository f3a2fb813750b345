-------------------------- MODULE Resilience_proofs --------------------------
(***************************************************************************)
(* Proofs about what keeps an application from being overrun: the circuit  *)
(* breaker, for any set of callers, threshold, cooldown and number of      *)
(* probes; the token buckets, for any keys and callers, any rate, burst    *)
(* and idle time; retries, for any policies; the                           *)
(* cache, for any keys, values, lifetimes and capacity.                    *)
(***************************************************************************)
EXTENDS CircuitBreaker, TokenBucket, Retry, Cache, DataLemmas

-----------------------------------------------------------------------------
(* The circuit breaker.                                                    *)

(* Which calls are late: only running ones; every probe, unless the        *)
(* breaker is half-open; every call admitted while closed, unless it is    *)
(* closed.                                                                 *)
LateInv ==
  /\ late \subseteq Running
  /\ state # "halfOpen" => Probes \subseteq late
  /\ state # "closed" => Calls \subseteq late

IInv == BreakerTypeOK /\ LateInv /\ ProbesBounded /\ FailuresBounded

-----------------------------------------------------------------------------
(* A probe of this period can be lost: it was not counted as lost before.  *)
LEMMA RoomForLost ==
  ASSUME BreakerTypeOK, ProbesBounded, NEW c \in CurrentProbes
  PROVE  /\ state = "halfOpen" /\ lost + 1 \in 0..HalfOpenMaxProbes
         /\ IsFiniteSet(CurrentProbes) /\ Cardinality(CurrentProbes) \in Nat
<1>1. state = "halfOpen"
  BY DEF ProbesBounded
<1>2. IsFiniteSet(CurrentProbes) /\ Cardinality(CurrentProbes) \in Nat
  BY BreakerAssumption, FS_Subset, FS_CardinalityType DEF CurrentProbes, Probes
<1>3. Cardinality(CurrentProbes) # 0
  BY <1>2, FS_EmptySet
<1> QED
  BY <1>1, <1>2, <1>3, BreakerAssumption DEF ProbesBounded, BreakerTypeOK

(* Every step keeps the variables in their types.                          *)
LEMMA TypeStep ==
  ASSUME BreakerTypeOK, ProbesBounded, [BreakerNext]_circuitVars PROVE BreakerTypeOK'
<1> USE BreakerAssumption DEF BreakerTypeOK, breakerVars, Running
<1>1. ASSUME NEW c \in Callers, Admit(c) PROVE BreakerTypeOK'
  BY <1>1 DEF Admit, AdmitCall, AdmitFirstProbe, AdmitProbe
<1>2. ASSUME NEW c \in Callers, Succeed(c) PROVE BreakerTypeOK'
  BY <1>2 DEF Succeed, ProbeSucceeds, CallSucceeds, transitionToClosed, Reset, Leave
<1>3. ASSUME NEW c \in Callers, Fail(c) PROVE BreakerTypeOK'
  BY <1>3 DEF Fail, ProbeFails, CallFails, transitionToOpen, Reset, Leave
<1>4. ASSUME NEW c \in Callers, OpPanics(c) \/ IsFailurePanics(c) PROVE BreakerTypeOK'
  <2>1. lost' \in 0..HalfOpenMaxProbes
    BY <1>4, RoomForLost DEF OpPanics, IsFailurePanics, LoseProbe
  <2> QED
    BY <1>4, <2>1 DEF OpPanics, IsFailurePanics, Leave
<1>5. CASE Look
  BY <1>5 DEF Look
<1>6. CASE Tick
  BY <1>6 DEF Tick
<1>7. CASE UNCHANGED circuitVars
  BY <1>7 DEF circuitVars
<1> QED
  BY <1>1, <1>2, <1>3, <1>4, <1>5, <1>6, <1>7 DEF BreakerNext

-----------------------------------------------------------------------------
(* How a step changes who is in what.                                      *)

LEMMA FiniteGroups ==
  /\ IsFiniteSet(Calls) /\ IsFiniteSet(Probes)
  /\ Cardinality(Calls) \in Nat /\ Cardinality(Callers) \in Nat
  /\ Cardinality(Calls) <= Cardinality(Callers)
BY BreakerAssumption, FS_Subset, FS_CardinalityType DEF Calls, Probes

LEMMA JoinCalls ==
  ASSUME BreakerTypeOK, NEW c \in Callers, call[c] = "idle",
         call' = [call EXCEPT ![c] = "call"]
  PROVE  Calls' = Calls \cup {c} /\ Probes' = Probes /\ Running' = Running \cup {c}
BY DEF BreakerTypeOK, Calls, Probes, Running

LEMMA JoinProbes ==
  ASSUME BreakerTypeOK, NEW c \in Callers, call[c] = "idle",
         call' = [call EXCEPT ![c] = "probe"]
  PROVE  Calls' = Calls /\ Probes' = Probes \cup {c} /\ Running' = Running \cup {c}
BY DEF BreakerTypeOK, Calls, Probes, Running

LEMMA LeaveGroups ==
  ASSUME BreakerTypeOK, NEW c \in Callers, Leave(c)
  PROVE  /\ Calls' = Calls \ {c} /\ Probes' = Probes \ {c}
         /\ Running' = Running \ {c}
BY DEF BreakerTypeOK, Calls, Probes, Running, Leave

(* One caller less in a call.                                              *)
LEMMA OneCallLess ==
  ASSUME BreakerTypeOK, NEW c \in Callers, call[c] = "call", Leave(c)
  PROVE  Cardinality(Calls') = Cardinality(Calls) - 1
<1>1. c \in Calls
  BY DEF Calls
<1> QED
  BY <1>1, FiniteGroups, LeaveGroups, FS_RemoveElement

(* A caller in a probe is not in a call.                                   *)
LEMMA RoomForCalls ==
  ASSUME BreakerTypeOK, NEW c \in Callers, call[c] # "call"
  PROVE  Cardinality(Calls) < Cardinality(Callers)
<1>1. Calls \subseteq Callers /\ Calls # Callers
  BY DEF Calls
<1> QED
  BY <1>1, BreakerAssumption, FiniteGroups, FS_Subset

-----------------------------------------------------------------------------
LEMMA LateStep ==
  ASSUME BreakerTypeOK, LateInv, [BreakerNext]_circuitVars PROVE LateInv'
<1> USE DEF LateInv, breakerVars
<1>1. ASSUME NEW c \in Callers, AdmitCall(c) PROVE LateInv'
  BY <1>1, JoinCalls DEF AdmitCall
<1>2. ASSUME NEW c \in Callers, AdmitFirstProbe(c) \/ AdmitProbe(c) PROVE LateInv'
  <2>1. Calls \subseteq Running
    BY DEF Calls, Running
  <2> QED
    BY <1>2, <2>1, JoinProbes DEF AdmitFirstProbe, AdmitProbe, CoolingOver
<1>3. ASSUME NEW c \in Callers, Leave(c), late' = Running \ {c} PROVE LateInv'
  <2>1. Calls \subseteq Running /\ Probes \subseteq Running
    BY DEF Calls, Probes, Running
  <2> QED
    BY <1>3, <2>1, LeaveGroups
<1>4. ASSUME NEW c \in Callers, Leave(c), late' = late \ {c}, state' = state
      PROVE LateInv'
  BY <1>4, LeaveGroups
<1>5. ASSUME NEW c \in Callers, Succeed(c) \/ Fail(c) \/ OpPanics(c) \/ IsFailurePanics(c)
      PROVE LateInv'
  BY <1>3, <1>4, <1>5
     DEF Succeed, Fail, OpPanics, IsFailurePanics, ProbeSucceeds, CallSucceeds, ProbeFails, CallFails,
         transitionToOpen, transitionToClosed
<1>6. CASE Look
  <2>1. Calls' = Calls /\ Probes' = Probes /\ Running' = Running
    BY <1>6 DEF Look, Calls, Probes, Running
  <2>2. Calls \subseteq Running
    BY DEF Calls, Running
  <2> QED
    BY <1>6, <2>1, <2>2 DEF Look
<1>7. CASE Tick \/ UNCHANGED circuitVars
  BY <1>7 DEF Tick, circuitVars, Calls, Probes, Running
<1> QED
  BY <1>1, <1>2, <1>5, <1>6, <1>7 DEF BreakerNext, Admit

(* The probes that a half-open period admitted are out or were lost.       *)
LEMMA ProbesStep ==
  ASSUME BreakerTypeOK, LateInv, ProbesBounded, [BreakerNext]_circuitVars PROVE ProbesBounded'
<1> USE BreakerAssumption DEF breakerVars
<1>0. /\ IsFiniteSet(CurrentProbes) /\ Cardinality(CurrentProbes) \in Nat
      /\ CurrentProbes \subseteq Running
  BY FiniteGroups, FS_Subset, FS_CardinalityType
     DEF CurrentProbes, Probes, Running
<1>1. ASSUME NEW c \in Callers, AdmitCall(c) PROVE ProbesBounded'
  BY <1>1, JoinCalls DEF AdmitCall, ProbesBounded, CurrentProbes
<1>2. ASSUME NEW c \in Callers, AdmitFirstProbe(c) PROVE ProbesBounded'
  <2>1. CurrentProbes' = {c}
    BY <1>2, JoinProbes DEF AdmitFirstProbe, CurrentProbes, Probes, Running
  <2>2. Cardinality(CurrentProbes') = 1
    BY <2>1, FS_Singleton
  <2> QED
    BY <1>2, <2>2 DEF AdmitFirstProbe, ProbesBounded
<1>3. ASSUME NEW c \in Callers, AdmitProbe(c) PROVE ProbesBounded'
  <2>1. CurrentProbes' = CurrentProbes \cup {c} /\ c \notin CurrentProbes
    BY <1>3, JoinProbes DEF AdmitProbe, CurrentProbes, Probes, Running, LateInv
  <2>2. Cardinality(CurrentProbes') = Cardinality(CurrentProbes) + 1
    BY <1>0, <2>1, FS_AddElement
  <2> QED
    BY <1>0, <1>3, <2>2 DEF AdmitProbe, ProbesBounded, BreakerTypeOK
<1>4. ASSUME NEW c \in Callers, Leave(c), late' = Running \ {c}, Reset,
             state' \in {"open", "closed"}
      PROVE ProbesBounded'
  <2>1. CurrentProbes' = {}
    BY <1>4, LeaveGroups DEF CurrentProbes, Probes, Running
  <2> QED
    BY <1>4, <2>1 DEF Reset, ProbesBounded
<1>5. ASSUME NEW c \in Callers, Leave(c), late' = late \ {c},
             UNCHANGED <<state, probesAdmitted>>, LoseProbe(c)
      PROVE ProbesBounded'
  <2>1. CurrentProbes' = CurrentProbes \ {c}
    BY <1>5, LeaveGroups DEF CurrentProbes
  <2>2. CASE c \in CurrentProbes
    <3>1. Cardinality(CurrentProbes') = Cardinality(CurrentProbes) - 1
      BY <1>0, <2>1, <2>2, FS_RemoveElement
    <3>2. lost' = lost + 1 /\ state = "halfOpen" /\ lost \in Nat
      BY <1>5, <2>2, RoomForLost DEF LoseProbe, BreakerTypeOK
    <3> QED
      BY <1>0, <1>5, <3>1, <3>2 DEF ProbesBounded
  <2>3. CASE c \notin CurrentProbes
    BY <1>5, <2>1, <2>3 DEF LoseProbe, ProbesBounded
  <2> QED
    BY <2>2, <2>3
<1>6. ASSUME NEW c \in Callers, Succeed(c) \/ Fail(c) \/ OpPanics(c) \/ IsFailurePanics(c)
      PROVE ProbesBounded'
  <2>1. CASE ProbeSucceeds(c) \/ ProbeFails(c) \/ (CallFails(c) /\ failures + 1 >= FailureThreshold)
    BY <1>4, <2>1 DEF ProbeSucceeds, ProbeFails, CallFails, transitionToOpen, transitionToClosed
  <2>2. CASE CallSucceeds(c) \/ (CallFails(c) /\ ~(failures + 1 >= FailureThreshold))
    <3>1. c \notin CurrentProbes
      BY <2>2 DEF CallSucceeds, CallFails, CurrentProbes, Probes
    <3> QED
      BY <1>5, <2>2, <3>1 DEF CallSucceeds, CallFails, LoseProbe
  <2>3. CASE OpPanics(c) \/ IsFailurePanics(c)
    BY <1>5, <2>3 DEF OpPanics, IsFailurePanics
  <2> QED
    BY <1>6, <2>1, <2>2, <2>3 DEF Succeed, Fail
<1>7. CASE Look
  <2>1. CurrentProbes' = {}
    BY <1>7 DEF Look, CurrentProbes, Probes, Running
  <2>2. Cardinality(CurrentProbes') = 0
    BY <2>1, FS_EmptySet
  <2> QED
    BY <1>7, <2>2 DEF Look, ProbesBounded
<1>8. CASE Tick \/ UNCHANGED circuitVars
  BY <1>8 DEF Tick, circuitVars, ProbesBounded, CurrentProbes, Probes
<1> QED
  BY <1>1, <1>2, <1>3, <1>6, <1>7, <1>8 DEF BreakerNext, Admit

(* The failure count stays within its budget.                              *)
LEMMA FailuresStep ==
  ASSUME BreakerTypeOK, FailuresBounded, [BreakerNext]_circuitVars PROVE FailuresBounded'
<1> USE BreakerAssumption, FiniteGroups DEF BreakerTypeOK, breakerVars, FailuresBounded
<1>1. ASSUME NEW c \in Callers, AdmitCall(c) PROVE FailuresBounded'
  BY <1>1 DEF AdmitCall
<1>2. ASSUME NEW c \in Callers, AdmitFirstProbe(c) \/ AdmitProbe(c)
      PROVE FailuresBounded'
  BY <1>2, JoinProbes DEF AdmitFirstProbe, AdmitProbe, CoolingOver
<1>3. ASSUME NEW c \in Callers, ProbeSucceeds(c) PROVE FailuresBounded'
  BY <1>3 DEF ProbeSucceeds, transitionToClosed
<1>4. ASSUME NEW c \in Callers, CallSucceeds(c) PROVE FailuresBounded'
  <2>1. Cardinality(Calls') = Cardinality(Calls) - 1
    BY <1>4, OneCallLess DEF CallSucceeds
  <2> QED
    BY <1>4, <2>1 DEF CallSucceeds
<1>5. ASSUME NEW c \in Callers, ProbeFails(c) PROVE FailuresBounded'
  <2>1. Calls' = Calls
    BY <1>5, LeaveGroups DEF ProbeFails, Calls
  <2>2. Cardinality(Calls) < Cardinality(Callers)
    BY <1>5, RoomForCalls DEF ProbeFails
  <2> QED
    BY <1>5, <2>1, <2>2 DEF ProbeFails, transitionToOpen
<1>6. ASSUME NEW c \in Callers, CallFails(c) PROVE FailuresBounded'
  <2>1. Cardinality(Calls') = Cardinality(Calls) - 1
    BY <1>6, OneCallLess DEF CallFails
  <2> QED
    BY <1>6, <2>1 DEF CallFails, transitionToOpen
<1>7. ASSUME NEW c \in Callers, OpPanics(c) \/ IsFailurePanics(c) PROVE FailuresBounded'
  <2>1. Cardinality(Calls') <= Cardinality(Calls) /\ Cardinality(Calls') \in Nat
    BY <1>7, LeaveGroups, FS_Subset, FS_CardinalityType DEF OpPanics, IsFailurePanics
  <2> QED
    BY <1>7, <2>1 DEF OpPanics, IsFailurePanics
<1>8. CASE Look \/ Tick \/ UNCHANGED circuitVars
  BY <1>8 DEF Look, Tick, circuitVars, Calls, CoolingOver
<1> QED
  BY <1>1, <1>2, <1>3, <1>4, <1>5, <1>6, <1>7, <1>8 DEF BreakerNext, Admit, Succeed, Fail

-----------------------------------------------------------------------------
LEMMA IInvInit == BreakerInit => IInv
<1> SUFFICES ASSUME BreakerInit PROVE IInv
  OBVIOUS
<1>1. Calls = {} /\ Probes = {} /\ Running = {} /\ CurrentProbes = {}
  BY DEF BreakerInit, Calls, Probes, Running, CurrentProbes
<1> QED
  BY <1>1, BreakerAssumption, FiniteGroups
     DEF BreakerInit, IInv, BreakerTypeOK, LateInv, ProbesBounded, FailuresBounded

LEMMA IInvStep == IInv /\ [BreakerNext]_circuitVars => IInv'
BY TypeStep, LateStep, ProbesStep, FailuresStep DEF IInv

(* The inductive invariant holds in every reachable state.                 *)
THEOREM BreakerInvariant == BreakerSpec => []IInv
BY IInvInit, IInvStep, PTL DEF BreakerSpec

(* Every reachable state is well typed.                                    *)
THEOREM BreakerTypeCorrect == BreakerSpec => []BreakerTypeOK
<1>1. IInv => BreakerTypeOK
  BY DEF IInv
<1> QED
  BY <1>1, BreakerInvariant, PTL

(* However many earlier probes are still out, a half-open period admits    *)
(* no more than it may, and each of those is out or has panicked.          *)
THEOREM ProbesStayBounded == BreakerSpec => []ProbesBounded
<1>1. IInv => ProbesBounded
  BY DEF IInv
<1> QED
  BY <1>1, BreakerInvariant, PTL

(* The failure count is short of the threshold whenever the breaker is     *)
(* closed, and bounded otherwise.                                          *)
THEOREM FailuresStayBounded == BreakerSpec => []FailuresBounded
<1>1. IInv => FailuresBounded
  BY DEF IInv
<1> QED
  BY <1>1, BreakerInvariant, PTL

(* A cooldown is disturbed by late results only.                           *)
THEOREM CooldownOnlyLate == BreakerSpec => OnlyLateDisturbsOpen
<1> DEFINE A == state = "open" /\ cooling > 0 /\ (state' # "open" \/ cooling' > cooling) =>
                  \E c \in late : call[c] # "idle" /\ call'[c] = "idle"
<1>1. ASSUME IInv, [BreakerNext]_circuitVars PROVE A
  <2> SUFFICES ASSUME state = "open", cooling > 0, state' # "open" \/ cooling' > cooling
               PROVE \E c \in late : call[c] # "idle" /\ call'[c] = "idle"
    OBVIOUS
  <2> USE <1>1 DEF IInv, BreakerTypeOK, breakerVars
  <2>1. PICK c \in Callers : Succeed(c) \/ Fail(c)
    BY DEF BreakerNext, Admit, AdmitCall, AdmitFirstProbe, AdmitProbe, CoolingOver, Look,
           OpPanics, IsFailurePanics, Tick, circuitVars
  <2>2. Leave(c) /\ c \in Calls \cup Probes
    BY <2>1 DEF Succeed, Fail, ProbeSucceeds, ProbeFails, CallSucceeds, CallFails,
                Calls, Probes
  <2>3. c \in late
    BY <2>2 DEF LateInv
  <2> QED
    BY <2>2, <2>3 DEF Leave, Calls, Probes
<1> QED
  BY <1>1, BreakerInvariant, PTL DEF BreakerSpec, OnlyLateDisturbsOpen

-----------------------------------------------------------------------------
(* The token buckets.                                                      *)

(* No time that is kept lies ahead of the clock, and a bucket was last     *)
(* seen no later than the time up to which refills were counted.           *)
TimesBehind ==
  /\ \A c \in BucketCallers : allowing[c] # NoCall => allowing[c].now <= bucketClock
  /\ \A k \in Observed :
       /\ mark[k] <= bucketClock
       /\ buckets[k] # NoBucket => buckets[k].lastSeen <= mark[k]

(* What a bucket would hold at the time up to which refills were counted.  *)
Worth(k) == Least(Capacity, buckets[k].tokens + (mark[k] - buckets[k].lastSeen))

(* What the key of a bucket has been paid, the burst left aside.           *)
Paid(k) == (mark[k] - since[k]) + slipped[k] + Regained(k)

(* What a key was granted and what its bucket is worth is paid for by the  *)
(* burst, by the time that passed, by the time counted twice and by what   *)
(* the bucket gained when it was dropped: it is worth a full one then.     *)
PaidFor ==
  \A k \in Observed :
    /\ buckets[k] # NoBucket => spent[k] + Worth(k) <= Capacity + Paid(k)
    /\ buckets[k] = NoBucket => spent[k] <= Paid(k)

BucketInv == BucketTypeOK /\ TimesBehind /\ PaidFor

-----------------------------------------------------------------------------
(* Each drop adds one windfall.                                            *)
LEMMA WindfallsAdd ==
  /\ Windfall \in Nat
  /\ IdleTTL >= 0 => Windfall >= Capacity - IdleTTL
  /\ \A n \in Nat : n * Windfall \in Nat /\ (n + 1) * Windfall = n * Windfall + Windfall
  /\ 0 * Windfall = 0
<1>1. Windfall \in Nat /\ Windfall >= Capacity - IdleTTL
  BY BucketAssumption DEF Windfall, Positive
<1>2. PICK w \in Nat : w = Windfall
  BY <1>1
<1>3. \A n \in Nat : n * w \in Nat /\ (n + 1) * w = n * w + w
  OBVIOUS
<1>4. 0 * w = 0
  OBVIOUS
<1> QED
  BY <1>1, <1>2, <1>3, <1>4

(* The history of an observed key is made of naturals.                     *)
LEMMA HistoryTyped ==
  ASSUME BucketTypeOK, NEW k \in Observed
  PROVE  /\ since[k] \in Nat /\ spent[k] \in Nat /\ mark[k] \in Nat /\ slipped[k] \in Nat
         /\ dropped[k] \in Nat /\ Regained(k) \in Nat
         /\ k \in BucketKeys
<1>1. /\ since \in [Observed -> Nat] /\ spent \in [Observed -> Nat] /\ mark \in [Observed -> Nat]
      /\ slipped \in [Observed -> Nat] /\ dropped \in [Observed -> Nat]
  BY DEF BucketTypeOK
<1> QED
  BY <1>1, WindfallsAdd, BucketAssumption DEF Regained

(* The initial state satisfies the inductive invariant.                    *)
LEMMA BucketInitial == BucketInit => BucketInv
<1> SUFFICES ASSUME BucketInit PROVE BucketInv
  OBVIOUS
<1>1. BucketTypeOK
  BY BucketAssumption DEF BucketInit, BucketTypeOK
<1>2. \A k \in Observed : Regained(k) = 0 /\ Paid(k) = 0
  BY WindfallsAdd DEF BucketInit, Regained, Paid
<1>3. TimesBehind /\ PaidFor
  BY <1>2, BucketAssumption DEF BucketInit, TimesBehind, PaidFor
<1> QED
  BY <1>1, <1>3 DEF BucketInv

(* What a refill yields is within the burst. It is no more than the worth  *)
(* of the bucket plus the time not counted yet, and the windfall if the    *)
(* bucket was idle; a new bucket is paid for in full.                      *)
LEMMA RefillTyped ==
  ASSUME BucketTypeOK, NEW k \in BucketKeys, NEW now \in Nat
  PROVE  Refilled(k, now) \in 0..Capacity
  BY BucketAssumption DEF BucketTypeOK, Refilled, Least

LEMMA RefillPaidFor ==
  ASSUME BucketInv, NEW k \in Observed, NEW now \in Nat
  PROVE  spent[k] + Refilled(k, now) <=
           Capacity + (now - since[k]) + slipped[k] + Positive(mark[k] - now)
             + Regained(k) + (IF k \in Idle(now) THEN Windfall ELSE 0)
<1> USE BucketAssumption, HistoryTyped, WindfallsAdd DEF BucketInv, BucketTypeOK
<1>1. CASE buckets[k] = NoBucket
  <2>1. Refilled(k, now) = Capacity /\ k \notin Idle(now)
    BY <1>1 DEF Refilled, Idle
  <2>2. spent[k] <= (mark[k] - since[k]) + slipped[k] + Regained(k)
    BY <1>1 DEF PaidFor, Paid
  <2> QED BY <2>1, <2>2 DEF Positive
<1>2. CASE buckets[k] # NoBucket /\ k \in Idle(now)
  <2>1. buckets[k].lastSeen < now - IdleTTL /\ IdleTTL >= 0 /\ Refilled(k, now) = Capacity
    BY <1>2 DEF Idle, Refilled
  <2>2. spent[k] + Worth(k) <= Capacity + (mark[k] - since[k]) + slipped[k] + Regained(k)
    BY <1>2 DEF PaidFor, Paid
  <2> QED BY <1>2, <2>1, <2>2 DEF Worth, Least, Positive
<1>3. CASE buckets[k] # NoBucket /\ k \notin Idle(now)
  <2>1. buckets[k].lastSeen <= mark[k]
    BY <1>3 DEF TimesBehind
  <2>2. spent[k] + Worth(k) <= Capacity + (mark[k] - since[k]) + slipped[k] + Regained(k)
    BY <1>3 DEF PaidFor, Paid
  <2> QED BY <1>3, <2>1, <2>2 DEF Refilled, Worth, Least, Positive
<1> QED BY <1>1, <1>2, <1>3

(* A bucket that is dropped at a time lacks no more than the windfall.     *)
LEMMA IdlePaidFor ==
  ASSUME BucketInv, NEW k \in Observed, NEW now \in Nat, k \in Idle(now)
  PROVE  spent[k] <= (Later(mark[k], now) - since[k]) + slipped[k] + Regained(k) + Windfall
<1> USE BucketAssumption, HistoryTyped, WindfallsAdd DEF BucketInv, BucketTypeOK
<1>1. buckets[k] # NoBucket /\ buckets[k].lastSeen < now - IdleTTL /\ IdleTTL >= 0
  BY DEF Idle
<1>2. spent[k] + Worth(k) <= Capacity + (mark[k] - since[k]) + slipped[k] + Regained(k)
  BY <1>1 DEF PaidFor, Paid
<1> QED BY <1>1, <1>2 DEF Worth, Least, Later

-----------------------------------------------------------------------------
(* Every step preserves the invariant.                                     *)
LEMMA ReadClockSafe ==
  ASSUME BucketInv, NEW c \in BucketCallers, NEW k \in BucketKeys, ReadClock(c, k)
  PROVE  BucketInv'
<1> USE DEF ReadClock, observed, BucketInv
<1>1. BucketTypeOK' BY DEF BucketTypeOK
<1>2. TimesBehind' BY DEF BucketTypeOK, TimesBehind
<1>3. PaidFor' BY DEF PaidFor, Paid, Regained, Worth
<1> QED BY <1>1, <1>2, <1>3

LEMMA BucketTickSafe ==
  ASSUME BucketInv, BucketTick
  PROVE  BucketInv'
<1> USE DEF BucketTick, observed, BucketInv
<1>1. BucketTypeOK' BY DEF BucketTypeOK
<1>2. TimesBehind' BY HistoryTyped DEF BucketTypeOK, TimesBehind
<1>3. PaidFor' BY DEF PaidFor, Paid, Regained, Worth
<1> QED BY <1>1, <1>2, <1>3

LEMMA ObserveSafe ==
  ASSUME BucketInv, NEW k \in Observed, Observe(k)
  PROVE  BucketInv'
<1> USE BucketAssumption DEF BucketInv
<1>0. /\ buckets' = buckets /\ allowing' = allowing /\ bucketClock' = bucketClock
      /\ since' = [since EXCEPT ![k] = bucketClock] /\ spent' = [spent EXCEPT ![k] = 0]
      /\ mark' = [mark EXCEPT ![k] = bucketClock] /\ slipped' = [slipped EXCEPT ![k] = 0]
      /\ dropped' = [dropped EXCEPT ![k] = 0]
  BY DEF Observe
<1>1. BucketTypeOK' BY <1>0 DEF BucketTypeOK
<1>2. ASSUME NEW x \in Observed, x # k
      PROVE  /\ since'[x] = since[x] /\ spent'[x] = spent[x] /\ mark'[x] = mark[x]
             /\ slipped'[x] = slipped[x] /\ dropped'[x] = dropped[x]
  BY <1>0, <1>2 DEF BucketTypeOK
<1>3. /\ since'[k] = bucketClock /\ spent'[k] = 0 /\ mark'[k] = bucketClock
      /\ slipped'[k] = 0 /\ dropped'[k] = 0
  BY <1>0 DEF BucketTypeOK
<1>4. TimesBehind'
  <2> SUFFICES ASSUME NEW x \in Observed
               PROVE  /\ mark'[x] <= bucketClock
                      /\ buckets[x] # NoBucket => buckets[x].lastSeen <= mark'[x]
    BY <1>0 DEF TimesBehind
  <2> QED BY <1>2, <1>3, HistoryTyped DEF BucketTypeOK, TimesBehind
<1>5. PaidFor'
  <2> SUFFICES ASSUME NEW x \in Observed
               PROVE  /\ buckets[x] # NoBucket => spent'[x] + Worth(x)' <= Capacity + Paid(x)'
                      /\ buckets[x] = NoBucket => spent'[x] <= Paid(x)'
    BY <1>0 DEF PaidFor
  <2>1. CASE x = k
    <3>1. Regained(k)' = 0
      BY <1>3, WindfallsAdd DEF Regained
    <3>2. Paid(k)' = 0
      BY <1>3, <3>1 DEF Paid, BucketTypeOK
    <3>3. buckets[x] # NoBucket => Worth(x)' \in Int /\ Worth(x)' <= Capacity
      BY <1>0, <1>1, <2>1, <1>3 DEF Worth, Least, BucketTypeOK
    <3> QED BY <1>3, <2>1, <3>2, <3>3
  <2>2. CASE x # k
    <3>1. Paid(x)' = Paid(x) /\ Worth(x)' = Worth(x) /\ spent'[x] = spent[x]
      BY <1>0, <1>2, <2>2 DEF Paid, Regained, Worth
    <3> QED BY <3>1 DEF PaidFor
  <2> QED BY <2>1, <2>2
<1> QED BY <1>1, <1>4, <1>5

LEMMA AllowSafe ==
  ASSUME BucketInv, NEW c \in BucketCallers, Allow(c)
  PROVE  BucketInv'
<1> USE BucketAssumption
<1> DEFINE k == allowing[c].key
           now == allowing[c].now
           have == Refilled(k, now)
           pay == IF have >= Token THEN Token ELSE 0
<1>1. k \in BucketKeys /\ now \in Nat /\ now <= bucketClock
  BY DEF Allow, BucketInv, BucketTypeOK, TimesBehind
<1>2. /\ have \in 0..Capacity
      /\ k \in Observed => spent[k] + have <=
           Capacity + (now - since[k]) + slipped[k] + Positive(mark[k] - now)
             + Regained(k) + (IF k \in Idle(now) THEN Windfall ELSE 0)
  BY <1>1, RefillTyped, RefillPaidFor DEF BucketInv
<1>3. have - pay \in 0..Capacity /\ pay \in Nat
  BY <1>2
<1>4. /\ buckets' = [x \in BucketKeys |->
                       IF x = k THEN [tokens |-> have - pay, lastSeen |-> now]
                       ELSE IF x \in Idle(now) THEN NoBucket ELSE buckets[x]]
      /\ spent' = [x \in Observed |-> IF x = k THEN spent[x] + pay ELSE spent[x]]
      /\ slipped' = [x \in Observed |-> IF x = k THEN slipped[x] + Positive(mark[x] - now)
                                        ELSE slipped[x]]
      /\ mark' = [x \in Observed |-> IF x = k THEN now
                                     ELSE IF x \in Idle(now) THEN Later(mark[x], now)
                                     ELSE mark[x]]
      /\ dropped' = [x \in Observed |-> IF x \in Idle(now) THEN dropped[x] + 1 ELSE dropped[x]]
      /\ allowing' = [allowing EXCEPT ![c] = NoCall]
      /\ UNCHANGED <<bucketClock, since>>
  BY DEF Allow
<1> HIDE DEF have, pay, k, now
<1>5. BucketTypeOK'
  <2>1. /\ buckets' \in [BucketKeys -> [tokens : 0..Capacity, lastSeen : Nat] \cup {NoBucket}]
        /\ allowing' \in [BucketCallers -> [key : BucketKeys, now : Nat] \cup {NoCall}]
        /\ bucketClock' \in Nat /\ since' \in [Observed -> Nat]
    BY <1>1, <1>3, <1>4 DEF BucketInv, BucketTypeOK
  <2>2. \A x \in Observed : /\ (spent[x] + pay) \in Nat /\ Positive(mark[x] - now) \in Nat
                            /\ slipped[x] + Positive(mark[x] - now) \in Nat
                            /\ Later(mark[x], now) \in Nat /\ dropped[x] + 1 \in Nat
    BY <1>1, <1>3, HistoryTyped DEF BucketInv, Positive, Later
  <2>3. /\ spent' \in [Observed -> Nat] /\ slipped' \in [Observed -> Nat]
        /\ mark' \in [Observed -> Nat] /\ dropped' \in [Observed -> Nat]
    BY <1>1, <1>4, <2>2, HistoryTyped DEF BucketInv
  <2> QED BY <2>1, <2>3 DEF BucketTypeOK
<1>6. TimesBehind'
  <2>1. \A d \in BucketCallers : allowing'[d] # NoCall => allowing'[d].now <= bucketClock'
    BY <1>4 DEF BucketInv, BucketTypeOK, TimesBehind
  <2>2. ASSUME NEW x \in Observed
        PROVE  /\ mark'[x] <= bucketClock'
               /\ buckets'[x] # NoBucket => buckets'[x].lastSeen <= mark'[x]
    BY <1>1, <1>3, <1>4, HistoryTyped DEF BucketInv, BucketTypeOK, TimesBehind, Later
  <2> QED BY <2>1, <2>2 DEF TimesBehind
<1>7. PaidFor'
  <2> SUFFICES ASSUME NEW x \in Observed
               PROVE  /\ buckets'[x] # NoBucket => spent'[x] + Worth(x)' <= Capacity + Paid(x)'
                      /\ buckets'[x] = NoBucket => spent'[x] <= Paid(x)'
    BY DEF PaidFor
  <2>0. /\ since[x] \in Nat /\ spent[x] \in Nat /\ mark[x] \in Nat /\ slipped[x] \in Nat
        /\ dropped[x] \in Nat /\ Regained(x) \in Nat /\ x \in BucketKeys
    BY HistoryTyped DEF BucketInv
  <2>1. /\ since'[x] = since[x]
        /\ Regained(x)' = Regained(x) + (IF x \in Idle(now) THEN Windfall ELSE 0)
    BY <1>4, <2>0, WindfallsAdd DEF Regained
  <2>2. CASE x = k
    <3>1. buckets'[x] = [tokens |-> have - pay, lastSeen |-> now] /\ buckets'[x] # NoBucket
      BY <2>2, <1>1, <1>3, <1>4
    <3>2. /\ spent'[x] = spent[x] + pay /\ mark'[x] = now
          /\ slipped'[x] = slipped[x] + Positive(mark[x] - now)
      BY <2>2, <1>4
    <3>3. Worth(x)' = have - pay
      BY <3>1, <3>2, <1>1, <1>3 DEF Worth, Least
    <3> QED BY <3>1, <3>2, <3>3, <2>0, <2>1, <2>2, <1>1, <1>2, <1>3, WindfallsAdd
            DEF Positive, Paid
  <2>3. CASE x # k /\ x \in Idle(now)
    <3>1. buckets'[x] = NoBucket /\ mark'[x] = Later(mark[x], now)
      BY <2>0, <2>3, <1>4
    <3>2. spent'[x] = spent[x] /\ slipped'[x] = slipped[x]
      BY <2>3, <1>4
    <3>3. spent[x] <= (Later(mark[x], now) - since[x]) + slipped[x] + Regained(x) + Windfall
      BY <2>3, <1>1, IdlePaidFor
    <3> QED BY <3>1, <3>2, <3>3, <2>0, <2>1, <2>3, <1>1, WindfallsAdd DEF Paid, Later
  <2>4. CASE x # k /\ x \notin Idle(now)
    <3>1. buckets'[x] = buckets[x] /\ mark'[x] = mark[x]
      BY <2>0, <2>4, <1>4
    <3>2. spent'[x] = spent[x] /\ slipped'[x] = slipped[x] /\ Regained(x)' = Regained(x)
      BY <2>0, <2>1, <2>4, <1>4
    <3> QED BY <3>1, <3>2, <2>1 DEF BucketInv, PaidFor, Paid, Worth
  <2> QED BY <2>2, <2>3, <2>4
<1> QED BY <1>5, <1>6, <1>7 DEF BucketInv

LEMMA BucketStep == BucketInv /\ [BucketNext]_bucketVars => BucketInv'
<1> SUFFICES ASSUME BucketInv, [BucketNext]_bucketVars PROVE BucketInv'
  OBVIOUS
<1>1. ASSUME NEW k \in Observed, Observe(k) PROVE BucketInv'
  BY <1>1, ObserveSafe
<1>2. ASSUME NEW c \in BucketCallers, NEW k \in BucketKeys, ReadClock(c, k) PROVE BucketInv'
  BY <1>2, ReadClockSafe
<1>3. ASSUME NEW c \in BucketCallers, Allow(c) PROVE BucketInv'
  BY <1>3, AllowSafe
<1>4. CASE BucketTick
  BY <1>4, BucketTickSafe
<1>5. CASE UNCHANGED bucketVars
  BY <1>5 DEF bucketVars, BucketInv, BucketTypeOK, TimesBehind, PaidFor, Paid, Regained, Worth
<1> QED BY <1>1, <1>2, <1>3, <1>4, <1>5 DEF BucketNext

(* The inductive invariant holds always, whatever the idle time: grants    *)
(* and worth are paid for by burst, time, slips and windfalls.             *)
THEOREM BucketInvariant == BucketSpec => []BucketInv
  BY BucketInitial, BucketStep, PTL DEF BucketSpec

(* What is paid for stays within the bound up to now.                      *)
LEMMA PaidIsBounded == BucketInv => BucketBound
<1> SUFFICES ASSUME BucketInv, NEW k \in Observed
             PROVE  spent[k] <= Capacity + (bucketClock - since[k]) + slipped[k] + Regained(k)
  BY DEF BucketBound
<1> USE BucketAssumption, HistoryTyped DEF BucketInv, BucketTypeOK, TimesBehind
<1>1. CASE buckets[k] = NoBucket
  BY <1>1 DEF PaidFor, Paid
<1>2. CASE buckets[k] # NoBucket
  <2>1. Worth(k) \in Nat
    BY <1>2 DEF Worth, Least
  <2>2. spent[k] + Worth(k) <= Capacity + (mark[k] - since[k]) + slipped[k] + Regained(k)
    BY <1>2 DEF PaidFor, Paid
  <2> QED BY <2>1, <2>2
<1> QED BY <1>1, <1>2

(* Every reachable state is well typed: a bucket never holds more than its *)
(* burst or less than nothing (tokenbucket.go:100-117).                    *)
THEOREM BucketTypeCorrect == BucketSpec => []BucketTypeOK
  BY BucketInvariant, PTL DEF BucketInv

(* No key is ever granted more than its burst, what the rate refills, the  *)
(* time by which late callers set its bucket back, and a windfall for each *)
(* drop of its bucket, for every idle time NewTokenBucket accepts.         *)
THEOREM GrantsBounded == BucketSpec => []BucketBound
  BY BucketInvariant, PaidIsBounded, PTL

-----------------------------------------------------------------------------
(* Retries.                                                                *)

(* One call of Do under a policy that is chosen first.                     *)
RetrySpec == RetryInit /\ [][RetryNext]_retryVars

(* A base that has grown is a number: a function that satisfies the        *)
(* recursion is there, so the one that CHOOSE yields satisfies it, too.    *)
LEMMA GrowthTyped ==
  ASSUME NEW p \in PolicyType, NEW attempt \in Nat \ {0}
  PROVE  Growth(p, attempt)[attempt] \in Int
<1> DEFINE Next1(x) == (x * p.multiplier) \div Hundredths
           Grows(g, n) == /\ g \in [1..n -> Int] /\ g[1] = p.initialDelay
                          /\ \A k \in 2..n : g[k] = Next1(g[k - 1])
           T == {n \in Nat \ {0} : \E g \in [1..n -> Int] : Grows(g, n)}
<1>1. p.initialDelay \in Int /\ p.multiplier \in Int
  BY DEF PolicyType
<1>2. \A x \in Int : Next1(x) \in Int
  BY <1>1 DEF Hundredths
<1> HIDE DEF Next1
<1>3. 1 \in T
  <2> DEFINE g == [k \in 1..1 |-> p.initialDelay]
  <2>1. g \in [1..1 -> Int] /\ Grows(g, 1)
    BY <1>1
  <2> HIDE DEF g
  <2> QED
    BY <2>1
<1>4. ASSUME NEW n \in 1..(attempt - 1), n \in T PROVE n + 1 \in T
  <2>1. PICK g \in [1..n -> Int] : Grows(g, n)
    BY <1>4
  <2> DEFINE h == [k \in 1..(n + 1) |-> IF k \in 1..n THEN g[k] ELSE Next1(g[n])]
  <2>2. h \in [1..(n + 1) -> Int]
    BY <1>2, <2>1
  <2>3. h[1] = p.initialDelay /\ \A k \in 2..(n + 1) : h[k] = Next1(h[k - 1])
    <3>1. h[1] = p.initialDelay
      BY <2>1
    <3>2. ASSUME NEW k \in 2..(n + 1) PROVE h[k] = Next1(h[k - 1])
      <4>1. k - 1 \in 1..n /\ h[k - 1] = g[k - 1] /\ (k = n + 1 \/ k \in 2..n)
        OBVIOUS
      <4>2. CASE k = n + 1
        <5>1. k - 1 = n /\ h[k] = Next1(g[n])
          BY <4>2
        <5> QED
          BY <4>1, <5>1
      <4>3. CASE k \in 2..n
        <5>1. h[k] = g[k] /\ g[k] = Next1(g[k - 1])
          BY <2>1, <4>3
        <5> QED
          BY <4>1, <5>1
      <4> QED
        BY <4>1, <4>2, <4>3
    <3> QED
      BY <3>1, <3>2
  <2> HIDE DEF h
  <2>4. Grows(h, n + 1)
    BY <2>2, <2>3
  <2> QED
    BY SMTT(30), <2>2, <2>4
<1>5. attempt \in T
  <2> HIDE DEF T
  <2>1. 1..attempt \subseteq T
    BY <1>3, <1>4, InductionUpTo
  <2> QED
    BY <2>1
<1>6. PICK g \in [1..attempt -> Int] : Grows(g, attempt)
  BY <1>5
<1>7. g = [n \in 1..attempt |-> IF n = 1 THEN p.initialDelay ELSE Next1(g[n - 1])]
  <2>1. \A n \in 1..attempt : g[n] = IF n = 1 THEN p.initialDelay ELSE Next1(g[n - 1])
    BY <1>6
  <2> QED
    BY <1>6, <2>1
<1>8. Growth(p, attempt) =
        CHOOSE f : f = [n \in 1..attempt |-> IF n = 1 THEN p.initialDelay ELSE Next1(f[n - 1])]
  BY DEF Growth, Next1
<1> DEFINE f == Growth(p, attempt)
<1>9. f = [n \in 1..attempt |-> IF n = 1 THEN p.initialDelay ELSE Next1(f[n - 1])]
  BY <1>7, <1>8
<1>10. \A n \in 1..attempt : f[n] = IF n = 1 THEN p.initialDelay ELSE Next1(f[n - 1])
  <2> HIDE DEF f
  <2> QED
    BY <1>9
<1> HIDE DEF f
<1> DEFINE U == {n \in Nat : f[n] \in Int}
<1>11. 1 \in U
  BY <1>1, <1>10
<1>12. ASSUME NEW n \in 1..(attempt - 1), n \in U PROVE n + 1 \in U
  <2>1. n + 1 \in 1..attempt /\ n + 1 # 1 /\ (n + 1) - 1 = n
    OBVIOUS
  <2>2. f[n + 1] = Next1(f[n])
    BY <1>10, <2>1
  <2>3. f[n] \in Int /\ n + 1 \in Nat
    BY <1>12
  <2>4. f[n + 1] \in Int
    BY <1>2, <2>2, <2>3
  <2> QED
    BY <2>3, <2>4
<1>13. attempt \in U
  <2> HIDE DEF U
  <2>1. 1..attempt \subseteq U
    BY <1>11, <1>12, InductionUpTo
  <2> QED
    BY <2>1
<1> QED
  BY <1>13 DEF f

(* Under a cap a pause outlasts it by no more than the jitter.             *)
Capped(p, d) == p.maxDelay > 0 => d * Hundredths <= p.maxDelay * (Hundredths + p.jitter)

LEMMA ProductGrows ==
  ASSUME NEW a \in Int, NEW b \in Int, NEW n \in Nat, a <= b
  PROVE  a * n <= b * n
OBVIOUS

LEMMA DelaysCapped ==
  ASSUME NEW p \in PolicyType, p.jitter \in 0..Hundredths, NEW attempt \in Nat \ {0},
         NEW d \in Delays(p, attempt)
  PROVE  d \in Int /\ Capped(p, d)
<1> DEFINE base == IF p.initialDelay <= 0 THEN 0 ELSE Base(p, attempt)
           band == (base * p.jitter) \div Hundredths
<1>1. /\ p.initialDelay \in Int /\ p.maxDelay \in Int /\ p.jitter \in Nat
      /\ p.jitter <= Hundredths /\ Hundredths = 100
  BY DEF PolicyType, Hundredths
<1>2. base \in Int /\ (p.maxDelay > 0 => base <= p.maxDelay)
  BY <1>1, GrowthTyped DEF Base
<1>3. d \in (base - band)..(base + band)
  BY DEF Delays
<1> HIDE DEF base
<1>4. base * p.jitter \in Int
  BY <1>1, <1>2
<1>5. band \in Int /\ band * Hundredths <= base * p.jitter
  BY <1>1, <1>4
<1> HIDE DEF band
<1>6. d \in Int /\ d <= base + band
  BY <1>2, <1>3, <1>5
<1>7. ASSUME p.maxDelay > 0
      PROVE  d * Hundredths <= p.maxDelay * (Hundredths + p.jitter)
  <2>1. base * p.jitter <= p.maxDelay * p.jitter
    BY <1>1, <1>2, <1>7, ProductGrows
  <2>2. d * 100 <= base * 100 + base * p.jitter
    BY <1>1, <1>2, <1>4, <1>5, <1>6
  <2>3. p.maxDelay * p.jitter \in Int
    BY <1>1
  <2>4. d * 100 <= p.maxDelay * 100 + p.maxDelay * p.jitter
    BY <1>1, <1>2, <1>4, <1>6, <1>7, <2>1, <2>2, <2>3
  <2>5. p.maxDelay * (100 + p.jitter) = p.maxDelay * 100 + p.maxDelay * p.jitter
    BY <1>1
  <2> QED
    BY <1>1, <2>4, <2>5
<1> QED
  BY <1>6, <1>7 DEF Capped

-----------------------------------------------------------------------------
RetryTypeOK ==
  /\ policy \in PolicyType \cup {NoPolicy}
  /\ retry \in [at : {"new", "refused", "calling", "starting", "running", "waiting", "returned"},
                attempt : Nat, result : {"none", "nil", "fatal", "failed", "ctx"}]
  /\ ended \in BOOLEAN /\ pauses \in Seq(Int) /\ outcomes \in Seq({"ok", "failed", "fatal"})
  /\ lateStarts \in Nat

(* A policy that was accepted is in use from then on.                      *)
PolicyInv ==
  IF policy = NoPolicy
  THEN /\ retry.at \in {"new", "refused"} /\ retry.attempt = 0 /\ retry.result = "none"
       /\ outcomes = <<>> /\ pauses = <<>> /\ lateStarts = 0
  ELSE /\ retry.at \notin {"new", "refused"}
       /\ policy.maxAttempts >= 1 /\ policy.jitter \in 0..Hundredths

(* Every attempt but one under way has an outcome, and there is one more   *)
(* to make unless Do is done.                                              *)
AttemptInv ==
  policy # NoPolicy =>
    /\ Len(outcomes) = retry.attempt - (IF retry.at \in {"starting", "running"} THEN 1 ELSE 0)
    /\ retry.attempt <= policy.maxAttempts
    /\ retry.at \in {"calling", "waiting"} => retry.attempt < policy.maxAttempts

(* Only the last outcome may be other than a failure that is retried, and  *)
(* then Do has returned it.                                                *)
OutcomeInv ==
  policy # NoPolicy =>
    /\ \A i \in DOMAIN outcomes :
         i < Len(outcomes) \/ retry.at # "returned" \/ retry.result \in {"ctx", "failed"} =>
           outcomes[i] = "failed"
    /\ retry.at = "returned" =>
         LET tried == Len(outcomes) IN
         /\ retry.result # "none"
         /\ retry.result = "nil" => tried > 0 /\ outcomes[tried] = "ok"
         /\ retry.result = "fatal" => tried > 0 /\ outcomes[tried] = "fatal"
         /\ retry.result = "failed" => tried > 0 /\ tried = policy.maxAttempts
         /\ retry.result = "ctx" => ended
    /\ retry.at # "returned" => retry.result = "none"

(* An attempt begun late is behind its look at the context.                *)
LookedInv ==
  /\ lateStarts <= 1
  /\ lateStarts = 1 => ended /\ retry.at # "starting"

PauseInv == policy # NoPolicy => \A i \in DOMAIN pauses : Capped(policy, pauses[i])

RetryInv == RetryTypeOK /\ PolicyInv /\ AttemptInv /\ OutcomeInv /\ LookedInv /\ PauseInv

-----------------------------------------------------------------------------
LEMMA RetryStarts == RetryInit => RetryInv
<1> SUFFICES ASSUME RetryInit PROVE RetryInv
  OBVIOUS
<1>1. /\ policy = NoPolicy /\ retry.at = "new" /\ retry.attempt = 0 /\ retry.result = "none"
      /\ ended = FALSE /\ pauses = <<>> /\ outcomes = <<>> /\ lateStarts = 0
  BY DEF RetryInit
<1>2. RetryTypeOK
  <2>1. retry \in [at : {"new", "refused", "calling", "starting", "running", "waiting", "returned"},
                   attempt : Nat, result : {"none", "nil", "fatal", "failed", "ctx"}]
    BY DEF RetryInit
  <2>2. pauses \in Seq(Int) /\ outcomes \in Seq({"ok", "failed", "fatal"})
    BY <1>1
  <2> QED
    BY <1>1, <2>1, <2>2 DEF RetryTypeOK
<1>3. PolicyInv /\ LookedInv
  BY <1>1 DEF PolicyInv, LookedInv
<1>4. AttemptInv /\ OutcomeInv /\ PauseInv
  BY <1>1 DEF AttemptInv, OutcomeInv, PauseInv
<1> QED
  BY <1>2, <1>3, <1>4 DEF RetryInv

LEMMA PutRightTyped ==
  ASSUME NEW p \in PolicyType
  PROVE  /\ PutRight(p) \in PolicyType
         /\ PutRight(p).maxAttempts = p.maxAttempts /\ PutRight(p).jitter = p.jitter
BY RetryAssumption DEF PutRight, PolicyType

LEMMA NewRetrierSafe == RetryInv /\ NewRetrier => RetryInv'
<1> SUFFICES ASSUME RetryInv, NewRetrier PROVE RetryInv'
  OBVIOUS
<1>1. policy = NoPolicy /\ retry.at = "new" /\ RetryTypeOK
  BY DEF RetryInv, PolicyInv, NewRetrier
<1>2. /\ retry.attempt = 0 /\ retry.result = "none"
      /\ outcomes = <<>> /\ pauses = <<>> /\ lateStarts = 0
  BY <1>1 DEF RetryInv, PolicyInv
<1>3. UNCHANGED <<ended, pauses, outcomes, lateStarts>>
  BY DEF NewRetrier
<1>4. PICK p \in Policies :
        IF Usable(p)
        THEN policy' = PutRight(p) /\ retry' = [retry EXCEPT !.at = "calling"]
        ELSE retry' = [retry EXCEPT !.at = "refused"] /\ UNCHANGED policy
  BY DEF NewRetrier
<1>5. p \in PolicyType /\ NoPolicy \notin PolicyType
  BY RetryAssumption
<1>6. CASE Usable(p)
  <2>1. /\ policy' \in PolicyType /\ policy'.maxAttempts = p.maxAttempts
        /\ policy'.jitter = p.jitter
    BY <1>4, <1>5, <1>6, PutRightTyped
  <2>2. p.maxAttempts >= 1 /\ p.jitter \in 0..Hundredths /\ p.maxAttempts \in Int
    BY <1>5, <1>6 DEF Usable, PolicyType
  <2>3. retry' = [retry EXCEPT !.at = "calling"]
    BY <1>4, <1>6
  <2>4. /\ retry'.at = "calling" /\ retry'.attempt = 0 /\ retry'.result = "none"
        /\ RetryTypeOK'
    BY <1>1, <1>2, <1>3, <2>1, <2>3 DEF RetryTypeOK
  <2>5. policy' # NoPolicy
    BY <1>5, <2>1
  <2>6. PolicyInv'
    BY <2>1, <2>2, <2>4, <2>5 DEF PolicyInv
  <2>7. outcomes' = <<>> /\ pauses' = <<>> /\ lateStarts' = 0
    BY <1>2, <1>3
  <2>8. AttemptInv'
    <3>1. Len(outcomes') = 0 /\ policy'.maxAttempts \in Int /\ policy'.maxAttempts >= 1
      BY <2>1, <2>2, <2>7
    <3>2. retry'.at = "calling" /\ retry'.attempt = 0
      BY <2>4
    <3>3. Len(outcomes') = retry'.attempt - (IF retry'.at \in {"starting", "running"} THEN 1 ELSE 0)
      <4>1. retry'.at \notin {"starting", "running"}
        BY <3>2
      <4>2. (IF retry'.at \in {"starting", "running"} THEN 1 ELSE 0) = 0
        BY <4>1, Zenon
      <4>3. Len(outcomes') = retry'.attempt - 0
        BY <3>1, <3>2
      <4> QED
        BY <4>2, <4>3, Zenon
    <3>4. retry'.attempt <= policy'.maxAttempts /\ retry'.attempt < policy'.maxAttempts
      BY <3>1, <3>2
    <3> QED
      BY <3>3, <3>4 DEF AttemptInv
  <2>9. OutcomeInv' /\ LookedInv' /\ PauseInv'
    BY <2>4, <2>7 DEF OutcomeInv, LookedInv, PauseInv
  <2> QED
    BY <2>4, <2>6, <2>8, <2>9 DEF RetryInv
<1>7. CASE ~Usable(p)
  <2>1. retry' = [retry EXCEPT !.at = "refused"] /\ policy' = NoPolicy
    BY <1>1, <1>4, <1>7
  <2>2. /\ retry'.at = "refused" /\ retry'.attempt = 0 /\ retry'.result = "none"
        /\ RetryTypeOK'
    BY <1>1, <1>2, <1>3, <2>1 DEF RetryTypeOK
  <2> QED
    BY <1>2, <1>3, <2>1, <2>2
       DEF RetryInv, PolicyInv, AttemptInv, OutcomeInv, LookedInv, PauseInv
<1> QED
  BY <1>6, <1>7

(* What a step of a call in progress starts from.                          *)
LEMMA InProgress ==
  ASSUME RetryInv, retry.at \notin {"new", "refused"}
  PROVE  /\ policy \in PolicyType /\ policy # NoPolicy
         /\ policy.maxAttempts \in Int /\ policy.maxAttempts >= 1
         /\ policy.jitter \in 0..Hundredths
         /\ retry.attempt \in Nat /\ Len(outcomes) \in Nat
         /\ DOMAIN outcomes = 1..Len(outcomes)
BY DEF RetryInv, RetryTypeOK, PolicyInv, PolicyType

LEMMA LookSafe == RetryInv /\ LookAtContext => RetryInv'
<1> SUFFICES ASSUME RetryInv, LookAtContext PROVE RetryInv'
  OBVIOUS
<1>1. /\ retry.at = "calling" /\ RetryTypeOK /\ PolicyInv /\ AttemptInv /\ OutcomeInv
      /\ LookedInv /\ PauseInv /\ UNCHANGED <<policy, ended, pauses, outcomes, lateStarts>>
  BY DEF RetryInv, LookAtContext
<1>2. /\ policy \in PolicyType /\ policy # NoPolicy /\ policy.maxAttempts \in Int
      /\ retry.attempt \in Nat /\ Len(outcomes) \in Nat
  BY <1>1, InProgress
<1>3. CASE ended /\ retry' = [retry EXCEPT !.at = "returned", !.result = "ctx"]
  <2>1. /\ retry'.at = "returned" /\ retry'.result = "ctx" /\ retry'.attempt = retry.attempt
        /\ RetryTypeOK'
    BY <1>1, <1>3 DEF RetryTypeOK
  <2>2. PolicyInv' /\ AttemptInv' /\ LookedInv' /\ PauseInv'
    BY <1>1, <1>2, <2>1 DEF PolicyInv, AttemptInv, LookedInv, PauseInv
  <2>3. OutcomeInv'
    BY <1>1, <1>2, <1>3, <2>1 DEF OutcomeInv
  <2> QED
    BY <2>1, <2>2, <2>3 DEF RetryInv
<1>4. CASE ~ended /\ retry' = [retry EXCEPT !.at = "starting", !.attempt = @ + 1]
  <2>0. PICK n \in Nat : n = retry.attempt + 1
    BY <1>2
  <2>1. /\ retry'.at = "starting" /\ retry'.result = retry.result
        /\ retry'.attempt = retry.attempt + 1 /\ RetryTypeOK'
    <3>1. retry' = [retry EXCEPT !.at = "starting", !.attempt = n]
      BY <1>4, <2>0
    <3> QED
      BY <1>1, <2>0, <3>1 DEF RetryTypeOK
  <2>2. PolicyInv' /\ AttemptInv'
    BY <1>1, <1>2, <2>1 DEF PolicyInv, AttemptInv
  <2>3. OutcomeInv' /\ PauseInv'
    BY <1>1, <1>2, <2>1 DEF OutcomeInv, PauseInv
  <2>4. LookedInv'
    BY <1>1, <1>4, <2>1 DEF LookedInv
  <2> QED
    BY <2>1, <2>2, <2>3, <2>4 DEF RetryInv
<1> QED
  BY <1>3, <1>4 DEF LookAtContext, Return

LEMMA AttemptSafe == RetryInv /\ Attempt => RetryInv'
<1> SUFFICES ASSUME RetryInv, Attempt PROVE RetryInv'
  OBVIOUS
<1>1. /\ retry.at = "starting" /\ RetryTypeOK /\ PolicyInv /\ AttemptInv /\ OutcomeInv
      /\ LookedInv /\ PauseInv /\ UNCHANGED <<policy, ended, pauses, outcomes>>
      /\ retry' = [retry EXCEPT !.at = "running"]
      /\ lateStarts' = IF ended THEN lateStarts + 1 ELSE lateStarts
  BY DEF RetryInv, Attempt
<1>2. policy \in PolicyType /\ policy # NoPolicy
  BY <1>1, InProgress
<1>3. /\ retry'.at = "running" /\ retry'.result = retry.result
      /\ retry'.attempt = retry.attempt /\ RetryTypeOK'
  BY <1>1 DEF RetryTypeOK
<1>4. PolicyInv' /\ AttemptInv' /\ OutcomeInv' /\ PauseInv'
  BY <1>1, <1>2, <1>3 DEF PolicyInv, AttemptInv, OutcomeInv, PauseInv
<1>5. LookedInv'
  <2>1. lateStarts = 0
    BY <1>1 DEF LookedInv, RetryTypeOK
  <2> QED
    BY <1>1, <1>3, <2>1 DEF LookedInv
<1> QED
  BY <1>3, <1>4, <1>5 DEF RetryInv

(* What is left when an attempt has come back.                             *)
LEMMA ReturnsSafe ==
  ASSUME RetryInv, NEW outcome \in {"ok", "failed", "fatal"}, AttemptReturns(outcome)
  PROVE  RetryInv'
<1>1. /\ retry.at = "running" /\ RetryTypeOK /\ PolicyInv /\ AttemptInv /\ OutcomeInv
      /\ LookedInv /\ PauseInv /\ UNCHANGED <<policy, ended, lateStarts>>
      /\ outcomes' = Append(outcomes, outcome)
  BY DEF RetryInv, AttemptReturns
<1>2. /\ policy \in PolicyType /\ policy # NoPolicy /\ policy.maxAttempts \in Int
      /\ retry.attempt \in Nat /\ Len(outcomes) \in Nat /\ policy.jitter \in 0..Hundredths
  BY <1>1, InProgress
<1>3. /\ Len(outcomes) = retry.attempt - 1 /\ retry.attempt <= policy.maxAttempts
      /\ retry.attempt > 0 /\ retry.result = "none"
      /\ \A i \in DOMAIN outcomes : outcomes[i] = "failed"
  BY <1>1, <1>2 DEF AttemptInv, OutcomeInv
<1>4. /\ outcomes' \in Seq({"ok", "failed", "fatal"}) /\ Len(outcomes') = retry.attempt
      /\ DOMAIN outcomes' = 1..retry.attempt /\ outcomes'[retry.attempt] = outcome
      /\ \A i \in 1..retry.attempt : i < retry.attempt => outcomes'[i] = "failed"
  <2>1. outcomes \in Seq({"ok", "failed", "fatal"})
    BY <1>1 DEF RetryTypeOK
  <2>2. /\ outcomes' \in Seq({"ok", "failed", "fatal"}) /\ Len(outcomes') = Len(outcomes) + 1
        /\ \A i \in 1..Len(outcomes) : outcomes'[i] = outcomes[i]
        /\ outcomes'[Len(outcomes) + 1] = outcome
    BY <1>1, <2>1, AppendProperties
  <2>3. DOMAIN outcomes = 1..Len(outcomes) /\ DOMAIN outcomes' = 1..Len(outcomes')
    BY <2>1, <2>2
  <2>4. Len(outcomes) + 1 = retry.attempt
    BY <1>2, <1>3
  <2>5. ASSUME NEW i \in 1..retry.attempt, i < retry.attempt PROVE outcomes'[i] = "failed"
    <3>1. i \in 1..Len(outcomes)
      BY <1>2, <2>4, <2>5
    <3> QED
      BY <1>3, <2>2, <2>3, <3>1
  <2> QED
    BY <2>2, <2>3, <2>4, <2>5
<1>5. ASSUME NEW result \in {"nil", "fatal", "failed"},
             retry' = [retry EXCEPT !.at = "returned", !.result = result], UNCHANGED pauses,
             result = "nil" => outcome = "ok", result = "fatal" => outcome = "fatal",
             result = "failed" => outcome = "failed" /\ retry.attempt = policy.maxAttempts
      PROVE  RetryInv'
  <2>1. /\ retry'.at = "returned" /\ retry'.result = result /\ retry'.attempt = retry.attempt
        /\ RetryTypeOK'
    BY <1>1, <1>4, <1>5 DEF RetryTypeOK
  <2>2. PolicyInv' /\ AttemptInv' /\ LookedInv' /\ PauseInv'
    BY <1>1, <1>2, <1>3, <1>4, <1>5, <2>1 DEF PolicyInv, AttemptInv, LookedInv, PauseInv
  <2>3. OutcomeInv'
    BY <1>1, <1>2, <1>3, <1>4, <1>5, <2>1 DEF OutcomeInv
  <2> QED
    BY <2>1, <2>2, <2>3 DEF RetryInv
<1>6. ASSUME outcome = "failed", retry.attempt # policy.maxAttempts,
             NEW d \in Delays(policy, retry.attempt), pauses' = Append(pauses, d),
             retry' = [retry EXCEPT !.at = IF d <= 0 THEN "calling" ELSE "waiting"]
      PROVE  RetryInv'
  <2>1. d \in Int /\ Capped(policy, d)
    BY <1>2, <1>3, DelaysCapped
  <2>2. pauses \in Seq(Int)
    BY <1>1 DEF RetryTypeOK
  <2>3. /\ pauses' \in Seq(Int) /\ DOMAIN pauses' = 1..(Len(pauses) + 1)
        /\ \A i \in 1..Len(pauses) : pauses'[i] = pauses[i]
        /\ pauses'[Len(pauses) + 1] = d /\ DOMAIN pauses = 1..Len(pauses)
        /\ Len(pauses) \in Nat
    BY <1>6, <2>1, <2>2, AppendProperties
  <2>4. /\ retry'.at \in {"calling", "waiting"} /\ retry'.result = retry.result
        /\ retry'.attempt = retry.attempt /\ RetryTypeOK'
    BY <1>1, <1>4, <1>6, <2>3 DEF RetryTypeOK
  <2>5. PolicyInv' /\ AttemptInv' /\ LookedInv'
    BY <1>1, <1>2, <1>3, <1>4, <1>6, <2>4 DEF PolicyInv, AttemptInv, LookedInv
  <2>6. OutcomeInv'
    BY <1>1, <1>2, <1>3, <1>4, <1>6, <2>4 DEF OutcomeInv
  <2>7. PauseInv'
    <3>1. ASSUME NEW i \in 1..(Len(pauses) + 1) PROVE Capped(policy, pauses'[i])
      <4>1. i \in 1..Len(pauses) \/ i = Len(pauses) + 1
        BY <2>3
      <4> QED
        BY <1>1, <1>2, <2>1, <2>3, <4>1 DEF PauseInv
    <3> QED
      BY <1>1, <2>3, <3>1 DEF PauseInv, Capped
  <2> QED
    BY <2>4, <2>5, <2>6, <2>7 DEF RetryInv
<1>7. CASE outcome = "ok"
  BY <1>5, <1>7 DEF AttemptReturns, Return
<1>8. CASE outcome = "fatal"
  BY <1>5, <1>8 DEF AttemptReturns, Return
<1>9. CASE outcome = "failed" /\ retry.attempt = policy.maxAttempts
  BY <1>5, <1>9 DEF AttemptReturns, Return
<1>10. CASE outcome = "failed" /\ retry.attempt # policy.maxAttempts
  BY <1>6, <1>10 DEF AttemptReturns
<1> QED
  BY <1>7, <1>8, <1>9, <1>10

LEMMA PauseOverSafe == RetryInv /\ PauseOver => RetryInv'
<1> SUFFICES ASSUME RetryInv, PauseOver PROVE RetryInv'
  OBVIOUS
<1>1. /\ retry.at = "waiting" /\ RetryTypeOK /\ PolicyInv /\ AttemptInv /\ OutcomeInv
      /\ LookedInv /\ PauseInv /\ UNCHANGED <<policy, ended, pauses, outcomes, lateStarts>>
  BY DEF RetryInv, PauseOver
<1>2. /\ policy \in PolicyType /\ policy # NoPolicy /\ policy.maxAttempts \in Int
      /\ retry.attempt \in Nat /\ Len(outcomes) \in Nat
  BY <1>1, InProgress
<1>3. CASE retry' = [retry EXCEPT !.at = "calling"]
  <2>1. /\ retry'.at = "calling" /\ retry'.result = retry.result
        /\ retry'.attempt = retry.attempt /\ RetryTypeOK'
    BY <1>1, <1>3 DEF RetryTypeOK
  <2> QED
    BY <1>1, <1>2, <2>1 DEF RetryInv, PolicyInv, AttemptInv, OutcomeInv, LookedInv, PauseInv
<1>4. CASE ended /\ retry' = [retry EXCEPT !.at = "returned", !.result = "ctx"]
  <2>1. /\ retry'.at = "returned" /\ retry'.result = "ctx" /\ retry'.attempt = retry.attempt
        /\ RetryTypeOK'
    BY <1>1, <1>4 DEF RetryTypeOK
  <2>2. PolicyInv' /\ AttemptInv' /\ LookedInv' /\ PauseInv'
    BY <1>1, <1>2, <2>1 DEF PolicyInv, AttemptInv, LookedInv, PauseInv
  <2>3. OutcomeInv'
    BY <1>1, <1>2, <1>4, <2>1 DEF OutcomeInv
  <2> QED
    BY <2>1, <2>2, <2>3 DEF RetryInv
<1> QED
  BY <1>3, <1>4 DEF PauseOver, Return

LEMMA ContextEndsSafe == RetryInv /\ ContextEnds => RetryInv'
<1> SUFFICES ASSUME RetryInv, ContextEnds PROVE RetryInv'
  OBVIOUS
<1> USE DEF RetryInv, ContextEnds
<1>1. RetryTypeOK' /\ PolicyInv' /\ AttemptInv'
  BY DEF RetryTypeOK, PolicyInv, AttemptInv
<1>2. OutcomeInv' /\ LookedInv' /\ PauseInv'
  BY DEF OutcomeInv, LookedInv, PauseInv
<1> QED
  BY <1>1, <1>2

LEMMA RetryStep == RetryInv /\ [RetryNext]_retryVars => RetryInv'
<1> SUFFICES ASSUME RetryInv, [RetryNext]_retryVars PROVE RetryInv'
  OBVIOUS
<1>1. CASE UNCHANGED retryVars
  BY <1>1 DEF retryVars, RetryInv, RetryTypeOK, PolicyInv, AttemptInv, OutcomeInv, LookedInv, PauseInv
<1>2. CASE RetryNext
  BY <1>2, NewRetrierSafe, LookSafe, AttemptSafe, ReturnsSafe, PauseOverSafe, ContextEndsSafe
     DEF RetryNext
<1> QED
  BY <1>1, <1>2

LEMMA RetryInvWithin == RetryInv => RetryWithinBudget
<1> SUFFICES ASSUME RetryInv, policy # NoPolicy PROVE RetryWithinBudget
  BY DEF RetryWithinBudget
<1>1. /\ policy \in PolicyType /\ retry.attempt \in Nat /\ Len(outcomes) \in Nat
      /\ policy.maxAttempts \in Int /\ DOMAIN outcomes = 1..Len(outcomes)
  BY InProgress DEF RetryInv, PolicyInv
<1>2. Len(outcomes) <= policy.maxAttempts /\ lateStarts <= 1
  BY <1>1 DEF RetryInv, AttemptInv, LookedInv
<1>3. \A i \in 1..(Len(outcomes) - 1) : outcomes[i] = "failed"
  BY <1>1 DEF RetryInv, OutcomeInv
<1>4. policy.maxDelay > 0 => \A i \in DOMAIN pauses :
        pauses[i] * Hundredths <= policy.maxDelay * (Hundredths + policy.jitter)
  BY DEF RetryInv, PauseInv, Capped
<1>5. retry.result # "none" => retry.at = "returned"
  BY DEF RetryInv, OutcomeInv
<1>6. /\ retry.result = "nil" => outcomes[Len(outcomes)] = "ok"
      /\ retry.result = "fatal" => outcomes[Len(outcomes)] = "fatal"
      /\ retry.result = "failed" => /\ outcomes[Len(outcomes)] = "failed"
                                    /\ Len(outcomes) = policy.maxAttempts
      /\ retry.result = "ctx" => /\ ended
                                 /\ Len(outcomes) > 0 => outcomes[Len(outcomes)] = "failed"
  BY <1>1, <1>5 DEF RetryInv, OutcomeInv
<1> QED
  BY <1>2, <1>3, <1>4, <1>6 DEF RetryWithinBudget

(* The inductive invariant holds always.                                   *)
THEOREM RetryInvariant == RetrySpec => []RetryInv
<1> QED
  BY RetryStarts, RetryStep, PTL DEF RetrySpec

(* For any policies, however often the context ends meanwhile: no more     *)
(* attempts, late starts or pauses than the policy allows, and the answer  *)
(* of Do is what happened.                                                 *)
THEOREM RetryStaysWithinBudget == RetrySpec => []RetryWithinBudget
<1> QED
  BY RetryInvariant, RetryInvWithin, PTL
-----------------------------------------------------------------------------
(* The cache: the order of last use, and the pointers that follow it.      *)
CacheSpec == CacheInit /\ [][CacheNext]_cacheVars

Nodes == CacheKeys \cup {Sentinel}

(* Before and Follows of any use R of the keys D of any entries.           *)
BeforeIn(R, a, b) == Sentinel \in {a, b} \/ <<a, b>> \in R
FollowsIn(R, D, a, b) ==
  BeforeIn(R, a, b) /\ \A c \in D : ~(BeforeIn(R, a, c) /\ BeforeIn(R, c, b))

(* Use is a strict order, in which every key of D has its place.           *)
InOrder(R, D) ==
  /\ D \subseteq CacheKeys
  /\ \A a \in CacheKeys : <<a, a>> \notin R
  /\ \A a, b, c \in CacheKeys : <<a, b>> \in R /\ <<b, c>> \in R => <<a, c>> \in R
  /\ \A a \in D, b \in CacheKeys : a # b => <<a, b>> \in R \/ <<b, a>> \in R

(* The list l holds D in order, and leads nowhere else.                    *)
Chained(l, R, D) ==
  /\ l \in [next : [Nodes -> Nodes \cup {Unlinked}], prev : [Nodes -> Nodes \cup {Unlinked}]]
  /\ \A a \in D \cup {Sentinel} : l.next[a] \in D \cup {Sentinel} /\ FollowsIn(R, D, a, l.next[a])
  /\ \A a \in D \cup {Sentinel} : l.prev[a] \in D \cup {Sentinel} /\ FollowsIn(R, D, l.prev[a], a)
  /\ \A k \in CacheKeys \ D : Unlinked = l.next[k] /\ Unlinked = l.prev[k]

(* Nothing has two neighbours on a side.                                   *)
LEMMA OneNeighbour ==
  ASSUME NEW R, NEW D, InOrder(R, D), NEW a \in D \cup {Sentinel}, NEW b \in D \cup {Sentinel},
         NEW x \in D \cup {Sentinel}
  PROVE  /\ FollowsIn(R, D, a, x) /\ FollowsIn(R, D, b, x) => a = b
         /\ FollowsIn(R, D, x, a) /\ FollowsIn(R, D, x, b) => a = b
<1>1. a # b => \/ a = Sentinel /\ b \in D
               \/ b = Sentinel /\ a \in D
               \/ a \in D /\ b \in D /\ <<a, b>> \in R
               \/ a \in D /\ b \in D /\ <<b, a>> \in R
  <2>1. a \in D /\ b \in D /\ a # b => <<a, b>> \in R \/ <<b, a>> \in R
    <3>1. a \in D => \A c \in CacheKeys : a # c => <<a, c>> \in R \/ <<c, a>> \in R
      BY DEF InOrder
    <3>2. b \in D => b \in CacheKeys
      BY DEF InOrder
    <3> QED
      BY <3>1, <3>2
  <2> QED
    BY <2>1
<1> QED
  BY <1>1 DEF FollowsIn, BeforeIn

(* A key between its neighbours may go.                                    *)
LEMMA NeighboursMeet ==
  ASSUME NEW R, NEW D, InOrder(R, D), NEW x \in D \cup {Sentinel}, NEW y \in D \cup {Sentinel},
         NEW k \in D, FollowsIn(R, D, x, k), FollowsIn(R, D, k, y)
  PROVE  FollowsIn(R, D \ {k}, x, y) /\ x # k /\ y # k
<1>1. k # Sentinel /\ <<k, k>> \notin R
  BY CacheAssumption DEF InOrder
<1>2. x # k /\ y # k
  BY <1>1 DEF FollowsIn, BeforeIn
<1>3. BeforeIn(R, x, y)
  BY <1>1 DEF FollowsIn, BeforeIn, InOrder
<1>4. ASSUME NEW c \in D \ {k}, BeforeIn(R, x, c), BeforeIn(R, c, y) PROVE FALSE
  <2>1. <<c, k>> \in R \/ <<k, c>> \in R
    BY DEF InOrder
  <2>2. BeforeIn(R, c, k) \/ BeforeIn(R, k, c)
    BY <2>1 DEF BeforeIn
  <2> QED
    BY <1>4, <2>2 DEF FollowsIn
<1> QED
  BY <1>2, <1>3, <1>4 DEF FollowsIn

LEMMA UnlinkKeepsOrder ==
  ASSUME NEW l, NEW R, NEW D, Chained(l, R, D), InOrder(R, D), NEW k \in D
  PROVE  Chained(Unlink(l, k), R, D \ {k}) /\ InOrder(R, D \ {k})
<1> DEFINE m == Unlink(l, k)
           E == D \ {k}
<1>0. InOrder(R, E)
  BY DEF InOrder
<1>1. /\ l.next \in [Nodes -> Nodes \cup {Unlinked}] /\ l.prev \in [Nodes -> Nodes \cup {Unlinked}]
      /\ D \cup {Sentinel} \subseteq Nodes /\ k \in Nodes /\ k # Sentinel
  BY CacheAssumption DEF Chained, InOrder, Nodes
<1>2. Unlinked \notin Nodes
  BY CacheAssumption DEF Nodes
<1>3. PICK x \in D \cup {Sentinel} : x = l.prev[k] /\ FollowsIn(R, D, x, k)
  BY DEF Chained
<1>4. PICK y \in D \cup {Sentinel} : y = l.next[k] /\ FollowsIn(R, D, k, y)
  BY DEF Chained
<1>5. FollowsIn(R, E, x, y) /\ x # k /\ y # k
  BY <1>3, <1>4, NeighboursMeet
<1>6. m = [next |-> [l.next EXCEPT ![x] = y, ![k] = Unlinked],
           prev |-> [l.prev EXCEPT ![y] = x, ![k] = Unlinked]]
  BY <1>1, <1>2, <1>3, <1>4 DEF Unlink
<1> HIDE DEF m
<1>7. /\ m \in [next : [Nodes -> Nodes \cup {Unlinked}], prev : [Nodes -> Nodes \cup {Unlinked}]]
      /\ \A a \in Nodes \ {k} : m.next[a] = IF a = x THEN y ELSE l.next[a]
      /\ \A a \in Nodes \ {k} : m.prev[a] = IF a = y THEN x ELSE l.prev[a]
      /\ m.next[k] = Unlinked /\ m.prev[k] = Unlinked
  BY <1>1, <1>2, <1>3, <1>4, <1>5, <1>6
<1>8. ASSUME NEW a \in E \cup {Sentinel}
      PROVE  m.next[a] \in E \cup {Sentinel} /\ FollowsIn(R, E, a, m.next[a])
  <2>1. a \in D \cup {Sentinel} /\ a \in Nodes \ {k}
    BY <1>1
  <2>2. CASE a = x
    BY <1>4, <1>5, <1>7, <2>1, <2>2
  <2>3. CASE a # x
    <3>1. m.next[a] = l.next[a]
      BY <1>7, <2>1, <2>3
    <3>2. l.next[a] \in D \cup {Sentinel} /\ FollowsIn(R, D, a, l.next[a])
      BY <2>1 DEF Chained
    <3>3. l.next[a] # k
      BY <1>3, <2>1, <2>3, <3>2, OneNeighbour
    <3> QED
      BY <3>1, <3>2, <3>3 DEF FollowsIn
  <2> QED
    BY <2>2, <2>3
<1>9. ASSUME NEW a \in E \cup {Sentinel}
      PROVE  m.prev[a] \in E \cup {Sentinel} /\ FollowsIn(R, E, m.prev[a], a)
  <2>1. a \in D \cup {Sentinel} /\ a \in Nodes \ {k}
    BY <1>1
  <2>2. CASE a = y
    BY <1>3, <1>5, <1>7, <2>1, <2>2
  <2>3. CASE a # y
    <3>1. m.prev[a] = l.prev[a]
      BY <1>7, <2>1, <2>3
    <3>2. l.prev[a] \in D \cup {Sentinel} /\ FollowsIn(R, D, l.prev[a], a)
      BY <2>1 DEF Chained
    <3>3. l.prev[a] # k
      BY <1>4, <2>1, <2>3, <3>2, OneNeighbour
    <3> QED
      BY <3>1, <3>2, <3>3 DEF FollowsIn
  <2> QED
    BY <2>2, <2>3
<1>10. ASSUME NEW j \in CacheKeys \ E PROVE Unlinked = m.next[j] /\ Unlinked = m.prev[j]
  <2>1. CASE j = k
    BY <1>7, <2>1
  <2>2. CASE j # k
    <3>1. j \in CacheKeys \ D /\ j \in Nodes \ {k} /\ j # Sentinel
      BY <2>2, CacheAssumption DEF Nodes
    <3>2. j # x /\ j # y
      BY <1>3, <1>4, <3>1
    <3> QED
      BY <1>7, <3>1, <3>2 DEF Chained
  <2> QED
    BY <2>1, <2>2
<1> QED
  BY <1>0, <1>7, <1>8, <1>9, <1>10 DEF Chained, m

(* The key used last goes to the front.                                    *)
LEMMA PushKeepsOrder ==
  ASSUME NEW l, NEW R, NEW D, Chained(l, R, D), NEW k \in CacheKeys \ D, InOrder(R, D \cup {k}),
         \A d \in D : <<k, d>> \in R
  PROVE  Chained(PushFront(l, k), R, D \cup {k})
<1> DEFINE m == PushFront(l, k)
           E == D \cup {k}
<1>0. InOrder(R, D)
  BY DEF InOrder
<1>1. /\ l.next \in [Nodes -> Nodes \cup {Unlinked}] /\ l.prev \in [Nodes -> Nodes \cup {Unlinked}]
      /\ D \cup {Sentinel} \subseteq Nodes /\ k \in Nodes /\ k # Sentinel
      /\ Sentinel \notin D /\ Sentinel \in Nodes
  BY <1>0, CacheAssumption DEF Chained, InOrder, Nodes
<1>2. PICK f \in D \cup {Sentinel} : f = l.next[Sentinel] /\ FollowsIn(R, D, Sentinel, f)
  BY DEF Chained
<1>3. m = [next |-> [l.next EXCEPT ![k] = f, ![Sentinel] = k],
           prev |-> [[l.prev EXCEPT ![k] = Sentinel] EXCEPT ![f] = k]]
  BY <1>2 DEF PushFront
<1> HIDE DEF m
<1>4. /\ m \in [next : [Nodes -> Nodes \cup {Unlinked}], prev : [Nodes -> Nodes \cup {Unlinked}]]
      /\ \A a \in Nodes \ {k, Sentinel} : m.next[a] = l.next[a]
      /\ m.next[k] = f /\ m.next[Sentinel] = k
      /\ \A a \in Nodes \ {k, f} : m.prev[a] = l.prev[a]
      /\ m.prev[k] = Sentinel /\ m.prev[f] = k
  BY <1>1, <1>2, <1>3
<1>5. \A a \in D : <<a, k>> \notin R
  BY DEF InOrder
<1>6. <<k, k>> \notin R
  BY DEF InOrder
<1>7. FollowsIn(R, E, Sentinel, k)
  BY <1>1, <1>5, <1>6 DEF FollowsIn, BeforeIn
<1>8. FollowsIn(R, E, k, f)
  <2>1. BeforeIn(R, k, f)
    BY DEF BeforeIn
  <2>2. ~BeforeIn(R, k, k)
    BY <1>1, <1>6 DEF BeforeIn
  <2>3. \A c \in D : ~BeforeIn(R, c, f)
    BY <1>2 DEF FollowsIn, BeforeIn
  <2> QED
    BY <2>1, <2>2, <2>3 DEF FollowsIn
<1>9. ASSUME NEW a \in D \cup {Sentinel}, NEW b \in D \cup {Sentinel}, FollowsIn(R, D, a, b),
             a # Sentinel
      PROVE  FollowsIn(R, E, a, b)
  <2>1. ~BeforeIn(R, a, k)
    BY <1>1, <1>5, <1>9 DEF BeforeIn
  <2> QED
    BY <1>9, <2>1 DEF FollowsIn
<1>10. ASSUME NEW a \in E \cup {Sentinel}
       PROVE  m.next[a] \in E \cup {Sentinel} /\ FollowsIn(R, E, a, m.next[a])
  <2>1. CASE a = k
    BY <1>4, <1>8, <2>1
  <2>2. CASE a = Sentinel
    BY <1>4, <1>7, <2>2
  <2>3. CASE a \in D
    <3>1. m.next[a] = l.next[a] /\ a # Sentinel
      BY <1>1, <1>4, <2>3
    <3>2. l.next[a] \in D \cup {Sentinel} /\ FollowsIn(R, D, a, l.next[a])
      BY <2>3 DEF Chained
    <3> QED
      BY <1>9, <2>3, <3>1, <3>2
  <2> QED
    BY <2>1, <2>2, <2>3
<1>11. ASSUME NEW a \in E \cup {Sentinel}
       PROVE  m.prev[a] \in E \cup {Sentinel} /\ FollowsIn(R, E, m.prev[a], a)
  <2>1. CASE a = k
    BY <1>4, <1>7, <2>1
  <2>2. CASE a = f
    BY <1>4, <1>8, <2>2
  <2>3. CASE a # k /\ a # f
    <3>1. a \in D \cup {Sentinel} /\ m.prev[a] = l.prev[a]
      BY <1>1, <1>4, <2>3
    <3>2. l.prev[a] \in D \cup {Sentinel} /\ FollowsIn(R, D, l.prev[a], a)
      BY <3>1 DEF Chained
    <3>3. l.prev[a] # Sentinel
      BY <1>0, <1>2, <2>3, <3>1, <3>2, OneNeighbour
    <3> QED
      BY <1>9, <3>1, <3>2, <3>3
  <2> QED
    BY <2>1, <2>2, <2>3
<1>12. ASSUME NEW j \in CacheKeys \ E PROVE Unlinked = m.next[j] /\ Unlinked = m.prev[j]
  <2>1. j \in CacheKeys \ D /\ j \in Nodes \ {k, Sentinel} /\ j # f
    BY <1>2, CacheAssumption DEF Nodes
  <2> QED
    BY <1>4, <2>1 DEF Chained
<1> QED
  BY <1>4, <1>10, <1>11, <1>12 DEF Chained, m

-----------------------------------------------------------------------------
(* The list does not depend on how keys outside it are used.               *)
LEMMA OtherUses ==
  ASSUME NEW l, NEW R, NEW S, NEW D, Chained(l, R, D),
         \A a, b \in D : <<a, b>> \in R <=> <<a, b>> \in S
  PROVE  Chained(l, S, D)
<1>1. \A a, b \in D \cup {Sentinel} : BeforeIn(R, a, b) <=> BeforeIn(S, a, b)
  BY DEF BeforeIn
<1>2. \A a, b \in D \cup {Sentinel} : FollowsIn(R, D, a, b) <=> FollowsIn(S, D, a, b)
  BY <1>1 DEF FollowsIn
<1> QED
  BY <1>2 DEF Chained

UsedIn(R, k) == {pair \in R : pair[2] # k} \cup {<<k, m>> : m \in CacheKeys \ {k}}

LEMMA UseKeepsOrder ==
  ASSUME NEW R \in SUBSET (CacheKeys \X CacheKeys), NEW D, InOrder(R, D), NEW k \in CacheKeys
  PROVE  /\ UsedIn(R, k) \in SUBSET (CacheKeys \X CacheKeys)
         /\ InOrder(UsedIn(R, k), D \cup {k})
         /\ \A m \in CacheKeys \ {k} : <<k, m>> \in UsedIn(R, k) /\ <<m, k>> \notin UsedIn(R, k)
         /\ \A a, b \in CacheKeys \ {k} : <<a, b>> \in UsedIn(R, k) <=> <<a, b>> \in R
<1> DEFINE S == UsedIn(R, k)
<1>1. \A a, b \in CacheKeys :
        <<a, b>> \in S <=> b # k /\ (a = k \/ <<a, b>> \in R)
  BY DEF UsedIn
<1>2. S \in SUBSET (CacheKeys \X CacheKeys)
  BY DEF UsedIn
<1> HIDE DEF S
<1>3. \A a \in CacheKeys : <<a, a>> \notin S
  BY <1>1 DEF InOrder
<1>4. \A a, b, c \in CacheKeys : <<a, b>> \in S /\ <<b, c>> \in S => <<a, c>> \in S
  <2>1. \A a, b, c \in CacheKeys : <<a, b>> \in R /\ <<b, c>> \in R => <<a, c>> \in R
    BY DEF InOrder
  <2> QED
    BY <1>1, <2>1
<1>5. \A a \in D \cup {k}, b \in CacheKeys : a # b => <<a, b>> \in S \/ <<b, a>> \in S
  <2>1. \A a \in D, b \in CacheKeys : a # b => <<a, b>> \in R \/ <<b, a>> \in R
    BY DEF InOrder
  <2>2. D \subseteq CacheKeys
    BY DEF InOrder
  <2> QED
    BY <1>1, <2>1, <2>2
<1>6. InOrder(S, D \cup {k})
  BY <1>3, <1>4, <1>5 DEF InOrder
<1> QED
  BY <1>1, <1>2, <1>6 DEF S

(* A key that is used moves to the front, and a new one comes there.       *)
LEMMA MoveKeepsOrder ==
  ASSUME NEW l, NEW R \in SUBSET (CacheKeys \X CacheKeys), NEW D,
         Chained(l, R, D), InOrder(R, D), NEW k \in D
  PROVE  Chained(MoveToFront(l, k), UsedIn(R, k), D) /\ InOrder(UsedIn(R, k), D)
<1>1. k \in CacheKeys /\ D \subseteq CacheKeys
  BY DEF InOrder
<1> DEFINE S == UsedIn(R, k)
           m == Unlink(l, k)
           E == D \ {k}
<1>2. Chained(m, R, E) /\ InOrder(R, E)
  BY UnlinkKeepsOrder
<1>3. E \cup {k} = D /\ k \in CacheKeys \ E /\ \A a \in E : a \in CacheKeys \ {k}
  BY <1>1
<1>4. /\ InOrder(S, D)
      /\ \A j \in CacheKeys \ {k} : <<k, j>> \in S
      /\ \A a, b \in CacheKeys \ {k} : <<a, b>> \in S <=> <<a, b>> \in R
  <2>1. /\ InOrder(S, D \cup {k})
        /\ \A j \in CacheKeys \ {k} : <<k, j>> \in S
        /\ \A a, b \in CacheKeys \ {k} : <<a, b>> \in S <=> <<a, b>> \in R
    BY <1>1, UseKeepsOrder
  <2>2. D \cup {k} = D
    OBVIOUS
  <2> HIDE DEF S
  <2> QED
    BY <2>1, <2>2
<1>5. Chained(m, S, E)
  <2> HIDE DEF m, S, E
  <2> QED
    BY <1>2, <1>3, <1>4, OtherUses
<1>6. Chained(PushFront(m, k), S, E \cup {k})
  <2> HIDE DEF m, S, E
  <2>1. InOrder(S, E \cup {k})
    BY <1>3, <1>4
  <2>2. \A d \in E : <<k, d>> \in S
    BY <1>3, <1>4
  <2> QED
    BY <1>3, <1>5, <2>1, <2>2, PushKeepsOrder
<1> QED
  BY <1>3, <1>4, <1>6 DEF MoveToFront

LEMMA NewKeepsOrder ==
  ASSUME NEW l, NEW R \in SUBSET (CacheKeys \X CacheKeys), NEW D,
         Chained(l, R, D), InOrder(R, D), NEW k \in CacheKeys \ D
  PROVE  Chained(PushFront(l, k), UsedIn(R, k), D \cup {k}) /\ InOrder(UsedIn(R, k), D \cup {k})
<1> DEFINE S == UsedIn(R, k)
<1>1. \A a \in D : a \in CacheKeys \ {k}
  BY DEF InOrder
<1>2. /\ InOrder(S, D \cup {k})
      /\ \A j \in CacheKeys \ {k} : <<k, j>> \in S
      /\ \A a, b \in CacheKeys \ {k} : <<a, b>> \in S <=> <<a, b>> \in R
  BY UseKeepsOrder
<1> HIDE DEF S
<1>3. Chained(l, S, D)
  BY <1>1, <1>2, OtherUses
<1>4. Chained(PushFront(l, k), S, D \cup {k})
  BY <1>1, <1>2, <1>3, PushKeepsOrder
<1> QED
  BY <1>2, <1>4 DEF S

-----------------------------------------------------------------------------
CacheTypeOK ==
  /\ DOMAIN entries \subseteq CacheKeys /\ \A k \in DOMAIN entries : entries[k] \in CacheEntry
  /\ IsFiniteSet(DOMAIN entries)
  /\ stored \in [CacheKeys -> CacheEntry \cup {Nothing}]
  /\ newer \in SUBSET (CacheKeys \X CacheKeys)
  /\ cacheClock \in Nat /\ sweepNow \in 0..cacheClock /\ sweeping \in BOOLEAN

(* What is in the map is what was stored.                                  *)
Current == \A k \in DOMAIN entries : entries[k] = stored[k]

(* What is missing has expired, or is older than what is there.            *)
MissingOlder ==
  \A k \in CacheKeys \ DOMAIN entries :
    stored[k] # Nothing => Expired(stored[k], cacheClock)
                           \/ \A m \in DOMAIN entries : <<m, k>> \in newer

GotInv ==
  got # Nothing => /\ stored[got.key] # Nothing /\ stored[got.key].value = got.value
                   /\ ~Expired(stored[got.key], cacheClock)

CacheInv ==
  /\ CacheTypeOK
  /\ Chained(links, newer, DOMAIN entries) /\ InOrder(newer, DOMAIN entries)
  /\ MaxEntries > 0 => Cardinality(DOMAIN entries) <= MaxEntries
  /\ Current /\ MissingOlder /\ GotInv

LEMMA ExpiredForGood ==
  ASSUME NEW e \in CacheEntry, NEW now \in Nat, NEW later \in Nat, now <= later, Expired(e, now)
  PROVE  Expired(e, later)
BY DEF Expired, CacheEntry

(* A key that has expired leaves the map and the list.                     *)
LEMMA RemovalKeeps ==
  ASSUME CacheInv, NEW k \in DOMAIN entries, RemoveLocked(k),
         stored' = stored \/ stored' = [stored EXCEPT ![k] = Nothing],
         stored'[k] # Nothing => Expired(stored[k], cacheClock),
         got' = Nothing, UNCHANGED <<cacheClock, newer>>,
         UNCHANGED <<sweepNow, sweeping>>
  PROVE  CacheInv'
<1> DEFINE D == DOMAIN entries
<1>1. /\ CacheTypeOK /\ Chained(links, newer, D) /\ InOrder(newer, D)
      /\ MaxEntries > 0 => Cardinality(D) <= MaxEntries
      /\ Current /\ MissingOlder
  BY DEF CacheInv
<1>2. /\ DOMAIN entries' = D \ {k} /\ \A m \in D \ {k} : entries'[m] = entries[m]
      /\ links' = Unlink(links, k)
  BY DEF RemoveLocked, Without
<1>3. \A m \in CacheKeys \ {k} : stored'[m] = stored[m]
  BY <1>1 DEF CacheTypeOK
<1>4. stored' \in [CacheKeys -> CacheEntry \cup {Nothing}]
  BY <1>1 DEF CacheTypeOK
<1>5. IsFiniteSet(D) /\ IsFiniteSet(D \ {k}) /\ Cardinality(D) \in Nat
      /\ Cardinality(D \ {k}) \in Nat /\ Cardinality(D \ {k}) <= Cardinality(D)
  <2>1. IsFiniteSet(D)
    BY <1>1 DEF CacheTypeOK
  <2> QED
    BY <2>1, FS_RemoveElement, FS_Subset, FS_CardinalityType
<1>6. CacheTypeOK'
  BY <1>1, <1>2, <1>4, <1>5 DEF CacheTypeOK
<1>7. Chained(links', newer', DOMAIN entries') /\ InOrder(newer', DOMAIN entries')
  <2>1. Chained(Unlink(links, k), newer, D \ {k}) /\ InOrder(newer, D \ {k})
    BY <1>1, UnlinkKeepsOrder
  <2> QED
    BY <1>2, <2>1
<1>8. (MaxEntries > 0 => Cardinality(DOMAIN entries) <= MaxEntries)'
  BY <1>1, <1>2, <1>5, CacheAssumption
<1>9. Current'
  BY <1>1, <1>2, <1>3 DEF Current, CacheTypeOK
<1>10. MissingOlder'
  <2> SUFFICES ASSUME NEW j \in CacheKeys \ DOMAIN entries', stored'[j] # Nothing
               PROVE  \/ Expired(stored'[j], cacheClock)
                      \/ \A m \in DOMAIN entries' : <<m, j>> \in newer
    BY DEF MissingOlder
  <2>1. CASE j = k
    <3>1. stored'[k] = stored[k]
      BY <1>1, <2>1 DEF CacheTypeOK
    <3> QED
      BY <2>1, <3>1
  <2>2. CASE j # k
    BY <1>1, <1>2, <1>3, <2>2 DEF MissingOlder
  <2> QED
    BY <2>1, <2>2
<1>11. GotInv'
  BY DEF GotInv
<1> QED
  BY <1>6, <1>7, <1>8, <1>9, <1>10, <1>11 DEF CacheInv

LEMMA CacheHolds ==
  ASSUME CacheInv
  PROVE  /\ CacheTypeOK /\ Chained(links, newer, DOMAIN entries) /\ InOrder(newer, DOMAIN entries)
         /\ newer \in SUBSET (CacheKeys \X CacheKeys)
         /\ MaxEntries > 0 => Cardinality(DOMAIN entries) <= MaxEntries
         /\ Current /\ MissingOlder /\ GotInv
         /\ IsFiniteSet(DOMAIN entries) /\ Cardinality(DOMAIN entries) \in Nat
         /\ \A k \in DOMAIN entries : k \in CacheKeys /\ stored[k] = entries[k] /\ entries[k] # Nothing
<1>1. CacheTypeOK /\ Current
  BY DEF CacheInv
<1>2. IsFiniteSet(DOMAIN entries) /\ Cardinality(DOMAIN entries) \in Nat
  BY <1>1, FS_CardinalityType DEF CacheTypeOK
<1>3. \A k \in DOMAIN entries : k \in CacheKeys /\ stored[k] = entries[k] /\ entries[k] # Nothing
  BY <1>1, CacheAssumption DEF CacheTypeOK, Current
<1> QED
  BY <1>1, <1>2, <1>3 DEF CacheInv, CacheTypeOK

LEMMA GetKeeps ==
  ASSUME CacheInv, NEW k \in CacheKeys, CacheGet(k) PROVE CacheInv'
<1>0. UNCHANGED <<cacheClock, sweepNow, sweeping>>
  BY DEF CacheGet
<1>1. CASE CacheMiss(k)
  <2>1. UNCHANGED <<entries, links, newer, stored, cacheClock, sweepNow, sweeping>> /\ got' = Nothing
    BY <1>0, <1>1 DEF CacheMiss
  <2> QED
    BY <2>1 DEF CacheInv, CacheTypeOK, Current, MissingOlder, GotInv
<1>2. CASE GetExpired(k)
  <2>1. /\ k \in DOMAIN entries /\ Expired(entries[k], cacheClock) /\ RemoveLocked(k)
        /\ got' = Nothing /\ UNCHANGED <<newer, stored>>
    BY <1>2 DEF GetExpired
  <2>2. stored'[k] # Nothing => Expired(stored[k], cacheClock)
    BY <2>1, CacheHolds
  <2> QED
    BY <1>0, <2>1, <2>2, RemovalKeeps
<1>3. CASE GetHit(k)
  <2>1. /\ k \in DOMAIN entries /\ ~Expired(entries[k], cacheClock)
        /\ links' = MoveToFront(links, k) /\ got' = [key |-> k, value |-> entries[k].value]
        /\ newer' = UsedIn(newer, k) /\ UNCHANGED <<entries, stored>>
    BY <1>3 DEF GetHit, Used, UsedIn
  <2>2. /\ newer' \in SUBSET (CacheKeys \X CacheKeys)
        /\ \A m \in CacheKeys \ {k} : <<k, m>> \in newer'
        /\ \A a, b \in CacheKeys \ {k} : <<a, b>> \in newer' <=> <<a, b>> \in newer
    BY <2>1, CacheHolds, UseKeepsOrder
  <2>3. Chained(links', newer', DOMAIN entries') /\ InOrder(newer', DOMAIN entries')
    <3>1. /\ Chained(MoveToFront(links, k), UsedIn(newer, k), DOMAIN entries)
          /\ InOrder(UsedIn(newer, k), DOMAIN entries)
      BY <2>1, CacheHolds, MoveKeepsOrder
    <3> QED
      BY <2>1, <3>1
  <2>4. CacheTypeOK' /\ Current' /\ (MaxEntries > 0 => Cardinality(DOMAIN entries) <= MaxEntries)'
    BY <1>0, <2>1, <2>2 DEF CacheInv, CacheTypeOK, Current
  <2>5. MissingOlder'
    <3> SUFFICES ASSUME NEW j \in CacheKeys \ DOMAIN entries, stored[j] # Nothing,
                        ~Expired(stored[j], cacheClock), NEW m \in DOMAIN entries
                 PROVE  <<m, j>> \in newer'
      BY <1>0, <2>1 DEF MissingOlder
    <3>1. <<m, j>> \in newer /\ m \in CacheKeys
      BY CacheHolds DEF MissingOlder
    <3>2. j # k
      BY <2>1
    <3> QED
      BY <2>2, <3>1, <3>2
  <2>6. GotInv'
    <3>1. stored'[k] = entries[k] /\ entries[k] # Nothing
      BY <2>1, CacheHolds
    <3>2. got'.key = k /\ got'.value = entries[k].value
      BY <2>1
    <3> QED
      BY <1>0, <2>1, <3>1, <3>2 DEF GotInv
  <2> QED
    BY <2>3, <2>4, <2>5, <2>6 DEF CacheInv
<1> QED
  BY <1>1, <1>2, <1>3 DEF CacheGet

LEMMA DeleteKeeps ==
  ASSUME CacheInv, NEW k \in CacheKeys, CacheDelete(k) PROVE CacheInv'
<1>1. /\ stored' = [stored EXCEPT ![k] = Nothing] /\ got' = Nothing
      /\ UNCHANGED <<cacheClock, sweepNow, sweeping, newer>>
  BY DEF CacheDelete
<1>2. stored'[k] = Nothing
  BY <1>1, CacheHolds DEF CacheTypeOK
<1>3. CASE k \in DOMAIN entries
  <2>1. RemoveLocked(k)
    BY <1>3 DEF CacheDelete
  <2> QED
    BY <1>1, <1>2, <1>3, <2>1, RemovalKeeps
<1>4. CASE k \notin DOMAIN entries
  <2>1. UNCHANGED <<entries, links>>
    BY <1>4 DEF CacheDelete
  <2>2. \A m \in CacheKeys \ {k} : stored'[m] = stored[m]
    BY <1>1, CacheHolds DEF CacheTypeOK
  <2>3. CacheTypeOK'
    BY <1>1, <2>1 DEF CacheInv, CacheTypeOK
  <2>4. Current'
    BY <1>4, <2>1, <2>2, CacheHolds DEF Current
  <2>5. MissingOlder'
    <3> SUFFICES ASSUME NEW j \in CacheKeys \ DOMAIN entries, stored'[j] # Nothing
                 PROVE  Expired(stored'[j], cacheClock) \/ \A m \in DOMAIN entries : <<m, j>> \in newer
      BY <1>1, <2>1 DEF MissingOlder
    <3>1. stored'[j] = stored[j]
      BY <1>2, <2>2
    <3> QED
      BY <3>1, CacheHolds DEF MissingOlder
  <2> QED
    BY <1>1, <2>1, <2>3, <2>4, <2>5 DEF CacheInv, GotInv
<1> QED
  BY <1>3, <1>4

LEMMA SweepRemoveKeeps ==
  ASSUME CacheInv, NEW k \in CacheKeys, SweepRemove(k) PROVE CacheInv'
<1>1. /\ k \in DOMAIN entries /\ Expired(entries[k], sweepNow) /\ RemoveLocked(k)
      /\ got' = Nothing /\ UNCHANGED <<cacheClock, sweepNow, sweeping, newer, stored>>
  BY DEF SweepRemove
<1>2. /\ entries[k] \in CacheEntry /\ sweepNow \in Nat /\ cacheClock \in Nat
      /\ sweepNow <= cacheClock
  BY <1>1, CacheHolds DEF CacheTypeOK
<1>3. Expired(stored[k], cacheClock)
  BY <1>1, <1>2, CacheHolds, ExpiredForGood
<1> QED
  BY <1>1, <1>3, RemovalKeeps

(* What a Set stores is there afterwards, and is what was used last.       *)
LEMMA SetKeeps ==
  ASSUME CacheInv, NEW k \in CacheKeys, NEW v \in CacheValues, NEW ttl \in TTLs, CacheSet(k, v, ttl)
  PROVE  CacheInv'
<1> DEFINE D == DOMAIN entries
           E == D \cup {k}
<1>1. PICK e \in CacheEntry :
        e = [value |-> v, expiresAt |-> IF ttl > 0 THEN cacheClock + ttl ELSE 0]
  <2>1. ttl \in Nat /\ cacheClock \in Nat
    BY CacheAssumption, CacheHolds DEF CacheTypeOK
  <2>2. PICK at \in Nat : at = IF ttl > 0 THEN cacheClock + ttl ELSE 0
    BY <2>1
  <2>3. [value |-> v, expiresAt |-> at] \in CacheEntry
    BY DEF CacheEntry
  <2> QED
    BY <2>2, <2>3
<1>2. PICK with : with = With(entries, k, e)
  OBVIOUS
<1>3. PICK front : front = PushFront(links, k)
  OBVIOUS
<1>4. PICK victim : victim = front.prev[Sentinel]
  OBVIOUS
<1>5. /\ IF k \in D
         THEN entries' = with /\ links' = MoveToFront(links, k)
         ELSE IF MaxEntries > 0 /\ Cardinality(DOMAIN with) > MaxEntries
         THEN entries' = Without(with, victim) /\ links' = Unlink(front, victim)
         ELSE entries' = with /\ links' = front
      /\ stored' = [stored EXCEPT ![k] = e] /\ got' = Nothing
      /\ newer' = UsedIn(newer, k) /\ UNCHANGED <<cacheClock, sweepNow, sweeping>>
  BY <1>1, <1>2, <1>3, <1>4 DEF CacheSet, Used, UsedIn
<1>6. /\ DOMAIN with = E /\ with[k] = e /\ \A m \in D \ {k} : with[m] = entries[m]
  BY <1>2 DEF With
<1>7. /\ newer' \in SUBSET (CacheKeys \X CacheKeys)
      /\ \A m \in CacheKeys \ {k} : <<k, m>> \in newer' /\ <<m, k>> \notin newer'
      /\ \A a, b \in CacheKeys \ {k} : <<a, b>> \in newer' <=> <<a, b>> \in newer
  BY <1>5, CacheHolds, UseKeepsOrder
<1>8. /\ IsFiniteSet(D) /\ Cardinality(D) \in Nat /\ D \subseteq CacheKeys
      /\ MaxEntries \in Nat /\ (MaxEntries > 0 => Cardinality(D) <= MaxEntries)
  BY CacheAssumption, CacheHolds
<1>9. /\ stored' \in [CacheKeys -> CacheEntry \cup {Nothing}] /\ stored'[k] = e
      /\ \A m \in CacheKeys \ {k} : stored'[m] = stored[m]
  BY <1>1, <1>5, CacheHolds DEF CacheTypeOK
<1>10. /\ \A m \in E : with[m] \in CacheEntry /\ with[m] = stored'[m]
  <2>1. \A m \in D \ {k} : with[m] \in CacheEntry /\ with[m] = stored'[m]
    BY <1>6, <1>8, <1>9, CacheHolds DEF CacheTypeOK
  <2> QED
    BY <1>1, <1>6, <1>9, <2>1
<1>11. IsFiniteSet(E) /\ Cardinality(E) = IF k \in D THEN Cardinality(D) ELSE Cardinality(D) + 1
  BY <1>8, FS_AddElement
<1>12. PICK F : /\ F = DOMAIN entries' /\ F \subseteq E /\ k \in F
                /\ \A m \in F : entries'[m] = with[m]
                /\ MaxEntries > 0 => Cardinality(F) <= MaxEntries
                /\ IsFiniteSet(F)
                /\ Chained(links', newer', F) /\ InOrder(newer', F)
                /\ \A j \in E \ F, m \in F : <<m, j>> \in newer'
  <2>1. CASE k \in D
    <3>1. E = D /\ entries' = with /\ links' = MoveToFront(links, k)
      BY <1>5, <2>1
    <3>2. Chained(MoveToFront(links, k), newer', D) /\ InOrder(newer', D)
      BY <1>5, <2>1, CacheHolds, MoveKeepsOrder
    <3> QED
      BY <1>6, <1>8, <3>1, <3>2
  <2>2. CASE k \notin D /\ ~(MaxEntries > 0 /\ Cardinality(E) > MaxEntries)
    <3>1. entries' = with /\ links' = front
      BY <1>5, <1>6, <2>2
    <3>2. Chained(front, newer', E) /\ InOrder(newer', E)
      BY <1>3, <1>5, <2>2, CacheHolds, NewKeepsOrder
    <3>3. MaxEntries > 0 => Cardinality(E) <= MaxEntries
      BY <1>8, <1>11, <2>2
    <3> QED
      BY <1>6, <1>11, <3>1, <3>2, <3>3
  <2>3. CASE k \notin D /\ MaxEntries > 0 /\ Cardinality(E) > MaxEntries
    <3>1. entries' = Without(with, victim) /\ links' = Unlink(front, victim)
      BY <1>5, <1>6, <2>3
    <3>2. Chained(front, newer', E) /\ InOrder(newer', E)
      BY <1>3, <1>5, <2>3, CacheHolds, NewKeepsOrder
    <3>3. victim \in E \cup {Sentinel} /\ FollowsIn(newer', E, victim, Sentinel)
      BY <1>4, <3>2 DEF Chained
    <3>4. \A c \in E : ~BeforeIn(newer', victim, c)
      BY <3>3 DEF FollowsIn, BeforeIn
    <3>5. victim \in E
      BY <3>3, <3>4 DEF BeforeIn
    <3>6. victim # k
      <4>1. Cardinality(D) # 0
        BY <1>8, <1>11, <2>3
      <4>2. PICK d \in D : TRUE
        BY <4>1, FS_EmptySet
      <4>3. <<k, d>> \in newer'
        BY <1>7, <1>8, <2>3
      <4> QED
        BY <3>4, <4>3 DEF BeforeIn
    <3>7. \A m \in E \ {victim} : <<m, victim>> \in newer'
      <4>1. \A m \in E \ {victim} : <<m, victim>> \in newer' \/ <<victim, m>> \in newer'
        BY <3>2, <3>5 DEF InOrder
      <4> QED
        BY <3>4, <4>1 DEF BeforeIn
    <3> DEFINE F == E \ {victim}
    <3>8. Chained(links', newer', F) /\ InOrder(newer', F)
      <4>1. Chained(Unlink(front, victim), newer', F) /\ InOrder(newer', F)
        BY <3>2, <3>5, UnlinkKeepsOrder
      <4> QED
        BY <3>1, <4>1
    <3>9. IsFiniteSet(F) /\ Cardinality(F) = Cardinality(E) - 1
      BY <1>11, <3>5, FS_RemoveElement
    <3>10. F = DOMAIN entries' /\ \A m \in F : entries'[m] = with[m]
      BY <1>6, <3>1 DEF Without
    <3>11. Cardinality(F) <= MaxEntries
      BY <1>8, <1>11, <2>3, <3>9
    <3>12. E \ F = {victim} /\ F \subseteq E /\ k \in F
      BY <3>5, <3>6
    <3>13. \A j \in E \ F, m \in F : <<m, j>> \in newer'
      BY <3>7, <3>12
    <3> HIDE DEF F
    <3> QED
      BY <3>8, <3>9, <3>10, <3>11, <3>12, <3>13
  <2> QED
    BY <2>1, <2>2, <2>3
<1> HIDE DEF D, E
<1>13. CacheTypeOK'
  <2>1. E \subseteq CacheKeys
    BY <1>8 DEF E
  <2> QED
    BY <1>5, <1>7, <1>9, <1>10, <1>12, <2>1, CacheHolds DEF CacheTypeOK
<1>14. Current'
  BY <1>10, <1>12 DEF Current
<1>15. MissingOlder'
  <2> SUFFICES ASSUME NEW j \in CacheKeys \ F, stored'[j] # Nothing, ~Expired(stored'[j], cacheClock),
                      NEW m \in F
               PROVE  <<m, j>> \in newer'
    BY <1>5, <1>12 DEF MissingOlder
  <2>1. j # k
    BY <1>12
  <2>2. CASE j \in E
    BY <1>12, <2>2
  <2>3. CASE j \notin E
    <3>1. j \notin D /\ stored'[j] = stored[j]
      BY <1>9, <2>1, <2>3 DEF E
    <3>2. CASE m = k
      BY <1>7, <2>1, <3>2
    <3>3. CASE m # k
      <4>1. m \in D
        BY <1>12, <3>3 DEF E
      <4>2. <<m, j>> \in newer /\ m \in CacheKeys
        BY <3>1, <4>1, CacheHolds DEF MissingOlder, D
      <4> QED
        BY <1>7, <2>1, <3>3, <4>2
    <3> QED
      BY <3>2, <3>3
  <2> QED
    BY <2>2, <2>3
<1> QED
  BY <1>5, <1>12, <1>13, <1>14, <1>15 DEF CacheInv, GotInv

(* Time, and what sweep does with its clock and the lock.                  *)
LEMMA WaitingKeeps ==
  ASSUME CacheInv, SweepStart \/ SweepLock \/ SweepEnd \/ CacheTick PROVE CacheInv'
<1>1. /\ got' = Nothing /\ UNCHANGED <<entries, links, newer, stored>>
      /\ cacheClock' \in {cacheClock, cacheClock + 1}
      /\ sweepNow' \in {sweepNow, cacheClock, 0} /\ sweeping' \in {sweeping, TRUE, FALSE}
  BY DEF SweepStart, SweepLock, SweepEnd, CacheTick
<1>2. CacheTypeOK'
  <2>1. cacheClock \in Nat /\ sweepNow \in 0..cacheClock /\ sweeping \in BOOLEAN
    BY CacheHolds DEF CacheTypeOK
  <2>2. cacheClock' \in Nat /\ sweepNow' \in 0..cacheClock'
    BY <1>1, <2>1
  <2>3. sweeping' \in BOOLEAN
    BY <1>1, <2>1, Zenon
  <2> QED
    BY <1>1, <2>2, <2>3, CacheHolds DEF CacheTypeOK
<1>3. MissingOlder'
  <2> SUFFICES ASSUME NEW j \in CacheKeys \ DOMAIN entries, stored[j] # Nothing
               PROVE  Expired(stored[j], cacheClock') \/ \A m \in DOMAIN entries : <<m, j>> \in newer
    BY <1>1 DEF MissingOlder
  <2>1. CASE Expired(stored[j], cacheClock)
    <3>1. stored[j] \in CacheEntry /\ cacheClock \in Nat /\ cacheClock' \in Nat
          /\ cacheClock <= cacheClock'
      BY <1>1, CacheHolds DEF CacheTypeOK
    <3> QED
      BY <2>1, <3>1, ExpiredForGood
  <2> QED
    BY <2>1, CacheHolds DEF MissingOlder
<1>4. GotInv'
  BY <1>1 DEF GotInv
<1>5. Current' /\ Chained(links', newer', DOMAIN entries') /\ InOrder(newer', DOMAIN entries')
      /\ (MaxEntries > 0 => Cardinality(DOMAIN entries) <= MaxEntries)'
  BY <1>1, CacheHolds DEF Current
<1> QED
  BY <1>2, <1>3, <1>4, <1>5 DEF CacheInv

LEMMA CacheStarts ==
  ASSUME CacheInit PROVE CacheInv
<1>1. /\ DOMAIN entries = {} /\ newer = {} /\ got = Nothing
      /\ cacheClock = 1 /\ sweepNow = 0 /\ sweeping = FALSE
      /\ stored = [k \in CacheKeys |-> Nothing]
  BY DEF CacheInit
<1>2. IsFiniteSet({}) /\ Cardinality({}) = 0
  BY FS_EmptySet
<1>3. CacheTypeOK
  <2>1. stored \in [CacheKeys -> CacheEntry \cup {Nothing}]
    BY <1>1
  <2>2. cacheClock \in Nat /\ sweepNow \in 0..cacheClock
    BY <1>1
  <2>3. sweeping \in BOOLEAN
    BY <1>1, Zenon
  <2>4. newer \in SUBSET (CacheKeys \X CacheKeys)
    BY <1>1
  <2> QED
    BY <1>1, <1>2, <2>1, <2>2, <2>3, <2>4 DEF CacheTypeOK
<1> DEFINE none == [n \in Nodes |-> IF n = Sentinel THEN Sentinel ELSE Unlinked]
<1>4. links = [next |-> none, prev |-> none]
  BY DEF CacheInit, Nodes
<1>5. none \in [Nodes -> Nodes \cup {Unlinked}] /\ none[Sentinel] = Sentinel
      /\ \A k \in CacheKeys : none[k] = Unlinked
  BY CacheAssumption DEF Nodes
<1> HIDE DEF none
<1>6. FollowsIn({}, {}, Sentinel, Sentinel)
  BY DEF FollowsIn, BeforeIn
<1>7. Chained(links, {}, {})
  BY <1>4, <1>5, <1>6 DEF Chained
<1>8. InOrder({}, {})
  BY DEF InOrder
<1> QED
  BY <1>1, <1>2, <1>3, <1>7, <1>8, CacheAssumption DEF CacheInv, Current, MissingOlder, GotInv

LEMMA CacheAlways == CacheSpec => []CacheInv
<1>1. CacheInit => CacheInv
  BY CacheStarts
<1>2. CacheInv /\ [CacheNext]_cacheVars => CacheInv'
  <2> SUFFICES ASSUME CacheInv, [CacheNext]_cacheVars PROVE CacheInv'
    OBVIOUS
  <2>1. ASSUME NEW k \in CacheKeys, CacheGet(k) PROVE CacheInv'
    BY <2>1, GetKeeps
  <2>2. ASSUME NEW k \in CacheKeys, CacheDelete(k) PROVE CacheInv'
    BY <2>2, DeleteKeeps
  <2>3. ASSUME NEW k \in CacheKeys, SweepRemove(k) PROVE CacheInv'
    BY <2>3, SweepRemoveKeeps
  <2>4. ASSUME NEW k \in CacheKeys, NEW v \in CacheValues, NEW ttl \in TTLs, CacheSet(k, v, ttl)
        PROVE  CacheInv'
    BY <2>4, SetKeeps
  <2>5. CASE SweepStart \/ SweepLock \/ SweepEnd \/ CacheTick
    BY <2>5, WaitingKeeps
  <2>6. CASE UNCHANGED cacheVars
    BY <2>6 DEF cacheVars, CacheInv, CacheTypeOK, Current, MissingOlder, GotInv
  <2> QED
    BY <2>1, <2>2, <2>3, <2>4, <2>5, <2>6 DEF CacheNext
<1> QED
  BY <1>1, <1>2, PTL DEF CacheSpec

(* Whatever calls come in whatever order, and however late sweep gets the  *)
(* lock: the map and the list hold the same entries, the list in the order *)
(* of last use both ways, within the limit; a hit is what was set last and *)
(* has not expired; what is missing was deleted, has expired, or was used  *)
(* before everything that is left (memory.go).                             *)
THEOREM CacheStaysSound == CacheSpec => []CacheSound
<1>1. CacheInv => CacheSound
  <2> SUFFICES ASSUME CacheInv PROVE CacheSound
    OBVIOUS
  <2>1. \A a, b : FollowsIn(newer, DOMAIN entries, a, b) <=> Follows(a, b)
    BY DEF FollowsIn, BeforeIn, Follows, Before
  <2>2. /\ \A a \in DOMAIN entries \cup {Sentinel} :
              /\ links.next[a] \in DOMAIN entries \cup {Sentinel} /\ Follows(a, links.next[a])
              /\ links.prev[a] \in DOMAIN entries \cup {Sentinel} /\ Follows(links.prev[a], a)
        /\ \A k \in CacheKeys \ DOMAIN entries :
              Unlinked = links.next[k] /\ Unlinked = links.prev[k]
    BY <2>1, CacheHolds DEF Chained
  <2> QED
    BY <2>2, CacheHolds DEF CacheSound, Current, MissingOlder, GotInv
<1> QED
  BY <1>1, CacheAlways, PTL
=============================================================================
