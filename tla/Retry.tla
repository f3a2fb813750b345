-------------------------------- MODULE Retry --------------------------------
(***************************************************************************)
(* pkg/resilience/retry: Do repeats an operation with growing pauses until *)
(* it succeeds, is not worth retrying, or has had its attempts. The        *)
(* context may end at any moment. Factors are counted in Hundredths.       *)
(***************************************************************************)
EXTENDS Integers, Sequences

CONSTANTS
  Policies,         \* [maxAttempts, initialDelay, maxDelay, multiplier, jitter]
  DefaultInitialDelay, DefaultMaxDelay,
  NoPolicy

PolicyType ==
  [maxAttempts : Int, initialDelay : Int, maxDelay : Int, multiplier : Int, jitter : Int]

ASSUME RetryAssumption ==
  /\ Policies \subseteq PolicyType /\ NoPolicy \notin PolicyType
  /\ DefaultInitialDelay \in Int /\ DefaultMaxDelay \in Int

VARIABLES
  policy,           \* of the Retrier once New has accepted it
  retry,            \* the call: [at, attempt, result]
  ended,            \* whether its context has ended
  pauses,           \* history: the delays waited for
  outcomes,         \* history: what the attempts returned
  lateStarts        \* history: attempts begun after the context ended

retryVars == <<policy, retry, ended, pauses, outcomes, lateStarts>>

Hundredths == 100

RetryInit ==
  /\ policy = NoPolicy
  /\ retry = [at |-> "new", attempt |-> 0, result |-> "none"]
  /\ ended = FALSE /\ pauses = <<>> /\ outcomes = <<>> /\ lateStarts = 0

(* Validate: what cannot be used, and what is put right.                   *)
Usable(p) == p.maxAttempts >= 1 /\ p.multiplier > 0 /\ p.jitter \in 0..Hundredths

PutRight(p) ==
  LET first == IF p.initialDelay < 0 THEN DefaultInitialDelay ELSE p.initialDelay
      cap == IF p.maxDelay < 0 THEN DefaultMaxDelay ELSE p.maxDelay
  IN [p EXCEPT !.initialDelay = IF cap > 0 /\ first > cap THEN cap ELSE first,
               !.maxDelay = cap]

NewRetrier ==
  /\ retry.at = "new"
  /\ \E p \in Policies :
       IF Usable(p)
       THEN policy' = PutRight(p) /\ retry' = [retry EXCEPT !.at = "calling"]
       ELSE retry' = [retry EXCEPT !.at = "refused"] /\ UNCHANGED policy
  /\ UNCHANGED <<ended, pauses, outcomes, lateStarts>>

-----------------------------------------------------------------------------
(* backoff.delay: the base grows, is capped, and then jittered both ways.  *)
Growth(p, attempt) ==
  LET grown[n \in 1..attempt] ==
        IF n = 1 THEN p.initialDelay ELSE (grown[n - 1] * p.multiplier) \div Hundredths
  IN grown

Base(p, attempt) ==
  LET grown == Growth(p, attempt)[attempt] IN
  IF p.maxDelay > 0 /\ grown > p.maxDelay THEN p.maxDelay ELSE grown

(* Mutant: the jitter is added to a base that is not capped.               *)
DelaysUncapped(p, attempt) ==
  LET base == Base([p EXCEPT !.maxDelay = 0], attempt)
      band == (base * p.jitter) \div Hundredths
  IN (base - band)..(base + band)

Delays(p, attempt) ==
  LET base == IF p.initialDelay <= 0 THEN 0 ELSE Base(p, attempt)
      band == (base * p.jitter) \div Hundredths
  IN (base - band)..(base + band)

Return(result) == retry' = [retry EXCEPT !.at = "returned", !.result = result]

(* Before the first attempt the context is looked at twice, to no effect.  *)
LookAtContext ==
  /\ retry.at = "calling"
  /\ IF ended THEN Return("ctx")
     ELSE retry' = [retry EXCEPT !.at = "starting", !.attempt = @ + 1]
  /\ UNCHANGED <<policy, ended, pauses, outcomes, lateStarts>>

Attempt ==
  /\ retry.at = "starting"
  /\ retry' = [retry EXCEPT !.at = "running"]
  /\ lateStarts' = IF ended THEN lateStarts + 1 ELSE lateStarts
  /\ UNCHANGED <<policy, ended, pauses, outcomes>>

AttemptReturns(outcome) ==
  /\ retry.at = "running"
  /\ outcomes' = Append(outcomes, outcome)
  /\ CASE outcome = "ok" -> Return("nil") /\ UNCHANGED pauses
       [] outcome = "fatal" -> Return("fatal") /\ UNCHANGED pauses
       [] outcome = "failed" /\ retry.attempt = policy.maxAttempts ->
            Return("failed") /\ UNCHANGED pauses
       [] OTHER -> \E d \in Delays(policy, retry.attempt) :
            /\ pauses' = Append(pauses, d)
            /\ retry' = [retry EXCEPT !.at = IF d <= 0 THEN "calling" ELSE "waiting"]
  /\ UNCHANGED <<policy, ended, lateStarts>>

(* The timer and the context may both be ready.                            *)
PauseOver ==
  /\ retry.at = "waiting"
  /\ \/ retry' = [retry EXCEPT !.at = "calling"]
     \/ ended /\ Return("ctx")
  /\ UNCHANGED <<policy, ended, pauses, outcomes, lateStarts>>

ContextEnds ==
  /\ ~ended /\ retry.at \notin {"new", "refused", "returned"}
  /\ ended' = TRUE
  /\ UNCHANGED <<policy, retry, pauses, outcomes, lateStarts>>

RetryNext ==
  \/ NewRetrier \/ LookAtContext \/ Attempt \/ PauseOver \/ ContextEnds
  \/ \E outcome \in {"ok", "failed", "fatal"} : AttemptReturns(outcome)

-----------------------------------------------------------------------------
(* Do makes no more than its attempts and begins at most one once its      *)
(* context has ended (it may end between the look and the call), whether   *)
(* or not it pauses in between. Under a cap no pause outlasts it by more   *)
(* than the jitter. What Do returns is what happened: nil for a last       *)
(* attempt that succeeded, the last error only when nothing is left to try *)
(* or the error forbids it, the context's error only when it ended         *)
(* (retry.go:133-179, backoff.go:43-48).                                   *)
RetryWithinBudget ==
  LET tried == Len(outcomes)
      last == outcomes[tried]
  IN policy # NoPolicy =>
       /\ tried <= policy.maxAttempts /\ lateStarts <= 1
       /\ \A i \in 1..(tried - 1) : outcomes[i] = "failed"
       /\ policy.maxDelay > 0 => \A i \in DOMAIN pauses :
            pauses[i] * Hundredths <= policy.maxDelay * (Hundredths + policy.jitter)
       /\ retry.result = "nil" => last = "ok"
       /\ retry.result = "fatal" => last = "fatal"
       /\ retry.result = "failed" => last = "failed" /\ tried = policy.maxAttempts
       /\ retry.result = "ctx" => ended /\ (tried > 0 => last = "failed")
=============================================================================
