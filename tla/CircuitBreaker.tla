--------------------------- MODULE CircuitBreaker ---------------------------
(***************************************************************************)
(* pkg/resilience/circuitbreaker: goroutines share one Breaker. Do takes   *)
(* the mutex to admit a call, releases it while op runs and takes it again *)
(* to account for the result, so a result is applied to whatever the       *)
(* breaker has become by then.                                             *)
(*                                                                         *)
(* Time is not counted: cooling is what remains until openedAt plus        *)
(* OpenTimeout. call[c] is where caller c stands: "idle", or inside an op  *)
(* that was admitted while closed ("call") or while half-open ("probe",    *)
(* wasHalfOpen). IsFailure is free to class any result.                    *)
(*                                                                         *)
(* A refused Do (ErrOpen, or a context that is done already) changes       *)
(* nothing and is no step.                                                 *)
(*                                                                         *)
(* Operators marked "Mutant" are no part of the specification: each is a   *)
(* plausible mistake in the definition after it, which a property of the   *)
(* runs must catch.                                                        *)
(***************************************************************************)
EXTENDS Integers, FiniteSets

CONSTANTS
  Callers,            \* goroutines calling Do
  FailureThreshold,   \* consecutive failures that trip the breaker
  OpenTimeout,        \* cooldown, in ticks
  HalfOpenMaxProbes   \* probes admitted per half-open period

(* New rejects anything else.                                              *)
ASSUME BreakerAssumption ==
  /\ IsFiniteSet(Callers) /\ Callers # {}
  /\ FailureThreshold \in Nat \ {0}
  /\ OpenTimeout \in Nat \ {0}
  /\ HalfOpenMaxProbes \in Nat \ {0}

VARIABLES
  state, failures, cooling, probesInFlight, probesAdmitted,   \* the breaker
  call,    \* what each caller is in
  late,    \* history: callers whose call was admitted before the last
           \* change of state
  lost     \* history: probes of this half-open period that panicked

breakerVars == <<state, failures, cooling, probesInFlight, probesAdmitted>>
circuitVars == <<breakerVars, call, late, lost>>

Running == {c \in Callers : call[c] # "idle"}
Probes  == {c \in Callers : call[c] = "probe"}
Calls   == {c \in Callers : call[c] = "call"}

(* Probes of the current half-open period.                                 *)
CurrentProbes == Probes \ late

BreakerTypeOK ==
  /\ state \in {"closed", "open", "halfOpen"}
  /\ failures \in Nat
  /\ cooling \in 0..OpenTimeout
  /\ probesInFlight \in Int
  /\ probesAdmitted \in 0..HalfOpenMaxProbes
  /\ call \in [Callers -> {"idle", "call", "probe"}]
  /\ late \in SUBSET Callers
  /\ lost \in 0..HalfOpenMaxProbes

BreakerInit ==
  /\ state = "closed"
  /\ failures = 0
  /\ cooling = 0
  /\ probesInFlight = 0
  /\ probesAdmitted = 0
  /\ call = [c \in Callers |-> "idle"]
  /\ late = {}
  /\ lost = 0

-----------------------------------------------------------------------------
(* Admission.                                                              *)

(* maybeOpenToHalfOpenLocked promotes, at the next look, a breaker whose   *)
(* cooldown is over.                                                       *)
CoolingOver == state = "open" /\ cooling = 0

(* Mutant: only the half-open state is looked at.                          *)
AdmitCallWhileOpen(c) ==
  /\ call[c] = "idle"
  /\ state # "halfOpen"
  /\ call' = [call EXCEPT ![c] = "call"]
  /\ UNCHANGED <<breakerVars, late, lost>>

AdmitCall(c) ==
  /\ call[c] = "idle"
  /\ state = "closed"
  /\ call' = [call EXCEPT ![c] = "call"]
  /\ UNCHANGED <<breakerVars, late, lost>>

(* The first Do after the cooldown promotes the breaker and is a probe.    *)
AdmitFirstProbe(c) ==
  /\ call[c] = "idle"
  /\ CoolingOver
  /\ state' = "halfOpen"
  /\ probesAdmitted' = 1
  /\ probesInFlight' = 1
  /\ call' = [call EXCEPT ![c] = "probe"]
  /\ late' = Running
  /\ lost' = 0
  /\ UNCHANGED <<failures, cooling>>

(* Mutant: probes are counted, not limited.                                *)
AdmitAnyProbe(c) ==
  /\ call[c] = "idle"
  /\ state = "halfOpen"
  /\ probesAdmitted' = probesAdmitted + 1
  /\ probesInFlight' = probesInFlight + 1
  /\ call' = [call EXCEPT ![c] = "probe"]
  /\ UNCHANGED <<state, failures, cooling, late, lost>>

AdmitProbe(c) ==
  /\ call[c] = "idle"
  /\ state = "halfOpen"
  /\ probesAdmitted < HalfOpenMaxProbes
  /\ probesAdmitted' = probesAdmitted + 1
  /\ probesInFlight' = probesInFlight + 1
  /\ call' = [call EXCEPT ![c] = "probe"]
  /\ UNCHANGED <<state, failures, cooling, late, lost>>

(* State() promotes as well.                                               *)
Look ==
  /\ CoolingOver
  /\ state' = "halfOpen"
  /\ probesAdmitted' = 0
  /\ probesInFlight' = 0
  /\ late' = Running
  /\ lost' = 0
  /\ UNCHANGED <<failures, cooling, call>>

-----------------------------------------------------------------------------
(* Accounting.                                                             *)

Leave(c) == call' = [call EXCEPT ![c] = "idle"]

Reset ==
  /\ probesAdmitted' = 0
  /\ probesInFlight' = 0
  /\ lost' = 0

(* Mutant: the probe counts of the last half-open period are kept.         *)
transitionToOpenKeepingCounts(c) ==
  /\ state' = "open"
  /\ cooling' = OpenTimeout
  /\ late' = Running \ {c}
  /\ lost' = 0
  /\ UNCHANGED <<probesAdmitted, probesInFlight>>

transitionToOpen(c) ==
  /\ state' = "open"
  /\ cooling' = OpenTimeout
  /\ Reset
  /\ late' = Running \ {c}

(* Mutant: the failures that tripped the breaker are still counted.        *)
transitionToClosedKeepingFailures(c) ==
  /\ state' = "closed"
  /\ Reset
  /\ late' = Running \ {c}
  /\ UNCHANGED <<failures, cooling>>

transitionToClosed(c) ==
  /\ state' = "closed"
  /\ failures' = 0
  /\ Reset
  /\ late' = Running \ {c}
  /\ UNCHANGED cooling

(* Mutant: a success while half-open is counted as in the closed state.    *)
ProbeSucceedsAsCall(c) ==
  /\ call[c] = "probe"
  /\ failures' = 0
  /\ probesInFlight' = probesInFlight - 1
  /\ Leave(c)
  /\ late' = late \ {c}
  /\ UNCHANGED <<state, cooling, probesAdmitted, lost>>

ProbeSucceeds(c) ==
  /\ call[c] = "probe"
  /\ transitionToClosed(c)
  /\ Leave(c)

ProbeFails(c) ==
  /\ call[c] = "probe"
  /\ transitionToOpen(c)
  /\ Leave(c)
  /\ UNCHANGED failures

CallSucceeds(c) ==
  /\ call[c] = "call"
  /\ failures' = 0
  /\ Leave(c)
  /\ late' = late \ {c}
  /\ UNCHANGED <<state, cooling, probesInFlight, probesAdmitted, lost>>

CallFails(c) ==
  /\ call[c] = "call"
  /\ failures' = failures + 1
  /\ Leave(c)
  /\ IF failures + 1 >= FailureThreshold
     THEN transitionToOpen(c)
     ELSE /\ late' = late \ {c}
          /\ UNCHANGED <<state, cooling, probesInFlight, probesAdmitted, lost>>

(* A probe of this period is lost; a late one no longer counts.            *)
LoseProbe(c) == lost' = IF c \in CurrentProbes THEN lost + 1 ELSE lost

(* op panics: nothing after it runs, the result is never accounted for.    *)
OpPanics(c) ==
  /\ call[c] # "idle"
  /\ Leave(c)
  /\ LoseProbe(c)
  /\ late' = late \ {c}
  /\ UNCHANGED breakerVars

(* IsFailure, which the caller of New gives, panics: a probe has been      *)
(* taken off the count, which a late one may bring below zero.             *)
IsFailurePanics(c) ==
  /\ call[c] # "idle"
  /\ probesInFlight' = IF call[c] = "probe" THEN probesInFlight - 1 ELSE probesInFlight
  /\ Leave(c)
  /\ LoseProbe(c)
  /\ late' = late \ {c}
  /\ UNCHANGED <<state, failures, cooling, probesAdmitted>>

-----------------------------------------------------------------------------
Tick ==
  /\ cooling > 0
  /\ cooling' = cooling - 1
  /\ UNCHANGED <<state, failures, probesInFlight, probesAdmitted, call, late, lost>>

Admit(c) == AdmitCall(c) \/ AdmitFirstProbe(c) \/ AdmitProbe(c)

Succeed(c) == ProbeSucceeds(c) \/ CallSucceeds(c)

Fail(c) == ProbeFails(c) \/ CallFails(c)

BreakerNext ==
  \/ \E c \in Callers : Admit(c) \/ Succeed(c) \/ Fail(c) \/ OpPanics(c) \/ IsFailurePanics(c)
  \/ Look
  \/ Tick

BreakerSpec == BreakerInit /\ [][BreakerNext]_circuitVars

-----------------------------------------------------------------------------
(* Properties.                                                             *)

(* A half-open breaker admits no more probes than it was configured for,   *)
(* however many of earlier periods are still running, and each of them is  *)
(* still out or has panicked: any result of one ends the period. A breaker *)
(* that is not half-open starts the next period with none counted          *)
(* (circuitbreaker.go:170-186).                                            *)
ProbesBounded ==
  IF state = "halfOpen"
  THEN Cardinality(CurrentProbes) + lost = probesAdmitted /\ probesAdmitted <= HalfOpenMaxProbes
  ELSE probesAdmitted = 0 /\ lost = 0 /\ CurrentProbes = {}

(* A closed breaker is always short of its threshold; a tripped one counts *)
(* on only for the calls that were out when it tripped, one each           *)
(* (circuitbreaker.go:199-203).                                            *)
FailuresBounded ==
  IF state = "closed"
  THEN failures < FailureThreshold
  ELSE failures + Cardinality(Calls) < FailureThreshold + Cardinality(Callers)

(* Only a late result cuts a cooldown short or starts it afresh: while the *)
(* breaker is open and cooling, every result in time leaves it so          *)
(* (circuitbreaker.go:189-204).                                            *)
OnlyLateDisturbsOpen ==
  [][ state = "open" /\ cooling > 0 /\ (state' # "open" \/ cooling' > cooling) =>
        \E c \in late : call[c] # "idle" /\ call'[c] = "idle" ]_circuitVars

(* The half-open period is used up and none of its probes will ever        *)
(* report, because all of them panicked.                                   *)
Wedged == state = "halfOpen" /\ lost = HalfOpenMaxProbes /\ Probes = {}

(* Once ops stop failing the breaker closes and stays closed, whatever was *)
(* out at that time, unless panicking probes have wedged it half-open.     *)
Recovers ==
  <>[][\A c \in Callers : ~Fail(c)]_circuitVars => <>[](state = "closed" \/ Wedged)

(* "Open: every call returns ErrOpen without invoking op, until            *)
(* OpenTimeout has elapsed since trip" (circuitbreaker/doc.go:26-27).      *)
CooldownHonoured ==
  [][\A c \in Callers : call[c] = "idle" /\ call'[c] # "idle" => cooling = 0]_circuitVars
=============================================================================
