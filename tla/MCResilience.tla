---------------------------- MODULE MCResilience ----------------------------
(* The two values that stand between callers and a dependency. Each        *)
(* behaviour looks at one of them.                                         *)
EXTENDS CircuitBreaker, Bulkhead, TLC

CONSTANTS c1, c2, c3, b1, b2, b3, b4, b5

VARIABLE part

vars == <<part, circuitVars, bulkheadVars>>

Init ==
  /\ part \in {"breaker", "bulkhead"}
  /\ BreakerInit /\ BulkheadInit

Next ==
  /\ UNCHANGED part
  /\ \/ part = "breaker" /\ BreakerNext /\ UNCHANGED bulkheadVars
     \/ part = "bulkhead" /\ BulkheadNext /\ UNCHANGED circuitVars

(* Callers of the breaker keep calling, an op that does not panic returns, *)
(* time passes. A goroutine in the bulkhead that can go on does, and ops   *)
(* return; no caller has to come, to time out or to be cancelled.          *)
InBreaker(A) == part = "breaker" /\ A /\ UNCHANGED <<part, bulkheadVars>>

InBulkhead(A) == part = "bulkhead" /\ A /\ UNCHANGED <<part, circuitVars>>

Fairness ==
  /\ \A c \in Callers : /\ WF_vars(InBreaker(Admit(c)))
                        /\ WF_vars(InBreaker(Succeed(c) \/ Fail(c)))
  /\ WF_vars(InBreaker(Tick))
  /\ \A c \in BulkheadCallers : /\ WF_vars(InBulkhead(Advance(c)))
                                /\ WF_vars(InBulkhead(Finish(c)))

Spec == Init /\ [][Next]_vars /\ Fairness
=============================================================================
