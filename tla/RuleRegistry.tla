---------------------------- MODULE RuleRegistry ----------------------------
(***************************************************************************)
(* pkg/registry/rule_registry.go: rules are sorted when somebody asks, not *)
(* when they are registered. Evaluate looks under the read lock, gives it  *)
(* up to sort under the write lock, and gives that up to copy the rules    *)
(* under the read lock again; rules may be registered in both gaps.        *)
(*                                                                         *)
(* The input asked about is abstracted into whether a rule matches it. A   *)
(* rule is its order of registration; what it is worth is its own order.   *)
(***************************************************************************)
EXTENDS Integers, SequencesExt

CONSTANTS
  Priorities, Evaluators,
  MaxRules          \* bound: rules registered

ASSUME RuleAssumption == Priorities \subseteq Int

VARIABLES
  rules,            \* the slice: [priority, matches, order], as it lies
  sorted,
  evaluation        \* [evaluators -> [at, atLeast, answer]]

ruleVars == <<rules, sorted, evaluation>>

Fallback == 0
Idling == [at |-> "idle", atLeast |-> 0, answer |-> Fallback]

RuleInit ==
  /\ rules = <<>> /\ sorted = FALSE
  /\ evaluation = [e \in Evaluators |-> Idling]

(* Mutant: a registration leaves the rules marked as sorted.               *)
RegisterUnmarked(p, matches) ==
  /\ Len(rules) < MaxRules
  /\ rules' = Append(rules, [priority |-> p, matches |-> matches, order |-> Len(rules) + 1])
  /\ UNCHANGED <<sorted, evaluation>>

RegisterRule(p, matches) ==
  /\ Len(rules) < MaxRules
  /\ rules' = Append(rules, [priority |-> p, matches |-> matches, order |-> Len(rules) + 1])
  /\ sorted' = FALSE
  /\ UNCHANGED evaluation

(* Higher priority first, then the order of registration. The n-th rule of *)
(* a set is the one that n - 1 of it outrank (SetToSortSeq, said in terms  *)
(* the proofs can use).                                                    *)
Outranks(a, b) ==
  a.priority > b.priority \/ (a.priority = b.priority /\ a.order < b.order)

Sort(R) ==
  [n \in 1..Cardinality(R) |->
     CHOOSE r \in R : Cardinality({s \in R : Outranks(s, r)}) = n - 1]

(* The value of the first rule of a copy that matches.                     *)
FirstMatch(rs) ==
  LET hits == {i \in DOMAIN rs : rs[i].matches} IN
  IF hits = {} THEN Fallback ELSE rs[Min(hits)].order

Move(e, at) == evaluation' = [evaluation EXCEPT ![e].at = at]

Answered(e) ==
  evaluation' = [evaluation EXCEPT ![e].at = "answered", ![e].answer = FirstMatch(rules)]

(* Evaluate takes the read lock and copies at once when nothing is to sort.*)
(* Whoever called it knows the rules registered before.                    *)
EvaluateStart(e) ==
  /\ evaluation[e].at = "idle"
  /\ evaluation' = [evaluation EXCEPT ![e].at = "called", ![e].atLeast = Len(rules)]
  /\ UNCHANGED <<rules, sorted>>

EvaluateLook(e) ==
  /\ evaluation[e].at = "called"
  /\ IF sorted THEN Answered(e) ELSE Move(e, "unsorted")
  /\ UNCHANGED <<rules, sorted>>

EvaluateSort(e) ==
  /\ evaluation[e].at = "unsorted"
  /\ rules' = IF sorted THEN rules ELSE Sort(ToSet(rules))
  /\ sorted' = TRUE
  /\ Move(e, "copying")

EvaluateCopy(e) ==
  /\ evaluation[e].at = "copying"
  /\ Answered(e)
  /\ UNCHANGED <<rules, sorted>>

EvaluateDone(e) ==
  /\ evaluation[e].at = "answered"
  /\ evaluation' = [evaluation EXCEPT ![e] = Idling]
  /\ UNCHANGED <<rules, sorted>>

RuleNext ==
  \/ \E p \in Priorities, matches \in BOOLEAN : RegisterRule(p, matches)
  \/ \E e \in Evaluators : \/ EvaluateStart(e) \/ EvaluateLook(e) \/ EvaluateSort(e)
                           \/ EvaluateCopy(e) \/ EvaluateDone(e)

-----------------------------------------------------------------------------
(* An answer is the right one for the rules of some moment of the call,    *)
(* though the copy it came from may be sorted only in front: the matching  *)
(* rule of highest priority among the first n registered, for an n between *)
(* those registered before the call and those registered by now            *)
(* (rule_registry.go:22-23, 64-87).                                        *)
RuleAnswerLinearizable ==
  \A e \in Evaluators :
    evaluation[e].at = "answered" =>
      \E n \in evaluation[e].atLeast..Len(rules) :
        evaluation[e].answer = FirstMatch(Sort({r \in ToSet(rules) : r.order <= n}))
=============================================================================
