------------------------------ MODULE Decisions ------------------------------
(***************************************************************************)
(* pkg/authz and pkg/mutation: may this request pass, and may this change  *)
(* be made. Policies and rules are normalized and sorted by ID when an     *)
(* evaluator or gate is built from them; a request or intent is normalized *)
(* whenever it is looked at. An evaluator aggregates others.               *)
(*                                                                         *)
(* A policy is [id, module, effect, actions, resources, roles, conditions], *)
(* a request [module, action, resource, roles, context], a rule [id,       *)
(* module, entity, operations, changes, decision], an intent [module,      *)
(* entity, operation, change, tenant, actorTenant]. Lists are sequences of *)
(* texts, and conditions and context sets of pairs of texts.               *)
(***************************************************************************)
EXTENDS Text, SequencesExt

CONSTANTS
  Star,                  \* the word "*"
  Operations,            \* the words of the four operations
  PolicyMenu, QuestionMenu, RuleMenu, IntentMenu,
  OtherEvaluators,       \* answers of evaluators that are not ours
  GateDefaults,
  MaxDeclared,           \* how many policies, rules, evaluators are declared
  None

VARIABLES
  declared,     \* the policies or rules given, in order
  question,     \* the request or intent
  rest,         \* answers of the other evaluators of the aggregate
  verdict

decisionVars == <<declared, question, rest, verdict>>

Answer(decision, by) == [decision |-> decision, by |-> by]

Failed == Answer("error", Empty)

(* A policy is never a rule, nor is a question ever missing.               *)
ASSUME DecisionAssumption ==
  /\ PolicyMenu \cap RuleMenu = {} /\ None \notin QuestionMenu \cup IntentMenu
  /\ \A x \in PolicyMenu \cup RuleMenu : Trim(x.id) \in Nat
  /\ OtherEvaluators \subseteq Seq([decision : STRING, by : Nat] \cup {None})
  /\ None \notin [decision : {"deny", "allow", "abstain"}, by : Nat]

-----------------------------------------------------------------------------
Words(texts) == {Trim(t) : t \in ToSet(texts)} \ {Empty}

(* normalizeMap drops pairs with a blank key or value. Of two keys that    *)
(* are equal once trimmed, map iteration decides which value stays.        *)
NormalMaps(pairs) ==
  LET kept == {x \in {<<Trim(y[1]), Trim(y[2])>> : y \in pairs} : x[1] # Empty /\ x[2] # Empty}
  IN {m \in SUBSET kept : \A x \in kept : Cardinality({y \in m : y[1] = x[1]}) = 1}

ValidPolicy(p) ==
  /\ ~Blank(p.id) /\ ~Blank(p.module)
  /\ p.effect \in {"allow", "deny"}
  /\ Words(p.actions) # {} /\ Words(p.resources) # {}

(* Mutant: a policy for a module also matches a request that names none.   *)
MatchesAnyModule(p, req) == Trim(p.module) = Star \/ Blank(req.module) \/ Trim(p.module) = Trim(req.module)

MatchesModule(p, req) ==
  Trim(p.module) = Star \/ (~Blank(req.module) /\ Trim(p.module) = Trim(req.module))

(* Policy.Match, with the conditions and the context as one normalization  *)
(* of each left them.                                                      *)
MatchPolicy(p, req, conditions, context) ==
  /\ MatchesModule(p, req)
  /\ {Star, Trim(req.action)} \cap Words(p.actions) # {}
  /\ {Star, Trim(req.resource)} \cap Words(p.resources) # {}
  /\ Words(p.roles) # {} => Words(p.roles) \cap Words(req.roles) # {}
  /\ conditions \subseteq context

(* The first in order of ID, and of declaration where IDs are equal.       *)
Precedes(s, i, j) == Trim(s[i].id) < Trim(s[j].id) \/ (Trim(s[i].id) = Trim(s[j].id) /\ i <= j)

First(s, S) == s[CHOOSE i \in S : \A j \in S : Precedes(s, i, j)]

By(s, S, decision) == Answer(decision, Trim(First(s, S).id))

(* PolicyEvaluator.Evaluate: deny wins over allow. Match normalizes the    *)
(* request as it was given, once more for each policy, so each may look at *)
(* another settling of a key the context gives twice.                      *)
EvaluatePolicies(policies, req, normal, contexts) ==
  LET matching(effect) ==
        {i \in DOMAIN policies : policies[i].effect = effect
                                 /\ MatchPolicy(policies[i], req, normal[i], contexts[i])}
  IN CASE matching("deny") # {} -> By(policies, matching("deny"), "deny")
       [] matching("deny") = {} /\ matching("allow") # {} ->
            By(policies, matching("allow"), "allow")
       [] OTHER -> Answer("abstain", Empty)

(* AggregateEvaluator: nil evaluators, whose answer is None, were dropped  *)
(* when it was built. The first error, deny or unknown decision ends it;   *)
(* else any allow stands, the first one.                                   *)
Aggregate(answers) ==
  LET given == {i \in DOMAIN answers : answers[i] # None}
      deciding == {i \in given :
                     answers[i].decision \notin {"allow", "abstain", "not_evaluated"}}
      allowing == {i \in given : answers[i].decision = "allow"}
  IN CASE given = {} -> Answer("not_evaluated", Empty)
       [] deciding # {} -> IF answers[Min(deciding)].decision = "deny"
                           THEN answers[Min(deciding)] ELSE Failed
       [] given # {} /\ deciding = {} /\ allowing # {} -> answers[Min(allowing)]
       [] OTHER -> Answer("abstain", Empty)

-----------------------------------------------------------------------------
(* Rules and the gate.                                                     *)

ValidRule(r) ==
  /\ ~Blank(r.id) /\ ~HasSpace(Trim(r.id))
  /\ ~Blank(r.module) /\ ~HasSpace(Trim(r.module))
  /\ ~Blank(r.entity) /\ ~HasSpace(Trim(r.entity))
  /\ Words(r.operations) # {} /\ Words(r.operations) \subseteq Operations
  /\ r.decision \in {"allow", "requires_review", "deny"}

(* An intent whose tenant is not its actor's is no intent.                 *)
ValidIntent(i) ==
  /\ ~Blank(i.module) /\ ~HasSpace(Trim(i.module))
  /\ ~Blank(i.entity) /\ ~HasSpace(Trim(i.entity))
  /\ Trim(i.operation) \in Operations
  /\ ~Blank(i.tenant) /\ ~Blank(i.actorTenant) => Trim(i.tenant) = Trim(i.actorTenant)

ChangeType(i) == IF Blank(i.change) THEN Trim(i.operation) ELSE Trim(i.change)

MatchRule(r, i) ==
  /\ Trim(r.module) = Trim(i.module) /\ Trim(r.entity) = Trim(i.entity)
  /\ Trim(i.operation) \in Words(r.operations)
  /\ Words(r.changes) # {} => ChangeType(i) \in Words(r.changes)

(* Mutant: the first matching rule decides, whatever the others say.       *)
FirstRuleDecides(rules, i, default) ==
  LET S == {k \in DOMAIN rules : MatchRule(rules[k], i)} IN
  IF S = {} THEN Answer(default, Empty) ELSE By(rules, S, First(rules, S).decision)

(* EvaluateMutation: deny over review over allow over the default.         *)
EvaluateMutation(rules, i, default) ==
  LET S(d) == {k \in DOMAIN rules : rules[k].decision = d /\ MatchRule(rules[k], i)} IN
  CASE S("deny") # {} -> By(rules, S("deny"), "deny")
    [] S("deny") = {} /\ S("requires_review") # {} ->
         By(rules, S("requires_review"), "requires_review")
    [] S("deny") \cup S("requires_review") = {} /\ S("allow") # {} ->
         By(rules, S("allow"), "allow")
    [] OTHER -> Answer(default, Empty)

-----------------------------------------------------------------------------
DecisionInit ==
  declared = <<>> /\ question = None /\ rest = <<>> /\ verdict = None

Declare ==
  /\ question = None /\ Len(declared) < MaxDeclared
  /\ \/ declared = <<>> /\ \E x \in PolicyMenu \cup RuleMenu : declared' = <<x>>
     \/ declared # <<>> /\ declared[1] \in PolicyMenu
        /\ \E p \in PolicyMenu : declared' = Append(declared, p)
     \/ declared # <<>> /\ declared[1] \in RuleMenu
        /\ \E r \in RuleMenu : declared' = Append(declared, r)
  /\ UNCHANGED <<question, rest, verdict>>

OfPolicies == declared # <<>> /\ declared[1] \in PolicyMenu
OfRules == declared # <<>> /\ declared[1] \in RuleMenu

(* NewPolicyEvaluator fails on an invalid policy. Conditions were settled  *)
(* then, the context is settled now, by each policy for itself.            *)
Authorize ==
  /\ question = None /\ OfPolicies
  /\ question' \in QuestionMenu
  /\ rest' \in OtherEvaluators
  /\ \E contexts \in [DOMAIN declared -> NormalMaps(question'.context)],
        normal \in {f \in [DOMAIN declared -> UNION {NormalMaps(p.conditions) : p \in PolicyMenu}] :
                      \A i \in DOMAIN declared : f[i] \in NormalMaps(declared[i].conditions)} :
       verdict' = IF \E i \in DOMAIN declared : ~ValidPolicy(declared[i]) THEN Failed
                  ELSE Aggregate(<<EvaluatePolicies(declared, question', normal, contexts)>>
                                 \o rest')
  /\ UNCHANGED declared

Govern ==
  /\ question = None /\ OfRules
  /\ question' \in IntentMenu
  /\ \E default \in GateDefaults :
       /\ rest' = <<default>>
       /\ verdict' = IF \/ default \notin {"allow", "requires_review", "deny"}
                        \/ \E i \in DOMAIN declared : ~ValidRule(declared[i])
                        \/ ~ValidIntent(question')
                     THEN Failed ELSE EvaluateMutation(declared, question', default)
  /\ UNCHANGED declared

DecisionNext == Declare \/ Authorize \/ Govern

-----------------------------------------------------------------------------
(* What a policy can mean for a request: some way to settle the pairs of   *)
(* both makes it match, or every way does.                                 *)
MayMatch(p, req) ==
  \E c \in NormalMaps(p.conditions), x \in NormalMaps(req.context) : MatchPolicy(p, req, c, x)

MustMatch(p, req) ==
  \A c \in NormalMaps(p.conditions), x \in NormalMaps(req.context) : MatchPolicy(p, req, c, x)

(* Caution wins, in whatever order policies, rules and evaluators were     *)
(* given: nobody passes unless some policy or evaluator allowed it and     *)
(* none failed or denied it, and a change passes only if no rule that      *)
(* matches it denies it or wants a review. A policy denies a request that  *)
(* it matches however their pairs are settled; one that matches only for   *)
(* one of two values given for a key may or may not, whatever the next     *)
(* policy makes of the same key. A request without a module is answered in *)
(* the name of a policy only if the policy is for any module               *)
(* (authz.go:134-159, 194-268, 316-326; mutation.go:194-196, 244-283).     *)
CautionWins ==
  verdict # None =>
    IF OfPolicies
    THEN /\ verdict.decision = "allow" =>
              /\ \A i \in DOMAIN rest : rest[i] # None =>
                   rest[i].decision \in {"allow", "abstain", "not_evaluated"}
              /\ \/ \E i \in DOMAIN declared :
                      declared[i].effect = "allow" /\ MayMatch(declared[i], question)
                 \/ \E i \in DOMAIN rest : rest[i] # None /\ rest[i].decision = "allow"
              /\ \A i \in DOMAIN declared :
                   /\ ValidPolicy(declared[i])
                   /\ declared[i].effect = "deny" => ~MustMatch(declared[i], question)
         /\ /\ verdict.decision # "error" /\ Blank(question.module)
            /\ verdict.by \in {Trim(x.id) : x \in ToSet(declared)}
            /\ verdict.by \notin {rest[i].by : i \in {j \in DOMAIN rest : rest[j] # None}}
            => \E x \in ToSet(declared) : Trim(x.id) = verdict.by /\ Trim(x.module) = Star
    ELSE /\ verdict.decision = "allow" =>
              \A i \in DOMAIN declared : MatchRule(declared[i], question) =>
                declared[i].decision = "allow"
         /\ verdict.decision = "requires_review" =>
              \A i \in DOMAIN declared : MatchRule(declared[i], question) =>
                declared[i].decision # "deny"
         /\ verdict.decision # "error" /\ verdict.by = Empty =>
              /\ <<verdict.decision>> = rest
              /\ \A i \in DOMAIN declared : ~MatchRule(declared[i], question)
=============================================================================
