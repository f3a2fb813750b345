----------------------------- MODULE MCStartup -----------------------------
(* What an application goes through before it serves: versions, module     *)
(* composition, registration, entity descriptors, configuration, and the   *)
(* decisions of policies and rules; and the health checks that say it is   *)
(* up. Each behaviour looks at one of them.                                *)
EXTENDS Composition, Contributions, Descriptors, Config, Decisions, Health

CONSTANTS p, q, c1, c2, n1, n2, h1

VARIABLE part

startupVars == <<verCase, compVars, catVars, regVars, entityVars, configVars, decisionVars>>
vars == <<part, startupVars, healthVars>>

-----------------------------------------------------------------------------
(* Versions: all triples below 3, some short or malformed ones.            *)
V(s) == [segments |-> s, meta |-> "none"]
Triples == {V(<<a, b, c>>) : a \in 0..2, b \in 0..2, c \in 0..2}
OddVersions == {V(<<>>), V(<<1>>), V(<<0, 2>>), V(<<1, Bad>>), V(<<1, 0, 0, 0>>),
                [segments |-> <<1, 1>>, meta |-> "some"], [segments |-> <<1>>, meta |-> "empty"]}
AllVersions == Triples \cup OddVersions

Ops == {"==", "!=", ">", ">=", "<", "<="}
OneOf(op, v) == [form |-> "list", parts |-> <<[op |-> op, want |-> v]>>]
AllConstraints ==
  {[form |-> "any"], [form |-> "list", parts |-> <<>>]}
  \cup {[form |-> f, base |-> v] : f \in {"^", "~"}, v \in AllVersions}
  \cup {OneOf(op, v) : op \in Ops, v \in {V(<<1, 1, 1>>), V(<<0, 2>>), V(<<1, Bad>>)}}
  \cup {[form |-> "list", parts |-> <<[op |-> ">=", want |-> V(<<0, 1>>)],
                                      [op |-> "!=", want |-> w]>>] : w \in AllVersions}

-----------------------------------------------------------------------------
(* Composition: three modules, two ports, two major versions.              *)
Entry(t) == [id |-> t, new |-> TRUE]
Core == [name |-> Plain(9), entries |-> <<Entry(Plain(1)), Entry(Padded(2))>>,
         defaults |-> <<Padded(2), Plain(0), Plain(1), Plain(2)>>]
Extra == [name |-> Padded(8), entries |-> <<Entry(Plain(3))>>, defaults |-> <<Plain(3), Plain(1)>>]
Bundles ==
  { <<Core, Nil, Extra>>,
    <<Core, [Extra EXCEPT !.name = Padded(0)]>>,
    <<Core, [Extra EXCEPT !.entries = <<Entry(Padded(1))>>]>>,
    <<[Core EXCEPT !.entries = <<Entry(Plain(0))>>]>>,
    <<[Core EXCEPT !.entries = <<[id |-> Plain(1), new |-> FALSE]>>]>> }
Requests == {<<>>, <<Plain(3), Padded(1), Plain(2)>>, <<Plain(4)>>, <<Padded(0)>>}

Of(port, v) == [port |-> port, version |-> v]
Need(port, c, pref, fb) ==
  [port |-> port, required |-> TRUE, constraint |-> c, preferred |-> pref, fallbacks |-> fb]
AnyVersion == [form |-> "any"]
Caret1 == [form |-> "^", base |-> V(<<1>>)]
NoPref == Plain(0)

Provisions == {<<>>, <<Of(p, V(<<1>>))>>, <<Of(q, V(<<1, 2>>)), Of(p, V(<<2>>))>>}
Needs ==
  { <<>>,
    <<Need(p, AnyVersion, NoPref, <<>>)>>,
    <<Need(p, Caret1, Padded(3), <<Plain(2), Padded(1)>>), Need(q, AnyVersion, NoPref, <<>>)>>,
    <<Need(q, AnyVersion, NoPref, <<Plain(3), Plain(2)>>)>> }
MenuOf(id) ==
  {[id |-> Padded(id), provides |-> ps, deps |-> ds] : ps \in Provisions, ds \in Needs}
Faulty ==
  { Nil,
    [id |-> Plain(7), provides |-> <<>>, deps |-> <<>>],
    [id |-> Plain(2), provides |-> <<>>, deps |-> <<>>],
    [id |-> Plain(1), provides |-> <<Of(NoPort, V(<<1>>))>>, deps |-> <<>>],
    [id |-> Plain(1), provides |-> <<>>,
     deps |-> <<[Need(p, [form |-> "^", base |-> V(<<>>)], NoPref, <<>>)
                 EXCEPT !.required = FALSE]>>] }
Menus == [id \in 1..3 |-> IF id = 1 THEN MenuOf(1) \cup Faulty ELSE MenuOf(id)]

-----------------------------------------------------------------------------
(* Registration: three keys of which two rank alike, written two ways.     *)
Keys == {Plain(1), Padded(1), Plain(2), Plain(3), Padded(0)}
Ranks == [w \in 0..3 |-> IF w = 3 THEN 0 ELSE 1]
GoodSpec == [id |-> Padded(5), owner |-> Plain(6), contribution |-> Plain(1), key |-> Plain(1)]
Setup(trims, checks, sorts, spec) ==
  [trims |-> trims, checks |-> checks, sorts |-> sorts, spec |-> spec]
Setups ==
  {Setup(t, TRUE, s, Unset) : t \in BOOLEAN, s \in BOOLEAN} \cup {Setup(TRUE, FALSE, TRUE, GoodSpec)}
  \cup {Setup(FALSE, FALSE, FALSE, s) : s \in
         { [GoodSpec EXCEPT !.id = Plain(7)], [GoodSpec EXCEPT !.owner = Plain(4)],
           [GoodSpec EXCEPT !.key = Padded(0)] }}

-----------------------------------------------------------------------------
(* Descriptors.                                                            *)
PluralOf(w) == w + 100
Field(n, t, e) == [name |-> n, type |-> t, label |-> Plain(0), enum |-> e]
FieldLists ==
  {<<>>, <<Field(Padded(2), Plain(12), <<>>), Field(Plain(1), Padded(15), <<>>)>>,
   <<Field(Plain(1), Plain(13), <<Padded(2), Plain(0), Plain(1)>>)>>,
   <<Field(Plain(1), Plain(13), <<Padded(0)>>)>>,
   <<Field(Plain(1), Plain(12), <<>>), Field(Padded(1), Plain(12), <<>>)>>,
   <<Field(Plain(1), Plain(14), <<>>)>>, <<Field(Plain(7), Plain(12), <<>>)>>}
Rel(n, k, m, e) == [name |-> n, kind |-> k, targetModule |-> m, targetEntity |-> e]
RelLists ==
  {<<>>, <<Rel(Plain(3), Plain(16), Padded(0), Padded(2)), Rel(Plain(2), Padded(15), Plain(1), Plain(2))>>,
   <<Rel(Plain(3), Plain(16), Plain(7), Plain(2))>>, <<Rel(Plain(3), Plain(16), Plain(1), Padded(0))>>,
   <<Rel(Plain(3), Plain(4), Plain(1), Plain(2))>>,
   <<Rel(Plain(3), Plain(16), Plain(1), Plain(2)), Rel(Padded(3), Plain(16), Plain(1), Plain(1))>>}
CapLists == {<<>>, <<Padded(15), Plain(11), Plain(0), Padded(11)>>, <<Plain(10)>>, <<Plain(4)>>}
NoTokens == [op \in {"read", "write", "delete"} |-> <<>>]
SomeTokens == [op \in {"read", "write", "delete"} |->
                 IF op = "read" THEN <<Padded(2), Plain(1), Plain(2)>> ELSE <<Padded(3), Plain(0)>>]
Descriptor(m, e, ts, caps, fs, rs, ps) ==
  [module |-> m, entity |-> e, display |-> Plain(0), plural |-> Plain(0), tenantScoped |-> ts,
   capabilities |-> caps, fields |-> fs, relationships |-> rs, policy |-> ps]
FirstDescriptors ==
  {Descriptor(Padded(1), Plain(1), ts, caps, fs, rs, ps) :
     ts \in BOOLEAN, caps \in CapLists, fs \in FieldLists, rs \in RelLists,
     ps \in {NoTokens, SomeTokens}}
LaterDescriptors ==
  {Descriptor(m, Plain(1), TRUE, <<>>, <<>>, <<>>, NoTokens) :
     m \in {Plain(1), Plain(2), Padded(0), Plain(7)}}

-----------------------------------------------------------------------------
(* Configuration: a field of each kind, required or not.                   *)
ConfigDefaults == [f \in {"appName", "environment", "addr", "readTimeout"} |->
  CASE f = "appName" -> EmptyText [] f = "environment" -> "development"
    [] f = "addr" -> "default" [] f = "readTimeout" -> "default"]
InFile == [f \in DOMAIN ConfigDefaults |->
  CASE f = "environment" -> {Absent, "production", "prod", EmptyText}
    [] f = "readTimeout" -> {Absent, EmptyText, Malformed, "json"}
    [] OTHER -> {Absent, EmptyText, BlankText, "json"}]
InEnv == [f \in DOMAIN ConfigDefaults |->
  CASE f = "environment" -> {EmptyText, "staging"}
    [] f = "readTimeout" -> {EmptyText, BlankText, Malformed, "env"}
    [] OTHER -> {EmptyText, BlankText, "env"}]

-----------------------------------------------------------------------------
(* Decisions.                                                              *)
Policy(id, m, eff, act, roles, conds) ==
  [id |-> id, module |-> m, effect |-> eff, actions |-> act, resources |-> <<Plain(50)>>,
   roles |-> roles, conditions |-> conds]
Twice == {<<Plain(1), Plain(2)>>, <<Padded(1), Plain(3)>>}
Policies ==
  {Policy(Plain(1), x[1], x[2], <<Padded(2), Plain(0)>>, <<>>, {}) :
     x \in {<<Plain(50), "allow">>, <<Padded(1), "allow">>, <<Padded(1), "deny">>}}
  \cup {Policy(Padded(2), Plain(1), "allow", <<Plain(50)>>, <<Plain(3)>>, c) :
          c \in {{}, {<<Plain(1), Plain(2)>>}}}
  \cup {Policy(Padded(3), Plain(1), "deny", <<Plain(2)>>, <<>>, {<<Plain(1), v>>}) :
          v \in {Plain(2), Padded(3)}}
  \cup {Policy(Plain(3), Plain(1), "deny", <<Plain(50)>>, <<Plain(3), Plain(4)>>, Twice),
        Policy(Plain(1), Plain(1), "grant", <<Plain(2)>>, <<>>, {}),
        Policy(Plain(4), Plain(50), "allow", <<Padded(0)>>, <<>>, {})}
Questions ==
  {[module |-> m, action |-> Padded(2), resource |-> Plain(9), roles |-> r, context |-> c] :
     m \in {Plain(0), Padded(1)}, r \in {<<>>, <<Padded(3), Plain(3)>>},
     c \in {{}, {<<Plain(1), Padded(2)>>}, Twice}}
Others == {<<>>, <<None>>} \cup
  {<<None, Answer("allow", 9), Answer(e, 8)>> : e \in {"abstain", "deny", "error", "maybe"}}
  \cup {<<Answer("not_evaluated", 9), Answer(e, 8)>> : e \in {"abstain", "error"}}
RuleOf(id, ops, ch, d) ==
  [id |-> id, module |-> Plain(1), entity |-> Padded(1), operations |-> ops, changes |-> ch,
   decision |-> d]
Rules ==
  {RuleOf(id, <<Plain(21), Padded(22)>>, <<>>, d) :
     id \in {Padded(1), Plain(2)}, d \in {"allow", "requires_review", "deny"}}
  \cup {RuleOf(Plain(3), <<Plain(21)>>, <<Plain(5)>>, "deny"), RuleOf(Plain(4), <<Plain(0)>>, <<>>, "deny"),
        RuleOf(Plain(3), <<Plain(21)>>, <<Padded(21)>>, "requires_review")}
Intents ==
  {[module |-> Padded(1), entity |-> Plain(1), operation |-> o, change |-> c, tenant |-> t,
    actorTenant |-> Plain(1)] :
     o \in {Plain(21), Padded(23), Plain(9)}, c \in {Plain(0), Padded(5)},
     t \in {Plain(0), Padded(1), Plain(2)}}

-----------------------------------------------------------------------------
(* Two checkers with a timeout, so that one can replace the other, and one *)
(* without.                                                                *)
SomeCheckers == {[id |-> 1, timed |-> TRUE], [id |-> 2, timed |-> TRUE], [id |-> 3, timed |-> FALSE]}

-----------------------------------------------------------------------------
Parts == {"versions", "composition", "catalog", "registry", "entity", "config", "decisions",
          "health"}

Init ==
  /\ part \in Parts
  /\ VersionsInit /\ CompositionInit /\ CatalogInit /\ RegistryInit
  /\ EntityInit /\ ConfigInit /\ DecisionInit /\ HealthInit

Next ==
  /\ UNCHANGED part
  /\ part = "versions"    \/ UNCHANGED verCase
  /\ part = "composition" \/ UNCHANGED compVars
  /\ part = "catalog"     \/ UNCHANGED catVars
  /\ part = "registry"    \/ UNCHANGED regVars
  /\ part = "entity"      \/ UNCHANGED entityVars
  /\ part = "config"      \/ UNCHANGED configVars
  /\ part = "decisions"   \/ UNCHANGED decisionVars
  /\ part = "health"      \/ UNCHANGED healthVars
  /\ \/ part = "versions" /\ VersionsNext
     \/ part = "composition" /\ CompositionNext
     \/ part = "catalog" /\ CatalogNext
     \/ part = "registry" /\ RegistryNext
     \/ part = "entity" /\ EntityNext
     \/ part = "config" /\ ConfigNext
     \/ part = "decisions" /\ DecisionNext
     \/ part = "health" /\ HealthNext

(* Check and a checker's goroutine run on when they can, and timers fire;  *)
(* a checker need not come back.                                           *)
InHealth(A) == part = "health" /\ A /\ UNCHANGED <<part, startupVars>>

Fairness ==
  \A c \in Probers :
    /\ WF_vars(InHealth(CheckStep(c)))
    /\ WF_vars(InHealth(TimeoutFires(c)))
    /\ \A i \in Places : WF_vars(InHealth(ProbeSends(c, i)))

Spec == Init /\ [][Next]_vars /\ Fairness
=============================================================================
