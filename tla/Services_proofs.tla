--------------------------- MODULE Services_proofs ---------------------------
(***************************************************************************)
(* What holds of the parts that serve the startup and the requests of a    *)
(* process: the constraints of modules, their composition, the layers of   *)
(* the configuration, the catalog and the registry, the descriptors of     *)
(* entities, the decisions of policies, the rules evaluated while others   *)
(* register, and the reports of health.                                    *)
(***************************************************************************)
EXTENDS Versions, Composition, Config, Contributions, Descriptors, Decisions, RuleRegistry,
        Health, DataLemmas

-----------------------------------------------------------------------------
VersionsSpec == VersionsInit /\ [][VersionsNext]_verCase

(* A triple of numbers, as a well-formed version is read.                  *)
Triple == [1..3 -> Nat]

LEMMA SemverTyped ==
  ASSUME NEW v \in Version, WellFormed(v) PROVE Semver(v) \in Triple
<1>1. /\ v.segments \in Seq(Nat \cup {Bad}) /\ DOMAIN v.segments = 1..Len(v.segments)
      /\ \A i \in 1..Len(v.segments) : v.segments[i] # Bad
  BY DEF Version, WellFormed
<1>2. \A i \in 1..Len(v.segments) : v.segments[i] \in Nat
  BY <1>1
<1>3. \A i \in 1..3 : i <= Len(v.segments) => i \in 1..Len(v.segments)
  BY <1>1
<1> QED
  BY <1>2, <1>3 DEF Semver, Triple

(* Less compares the segments one after the other.                         *)
LEMMA LessIsLexicographic ==
  ASSUME NEW a, NEW b, \A i \in 1..3 : a[i] \in Int /\ b[i] \in Int
  PROVE  Less(a, b) <=> \/ a[1] < b[1]
                        \/ a[1] = b[1] /\ a[2] < b[2]
                        \/ a[1] = b[1] /\ a[2] = b[2] /\ a[3] < b[3]
<1>1. 1..3 = {1, 2, 3} /\ 1..0 = {} /\ 1..1 = {1} /\ 1..2 = {1, 2}
  OBVIOUS
<1>2. /\ \A j \in 1..(1 - 1) : a[j] = b[j]
      /\ (\A j \in 1..(2 - 1) : a[j] = b[j]) <=> a[1] = b[1]
      /\ (\A j \in 1..(3 - 1) : a[j] = b[j]) <=> a[1] = b[1] /\ a[2] = b[2]
  BY <1>1
<1>3. Less(a, b) <=> \/ a[1] < b[1] /\ \A j \in 1..(1 - 1) : a[j] = b[j]
                     \/ a[2] < b[2] /\ \A j \in 1..(2 - 1) : a[j] = b[j]
                     \/ a[3] < b[3] /\ \A j \in 1..(3 - 1) : a[j] = b[j]
  BY <1>1 DEF Less
<1> QED
  BY <1>2, <1>3

(* One comparator means what its operator says.                            *)
Later(h, w) ==
  \/ h[1] > w[1]
  \/ h[1] = w[1] /\ h[2] > w[2]
  \/ h[1] = w[1] /\ h[2] = w[2] /\ h[3] > w[3]
Same(h, w) == h[1] = w[1] /\ h[2] = w[2] /\ h[3] = w[3]

LEMMA ComparesMeans ==
  ASSUME NEW h \in Triple, NEW w \in Triple, NEW op \in Operators
  PROVE  Compares(op, h, w) <=>
           CASE op = "==" -> Same(h, w)  [] op = "!=" -> ~Same(h, w)
             [] op = ">"  -> Later(h, w) [] op = ">=" -> Later(h, w) \/ Same(h, w)
             [] op = "<"  -> ~(Later(h, w) \/ Same(h, w)) [] op = "<=" -> ~Later(h, w)
<1>1. /\ h[1] \in Nat /\ h[2] \in Nat /\ h[3] \in Nat
      /\ w[1] \in Nat /\ w[2] \in Nat /\ w[3] \in Nat
  BY DEF Triple
<1>2. /\ \A i \in 1..3 : h[i] \in Int /\ w[i] \in Int
  BY DEF Triple
<1>3. Less(w, h) <=> Later(h, w)
  BY <1>1, <1>2, LessIsLexicographic DEF Later
<1>4. Less(h, w) <=> ~(Later(h, w) \/ Same(h, w))
  BY <1>1, <1>2, LessIsLexicographic DEF Later, Same
<1>5. (h = w) <=> Same(h, w)
  <2>1. ASSUME Same(h, w) PROVE h = w
    <3>1. \A i \in 1..3 : i = 1 \/ i = 2 \/ i = 3
      OBVIOUS
    <3>2. \A i \in 1..3 : h[i] = w[i]
      BY <2>1, <3>1 DEF Same
    <3> QED
      BY <3>2 DEF Triple
  <2> QED
    BY <2>1 DEF Same
<1> QED
  BY <1>3, <1>4, <1>5 DEF Compares, Operators

LEMMA CaretMeans ==
  ASSUME NEW h \in Triple, NEW b \in Triple
  PROVE  ~Less(h, b) /\ Less(h, CaretUpperBound(b)) <=>
           ~Less(h, b) /\ \A i \in {i \in 1..3 : \A j \in 1..(i - 1) : b[j] = 0} : h[i] = b[i]
<1> DEFINE kept == {i \in 1..3 : \A j \in 1..(i - 1) : b[j] = 0}
           up == CaretUpperBound(b)
<1>1. /\ h[1] \in Nat /\ h[2] \in Nat /\ h[3] \in Nat
      /\ b[1] \in Nat /\ b[2] \in Nat /\ b[3] \in Nat
      /\ \A i \in 1..3 : h[i] \in Int /\ b[i] \in Int
  BY DEF Triple
<1>2. Less(h, b) <=> \/ h[1] < b[1]
                     \/ h[1] = b[1] /\ h[2] < b[2]
                     \/ h[1] = b[1] /\ h[2] = b[2] /\ h[3] < b[3]
  BY <1>1, LessIsLexicographic
<1>3. \A u \in Triple : Less(h, u) <=> \/ h[1] < u[1]
                                       \/ h[1] = u[1] /\ h[2] < u[2]
                                       \/ h[1] = u[1] /\ h[2] = u[2] /\ h[3] < u[3]
  <2>1. \A u \in Triple : \A i \in 1..3 : u[i] \in Int
    BY DEF Triple
  <2> QED
    BY <1>1, <2>1, LessIsLexicographic
<1>4. /\ 1 \in kept
      /\ 2 \in kept <=> b[1] = 0
      /\ 3 \in kept <=> b[1] = 0 /\ b[2] = 0
      /\ \A i \in kept : i = 1 \/ i = 2 \/ i = 3
  <2>1. 1..(1 - 1) = {} /\ 1..(2 - 1) = {1} /\ 1..(3 - 1) = {1, 2} /\ 1..3 = {1, 2, 3}
    OBVIOUS
  <2> QED
    BY <2>1
<1>5. (\A i \in kept : h[i] = b[i]) <=>
        /\ h[1] = b[1]
        /\ b[1] = 0 => h[2] = b[2]
        /\ b[1] = 0 /\ b[2] = 0 => h[3] = b[3]
  <2> HIDE DEF kept
  <2> QED
    BY <1>4
<1>6. CASE b[1] > 0
  <2>1. up = <<b[1] + 1, 0, 0>>
    BY <1>6 DEF CaretUpperBound
  <2>2. up \in Triple /\ up[1] = b[1] + 1 /\ up[2] = 0 /\ up[3] = 0
    BY <1>1, <2>1 DEF Triple
  <2> HIDE DEF up, kept
  <2>3. Less(h, up) <=> h[1] < b[1] + 1
    BY <1>1, <1>3, <2>2
  <2>4. ~Less(h, b) /\ Less(h, up) <=> ~Less(h, b) /\ \A i \in kept : h[i] = b[i]
    BY <1>1, <1>2, <1>5, <1>6, <2>3
  <2> QED
    BY <2>4 DEF kept, up
<1>7. CASE b[1] = 0 /\ b[2] > 0
  <2>1. up = <<0, b[2] + 1, 0>>
    BY <1>1, <1>7 DEF CaretUpperBound
  <2>2. up \in Triple /\ up[1] = 0 /\ up[2] = b[2] + 1 /\ up[3] = 0
    BY <1>1, <2>1 DEF Triple
  <2> HIDE DEF up, kept
  <2>3. Less(h, up) <=> h[1] = 0 /\ h[2] < b[2] + 1
    BY <1>1, <1>3, <2>2
  <2>4. ~Less(h, b) /\ Less(h, up) <=> ~Less(h, b) /\ \A i \in kept : h[i] = b[i]
    BY <1>1, <1>2, <1>5, <1>7, <2>3
  <2> QED
    BY <2>4 DEF kept, up
<1>8. CASE b[1] = 0 /\ b[2] = 0
  <2>1. up = <<0, 0, b[3] + 1>>
    BY <1>1, <1>8 DEF CaretUpperBound
  <2>2. up \in Triple /\ up[1] = 0 /\ up[2] = 0 /\ up[3] = b[3] + 1
    BY <1>1, <2>1 DEF Triple
  <2> HIDE DEF up, kept
  <2>3. Less(h, up) <=> h[1] = 0 /\ h[2] = 0 /\ h[3] < b[3] + 1
    BY <1>1, <1>3, <2>2
  <2>4. ~Less(h, b) /\ Less(h, up) <=> ~Less(h, b) /\ \A i \in kept : h[i] = b[i]
    BY <1>1, <1>2, <1>5, <1>8, <2>3
  <2> QED
    BY <2>4 DEF kept, up
<1> QED
  BY <1>1, <1>6, <1>7, <1>8

LEMMA TildeMeans ==
  ASSUME NEW h \in Triple, NEW b \in Triple
  PROVE  ~Less(h, b) /\ Less(h, TildeUpperBound(b)) <=>
           h[1] = b[1] /\ h[2] = b[2] /\ h[3] >= b[3]
<1> DEFINE up == TildeUpperBound(b)
<1>1. /\ h[1] \in Nat /\ h[2] \in Nat /\ h[3] \in Nat
      /\ b[1] \in Nat /\ b[2] \in Nat /\ b[3] \in Nat
      /\ \A i \in 1..3 : h[i] \in Int /\ b[i] \in Int
  BY DEF Triple
<1>2. up \in Triple /\ up[1] = b[1] /\ up[2] = b[2] + 1 /\ up[3] = 0
  BY <1>1 DEF Triple, TildeUpperBound
<1> HIDE DEF up
<1>3. \A i \in 1..3 : up[i] \in Int
  BY <1>2 DEF Triple
<1>4. Less(h, b) <=> \/ h[1] < b[1]
                     \/ h[1] = b[1] /\ h[2] < b[2]
                     \/ h[1] = b[1] /\ h[2] = b[2] /\ h[3] < b[3]
  BY <1>1, LessIsLexicographic
<1>5. Less(h, up) <=> \/ h[1] < up[1]
                      \/ h[1] = up[1] /\ h[2] < up[2]
                      \/ h[1] = up[1] /\ h[2] = up[2] /\ h[3] < up[3]
  BY <1>1, <1>3, LessIsLexicographic
<1>6. ~Less(h, b) /\ Less(h, up) <=> h[1] = b[1] /\ h[2] = b[2] /\ h[3] >= b[3]
  BY <1>1, <1>2, <1>4, <1>5
<1> QED
  BY <1>6 DEF up

(* A valid constraint accepts the versions its form is for.                *)
LEMMA MatchesMeans ==
  ASSUME NEW v \in Version, NEW c \in Constraint, WellFormed(v), ValidConstraint(c)
  PROVE  MatchesVersion(v, c) <=> Meant(Semver(v), c)
<1>1. PICK h \in Triple : h = Semver(v)
  BY SemverTyped
<1>2. MatchesVersion(v, c) <=>
        \A i \in DOMAIN Comparators(c) : Compares(Comparators(c)[i].op, h, Comparators(c)[i].want)
  BY <1>1 DEF MatchesVersion
<1>3. ASSUME NEW low, NEW high
      PROVE  (\A i \in DOMAIN Between(low, high) :
                Compares(Between(low, high)[i].op, h, Between(low, high)[i].want))
             <=> ~Less(h, low) /\ Less(h, high)
  <2> DEFINE pair == Between(low, high)
  <2>1. /\ DOMAIN pair = {1, 2}
        /\ pair[1].op = ">=" /\ pair[1].want = low /\ pair[2].op = "<" /\ pair[2].want = high
    BY DEF Between
  <2> HIDE DEF pair
  <2>2. (\A i \in DOMAIN pair : Compares(pair[i].op, h, pair[i].want))
        <=> Compares(">=", h, low) /\ Compares("<", h, high)
    BY <2>1
  <2>3. Compares(">=", h, low) <=> ~Less(h, low)
    BY DEF Compares
  <2>4. Compares("<", h, high) <=> Less(h, high)
    BY DEF Compares
  <2>5. (\A i \in DOMAIN pair : Compares(pair[i].op, h, pair[i].want))
        <=> ~Less(h, low) /\ Less(h, high)
    BY <2>2, <2>3, <2>4
  <2> QED
    BY <2>5 DEF pair
<1>4. CASE c.form = "any"
  <2>1. Comparators(c) = <<>> /\ (Meant(h, c) <=> TRUE)
    BY <1>4 DEF Comparators, Meant
  <2> QED
    BY <1>1, <1>2, <2>1
<1>5. CASE c.form = "^"
  <2>1. c.base \in Version /\ WellFormed(c.base)
    BY <1>5 DEF Constraint, ValidConstraint
  <2>2. PICK b \in Triple : b = Semver(c.base)
    BY <2>1, SemverTyped
  <2>3. Comparators(c) = Between(b, CaretUpperBound(b))
    BY <1>5, <2>2 DEF Comparators
  <2>4. Meant(h, c) <=>
          ~Less(h, b) /\ \A i \in {i \in 1..3 : \A j \in 1..(i - 1) : b[j] = 0} : h[i] = b[i]
    BY <1>5, <2>2 DEF Meant
  <2>5. MatchesVersion(v, c) <=> ~Less(h, b) /\ Less(h, CaretUpperBound(b))
    BY <1>2, <1>3, <2>3
  <2> QED
    BY <1>1, <2>4, <2>5, CaretMeans
<1>6. CASE c.form = "~"
  <2>1. c.base \in Version /\ WellFormed(c.base)
    BY <1>6 DEF Constraint, ValidConstraint
  <2>2. PICK b \in Triple : b = Semver(c.base)
    BY <2>1, SemverTyped
  <2>3. Comparators(c) = Between(b, TildeUpperBound(b))
    BY <1>6, <2>2 DEF Comparators
  <2>4. Meant(h, c) <=> h[1] = b[1] /\ h[2] = b[2] /\ h[3] >= b[3]
    BY <1>6, <2>2 DEF Meant
  <2>5. MatchesVersion(v, c) <=> ~Less(h, b) /\ Less(h, TildeUpperBound(b))
    BY <1>2, <1>3, <2>3
  <2> QED
    BY <1>1, <2>4, <2>5, TildeMeans
<1>7. CASE c.form = "list"
  <2>1. /\ c.parts \in Seq([op : Operators, want : Version])
        /\ DOMAIN c.parts = 1..Len(c.parts)
        /\ \A i \in DOMAIN c.parts : WellFormed(c.parts[i].want)
    BY <1>7 DEF Constraint, ValidConstraint
  <2>2. \A i \in DOMAIN c.parts : c.parts[i].op \in Operators /\ c.parts[i].want \in Version
    <3> DEFINE Part == [op : Operators, want : Version]
    <3>0. c.parts \in Seq(Part)
      BY <2>1
    <3>1. \A i \in DOMAIN c.parts : c.parts[i] \in Part
      <4> HIDE DEF Part
      <4> QED
        BY <3>0
    <3> QED
      BY <3>1
  <2>3. \A i \in DOMAIN c.parts : Semver(c.parts[i].want) \in Triple
    BY <2>1, <2>2, SemverTyped
  <2>4. Comparators(c) = [i \in DOMAIN c.parts |->
                            [op |-> c.parts[i].op, want |-> Semver(c.parts[i].want)]]
    BY <1>7 DEF Comparators
  <2>5. MatchesVersion(v, c) <=>
          \A i \in DOMAIN c.parts : Compares(c.parts[i].op, h, Semver(c.parts[i].want))
    BY <1>2, <2>4
  <2>6. Meant(h, c) <=>
          \A p \in {c.parts[i] : i \in DOMAIN c.parts} :
            CASE p.op = "==" -> Same(h, Semver(p.want)) [] p.op = "!=" -> ~Same(h, Semver(p.want))
              [] p.op = ">"  -> Later(h, Semver(p.want))
              [] p.op = ">=" -> Later(h, Semver(p.want)) \/ Same(h, Semver(p.want))
              [] p.op = "<"  -> ~(Later(h, Semver(p.want)) \/ Same(h, Semver(p.want)))
              [] p.op = "<=" -> ~Later(h, Semver(p.want))
    BY <1>7 DEF Meant, Later, Same
  <2>7. Meant(h, c) <=>
          \A i \in DOMAIN c.parts : Compares(c.parts[i].op, h, Semver(c.parts[i].want))
    BY <2>2, <2>3, <2>6, ComparesMeans
  <2> QED
    BY <1>1, <2>5, <2>7
<1>8. c.form \in {"any", "^", "~", "list"}
  BY DEF Constraint
<1> QED
  BY <1>4, <1>5, <1>6, <1>7, <1>8

(* What was looked at got the verdict of its constraint.                   *)
VersionsInv ==
  verCase = NoCase \/ \E v \in Version, c \in Constraint :
    verCase = [version |-> v, constraint |-> c, verdict |-> Verdict(v, c)]

LEMMA VerdictMeans ==
  ASSUME NEW v \in Version, NEW c \in Constraint
  PROVE  Verdict(v, c) = "match" <=> WellFormed(v) /\ ValidConstraint(c) /\ Meant(Semver(v), c)
<1>1. CASE WellFormed(v) /\ ValidConstraint(c)
  BY <1>1, MatchesMeans DEF Verdict
<1>2. CASE ~WellFormed(v) /\ ValidConstraint(c)
  BY <1>2 DEF Verdict
<1>3. CASE ~ValidConstraint(c)
  BY <1>3 DEF Verdict
<1> QED
  BY <1>1, <1>2, <1>3

(* Whatever versions and constraints are written, the comparators made of  *)
(* a constraint accept exactly what its form means: a caret keeps the      *)
(* leftmost non-zero segment and what is before it, a tilde the first two, *)
(* a list all of its comparisons; what is malformed never matches.         *)
THEOREM ConstraintsMean == VersionsSpec => []ConstraintsMeanIt
<1>1. VersionsInit => VersionsInv
  BY DEF VersionsInit, VersionsInv
<1>2. VersionsInv /\ [VersionsNext]_verCase => VersionsInv'
  <2> SUFFICES ASSUME VersionsInv, [VersionsNext]_verCase PROVE VersionsInv'
    OBVIOUS
  <2>1. ASSUME NEW v \in VersionMenu, NEW c \in ConstraintMenu, LookAt(v, c) PROVE VersionsInv'
    BY <2>1, VersionAssumption DEF LookAt, VersionsInv
  <2>2. CASE UNCHANGED verCase
    BY <2>2 DEF VersionsInv
  <2> QED
    BY <2>1, <2>2 DEF VersionsNext
<1>3. VersionsInv => ConstraintsMeanIt
  <2> SUFFICES ASSUME VersionsInv, verCase # NoCase PROVE ConstraintsMeanIt
    BY DEF ConstraintsMeanIt
  <2>1. PICK v \in Version, c \in Constraint :
          verCase = [version |-> v, constraint |-> c, verdict |-> Verdict(v, c)]
    BY DEF VersionsInv
  <2>2. verCase.version = v /\ verCase.constraint = c /\ verCase.verdict = Verdict(v, c)
    BY <2>1
  <2> QED
    BY <2>2, VerdictMeans DEF ConstraintsMeanIt
<1> QED
  BY <1>1, <1>2, <1>3, PTL DEF VersionsSpec

-----------------------------------------------------------------------------
ConfigSpec == ConfigInit /\ [][ConfigNext]_configVars

(* What a field is worth under the layers read so far.                     *)
Layered(f) ==
  IF env # NoConfig /\ Effective(f, env[f]) THEN env[f]
  ELSE IF json # NoConfig /\ Overlays(f, json[f]) THEN json[f] ELSE Defaults[f]

ConfigInv ==
  /\ stage \in {"start", "loading", "loaded", "valid", "refused"}
  /\ stage = "start" => json = NoConfig /\ env = NoConfig
  /\ stage = "loading" => env = NoConfig
  /\ stage \in {"loading", "loaded", "valid"} =>
       /\ DOMAIN config = Fields
       /\ \A f \in Fields : config[f] = Layered(f)
       /\ json # NoConfig => \A f \in DurationFields : json[f] # Malformed
  /\ stage = "valid" => ValidConfig(config)

LEMMA ConfigStep ==
  ASSUME ConfigInv, [ConfigNext]_configVars PROVE ConfigInv'
<1>1. CASE DefaultConfig
  BY <1>1, ConfigAssumption DEF DefaultConfig, ConfigInv, Layered
<1>2. CASE LoadFromJSON
  <2>1. /\ stage = "loading" /\ json = NoConfig /\ env = NoConfig /\ UNCHANGED env
        /\ json' \in [Fields -> UNION {JSONChoices[f] : f \in Fields}]
    BY <1>2 DEF LoadFromJSON, ConfigInv
  <2>2. json' # NoConfig
    BY <2>1, ConfigAssumption
  <2>3. CASE \E f \in DurationFields : json'[f] = Malformed
    BY <1>2, <2>3 DEF LoadFromJSON, ConfigInv
  <2>4. CASE ~\E f \in DurationFields : json'[f] = Malformed
    <3>1. /\ config' = [f \in Fields |-> IF Overlays(f, json'[f]) THEN json'[f] ELSE config[f]]
          /\ stage' = "loading"
      BY <1>2, <2>1, <2>4 DEF LoadFromJSON
    <3>2. \A f \in Fields : config[f] = Defaults[f]
      BY <2>1 DEF ConfigInv, Layered
    <3>3. \A f \in Fields : config'[f] = Layered(f)'
      BY <2>1, <2>2, <3>1, <3>2 DEF Layered
    <3> QED
      BY <2>1, <2>4, <3>1, <3>3 DEF ConfigInv
  <2> QED
    BY <2>3, <2>4
<1>3. CASE LoadFromEnv
  <2>1. /\ stage = "loading" /\ env = NoConfig /\ UNCHANGED json /\ stage' = "loaded"
        /\ env' \in [Fields -> UNION {EnvChoices[f] : f \in Fields}]
        /\ config' = [f \in Fields |-> IF Effective(f, env'[f]) THEN env'[f] ELSE config[f]]
    BY <1>3 DEF LoadFromEnv
  <2>2. env' # NoConfig
    BY <2>1, ConfigAssumption
  <2>3. \A f \in Fields : config'[f] = Layered(f)'
    BY <2>1, <2>2 DEF Layered, ConfigInv
  <2> QED
    BY <2>1, <2>3 DEF ConfigInv
<1>4. CASE ValidateConfig
  BY <1>4 DEF ValidateConfig, ConfigInv, Layered
<1>5. CASE UNCHANGED configVars
  BY <1>5 DEF configVars, ConfigInv, Layered
<1> QED
  BY <1>1, <1>2, <1>3, <1>4, <1>5 DEF ConfigNext

LEMMA LayersAreConfigLayered ==
  ASSUME ConfigInv PROVE ConfigLayered
<1> SUFFICES ASSUME stage = "valid" PROVE ConfigLayered
  BY DEF ConfigLayered
<1>1. /\ \A f \in Fields : config[f] = Layered(f)
      /\ json # NoConfig => \A f \in DurationFields : json[f] # Malformed
      /\ \A f \in RequiredFields : config[f] \notin {EmptyText, BlankText}
      /\ config[Environment] \in Environments
  BY DEF ConfigInv, ValidConfig
<1>2. \A f \in DurationFields : config[f] # Malformed
  BY <1>1, ConfigAssumption DEF Layered, Effective, Fields
<1>3. \A f \in Fields :
        LET below == IF json = NoConfig THEN {Defaults[f]}
                     ELSE {json[f]} \ {Absent, EmptyText}
            above == IF env = NoConfig THEN {}
                     ELSE {env[f]} \ ({Absent, EmptyText}
                                      \cup IF f \in DurationFields THEN {Malformed, BlankText} ELSE {})
        IN CASE above # {} -> config[f] \in above
             [] above = {} /\ below # {} -> config[f] \in below
             [] OTHER -> config[f] \in {Defaults[f]} \cup
                           IF f \in TopFields /\ json[f] = EmptyText THEN {EmptyText} ELSE {}
  <2> TAKE f \in Fields
  <2> DEFINE below == IF json = NoConfig THEN {Defaults[f]}
                      ELSE {json[f]} \ {Absent, EmptyText}
             above == IF env = NoConfig THEN {}
                      ELSE {env[f]} \ ({Absent, EmptyText}
                                       \cup IF f \in DurationFields THEN {Malformed, BlankText} ELSE {})
  <2>1. above = IF env # NoConfig /\ Effective(f, env[f]) THEN {env[f]} ELSE {}
    BY DEF Effective
  <2>2. below # {} /\ above = {} => config[f] \in below
    BY <1>1, <2>1 DEF Layered, Overlays
  <2>3. above # {} => config[f] \in above
    BY <1>1, <2>1 DEF Layered
  <2>4. above = {} /\ below = {} =>
          config[f] \in {Defaults[f]} \cup
            IF f \in TopFields /\ json[f] = EmptyText THEN {EmptyText} ELSE {}
    BY <1>1, <2>1 DEF Layered, Overlays
  <2> HIDE DEF above, below
  <2>5. (CASE above # {} -> config[f] \in above
           [] above = {} /\ below # {} -> config[f] \in below
           [] OTHER -> config[f] \in {Defaults[f]} \cup
                         IF f \in TopFields /\ json[f] = EmptyText THEN {EmptyText} ELSE {})
    BY <2>2, <2>3, <2>4
  <2> QED
    BY <2>5 DEF above, below
<1> QED
  BY <1>1, <1>2, <1>3 DEF ConfigLayered

(* Whatever the layers say, the effective configuration takes each field   *)
(* from the highest one that says something of it, and what is accepted    *)
(* has its required fields, a known environment and parsed durations.      *)
THEOREM ConfigurationLayered == ConfigSpec => []ConfigLayered
<1>1. ConfigInit => ConfigInv
  BY DEF ConfigInit, ConfigInv
<1>2. ConfigInv /\ [ConfigNext]_configVars => ConfigInv'
  BY ConfigStep
<1>3. ConfigInv => ConfigLayered
  BY LayersAreConfigLayered
<1> QED
  BY <1>1, <1>2, <1>3, PTL DEF ConfigSpec

-----------------------------------------------------------------------------
ContributionsSpec ==
  /\ CatalogInit /\ RegistryInit
  /\ [][\/ CatalogNext /\ UNCHANGED regVars
        \/ RegistryNext /\ UNCHANGED catVars]_<<catVars, regVars>>

(* Every place of a sorted catalog is taken by one contribution.           *)
SortedBy(s, n, place) ==
  /\ place \in [1..n -> 1..n]
  /\ \A i \in 1..n : \E k \in 1..n : place[k] = i
  /\ \A k, m \in 1..n : k < m => SortsBefore(s, place[k], place[m])
  /\ StableSort(s) = [k \in 1..n |-> s[place[k]]]

LEMMA StableSortProperties ==
  ASSUME NEW n \in Nat, NEW s, DOMAIN s = 1..n,
         \A i \in 1..n : KeyRank[Trim(s[i])] \in Int
  PROVE  \E place : SortedBy(s, n, place)
<1> DEFINE K == 1..n
           before == {p \in K \X K : SortsBefore(s, p[1], p[2])}
           place == [k \in K |-> Ranked(before, K, k)]
<1>1. IsFiniteSet(K) /\ Cardinality(K) = n
  BY FS_Interval
<1>2. Orders(before, K)
  <2>1. \A i, j \in K : <<i, j>> \in before <=> SortsBefore(s, i, j)
    OBVIOUS
  <2>2. \A i \in K : ~SortsBefore(s, i, i)
    BY DEF SortsBefore
  <2>3. \A i, j, k \in K : SortsBefore(s, i, j) /\ SortsBefore(s, j, k) => SortsBefore(s, i, k)
    BY DEF SortsBefore
  <2>4. \A i, j \in K : i # j => SortsBefore(s, i, j) \/ SortsBefore(s, j, i)
    BY DEF SortsBefore
  <2> HIDE DEF before, K
  <2> QED
    BY <2>1, <2>2, <2>3, <2>4 DEF Orders
<1>3. /\ \A k \in K : Ranked(before, K, k) \in K
      /\ \A k, m \in K : k < m => <<Ranked(before, K, k), Ranked(before, K, m)>> \in before
      /\ \A i \in K : \E k \in K : Ranked(before, K, k) = i
  <2> HIDE DEF before
  <2>1. IsFiniteSet(K)
    BY <1>1
  <2>2. Cardinality(K) = n
    BY <1>1
  <2> HIDE DEF K
  <2>3. /\ \A k \in 1..Cardinality(K) : Ranked(before, K, k) \in K
        /\ \A k, m \in 1..Cardinality(K) :
             k < m => <<Ranked(before, K, k), Ranked(before, K, m)>> \in before
        /\ \A i \in K : \E k \in 1..Cardinality(K) : Ranked(before, K, k) = i
    BY <1>2, <2>1, RankedProperties
  <2> QED
    BY <2>2, <2>3 DEF K
<1>4. \A i \in DOMAIN s : Below(before, DOMAIN s, i) = {j \in DOMAIN s : SortsBefore(s, j, i)}
  BY DEF Below
<1>5. StableSort(s) = [k \in K |-> s[Ranked(before, K, k)]]
  <2> HIDE DEF before
  <2>1. StableSort(s) = [k \in DOMAIN s |-> s[Ranked(before, DOMAIN s, k)]]
    <3>1. \A k : SortedPlace(s, k) = Ranked(before, DOMAIN s, k)
      BY <1>4 DEF SortedPlace, Ranked
    <3> QED
      BY <3>1 DEF StableSort
  <2> QED
    BY <2>1
<1>6. \A i, j : <<i, j>> \in before => SortsBefore(s, i, j)
  OBVIOUS
<1> HIDE DEF before
<1>7. place \in [K -> K] /\ \A k \in K : place[k] = Ranked(before, K, k)
  BY <1>3
<1>8. \A k, m \in K : k < m => SortsBefore(s, place[k], place[m])
  BY <1>3, <1>6, <1>7
<1>9. \A i \in K : \E k \in K : place[k] = i
  BY <1>3, <1>7
<1>10. StableSort(s) = [k \in K |-> s[place[k]]]
  BY <1>5, <1>7
<1> HIDE DEF place
<1>11. SortedBy(s, n, place)
  BY <1>7, <1>8, <1>9, <1>10 DEF SortedBy
<1> QED
  BY <1>11

-----------------------------------------------------------------------------
(* What is wrong with the i-th contribution.                               *)
Wrong(i) ==
  \/ BadKey(KeyOf(contributed[i])) \/ BadValue(contributed[i].value)
  \/ \E j \in 1..(i - 1) : KeyOf(contributed[j]) = KeyOf(contributed[i])

(* What is built so far is the beginning of what was contributed, under    *)
(* its keys, with nothing wrong in it.                                     *)
CatalogInv ==
  /\ contributed \in Seq([key : RawKeys, value : Values])
  /\ built \in Seq({KeyOf([key |-> k]) : k \in RawKeys})
  /\ Len(built) <= Len(contributed)
  /\ \A i \in 1..Len(built) : built[i] = KeyOf(contributed[i]) /\ ~Wrong(i)
  /\ setup = Unset => contributed = <<>> /\ built = <<>> /\ outcome = Undecided
  /\ CatalogIsExact

(* A key is found wherever it stands alone.                                *)
LEMMA LookupFinds ==
  ASSUME CatalogInv, NEW i \in 1..Len(built), NEW k, KeyOf([key |-> k]) = built[i]
  PROVE  LookupIn(k) = i
<1>1. PICK n \in Nat : n = Len(built)
  BY DEF CatalogInv
<1>2. DOMAIN built = 1..n
  BY <1>1 DEF CatalogInv
<1>3. \A a, b \in 1..n : a < b => built[a] # built[b]
  <2>1. \A a \in 1..n : built[a] = KeyOf(contributed[a]) /\ ~Wrong(a)
    BY <1>1 DEF CatalogInv
  <2>2. \A a, b \in 1..n : a < b => a \in 1..(b - 1)
    OBVIOUS
  <2> QED
    BY <2>1, <2>2 DEF Wrong
<1>4. {j \in DOMAIN built : built[j] = KeyOf([key |-> k])} = {i}
  BY <1>1, <1>2, <1>3
<1>5. Min({i}) = i
  <2>1. {i} \in SUBSET Nat /\ {i} # {}
    BY <1>1
  <2> QED
    BY <2>1, MinProperties
<1> QED
  BY <1>4, <1>5 DEF LookupIn

(* A key that was normalized is its own normal form.                       *)
LEMMA NormalKeys ==
  ASSUME NEW c PROVE KeyOf([key |-> KeyOf(c)]) = KeyOf(c) /\ Trim(KeyOf(c)) = Trim(c.key)
                     /\ KeyOf([key |-> c.key]) = KeyOf(c)
<1>1. \A x : KeyOf(x) = IF setup.trims THEN Plain(Trim(x.key)) ELSE x.key
  BY DEF KeyOf
<1>2. \A w : Trim(Plain(w)) = w
  BY DEF Trim, Plain
<1>3. \A k : [key |-> k].key = k
  OBVIOUS
<1> QED
  BY <1>1, <1>2, <1>3

LEMMA CatalogFacts ==
  ASSUME CatalogInv
  PROVE  /\ Len(contributed) \in Nat /\ DOMAIN contributed = 1..Len(contributed)
         /\ \A i \in 1..Len(contributed) : contributed[i].key \in RawKeys
         /\ Len(built) \in Nat /\ DOMAIN built = 1..Len(built)
         /\ Len(built) <= Len(contributed)
         /\ \A i \in 1..Len(built) : KeyRank[Trim(built[i])] \in Int
<1>1. /\ Len(contributed) \in Nat /\ DOMAIN contributed = 1..Len(contributed)
      /\ Len(built) \in Nat /\ DOMAIN built = 1..Len(built)
      /\ Len(built) <= Len(contributed)
  BY DEF CatalogInv
<1>2. \A i \in 1..Len(contributed) : contributed[i].key \in RawKeys
  <2> DEFINE Given == [key : RawKeys, value : Values]
  <2>1. contributed \in Seq(Given)
    BY DEF CatalogInv
  <2>2. \A i \in 1..Len(contributed) : contributed[i] \in Given
    <3> HIDE DEF Given
    <3> QED
      BY <2>1
  <2> QED
    BY <2>2
<1>3. ASSUME NEW i \in 1..Len(built) PROVE KeyRank[Trim(built[i])] \in Int
  <2>1. built[i] = KeyOf(contributed[i]) /\ contributed[i].key \in RawKeys
    BY <1>1, <1>2 DEF CatalogInv
  <2>2. Trim(built[i]) \in RegistryWords
    BY <2>1, NormalKeys DEF RegistryWords
  <2> QED
    BY <2>2, ContributionAssumption
<1> QED
  BY <1>1, <1>2, <1>3

(* Build stops at the first contribution that is wrong.                    *)
LEMMA RefusesFirst ==
  ASSUME CatalogInv, NEW i, i = Len(built) + 1, i <= Len(contributed), Wrong(i),
         NEW code, code \notin {"invalid_spec", "built"},
         outcome' = [code |-> code, at |-> i], UNCHANGED <<contributed, setup, built, keys>>
  PROVE  CatalogIsExact'
<1> DEFINE wrong == {j \in DOMAIN contributed : Wrong(j)}
<1>1. PICK n \in Nat : n = Len(built) /\ i = n + 1 /\ DOMAIN contributed = 1..Len(contributed)
                       /\ Len(contributed) \in Nat
  BY CatalogFacts
<1>2. i \in wrong /\ wrong \in SUBSET Nat /\ \A j \in wrong : i <= j
  BY <1>1 DEF CatalogInv
<1>3. i = Min(wrong)
  <2>1. Min(wrong) \in wrong /\ \A j \in wrong : Min(wrong) <= j
    <3> HIDE DEF wrong
    <3> QED
      BY <1>2, MinProperties
  <2> HIDE DEF wrong
  <2>2. Min(wrong) \in Nat /\ i \in Nat /\ i <= Min(wrong) /\ Min(wrong) <= i
    BY <1>1, <1>2, <2>1
  <2> QED
    BY <2>2
<1>4. wrong # {} /\ outcome'.at = Min(wrong) /\ outcome'.code = code
  BY <1>2, <1>3
<1> QED
  BY <1>4 DEF CatalogIsExact, Wrong, BadKey, BadValue, KeyOf

(* A contribution with nothing wrong in it is found under its key.         *)
LEMMA TurnAppends ==
  ASSUME CatalogInv, setup # Unset, outcome = Undecided,
         NEW i, i = Len(built) + 1, i <= Len(contributed), ~Wrong(i),
         built' = Append(built, KeyOf(contributed[i])),
         UNCHANGED <<contributed, setup, keys, outcome>>
  PROVE  CatalogInv'
<1>1. PICK n \in Nat : n = Len(built) /\ i = n + 1
  BY CatalogFacts
<1> DEFINE Keys == {KeyOf([key |-> k]) : k \in RawKeys}
           Given == [key : RawKeys, value : Values]
<1>2. built \in Seq(Keys) /\ contributed \in Seq(Given)
  BY DEF CatalogInv
<1>3. KeyOf(contributed[i]) \in Keys
  <2>1. contributed[i].key \in RawKeys
    BY <1>1, CatalogFacts
  <2>2. KeyOf(contributed[i]) = KeyOf([key |-> contributed[i].key])
    BY NormalKeys
  <2> QED
    BY <2>1, <2>2
<1>4. built' \in Seq(Keys)
  <2> HIDE DEF Keys
  <2> QED
    BY <1>2, <1>3, AppendProperties
<1>5. Len(built') = n + 1 /\ built'[i] = KeyOf(contributed[i]) /\ \A j \in 1..n : built'[j] = built[j]
  <2> HIDE DEF Keys
  <2> QED
    BY <1>1, <1>2, <1>3, AppendProperties
<1>6. \A j \in 1..Len(built') : built'[j] = KeyOf(contributed[j]) /\ ~Wrong(j)
  BY <1>1, <1>5 DEF CatalogInv
<1>7. \A j : KeyOf(contributed[j])' = KeyOf(contributed[j]) /\ (Wrong(j)' <=> Wrong(j))
  BY DEF KeyOf, Wrong, BadKey, BadValue
<1>8. CatalogIsExact'
  BY DEF CatalogIsExact
<1>9. built' \in Seq({KeyOf([key |-> k]) : k \in RawKeys})'
  BY <1>4 DEF KeyOf
<1> QED
  BY <1>1, <1>2, <1>5, <1>6, <1>7, <1>8, <1>9 DEF CatalogInv

(* A catalog that is built has every contribution, under its key.          *)
LEMMA BuiltIsExact ==
  ASSUME CatalogInv, setup # Unset, outcome = Undecided, BuildDone
  PROVE  CatalogIsExact'
<1>1. PICK size \in Nat : /\ size = Len(built) /\ size = Len(contributed)
                       /\ DOMAIN built = 1..size /\ DOMAIN contributed = 1..size
  BY CatalogFacts DEF BuildDone
<1>2. /\ keys' = IF setup.sorts THEN StableSort(built) ELSE built
      /\ outcome'.code = "built" /\ UNCHANGED <<contributed, setup, built>>
  BY DEF BuildDone
<1>3. \A i \in 1..size : built[i] = KeyOf(contributed[i]) /\ ~Wrong(i)
  BY <1>1 DEF CatalogInv
<1>4. \A i \in 1..size : LookupIn(contributed[i].key) = i /\ LookupIn(built[i]) = i
  <2> TAKE i \in 1..size
  <2>1. built[i] = KeyOf(contributed[i])
    BY <1>3
  <2>2. KeyOf([key |-> contributed[i].key]) = built[i] /\ KeyOf([key |-> built[i]]) = built[i]
    BY <2>1, NormalKeys
  <2> QED
    BY <1>1, <2>2, LookupFinds
<1>5. ToSet(contributed) = {contributed[i] : i \in 1..size}
  BY <1>1 DEF ToSet
<1>6. {KeyOf(c) : c \in ToSet(contributed)} = {built[i] : i \in 1..size}
  BY <1>3, <1>5
<1>7. PICK place \in [1..size -> 1..size] :
        /\ \A i \in 1..size : \E k \in 1..size : place[k] = i
        /\ keys' = [k \in 1..size |-> built[place[k]]]
        /\ setup.sorts => \A k, m \in 1..size : k < m => SortsBefore(built, place[k], place[m])
  <2>1. CASE setup.sorts
    <3>1. \A i \in 1..size : KeyRank[Trim(built[i])] \in Int
      BY <1>1, CatalogFacts
    <3>2. PICK place : SortedBy(built, size, place)
      <4>1. size \in Nat /\ DOMAIN built = 1..size
        BY <1>1
      <4> QED
        BY <3>1, <4>1, StableSortProperties
    <3> QED
      BY <1>2, <2>1, <3>2 DEF SortedBy
  <2>2. CASE ~setup.sorts
    <3> DEFINE place == [k \in 1..size |-> k]
    <3>1. place \in [1..size -> 1..size] /\ \A k \in 1..size : place[k] = k
      OBVIOUS
    <3>2. keys' = [k \in 1..size |-> built[place[k]]]
      <4>1. built = [k \in 1..size |-> built[k]]
        BY <1>1 DEF CatalogInv
      <4> QED
        BY <1>2, <2>2, <4>1
    <3> HIDE DEF place
    <3> QED
      BY <2>2, <3>1, <3>2
  <2> QED
    BY <2>1, <2>2
<1>8. DOMAIN keys' = 1..size /\ \A k \in 1..size : keys'[k] = built[place[k]]
  BY <1>7
<1>9. ToSet(keys') = {built[i] : i \in 1..size}
  <2>1. ToSet(keys') = {keys'[k] : k \in 1..size}
    BY <1>8 DEF ToSet
  <2>2. \A k \in 1..size : keys'[k] \in {built[i] : i \in 1..size}
    BY <1>7, <1>8
  <2>3. \A i \in 1..size : built[i] \in {keys'[k] : k \in 1..size}
    BY <1>7, <1>8
  <2> QED
    BY <2>1, <2>2, <2>3
<1>10. setup.sorts => \A i, j \in 1..size : i < j =>
         \/ KeyRank[Trim(keys'[i])] < KeyRank[Trim(keys'[j])]
         \/ /\ KeyRank[Trim(keys'[i])] = KeyRank[Trim(keys'[j])]
            /\ LookupIn(keys'[i]) < LookupIn(keys'[j])
  <2> SUFFICES ASSUME setup.sorts, NEW i \in 1..size, NEW j \in 1..size, i < j
               PROVE  \/ KeyRank[Trim(keys'[i])] < KeyRank[Trim(keys'[j])]
                      \/ /\ KeyRank[Trim(keys'[i])] = KeyRank[Trim(keys'[j])]
                         /\ LookupIn(keys'[i]) < LookupIn(keys'[j])
    OBVIOUS
  <2>1. SortsBefore(built, place[i], place[j])
    BY <1>7
  <2>2. /\ keys'[i] = built[place[i]] /\ keys'[j] = built[place[j]]
        /\ LookupIn(keys'[i]) = place[i] /\ LookupIn(keys'[j]) = place[j]
    BY <1>4, <1>7, <1>8
  <2> QED
    BY <2>1, <2>2 DEF SortsBefore
<1>11. UNCHANGED <<contributed, setup, built>>
  BY <1>2
<1>12. ({i \in DOMAIN contributed :
          \/ BadKey(KeyOf(contributed[i])) \/ BadValue(contributed[i].value)
          \/ \E j \in 1..(i - 1) : KeyOf(contributed[j]) = KeyOf(contributed[i])} = {})'
  <2>1. \A i \in DOMAIN contributed : ~Wrong(i)
    BY <1>1, <1>3
  <2> QED
    BY <1>11, <2>1 DEF Wrong, BadKey, BadValue, KeyOf
<1>13. (ToSet(keys) = {KeyOf(c) : c \in ToSet(contributed)})'
  <2>1. ToSet(keys') = {KeyOf(c) : c \in ToSet(contributed)}
    BY <1>6, <1>9
  <2> QED
    BY <1>11, <2>1 DEF KeyOf
<1>14. (\A i \in DOMAIN contributed : LookupIn(contributed[i].key) = i)'
  <2>1. \A i \in DOMAIN contributed : LookupIn(contributed[i].key) = i
    BY <1>1, <1>4
  <2> QED
    BY <1>11, <2>1 DEF LookupIn, KeyOf
<1>15. (setup.sorts => \A i, j \in DOMAIN keys : i < j =>
          \/ KeyRank[Trim(keys[i])] < KeyRank[Trim(keys[j])]
          \/ /\ KeyRank[Trim(keys[i])] = KeyRank[Trim(keys[j])]
             /\ LookupIn(keys[i]) < LookupIn(keys[j]))'
  <2>1. \A i : LookupIn(keys[i])' = LookupIn(keys'[i])
    BY <1>11 DEF LookupIn, KeyOf
  <2> QED
    BY <1>8, <1>10, <1>11, <2>1
<1> QED
  BY <1>2, <1>12, <1>13, <1>14, <1>15 DEF CatalogIsExact

(* A step that only ends Build leaves what was built.                      *)
LEMMA RefusalKeeps ==
  ASSUME CatalogInv, UNCHANGED <<contributed, setup, built>>,
         setup = Unset => outcome' = outcome, CatalogIsExact'
  PROVE  CatalogInv'
<1>1. \A j : KeyOf(contributed[j])' = KeyOf(contributed[j]) /\ (Wrong(j)' <=> Wrong(j))
  BY DEF KeyOf, Wrong, BadKey, BadValue
<1>2. built' \in Seq({KeyOf([key |-> k]) : k \in RawKeys})'
  BY DEF KeyOf, CatalogInv
<1> QED
  BY <1>1, <1>2 DEF CatalogInv

LEMMA CatalogStep ==
  ASSUME CatalogInv, CatalogNext PROVE CatalogInv'
<1>1. CASE NewCatalogBuilder
  <2>1. /\ contributed = <<>> /\ built = <<>> /\ outcome = Undecided
        /\ UNCHANGED <<contributed, built, outcome>>
    BY <1>1 DEF NewCatalogBuilder, CatalogInv
  <2>2. contributed' \in Seq([key : RawKeys, value : Values]) /\ Len(built') = 0 /\ Len(contributed') = 0
    BY <2>1
  <2>3. built' \in Seq({KeyOf([key |-> k]) : k \in RawKeys})'
    BY <2>1
  <2> QED
    BY <2>1, <2>2, <2>3 DEF CatalogInv, CatalogIsExact
<1>2. CASE Add
  <2> DEFINE Given == [key : RawKeys, value : Values]
  <2>1. /\ setup # Unset /\ outcome = Undecided /\ built = <<>>
        /\ UNCHANGED <<setup, built, keys, outcome>>
    BY <1>2 DEF Add
  <2>2. PICK k \in RawKeys, v \in Values : contributed' = Append(contributed, [key |-> k, value |-> v])
    BY <1>2 DEF Add
  <2>3. contributed' \in Seq(Given) /\ Len(contributed') \in Nat
    <3>1. [key |-> k, value |-> v] \in Given /\ contributed \in Seq(Given)
      BY DEF CatalogInv
    <3> HIDE DEF Given
    <3> QED
      BY <2>2, <3>1, AppendProperties
  <2>4. built' \in Seq({KeyOf([key |-> k_1]) : k_1 \in RawKeys})' /\ Len(built') = 0
    BY <2>1
  <2> QED
    BY <2>1, <2>3, <2>4 DEF CatalogInv, CatalogIsExact
<1>3. CASE BuildTurn
  <2>1. setup # Unset /\ outcome = Undecided /\ UNCHANGED <<contributed, setup>>
    BY <1>3 DEF BuildTurn
  <2>2. CASE ~SpecAccepted
    <3>1. outcome' = [code |-> "invalid_spec", at |-> 0] /\ UNCHANGED <<contributed, setup, built, keys>>
      BY <1>3, <2>2 DEF BuildTurn, CatRefuse
    <3>2. SpecProblems(setup.spec) # <<>>
      BY <2>2 DEF SpecAccepted
    <3>3. outcome'.code = "invalid_spec"
      BY <3>1
    <3>4. CatalogIsExact'
      BY <3>1, <3>2, <3>3 DEF CatalogIsExact
    <3> QED
      BY <2>1, <3>1, <3>4, RefusalKeeps
  <2>3. CASE SpecAccepted
    <3>1. PICK i : i = Len(built) + 1
      OBVIOUS
    <3>2. /\ i <= Len(contributed)
          /\ \/ BadKey(KeyOf(contributed[i])) /\ CatRefuse("invalid_key", i)
             \/ /\ ~BadKey(KeyOf(contributed[i])) /\ BadValue(contributed[i].value)
                /\ CatRefuse("invalid_value", i)
             \/ /\ ~BadKey(KeyOf(contributed[i])) /\ ~BadValue(contributed[i].value)
                /\ IF TakenBy(contributed[i]) THEN CatRefuse("duplicate_key", i)
                   ELSE built' = Append(built, KeyOf(contributed[i])) /\ UNCHANGED <<keys, outcome>>
      BY <1>3, <2>3, <3>1, CatalogFacts DEF BuildTurn
    <3>3. TakenBy(contributed[i]) <=> \E j \in 1..(i - 1) : KeyOf(contributed[j]) = KeyOf(contributed[i])
      <4>1. 1..(i - 1) = DOMAIN built /\ \A j \in DOMAIN built : built[j] = KeyOf(contributed[j])
        BY <3>1, CatalogFacts DEF CatalogInv
      <4> QED
        BY <4>1 DEF TakenBy
    <3>4. ASSUME NEW code \in {"invalid_key", "invalid_value", "duplicate_key"},
                 CatRefuse(code, i), Wrong(i)
          PROVE  CatalogInv'
      <4>1. outcome' = [code |-> code, at |-> i] /\ UNCHANGED <<contributed, setup, built, keys>>
        BY <2>1, <3>4 DEF CatRefuse
      <4>2. CatalogIsExact'
        BY <3>1, <3>2, <3>4, <4>1, RefusesFirst
      <4> QED
        BY <2>1, <4>1, <4>2, RefusalKeeps
    <3>5. CASE Wrong(i)
      <4>1. \/ CatRefuse("invalid_key", i) \/ CatRefuse("invalid_value", i)
            \/ CatRefuse("duplicate_key", i)
        BY <3>2, <3>3, <3>5 DEF Wrong
      <4> QED
        BY <3>4, <3>5, <4>1
    <3>6. CASE ~Wrong(i)
      <4>1. built' = Append(built, KeyOf(contributed[i])) /\ UNCHANGED <<keys, outcome>>
        BY <3>2, <3>3, <3>6 DEF Wrong
      <4> QED
        BY <2>1, <3>1, <3>2, <3>6, <4>1, TurnAppends
    <3> QED
      BY <3>5, <3>6
  <2> QED
    BY <2>2, <2>3
<1>4. CASE BuildDone
  <2>1. setup # Unset /\ outcome = Undecided /\ UNCHANGED <<contributed, setup, built>>
    BY <1>4 DEF BuildDone
  <2>2. CatalogIsExact'
    BY <1>4, <2>1, BuiltIsExact
  <2> QED
    BY <2>1, <2>2, RefusalKeeps
<1> QED
  BY <1>1, <1>2, <1>3, <1>4 DEF CatalogNext

-----------------------------------------------------------------------------
(* The registry: whoever is an owner is the only one and has its value     *)
(* there.                                                                  *)
RegistryInv ==
  /\ registry \in [RegistryWords -> Callers \cup {Unset}]
  /\ owner \in [RegistryWords -> SUBSET Callers]
  /\ \A w \in RegistryWords : owner[w] = {} \/ \E c \in Callers : owner[w] = {c} /\ registry[w] = c

LEMMA RegistryStep ==
  ASSUME RegistryInv, RegistryNext PROVE RegistryInv'
<1>1. \A k \in RawKeys : Trim(k) \in RegistryWords
  BY DEF RegistryWords
<1>2. ASSUME NEW c \in Callers, NEW k \in RawKeys, Register(c, k) \/ RegisterIfAbsent(c, k)
      PROVE  RegistryInv'
  BY <1>1, <1>2 DEF Register, RegisterIfAbsent, RegistryInv
<1>3. ASSUME NEW k \in RawKeys, Delete(k) PROVE RegistryInv'
  BY <1>1, <1>3 DEF Delete, RegistryInv
<1> QED
  BY <1>2, <1>3 DEF RegistryNext

LEMMA RegistryOwners ==
  ASSUME RegistryInv PROVE OneOwner
<1> SUFFICES ASSUME NEW w \in RegistryWords
             PROVE  Cardinality(owner[w]) <= 1 /\ \A c \in owner[w] : registry[w] = c
  BY DEF OneOwner
<1>1. CASE owner[w] = {}
  BY <1>1, FS_EmptySet
<1>2. CASE \E c \in Callers : owner[w] = {c} /\ registry[w] = c
  <2>1. PICK c \in Callers : owner[w] = {c} /\ registry[w] = c
    BY <1>2
  <2>2. Cardinality({c}) = 1
    BY FS_Singleton
  <2> QED
    BY <2>1, <2>2
<1> QED
  BY <1>1, <1>2 DEF RegistryInv

(* A catalog is built exactly when no contribution is wrong, of all of     *)
(* them and in the order asked for, and is refused at the first wrong one; *)
(* of the callers that register a key strictly at most one owns it, and    *)
(* its value is there.                                                     *)
THEOREM OwnershipFails == ContributionsSpec => []OwnershipFailsClosed
<1>1. CatalogInit /\ RegistryInit => CatalogInv /\ RegistryInv
  <2> SUFFICES ASSUME CatalogInit, RegistryInit PROVE CatalogInv /\ RegistryInv
    OBVIOUS
  <2>1. RegistryInv
    BY DEF RegistryInit, RegistryInv
  <2>2. /\ contributed \in Seq([key : RawKeys, value : Values]) /\ Len(contributed) = 0
        /\ built \in Seq({KeyOf([key |-> k]) : k \in RawKeys}) /\ Len(built) = 0
    BY DEF CatalogInit
  <2> QED
    BY <2>1, <2>2 DEF CatalogInit, CatalogInv, CatalogIsExact
<1>2. ASSUME CatalogInv, RegistryInv,
             [\/ CatalogNext /\ UNCHANGED regVars
              \/ RegistryNext /\ UNCHANGED catVars]_<<catVars, regVars>>
      PROVE  CatalogInv' /\ RegistryInv'
  <2>1. ASSUME UNCHANGED catVars PROVE CatalogInv'
    <3>1. /\ contributed' = contributed /\ setup' = setup /\ built' = built /\ keys' = keys
          /\ outcome' = outcome
      BY <2>1 DEF catVars
    <3>2. CatalogIsExact
      BY <1>2 DEF CatalogInv
    <3>3. CatalogIsExact'
      <4> DEFINE wrong == {i \in DOMAIN contributed :
                             \/ BadKey(KeyOf(contributed[i])) \/ BadValue(contributed[i].value)
                             \/ \E j \in 1..(i - 1) : KeyOf(contributed[j]) = KeyOf(contributed[i])}
                 found == {KeyOf(c) : c \in ToSet(contributed)}
      <4>1. wrong' = wrong
        BY <3>1 DEF KeyOf, BadKey, BadValue
      <4>2. found' = found
        BY <3>1 DEF KeyOf
      <4>3. \A i : LookupIn(contributed[i].key)' = LookupIn(contributed[i].key)
        BY <3>1 DEF LookupIn, KeyOf
      <4>4. \A i : LookupIn(keys[i])' = LookupIn(keys[i])
        BY <3>1 DEF LookupIn, KeyOf
      <4>5. CASE outcome = Undecided
        BY <3>1, <4>5 DEF CatalogIsExact
      <4>6. CASE outcome # Undecided /\ outcome.code = "invalid_spec"
        BY <3>1, <3>2, <4>6 DEF CatalogIsExact
      <4>7. CASE outcome # Undecided /\ outcome.code = "built"
        <5>1. /\ wrong = {} /\ ToSet(keys) = found
              /\ \A i \in DOMAIN contributed : LookupIn(contributed[i].key) = i
              /\ setup.sorts => \A i, j \in DOMAIN keys : i < j =>
                   \/ KeyRank[Trim(keys[i])] < KeyRank[Trim(keys[j])]
                   \/ /\ KeyRank[Trim(keys[i])] = KeyRank[Trim(keys[j])]
                      /\ LookupIn(keys[i]) < LookupIn(keys[j])
          BY <3>2, <4>7 DEF CatalogIsExact
        <5>2. (/\ wrong = {} /\ ToSet(keys) = found
               /\ \A i \in DOMAIN contributed : LookupIn(contributed[i].key) = i)'
          BY <3>1, <4>1, <4>2, <4>3, <5>1
        <5>3. (setup.sorts => \A i, j \in DOMAIN keys : i < j =>
                   \/ KeyRank[Trim(keys[i])] < KeyRank[Trim(keys[j])]
                   \/ /\ KeyRank[Trim(keys[i])] = KeyRank[Trim(keys[j])]
                      /\ LookupIn(keys[i]) < LookupIn(keys[j]))'
          BY <3>1, <4>4, <5>1
        <5> QED
          BY <3>1, <4>7, <5>2, <5>3 DEF CatalogIsExact
      <4>8. CASE outcome # Undecided /\ outcome.code \notin {"invalid_spec", "built"}
        <5>1. wrong # {} /\ outcome.at = Min(wrong)
          BY <3>2, <4>8 DEF CatalogIsExact
        <5>2. (wrong # {} /\ outcome.at = Min(wrong))'
          BY <3>1, <4>1, <5>1
        <5> QED
          BY <3>1, <4>8, <5>2 DEF CatalogIsExact
      <4> QED
        BY <4>5, <4>6, <4>7, <4>8
    <3> QED
      BY <1>2, <3>1, <3>3, RefusalKeeps
  <2>2. ASSUME UNCHANGED regVars PROVE RegistryInv'
    BY <1>2, <2>2 DEF regVars, RegistryInv
  <2> QED
    BY <1>2, <2>1, <2>2, CatalogStep, RegistryStep
<1>3. CatalogInv /\ RegistryInv => OwnershipFailsClosed
  BY RegistryOwners DEF CatalogInv, OwnershipFailsClosed
<1> QED
  BY <1>1, <1>2, <1>3, PTL DEF ContributionsSpec

-----------------------------------------------------------------------------
DecisionSpec == DecisionInit /\ [][DecisionNext]_decisionVars

(* Of what is ordered by ID and declaration there is a first.              *)
LEMMA FirstIsOne ==
  ASSUME NEW s, NEW S \in SUBSET Nat, S # {}, \A i \in S : Trim(s[i].id) \in Nat
  PROVE  \E i \in S : First(s, S) = s[i]
<1> DEFINE id(i) == Trim(s[i].id)
           known == {id(i) : i \in S}
<1>1. PICK low \in known : \A k \in known : low <= k
  <2>1. known \in SUBSET Nat /\ known # {}
    OBVIOUS
  <2> HIDE DEF known
  <2> QED
    BY <2>1, LeastExists
<1> DEFINE lowest == {i \in S : id(i) = low}
<1>2. PICK first \in lowest : \A i \in lowest : first <= i
  <2>1. lowest \in SUBSET Nat /\ lowest # {}
    BY <1>1
  <2> HIDE DEF lowest
  <2> QED
    BY <2>1, LeastExists
<1>3. \A j \in S : id(first) < id(j) \/ (id(first) = id(j) /\ first <= j)
  <2> TAKE j \in S
  <2>1. id(first) = low /\ low <= id(j) /\ id(j) \in Nat /\ low \in Nat
    BY <1>1, <1>2
  <2>2. id(j) = low => first <= j
    BY <1>2
  <2> QED
    BY <2>1, <2>2
<1>4. \E i \in S : \A j \in S : Precedes(s, i, j)
  BY <1>2, <1>3 DEF Precedes
<1> QED
  BY <1>4 DEF First

Ours == [decision : {"deny", "allow", "abstain"}, by : Nat]
Theirs == [decision : STRING, by : Nat] \cup {None}

LEMMA ByIsAnswer ==
  ASSUME NEW s, NEW S \in SUBSET Nat, S # {}, \A i \in S : Trim(s[i].id) \in Nat, NEW d
  PROVE  /\ By(s, S, d) = Answer(d, By(s, S, d).by)
         /\ \E i \in S : By(s, S, d).by = Trim(s[i].id)
<1>1. PICK i \in S : First(s, S) = s[i]
  BY FirstIsOne
<1> QED
  BY <1>1 DEF By, Answer

-----------------------------------------------------------------------------
(* What the aggregate answers, given one evaluator's answer and those of   *)
(* the others, of which some may be missing.                               *)
Harmless == {"allow", "abstain", "not_evaluated"}

LEMMA AggregateSays ==
  ASSUME NEW own \in Ours, NEW others \in Seq(Theirs), NEW v,
         v = Aggregate(<<own>> \o others)
  PROVE  /\ v.decision = "allow" =>
              /\ own.decision \in Harmless
              /\ \A i \in DOMAIN others : others[i] # None => others[i].decision \in Harmless
              /\ \/ own.decision = "allow"
                 \/ \E i \in DOMAIN others : others[i] # None /\ others[i].decision = "allow"
         /\ \/ v = own \/ v.by = Empty
            \/ \E i \in DOMAIN others : others[i] # None /\ v = others[i]
<1> DEFINE all == <<own>> \o others
           given == {i \in DOMAIN all : all[i] # None}
           deciding == {i \in given : all[i].decision \notin Harmless}
           allowing == {i \in given : all[i].decision = "allow"}
<1>1. PICK n \in Nat : n = Len(others) /\ DOMAIN others = 1..n
  OBVIOUS
<1>2. own # None
  BY DecisionAssumption DEF Ours
<1>3. /\ DOMAIN all = 1..(n + 1) /\ all[1] = own
      /\ \A i \in 1..n : all[i + 1] = others[i]
      /\ \A i \in 2..(n + 1) : i - 1 \in 1..n /\ all[i] = others[i - 1]
  BY <1>1
<1>4. v = CASE given = {} -> Answer("not_evaluated", Empty)
            [] deciding # {} -> IF all[Min(deciding)].decision = "deny"
                                THEN all[Min(deciding)] ELSE Failed
            [] given # {} /\ deciding = {} /\ allowing # {} -> all[Min(allowing)]
            [] OTHER -> Answer("abstain", Empty)
  BY DEF Aggregate, Harmless
<1> HIDE DEF all
<1>5. 1 \in given /\ \A i \in given : i \in 1..(n + 1)
  BY <1>2, <1>3
<1>6. \A i \in given : all[i] = own \/ \E k \in 1..n : others[k] # None /\ all[i] = others[k]
  BY <1>3
<1>7. /\ deciding # {} => Min(deciding) \in deciding
      /\ allowing # {} => Min(allowing) \in allowing
  <2>1. deciding \in SUBSET Nat /\ allowing \in SUBSET Nat
    BY <1>5
  <2> HIDE DEF deciding, allowing
  <2> QED
    BY <2>1, MinProperties
<1>8. CASE deciding # {}
  <2>1. v = IF all[Min(deciding)].decision = "deny" THEN all[Min(deciding)] ELSE Failed
    BY <1>4, <1>5, <1>8
  <2>2. Failed.decision = "error" /\ Failed.by = Empty
    BY DEF Failed, Answer
  <2>3. Min(deciding) \in given
    BY <1>7, <1>8
  <2> HIDE DEF deciding, allowing, given
  <2> QED
    BY <1>1, <1>6, <2>1, <2>2, <2>3
<1>9. CASE deciding = {} /\ allowing # {}
  <2>1. v = all[Min(allowing)]
    BY <1>4, <1>5, <1>9
  <2>2. Min(allowing) \in given /\ all[Min(allowing)].decision = "allow"
    BY <1>7, <1>9
  <2>3. own.decision \in Harmless
    BY <1>3, <1>5, <1>9
  <2>4. \A i \in 1..n : others[i] # None => others[i].decision \in Harmless
    <3> TAKE i \in 1..n
    <3>1. i + 1 \in DOMAIN all /\ all[i + 1] = others[i]
      BY <1>3
    <3> QED
      BY <1>9, <3>1
  <2> HIDE DEF deciding, allowing, given
  <2> QED
    BY <1>1, <1>6, <2>1, <2>2, <2>3, <2>4
<1>10. CASE deciding = {} /\ allowing = {}
  <2>1. v = Answer("abstain", Empty)
    BY <1>4, <1>5, <1>10
  <2> QED
    BY <2>1 DEF Answer
<1> QED
  BY <1>8, <1>9, <1>10

-----------------------------------------------------------------------------
(* The answer own of n policies ps, with the conditions as normal has them *)
(* and the context as each of them settles it.                             *)
SaidBy(own, ps, n, req, normal, contexts) ==
  /\ own \in Ours
  /\ own.decision = "abstain" => own.by = Empty
  /\ own.decision # "abstain" =>
       \E i \in 1..n : /\ ps[i].effect = own.decision /\ own.by = Trim(ps[i].id)
                       /\ MatchPolicy(ps[i], req, normal[i], contexts[i])
  /\ own.decision # "deny" => \A i \in 1..n :
       ps[i].effect = "deny" => ~MatchPolicy(ps[i], req, normal[i], contexts[i])

LEMMA PoliciesSay ==
  ASSUME NEW n \in Nat, NEW ps, DOMAIN ps = 1..n, \A i \in 1..n : Trim(ps[i].id) \in Nat,
         NEW req, NEW normal, NEW contexts, NEW own,
         own = EvaluatePolicies(ps, req, normal, contexts)
  PROVE  SaidBy(own, ps, n, req, normal, contexts)
<1> DEFINE M(e) == {i \in 1..n : ps[i].effect = e /\ MatchPolicy(ps[i], req, normal[i], contexts[i])}
<1>0. n \in Nat /\ \A i \in 1..n : Trim(ps[i].id) \in Nat
  OBVIOUS
<1>1. own = CASE M("deny") # {} -> By(ps, M("deny"), "deny")
              [] M("deny") = {} /\ M("allow") # {} -> By(ps, M("allow"), "allow")
              [] OTHER -> Answer("abstain", Empty)
  BY DEF EvaluatePolicies
<1>2. ASSUME NEW e \in {"deny", "allow"}, M(e) # {}
      PROVE  /\ By(ps, M(e), e) \in Ours /\ By(ps, M(e), e).decision = e
             /\ \E i \in M(e) : By(ps, M(e), e).by = Trim(ps[i].id)
  <2>1. PICK T \in SUBSET (1..n) : T = M(e) /\ T # {}
    BY <1>2
  <2>2. T \in SUBSET Nat /\ T # {} /\ \A i \in T : Trim(ps[i].id) \in Nat
    BY <1>0, <2>1
  <2> HIDE DEF M
  <2>3. /\ By(ps, T, e) = Answer(e, By(ps, T, e).by)
        /\ \E i \in T : By(ps, T, e).by = Trim(ps[i].id)
    BY <2>2, ByIsAnswer
  <2>4. PICK b \in Nat : b = By(ps, T, e).by
    BY <2>2, <2>3
  <2>5. By(ps, T, e) = [decision |-> e, by |-> b]
    BY <2>3, <2>4 DEF Answer
  <2>6. By(ps, T, e) \in Ours /\ By(ps, T, e).decision = e
    BY <2>5 DEF Ours
  <2> QED
    BY <2>1, <2>3, <2>6
<1>3. CASE M("deny") # {}
  <2>1. own = By(ps, M("deny"), "deny")
    BY <1>1, <1>3
  <2>2. own \in Ours /\ own.decision = "deny" /\ \E i \in M("deny") : own.by = Trim(ps[i].id)
    <3> HIDE DEF M
    <3> QED
      BY <1>2, <1>3, <2>1
  <2> QED
    BY <2>2 DEF SaidBy
<1>4. CASE M("deny") = {} /\ M("allow") # {}
  <2>1. own = By(ps, M("allow"), "allow")
    BY <1>1, <1>4
  <2>2. own \in Ours /\ own.decision = "allow" /\ \E i \in M("allow") : own.by = Trim(ps[i].id)
    <3> HIDE DEF M
    <3> QED
      BY <1>2, <1>4, <2>1
  <2> QED
    BY <1>4, <2>2 DEF SaidBy
<1>5. CASE M("deny") = {} /\ M("allow") = {}
  <2>1. own = Answer("abstain", Empty)
    BY <1>1, <1>5
  <2>2. own \in Ours /\ own.decision = "abstain" /\ own.by = Empty
    BY <2>1 DEF Answer, Ours, Empty
  <2> QED
    BY <1>5, <2>2 DEF SaidBy
<1> QED
  BY <1>3, <1>4, <1>5

(* What the rules say of an intent.                                        *)
LEMMA RulesSay ==
  ASSUME NEW top \in Nat, NEW rs, DOMAIN rs = 1..top, \A i \in 1..top : Trim(rs[i].id) \in Nat,
         \A i \in 1..top : rs[i].decision \in {"allow", "requires_review", "deny"},
         NEW intent, NEW fallback, NEW v, v = EvaluateMutation(rs, intent, fallback)
  PROVE  \/ /\ v = Answer(fallback, Empty)
            /\ \A i \in 1..top : ~MatchRule(rs[i], intent)
         \/ /\ \E i \in 1..top : v.by = Trim(rs[i].id)
            /\ v.decision \in {"allow", "requires_review", "deny"}
            /\ v.decision # "deny" =>
                 \A i \in 1..top : MatchRule(rs[i], intent) => rs[i].decision # "deny"
            /\ v.decision = "allow" =>
                 \A i \in 1..top : MatchRule(rs[i], intent) => rs[i].decision = "allow"
<1> DEFINE M(d) == {i \in 1..top : rs[i].decision = d /\ MatchRule(rs[i], intent)}
<1>0. \A i \in 1..top : Trim(rs[i].id) \in Nat
  OBVIOUS
<1>1. v = CASE M("deny") # {} -> By(rs, M("deny"), "deny")
            [] M("deny") = {} /\ M("requires_review") # {} ->
                 By(rs, M("requires_review"), "requires_review")
            [] M("deny") \cup M("requires_review") = {} /\ M("allow") # {} ->
                 By(rs, M("allow"), "allow")
            [] OTHER -> Answer(fallback, Empty)
  BY DEF EvaluateMutation
<1>2. ASSUME NEW d, M(d) # {}
      PROVE  By(rs, M(d), d).decision = d /\ \E i \in 1..top : By(rs, M(d), d).by = Trim(rs[i].id)
  <2>1. PICK T \in SUBSET (1..top) : T = M(d) /\ T # {}
    BY <1>2
  <2>2. T \in SUBSET Nat /\ T # {} /\ \A i \in T : Trim(rs[i].id) \in Nat
    BY <1>0, <2>1
  <2> HIDE DEF M
  <2>3. /\ By(rs, T, d) = Answer(d, By(rs, T, d).by)
        /\ \E i \in T : By(rs, T, d).by = Trim(rs[i].id)
    BY <2>2, ByIsAnswer
  <2>4. By(rs, T, d).decision = d
    <3>1. PICK b : b = By(rs, T, d).by
      OBVIOUS
    <3> QED
      BY <2>3, <3>1 DEF Answer
  <2> QED
    BY <2>1, <2>3, <2>4
<1>3. /\ \A i \in 1..top : MatchRule(rs[i], intent) => i \in M(rs[i].decision)
      /\ \A i \in 1..top : rs[i].decision \in {"allow", "requires_review", "deny"}
  OBVIOUS
<1> HIDE DEF M
<1>4. CASE M("deny") # {}
  <2>1. v = By(rs, M("deny"), "deny")
    BY <1>1, <1>4
  <2> QED
    BY <1>2, <1>4, <2>1
<1>5. CASE M("deny") = {} /\ M("requires_review") # {}
  <2>1. v = By(rs, M("requires_review"), "requires_review")
    BY <1>1, <1>5
  <2> QED
    BY <1>2, <1>3, <1>5, <2>1
<1>6. CASE M("deny") = {} /\ M("requires_review") = {} /\ M("allow") # {}
  <2>1. v = By(rs, M("allow"), "allow")
    BY <1>1, <1>6
  <2> QED
    BY <1>2, <1>3, <1>6, <2>1
<1>7. CASE M("deny") = {} /\ M("requires_review") = {} /\ M("allow") = {}
  <2>1. v = Answer(fallback, Empty)
    BY <1>1, <1>7
  <2> QED
    BY <1>3, <1>7, <2>1
<1> QED
  BY <1>4, <1>5, <1>6, <1>7

-----------------------------------------------------------------------------
DecisionInv ==
  /\ declared \in Seq(PolicyMenu) \/ declared \in Seq(RuleMenu)
  /\ question = None => verdict = None
  /\ CautionWins

LEMMA DeclaredFacts ==
  ASSUME DecisionInv
  PROVE  /\ Len(declared) \in Nat /\ DOMAIN declared = 1..Len(declared)
         /\ \A i \in 1..Len(declared) : Trim(declared[i].id) \in Nat
         /\ ToSet(declared) = {declared[i] : i \in 1..Len(declared)}
         /\ OfPolicies => declared \in Seq(PolicyMenu) /\ ~OfRules
         /\ OfRules => declared \in Seq(RuleMenu) /\ ~OfPolicies
<1>1. Len(declared) \in Nat /\ DOMAIN declared = 1..Len(declared)
  BY DEF DecisionInv
<1>2. \A i \in 1..Len(declared) : declared[i] \in PolicyMenu \cup RuleMenu
  BY DEF DecisionInv
<1>3. \A i \in 1..Len(declared) : Trim(declared[i].id) \in Nat
  BY <1>2, DecisionAssumption
<1>4. declared # <<>> => 1 \in 1..Len(declared)
  BY DEF DecisionInv
<1>5. OfPolicies => declared \in Seq(PolicyMenu) /\ ~OfRules
  BY <1>4, DecisionAssumption DEF DecisionInv, OfPolicies, OfRules
<1>6. OfRules => declared \in Seq(RuleMenu) /\ ~OfPolicies
  BY <1>4, DecisionAssumption DEF DecisionInv, OfPolicies, OfRules
<1> QED
  BY <1>1, <1>3, <1>5, <1>6 DEF ToSet

LEMMA AuthorizeIsCautious ==
  ASSUME DecisionInv, Authorize PROVE DecisionInv'
<1>1. /\ OfPolicies /\ question' \in QuestionMenu /\ rest' \in OtherEvaluators
      /\ declared' = declared /\ question' # None
  BY DecisionAssumption DEF Authorize
<1>2. PICK n \in Nat : n = Len(declared) /\ DOMAIN declared = 1..n
  BY DeclaredFacts
<1>3. /\ \A i \in 1..n : Trim(declared[i].id) \in Nat
      /\ ToSet(declared) = {declared[i] : i \in 1..n}
  BY <1>2, DeclaredFacts
<1>4. PICK contexts \in [DOMAIN declared -> NormalMaps(question'.context)],
           normal \in {f \in [DOMAIN declared -> UNION {NormalMaps(p.conditions) : p \in PolicyMenu}] :
                         \A i \in DOMAIN declared : f[i] \in NormalMaps(declared[i].conditions)} :
        verdict' = IF \E i \in DOMAIN declared : ~ValidPolicy(declared[i]) THEN Failed
                   ELSE Aggregate(<<EvaluatePolicies(declared, question', normal, contexts)>> \o rest')
  BY DEF Authorize
<1>5. \A i \in 1..n : /\ normal[i] \in NormalMaps(declared[i].conditions)
                      /\ contexts[i] \in NormalMaps(question'.context)
  BY <1>2, <1>4
<1>6. rest' \in Seq(Theirs)
  BY <1>1, DecisionAssumption DEF Theirs
<1>7. CautionWins'
  <2>1. CASE \E i \in DOMAIN declared : ~ValidPolicy(declared[i])
    <3>1. verdict'.decision = "error"
      BY <1>4, <2>1 DEF Failed, Answer
    <3> QED
      BY <1>1, <3>1 DEF CautionWins, OfPolicies
  <2>2. CASE \A i \in 1..n : ValidPolicy(declared[i])
    <3> DEFINE own == EvaluatePolicies(declared, question', normal, contexts)
    <3>1. verdict' = Aggregate(<<own>> \o rest')
      BY <1>2, <1>4, <2>2
    <3> HIDE DEF own
    <3>2. /\ own \in Ours
          /\ own.decision = "abstain" => own.by = Empty
          /\ own.decision # "abstain" =>
               \E i \in 1..n : /\ declared[i].effect = own.decision /\ own.by = Trim(declared[i].id)
                               /\ MatchPolicy(declared[i], question', normal[i], contexts[i])
          /\ own.decision # "deny" => \A i \in 1..n :
               declared[i].effect = "deny" => ~MatchPolicy(declared[i], question', normal[i], contexts[i])
      <4>1. PICK asked : asked = question'
        OBVIOUS
      <4>2. own = EvaluatePolicies(declared, asked, normal, contexts)
        BY <4>1 DEF own
      <4>3. DOMAIN declared = 1..n /\ \A i \in 1..n : Trim(declared[i].id) \in Nat
        BY <1>2, <1>3
      <4>4. SaidBy(own, declared, n, asked, normal, contexts)
        BY <4>2, <4>3, PoliciesSay
      <4> QED
        BY <4>1, <4>4 DEF SaidBy
    <3>3. /\ verdict'.decision = "allow" =>
                /\ own.decision \in Harmless
                /\ \A i \in DOMAIN rest' : rest'[i] # None => rest'[i].decision \in Harmless
                /\ \/ own.decision = "allow"
                   \/ \E i \in DOMAIN rest' : rest'[i] # None /\ rest'[i].decision = "allow"
          /\ \/ verdict' = own \/ verdict'.by = Empty
             \/ \E i \in DOMAIN rest' : rest'[i] # None /\ verdict' = rest'[i]
      BY <1>6, <3>1, <3>2, AggregateSays
    <3>4. \A i \in 1..n : MatchPolicy(declared[i], question', normal[i], contexts[i])
            => MayMatch(declared[i], question')
      BY <1>5 DEF MayMatch
    <3>5. \A i \in 1..n : MustMatch(declared[i], question')
            => MatchPolicy(declared[i], question', normal[i], contexts[i])
      BY <1>5 DEF MustMatch
    <3>6. verdict'.decision = "allow" =>
              /\ \A i \in DOMAIN rest' : rest'[i] # None =>
                   rest'[i].decision \in {"allow", "abstain", "not_evaluated"}
              /\ \/ \E i \in 1..n :
                      declared[i].effect = "allow" /\ MayMatch(declared[i], question')
                 \/ \E i \in DOMAIN rest' : rest'[i] # None /\ rest'[i].decision = "allow"
              /\ \A i \in 1..n :
                   /\ ValidPolicy(declared[i])
                   /\ declared[i].effect = "deny" => ~MustMatch(declared[i], question')
      <4> SUFFICES ASSUME verdict'.decision = "allow"
                   PROVE  /\ \A i \in DOMAIN rest' : rest'[i] # None =>
                               rest'[i].decision \in {"allow", "abstain", "not_evaluated"}
                          /\ \/ \E i \in 1..n :
                                  declared[i].effect = "allow" /\ MayMatch(declared[i], question')
                             \/ \E i \in DOMAIN rest' : rest'[i] # None /\ rest'[i].decision = "allow"
                          /\ \A i \in 1..n :
                               /\ ValidPolicy(declared[i])
                               /\ declared[i].effect = "deny" => ~MustMatch(declared[i], question')
        OBVIOUS
      <4>1. own.decision # "deny"
        BY <3>3 DEF Harmless
      <4>2. \A i \in 1..n : declared[i].effect = "deny" => ~MustMatch(declared[i], question')
        BY <3>2, <3>5, <4>1
      <4>3. own.decision = "allow" =>
              \E i \in 1..n : declared[i].effect = "allow" /\ MayMatch(declared[i], question')
        BY <3>2, <3>4
      <4> QED
        BY <2>2, <3>3, <4>2, <4>3 DEF Harmless
    <3>7. ASSUME verdict'.decision # "error", Blank(question'.module),
                 verdict'.by \in {Trim(x.id) : x \in ToSet(declared)},
                 verdict'.by \notin {rest'[i].by : i \in {j \in DOMAIN rest' : rest'[j] # None}}
          PROVE  \E x \in ToSet(declared) : Trim(x.id) = verdict'.by /\ Trim(x.module) = Star
      <4>1. verdict'.by # Empty
        BY <1>3, <2>2, <3>7 DEF ValidPolicy, Blank, Trim
      <4>2. verdict' = own /\ own.decision # "abstain"
        BY <3>2, <3>3, <3>7, <4>1
      <4>3. PICK i \in 1..n : /\ verdict'.by = Trim(declared[i].id)
                              /\ MatchPolicy(declared[i], question', normal[i], contexts[i])
        BY <3>2, <4>2
      <4>4. Trim(declared[i].module) = Star
        BY <3>7, <4>3 DEF MatchPolicy, MatchesModule
      <4> QED
        BY <1>3, <4>3, <4>4
    <3> QED
      BY <1>1, <1>2, <3>6, <3>7 DEF CautionWins, OfPolicies
  <2> QED
    BY <1>2, <2>1, <2>2
<1> QED
  BY <1>1, <1>7 DEF DecisionInv

LEMMA GovernIsCautious ==
  ASSUME DecisionInv, Govern PROVE DecisionInv'
<1>1. /\ OfRules /\ question' \in IntentMenu /\ declared' = declared /\ question' # None
      /\ ~OfPolicies /\ ~OfPolicies'
  BY DeclaredFacts, DecisionAssumption DEF Govern, OfPolicies
<1>2. PICK n \in Nat : n = Len(declared) /\ DOMAIN declared = 1..n
  BY DeclaredFacts
<1>3. \A i \in 1..n : Trim(declared[i].id) \in Nat
  BY <1>2, DeclaredFacts
<1>4. PICK default \in GateDefaults :
        /\ rest' = <<default>>
        /\ verdict' = IF \/ default \notin {"allow", "requires_review", "deny"}
                         \/ \E i \in DOMAIN declared : ~ValidRule(declared[i])
                         \/ ~ValidIntent(question')
                      THEN Failed ELSE EvaluateMutation(declared, question', default)
  BY DEF Govern
<1>5. CautionWins'
  <2>1. CASE verdict' = Failed
    <3>1. verdict'.decision = "error"
      BY <2>1 DEF Failed, Answer
    <3> QED
      BY <1>1, <3>1 DEF CautionWins
  <2>2. CASE /\ \A i \in 1..n : ValidRule(declared[i])
             /\ verdict' = EvaluateMutation(declared, question', default)
    <3>1. \A i \in 1..n : declared[i].decision \in {"allow", "requires_review", "deny"}
      BY <2>2 DEF ValidRule
    <3>2. \/ /\ verdict' = Answer(default, Empty)
             /\ \A i \in 1..n : ~MatchRule(declared[i], question')
          \/ /\ \E i \in 1..n : verdict'.by = Trim(declared[i].id)
             /\ verdict'.decision \in {"allow", "requires_review", "deny"}
             /\ verdict'.decision # "deny" =>
                  \A i \in 1..n : MatchRule(declared[i], question') => declared[i].decision # "deny"
             /\ verdict'.decision = "allow" =>
                  \A i \in 1..n : MatchRule(declared[i], question') => declared[i].decision = "allow"
      <4> DEFINE said == EvaluateMutation(declared, question', default)
      <4>1. DOMAIN declared = 1..n /\ n \in Nat
        BY <1>2
      <4>2. \/ /\ said = Answer(default, Empty)
               /\ \A i \in 1..n : ~MatchRule(declared[i], question')
            \/ /\ \E i \in 1..n : said.by = Trim(declared[i].id)
               /\ said.decision \in {"allow", "requires_review", "deny"}
               /\ said.decision # "deny" =>
                    \A i \in 1..n : MatchRule(declared[i], question') => declared[i].decision # "deny"
               /\ said.decision = "allow" =>
                    \A i \in 1..n : MatchRule(declared[i], question') => declared[i].decision = "allow"
        BY <1>3, <3>1, <4>1, RulesSay
      <4>3. verdict' = said
        BY <2>2
      <4> HIDE DEF said
      <4> QED
        BY <4>2, <4>3
    <3>3. CASE /\ verdict' = Answer(default, Empty)
               /\ \A i \in 1..n : ~MatchRule(declared[i], question')
      <4>1. verdict'.decision = default
        BY <3>3 DEF Answer
      <4> QED
        BY <1>1, <1>2, <1>4, <3>3, <4>1 DEF CautionWins
    <3>4. CASE /\ \E i \in 1..n : verdict'.by = Trim(declared[i].id)
               /\ verdict'.decision \in {"allow", "requires_review", "deny"}
               /\ verdict'.decision # "deny" =>
                    \A i \in 1..n : MatchRule(declared[i], question') => declared[i].decision # "deny"
               /\ verdict'.decision = "allow" =>
                    \A i \in 1..n : MatchRule(declared[i], question') => declared[i].decision = "allow"
      <4>1. verdict'.by # Empty
        BY <2>2, <3>4 DEF ValidRule, Blank, Trim
      <4> QED
        BY <1>1, <1>2, <3>4, <4>1 DEF CautionWins
    <3> QED
      BY <3>2, <3>3, <3>4
  <2> QED
    BY <1>2, <1>4, <2>1, <2>2
<1> QED
  BY <1>1, <1>5 DEF DecisionInv

LEMMA DecisionStep ==
  ASSUME DecisionInv, [DecisionNext]_decisionVars PROVE DecisionInv'
<1>1. CASE Declare
  <2>1. question = None /\ verdict = None /\ UNCHANGED <<question, rest, verdict>>
    BY <1>1 DEF Declare, DecisionInv
  <2>2. declared' \in Seq(PolicyMenu) \/ declared' \in Seq(RuleMenu)
    <3>1. CASE declared = <<>>
      <4>1. PICK x \in PolicyMenu \cup RuleMenu : declared' = <<x>>
        BY <1>1, <3>1 DEF Declare
      <4> QED
        BY <4>1
    <3>2. CASE OfPolicies
      <4>1. declared \in Seq(PolicyMenu) /\ ~OfRules
        BY <3>2, DeclaredFacts
      <4>2. PICK p \in PolicyMenu : declared' = Append(declared, p)
        BY <1>1, <3>2, <4>1 DEF Declare, OfPolicies, OfRules
      <4> QED
        BY <4>1, <4>2, AppendProperties
    <3>3. CASE OfRules
      <4>1. declared \in Seq(RuleMenu) /\ ~OfPolicies
        BY <3>3, DeclaredFacts
      <4>2. PICK r \in RuleMenu : declared' = Append(declared, r)
        BY <1>1, <3>3, <4>1 DEF Declare, OfPolicies, OfRules
      <4> QED
        BY <4>1, <4>2, AppendProperties
    <3> QED
      BY <1>1, <3>1, <3>2, <3>3 DEF Declare, OfPolicies, OfRules
  <2> QED
    BY <2>1, <2>2 DEF DecisionInv, CautionWins
<1>2. CASE Authorize
  BY <1>2, AuthorizeIsCautious
<1>3. CASE Govern
  BY <1>3, GovernIsCautious
<1>4. CASE UNCHANGED decisionVars
  BY <1>4 DEF decisionVars, DecisionInv, CautionWins, OfPolicies
<1> QED
  BY <1>1, <1>2, <1>3, <1>4 DEF DecisionNext

(* Whatever policies, rules and answers are given and in whatever order,   *)
(* nobody passes unless something allowed it, nothing failed, and no       *)
(* policy denies it however its own pairs and the request's are settled;   *)
(* and no mutation passes a rule that denies it or wants a review.         *)
THEOREM CautionAlwaysWins == DecisionSpec => []CautionWins
<1>1. DecisionInit => DecisionInv
  BY DEF DecisionInit, DecisionInv, CautionWins
<1>2. DecisionInv /\ [DecisionNext]_decisionVars => DecisionInv'
  BY DecisionStep
<1>3. DecisionInv => CautionWins
  BY DEF DecisionInv
<1> QED
  BY <1>1, <1>2, <1>3, PTL DEF DecisionSpec

-----------------------------------------------------------------------------
RuleSpec == RuleInit /\ [][RuleNext]_ruleVars

Rule == [priority : Priorities, matches : BOOLEAN, order : Nat \ {0}]

Rank(R) == {p \in R \X R : Outranks(p[1], p[2])}

(* Rules of different registration.                                        *)
Told(R) == /\ R \subseteq Rule /\ IsFiniteSet(R)
           /\ \A a, b \in R : a.order = b.order => a = b

LEMMA RankOrders ==
  ASSUME NEW R, Told(R) PROVE Orders(Rank(R), R)
<1>1. \A a \in R : a.priority \in Int /\ a.order \in Nat
  BY RuleAssumption DEF Told, Rule
<1>2. \A a, b \in R : <<a, b>> \in Rank(R) <=> Outranks(a, b)
  BY DEF Rank
<1>3. \A a \in R : ~Outranks(a, a)
  BY <1>1 DEF Outranks
<1>4. \A a, b, c \in R : Outranks(a, b) /\ Outranks(b, c) => Outranks(a, c)
  BY <1>1 DEF Outranks
<1>5. \A a, b \in R : a # b => Outranks(a, b) \/ Outranks(b, a)
  BY <1>1 DEF Outranks, Told
<1> QED
  BY <1>2, <1>3, <1>4, <1>5 DEF Orders

(* Sort puts every rule of a set in one place, those that outrank it in    *)
(* front of it.                                                            *)
LEMMA SortProperties ==
  ASSUME NEW R, Told(R)
  PROVE  /\ Cardinality(R) \in Nat
         /\ Sort(R) \in [1..Cardinality(R) -> R]
         /\ \A i, j \in 1..Cardinality(R) : i < j => Outranks(Sort(R)[i], Sort(R)[j])
         /\ \A r \in R : \E i \in 1..Cardinality(R) : Sort(R)[i] = r
<1>0. IsFiniteSet(R)
  BY DEF Told
<1>1. Orders(Rank(R), R)
  BY RankOrders
<1>2. /\ Cardinality(R) \in Nat
      /\ \A n \in 1..Cardinality(R) : Ranked(Rank(R), R, n) \in R
      /\ \A m, n \in 1..Cardinality(R) :
           m < n => <<Ranked(Rank(R), R, m), Ranked(Rank(R), R, n)>> \in Rank(R)
      /\ \A x \in R : \E n \in 1..Cardinality(R) : Ranked(Rank(R), R, n) = x
  BY <1>0, <1>1, RankedProperties
<1>3. \A r \in R : Below(Rank(R), R, r) = {s \in R : Outranks(s, r)}
  BY DEF Below, Rank
<1>4. Sort(R) = [n \in 1..Cardinality(R) |-> Ranked(Rank(R), R, n)]
  BY <1>3 DEF Sort, Ranked
<1>5. \A a, b : <<a, b>> \in Rank(R) => Outranks(a, b)
  BY DEF Rank
<1>6. \A n \in 1..Cardinality(R) : Sort(R)[n] = Ranked(Rank(R), R, n)
  BY <1>4
<1>7. Sort(R) \in [1..Cardinality(R) -> R]
  BY <1>2, <1>4
<1> QED
  BY <1>2, <1>5, <1>6, <1>7

(* The first match of a sorted set is the match no other match outranks.   *)
LEMMA BestMatches ==
  ASSUME NEW R, Told(R), NEW r \in R, r.matches,
         \A s \in R : s.matches /\ s # r => Outranks(r, s)
  PROVE  FirstMatch(Sort(R)) = r.order
<1> DEFINE line == Sort(R)
           size == Cardinality(R)
           hits == {i \in DOMAIN line : line[i].matches}
<1>1. /\ size \in Nat
      /\ line \in [1..size -> R]
      /\ \A i, j \in 1..size : i < j => Outranks(line[i], line[j])
      /\ \A x \in R : \E i \in 1..size : line[i] = x
  BY SortProperties
<1>2. FirstMatch(line) = IF hits = {} THEN Fallback ELSE line[Min(hits)].order
  BY DEF FirstMatch
<1>3. \A a \in R : a.priority \in Int /\ a.order \in Nat
  BY RuleAssumption DEF Told, Rule
<1> HIDE DEF line, size
<1>4. PICK k \in 1..size : line[k] = r
  BY <1>1
<1>5. hits \in SUBSET Nat /\ k \in hits
  BY <1>1, <1>4
<1>6. Min(hits) \in hits /\ \A n \in hits : Min(hits) <= n
  <2> HIDE DEF hits
  <2> QED
    BY <1>5, MinProperties
<1>7. Min(hits) \in 1..size /\ line[Min(hits)].matches /\ line[Min(hits)] \in R
  BY <1>1, <1>6
<1>8. Min(hits) = k
  <2> SUFFICES ASSUME Min(hits) # k PROVE FALSE
    OBVIOUS
  <2>1. Min(hits) < k
    BY <1>1, <1>4, <1>5, <1>6, <1>7
  <2>2. Outranks(line[Min(hits)], r)
    BY <1>1, <1>4, <1>7, <2>1
  <2>3. line[Min(hits)] # r
    BY <1>3, <2>2 DEF Outranks
  <2>4. Outranks(r, line[Min(hits)])
    BY <1>7, <2>3
  <2> QED
    BY <1>3, <1>7, <2>2, <2>4 DEF Outranks
<1> QED
  BY <1>2, <1>4, <1>5, <1>8 DEF line

LEMMA NothingMatches ==
  ASSUME NEW R, Told(R), \A s \in R : ~s.matches
  PROVE  FirstMatch(Sort(R)) = Fallback
<1>1. Sort(R) \in [1..Cardinality(R) -> R]
  BY SortProperties
<1>2. {i \in DOMAIN Sort(R) : Sort(R)[i].matches} = {}
  BY <1>1
<1> QED
  BY <1>2 DEF FirstMatch

-----------------------------------------------------------------------------
(* The rules are numbered by registration, each number once.               *)
RulesInv ==
  /\ rules \in Seq(Rule)
  /\ \A i \in 1..Len(rules) : rules[i].order <= Len(rules)
  /\ \A i, j \in 1..Len(rules) : rules[i].order = rules[j].order => i = j

(* The first m rules lie in rank and are the first m registered; the later *)
(* ones lie as registered.                                                 *)
Settled(m) ==
  /\ \A i \in 1..m : rules[i].order <= m
  /\ \A i, j \in 1..m : i < j => Outranks(rules[i], rules[j])
  /\ \A i \in (m + 1)..Len(rules) : rules[i].order = i

(* Whoever is about to copy is owed no more than what lies in rank.        *)
LineInv ==
  \E m \in 0..Len(rules) :
    /\ Settled(m)
    /\ sorted => m = Len(rules)
    /\ \A e \in Evaluators : evaluation[e].at = "copying" => evaluation[e].atLeast <= m

EvaluationInv ==
  /\ evaluation \in [Evaluators -> [at : {"idle", "called", "unsorted", "copying", "answered"},
                                    atLeast : Nat, answer : Nat]]
  /\ \A e \in Evaluators : evaluation[e].atLeast <= Len(rules)

RuleInv ==
  /\ RulesInv /\ sorted \in BOOLEAN /\ EvaluationInv /\ LineInv
  /\ RuleAnswerLinearizable

(* The rules registered first.                                             *)
Early(n) == {r \in ToSet(rules) : r.order <= n}

LEMMA RulesTold ==
  ASSUME RulesInv
  PROVE  /\ ToSet(rules) = {rules[i] : i \in 1..Len(rules)}
         /\ Told(ToSet(rules))
         /\ Cardinality(ToSet(rules)) = Len(rules)
         /\ \A n : Told(Early(n))
<1>1. /\ rules \in Seq(Rule) /\ Len(rules) \in Nat /\ DOMAIN rules = 1..Len(rules)
      /\ \A i \in 1..Len(rules) : rules[i] \in Rule
  BY DEF RulesInv
<1>2. ToSet(rules) = {rules[i] : i \in 1..Len(rules)}
  BY <1>1 DEF ToSet
<1>3. \A i, j \in 1..Len(rules) : rules[i].order = rules[j].order => i = j
  BY DEF RulesInv
<1> DEFINE set == ToSet(rules)
           lie == [i \in 1..Len(rules) |-> rules[i]]
<1>4. lie \in Bijection(1..Len(rules), set)
  <2>1. lie \in [1..Len(rules) -> set]
    BY <1>2
  <2>2. \A i, j \in 1..Len(rules) : lie[i] = lie[j] => i = j
    BY <1>3
  <2>3. \A r \in set : \E i \in 1..Len(rules) : lie[i] = r
    BY <1>2
  <2> HIDE DEF lie, set
  <2>4. lie \in Injection(1..Len(rules), set)
    BY <2>1, <2>2, Fun_IsInj
  <2>5. lie \in Surjection(1..Len(rules), set)
    BY <2>1, <2>3, Fun_IsSurj
  <2> QED
    BY <2>4, <2>5 DEF Bijection
<1>5. IsFiniteSet(1..Len(rules)) /\ Cardinality(1..Len(rules)) = Len(rules)
  <2>1. PICK n \in Nat : n = Len(rules)
    BY <1>1
  <2>2. IsFiniteSet(1..n) /\ Cardinality(1..n) = n
    BY FS_Interval
  <2> QED
    BY <2>1, <2>2
<1>6. IsFiniteSet(set) /\ Cardinality(set) = Len(rules)
  <2> HIDE DEF lie, set
  <2>1. ExistsBijection(1..Len(rules), set)
    BY <1>4 DEF ExistsBijection
  <2> QED
    BY <1>5, <2>1, FS_Bijection
<1>7. Told(set)
  BY <1>1, <1>2, <1>3, <1>6 DEF Told
<1>8. ASSUME NEW n PROVE Told(Early(n))
  <2>1. Early(n) \subseteq set
    BY DEF Early
  <2>2. IsFiniteSet(Early(n))
    <3> HIDE DEF set
    <3> QED
      BY <1>6, <2>1, FS_Subset
  <2> QED
    BY <1>7, <2>1, <2>2 DEF Told
<1> QED
  BY <1>2, <1>6, <1>7, <1>8

-----------------------------------------------------------------------------
(* The answers that are right: for some number of rules registered between *)
(* the call and now.                                                       *)
Right(answer, least) ==
  \E n \in least..Len(rules) : answer = FirstMatch(Sort(Early(n)))

(* What a copy of the rules answers.                                       *)
LEMMA CopyIsRight ==
  ASSUME RulesInv, NEW m \in 0..Len(rules), Settled(m), NEW least \in 0..m
  PROVE  FirstMatch(rules) \in Nat /\ Right(FirstMatch(rules), least)
<1>1. /\ Len(rules) \in Nat /\ DOMAIN rules = 1..Len(rules)
      /\ \A i \in 1..Len(rules) : rules[i] \in Rule
  BY DEF RulesInv
<1>2. \A i \in 1..Len(rules) : rules[i].order \in Nat \ {0} /\ rules[i].priority \in Int
  BY <1>1, RuleAssumption DEF Rule
<1>3. ToSet(rules) = {rules[i] : i \in 1..Len(rules)} /\ \A n : Told(Early(n))
  BY RulesTold
<1>4. /\ \A i \in 1..m : rules[i].order <= m
      /\ \A i, j \in 1..m : i < j => Outranks(rules[i], rules[j])
      /\ \A i \in (m + 1)..Len(rules) : rules[i].order = i
  BY DEF Settled
<1> DEFINE hits == {i \in 1..Len(rules) : rules[i].matches}
<1>5. FirstMatch(rules) = IF hits = {} THEN Fallback ELSE rules[Min(hits)].order
  BY <1>1 DEF FirstMatch
<1>6. CASE hits = {}
  <2>1. \A r \in Early(Len(rules)) : ~r.matches
    BY <1>3, <1>6 DEF Early
  <2>2. FirstMatch(Sort(Early(Len(rules)))) = Fallback
    BY <1>3, <2>1, NothingMatches
  <2>3. Len(rules) \in least..Len(rules)
    BY <1>1
  <2> QED
    BY <1>5, <1>6, <2>2, <2>3 DEF Right, Fallback
<1>7. CASE hits # {}
  <2>1. Min(hits) \in hits /\ \A i \in hits : Min(hits) <= i
    <3>1. hits \in SUBSET Nat
      BY <1>1
    <3> HIDE DEF hits
    <3> QED
      BY <1>7, <3>1, MinProperties
  <2>2. PICK k \in 1..Len(rules) : k = Min(hits)
    BY <2>1
  <2>3. /\ rules[k].matches
        /\ \A i \in 1..Len(rules) : rules[i].matches => k <= i
        /\ FirstMatch(rules) = rules[k].order
    BY <1>5, <1>7, <2>1, <2>2
  <2> HIDE DEF hits
  <2>4. CASE k <= m
    <3>1. rules[k] \in Early(m)
      BY <1>1, <1>3, <1>4, <2>4, <1>2 DEF Early
    <3>2. ASSUME NEW s \in Early(m), s.matches, s # rules[k]
          PROVE  Outranks(rules[k], s)
      <4>1. PICK i \in 1..Len(rules) : s = rules[i]
        BY <1>3 DEF Early
      <4>2. i <= m
        BY <1>4, <1>2, <4>1 DEF Early
      <4>3. k < i
        BY <2>3, <3>2, <4>1
      <4> QED
        BY <1>4, <2>4, <4>1, <4>2, <4>3
    <3>3. FirstMatch(Sort(Early(m))) = rules[k].order
      BY <1>3, <2>3, <3>1, <3>2, BestMatches
    <3>4. m \in least..Len(rules)
      BY <1>1
    <3> QED
      BY <1>2, <2>3, <3>3, <3>4 DEF Right
  <2>5. CASE m < k
    <3>1. rules[k].order = k
      BY <1>1, <1>4, <2>5
    <3>2. rules[k] \in Early(k)
      BY <1>3, <3>1 DEF Early
    <3>3. ASSUME NEW s \in Early(k), s.matches, s # rules[k]
          PROVE  Outranks(rules[k], s)
      <4>1. PICK i \in 1..Len(rules) : s = rules[i]
        BY <1>3 DEF Early
      <4>2. k < i
        BY <2>3, <3>3, <4>1
      <4>3. rules[i].order = i
        BY <1>1, <1>4, <2>5, <4>2
      <4> QED
        BY <3>3, <4>1, <4>2, <4>3 DEF Early
    <3>4. FirstMatch(Sort(Early(k))) = rules[k].order
      BY <1>3, <2>3, <3>2, <3>3, BestMatches
    <3>5. k \in least..Len(rules)
      BY <1>1, <2>5
    <3> QED
      BY <1>2, <2>3, <3>4, <3>5 DEF Right
  <2> QED
    BY <1>1, <2>4, <2>5
<1> QED
  BY <1>6, <1>7

LEMMA LinearizableByCall ==
  RuleAnswerLinearizable <=>
    \A e \in Evaluators :
      evaluation[e].at = "answered" => Right(evaluation[e].answer, evaluation[e].atLeast)
  BY DEF RuleAnswerLinearizable, Right, Early

(* A registration adds one rule, behind all others.                        *)
LEMMA RegistrationKeeps ==
  ASSUME RuleInv, NEW p \in Priorities, NEW matches \in BOOLEAN, RegisterRule(p, matches)
  PROVE  RuleInv'
<1> DEFINE new == [priority |-> p, matches |-> matches, order |-> Len(rules) + 1]
<1>1. PICK n \in Nat : n = Len(rules)
  BY DEF RuleInv, RulesInv
<1>2. /\ rules \in Seq(Rule) /\ rules' = Append(rules, new)
      /\ sorted' = FALSE /\ evaluation' = evaluation
  BY DEF RuleInv, RulesInv, RegisterRule
<1>3. new \in Rule /\ new.order = n + 1
  BY <1>1 DEF Rule
<1> HIDE DEF new
<1>4. /\ rules' \in Seq(Rule) /\ Len(rules') = n + 1 /\ rules'[n + 1] = new
      /\ \A i \in 1..n : rules'[i] = rules[i]
  BY <1>1, <1>2, <1>3, AppendProperties
<1>5. \A i \in 1..n : rules[i].order \in Nat /\ rules[i].order <= n
  <2>1. \A i \in 1..n : rules[i] \in Rule
    BY <1>1, <1>2
  <2> QED
    BY <1>1, <2>1 DEF RuleInv, RulesInv, Rule
<1>6. RulesInv'
  <2>1. /\ \A i \in 1..n : rules[i].order <= n
        /\ \A i, j \in 1..n : rules[i].order = rules[j].order => i = j
    BY <1>1 DEF RuleInv, RulesInv
  <2>2. \A i \in 1..(n + 1) : i \in 1..n \/ i = n + 1
    BY <1>1
  <2>3. \A i \in 1..(n + 1) : rules'[i].order <= n + 1
    BY <1>3, <1>4, <1>5, <2>2
  <2>4. \A i, j \in 1..(n + 1) : rules'[i].order = rules'[j].order => i = j
    <3> SUFFICES ASSUME NEW i \in 1..(n + 1), NEW j \in 1..(n + 1),
                        rules'[i].order = rules'[j].order
                 PROVE  i = j
      OBVIOUS
    <3>1. CASE i \in 1..n /\ j \in 1..n
      BY <1>4, <2>1, <3>1
    <3>2. CASE i = n + 1 /\ j \in 1..n
      BY <1>3, <1>4, <1>5, <3>2
    <3>3. CASE i \in 1..n /\ j = n + 1
      BY <1>3, <1>4, <1>5, <3>3
    <3> QED
      BY <2>2, <3>1, <3>2, <3>3
  <2> QED
    BY <1>4, <2>3, <2>4 DEF RulesInv
<1>7. EvaluationInv'
  BY <1>1, <1>2, <1>4 DEF RuleInv, EvaluationInv
<1>8. LineInv'
  <2>1. PICK m \in 0..n :
          /\ Settled(m)
          /\ \A e \in Evaluators : evaluation[e].at = "copying" => evaluation[e].atLeast <= m
    BY <1>1 DEF RuleInv, LineInv
  <2>2. Settled(m)'
    BY <1>1, <1>3, <1>4, <2>1 DEF Settled
  <2> QED
    BY <1>2, <1>4, <2>1, <2>2 DEF LineInv
<1>9. \A k \in 0..n : Early(k)' = Early(k)
  <2>1. /\ ToSet(rules) = {rules[i] : i \in 1..n}
        /\ ToSet(rules)' = {rules'[i] : i \in 1..(n + 1)}
    BY <1>1, <1>2, <1>4 DEF ToSet
  <2>2. ToSet(rules)' = ToSet(rules) \cup {new}
    BY <1>4, <2>1
  <2> QED
    BY <1>3, <2>2 DEF Early
<1>10. RuleAnswerLinearizable'
  <2>1. \A e \in Evaluators : evaluation[e].atLeast \in Nat
    BY DEF RuleInv, EvaluationInv
  <2>2. \A e \in Evaluators : evaluation[e].at = "answered" =>
          \E k \in evaluation[e].atLeast..n : evaluation[e].answer = FirstMatch(Sort(Early(k)))
    BY <1>1, LinearizableByCall DEF RuleInv, Right
  <2>3. ASSUME NEW e \in Evaluators, evaluation[e].at = "answered"
        PROVE  \E k \in evaluation[e].atLeast..(n + 1) :
                 evaluation[e].answer = FirstMatch(Sort({r \in ToSet(rules') : r.order <= k}))
    <3>1. PICK k \in evaluation[e].atLeast..n : evaluation[e].answer = FirstMatch(Sort(Early(k)))
      BY <2>2, <2>3
    <3>2. {r \in ToSet(rules') : r.order <= k} = Early(k)
      BY <1>9, <2>1 DEF Early
    <3>3. k \in evaluation[e].atLeast..(n + 1)
      BY <2>1
    <3> QED
      BY <3>1, <3>2, <3>3
  <2> QED
    BY <1>2, <1>4, <2>3 DEF RuleAnswerLinearizable, Early
<1> QED
  BY <1>2, <1>6, <1>7, <1>8, <1>10 DEF RuleInv

Call == [at : {"idle", "called", "unsorted", "copying", "answered"}, atLeast : Nat, answer : Nat]

(* A step of one call that leaves the rules alone.                         *)
LEMMA CallStepKeeps ==
  ASSUME RuleInv, UNCHANGED <<rules, sorted>>, NEW e \in Evaluators, NEW d \in Call,
         evaluation' = [evaluation EXCEPT ![e] = d],
         d.atLeast <= Len(rules), d.at # "copying",
         d.at = "answered" => Right(d.answer, d.atLeast)
  PROVE  RuleInv'
<1>1. /\ evaluation \in [Evaluators -> Call]
      /\ \A x \in Evaluators : evaluation[x].atLeast <= Len(rules)
  BY DEF RuleInv, EvaluationInv, Call
<1>2. \A x \in Evaluators : evaluation'[x] = IF x = e THEN d ELSE evaluation[x]
  BY <1>1
<1>3. EvaluationInv'
  <2>1. evaluation' \in [Evaluators -> Call]
    BY <1>1
  <2>2. \A x \in Evaluators : evaluation'[x].atLeast <= Len(rules)
    BY <1>1, <1>2
  <2> QED
    BY <2>1, <2>2 DEF EvaluationInv, Call
<1>4. LineInv'
  <2>1. PICK m \in 0..Len(rules) :
          /\ Settled(m) /\ (sorted => m = Len(rules))
          /\ \A x \in Evaluators : evaluation[x].at = "copying" => evaluation[x].atLeast <= m
    BY DEF RuleInv, LineInv
  <2>2. Settled(m)'
    BY <2>1 DEF Settled
  <2>3. \A x \in Evaluators : evaluation'[x].at = "copying" => evaluation'[x].atLeast <= m
    BY <1>2, <2>1
  <2> QED
    BY <2>1, <2>2, <2>3 DEF LineInv
<1>5. RuleAnswerLinearizable'
  <2>1. \A x \in Evaluators :
          evaluation[x].at = "answered" => Right(evaluation[x].answer, evaluation[x].atLeast)
    BY LinearizableByCall DEF RuleInv
  <2>2. \A x \in Evaluators :
          evaluation'[x].at = "answered" => Right(evaluation'[x].answer, evaluation'[x].atLeast)
    BY <1>2, <2>1
  <2> QED
    BY <2>2 DEF RuleAnswerLinearizable, Right, Early
<1>6. RulesInv' /\ sorted' \in BOOLEAN
  BY DEF RuleInv, RulesInv
<1> QED
  BY <1>3, <1>4, <1>5, <1>6 DEF RuleInv

(* Sorting puts the rules in rank, all of them, and loses none.            *)
LEMMA SortingKeeps ==
  ASSUME RuleInv, NEW e \in Evaluators, EvaluateSort(e) PROVE RuleInv'
<1>1. PICK n \in Nat : n = Len(rules)
  BY DEF RuleInv, RulesInv
<1>2. /\ rules' = IF sorted THEN rules ELSE Sort(ToSet(rules))
      /\ sorted' = TRUE /\ evaluation' = [evaluation EXCEPT ![e].at = "copying"]
      /\ evaluation \in [Evaluators -> Call]
      /\ \A x \in Evaluators : evaluation[x].atLeast <= n
  BY <1>1 DEF EvaluateSort, Move, RuleInv, EvaluationInv, Call
<1>3. /\ ToSet(rules) = {rules[i] : i \in 1..n} /\ Told(ToSet(rules))
      /\ Cardinality(ToSet(rules)) = n
  BY <1>1, RulesTold DEF RuleInv
<1>4. /\ rules \in Seq(Rule) /\ \A i \in 1..n : rules[i] \in Rule
      /\ \A i \in 1..n : rules[i].order <= n
      /\ \A i, j \in 1..n : rules[i].order = rules[j].order => i = j
  BY <1>1 DEF RuleInv, RulesInv
<1>5. /\ rules' \in [1..n -> ToSet(rules)]
      /\ \A i, j \in 1..n : i < j => Outranks(rules'[i], rules'[j])
      /\ \A r \in ToSet(rules) : \E i \in 1..n : rules'[i] = r
  <2>1. CASE sorted
    <3>1. Settled(n)
      BY <1>1, <2>1 DEF RuleInv, LineInv
    <3>2. rules \in [1..n -> ToSet(rules)]
      BY <1>1, <1>3, <1>4
    <3> QED
      BY <1>2, <1>3, <2>1, <3>1, <3>2 DEF Settled
  <2>2. CASE ~sorted
    <3>1. /\ Sort(ToSet(rules)) \in [1..n -> ToSet(rules)]
          /\ \A i, j \in 1..n : i < j => Outranks(Sort(ToSet(rules))[i], Sort(ToSet(rules))[j])
          /\ \A r \in ToSet(rules) : \E i \in 1..n : Sort(ToSet(rules))[i] = r
      <4>1. Told(ToSet(rules)) /\ Cardinality(ToSet(rules)) = n
        BY <1>3
      <4> QED
        BY <4>1, SortProperties
    <3>2. rules' = Sort(ToSet(rules))
      BY <1>2, <2>2
    <3> QED
      BY <3>1, <3>2
  <2> QED
    BY <2>1, <2>2
<1>6. ToSet(rules) \subseteq Rule
  BY <1>3 DEF Told
<1>7. rules' \in Seq(Rule) /\ Len(rules') = n /\ ToSet(rules') = ToSet(rules)
  <2>1. rules' \in [1..n -> Rule]
    BY <1>5, <1>6
  <2>2. rules' \in Seq(Rule) /\ Len(rules') = n /\ DOMAIN rules' = 1..n
    BY <2>1, SeqDef
  <2>3. ToSet(rules') = {rules'[i] : i \in 1..n}
    BY <2>2 DEF ToSet
  <2> QED
    BY <1>5, <2>2, <2>3
<1>8. \A i \in 1..n : rules'[i].order <= n
  <2>1. \A r \in ToSet(rules) : r.order <= n
    BY <1>3, <1>4
  <2>2. \A i \in 1..n : rules'[i] \in ToSet(rules)
    BY <1>5
  <2> QED
    BY <2>1, <2>2
<1>9. \A i, j \in 1..n : rules'[i].order = rules'[j].order => i = j
  <2>0. \A i \in 1..n : \E a \in 1..n : rules[a] = rules'[i]
    <3>1. \A i \in 1..n : rules'[i] \in {rules[a] : a \in 1..n}
      BY <1>3, <1>5
    <3> QED
      BY <3>1
  <2>1. ASSUME NEW i \in 1..n, NEW j \in 1..n, rules'[i].order = rules'[j].order PROVE ~(i < j)
    <3>1. PICK a \in 1..n : rules[a] = rules'[i]
      BY <2>0
    <3>2. PICK b \in 1..n : rules[b] = rules'[j]
      BY <2>0
    <3>3. rules'[i] = rules'[j] /\ rules'[i] \in Rule
      BY <1>4, <2>1, <3>1, <3>2
    <3>4. rules'[i].priority \in Int /\ rules'[i].order \in Nat
      BY <3>3, RuleAssumption DEF Rule
    <3>5. ~Outranks(rules'[i], rules'[j])
      BY <3>3, <3>4 DEF Outranks
    <3> QED
      BY <1>5, <3>5
  <2> QED
    BY <2>1
<1>10. RulesInv'
  BY <1>7, <1>8, <1>9 DEF RulesInv
<1>11. Settled(n)'
  BY <1>5, <1>7, <1>8 DEF Settled
<1>12. \A x \in Evaluators :
         /\ evaluation'[x].atLeast = evaluation[x].atLeast
         /\ evaluation'[x].answer = evaluation[x].answer
         /\ evaluation'[x].at = IF x = e THEN "copying" ELSE evaluation[x].at
  BY <1>2 DEF Call
<1>13. evaluation' \in [Evaluators -> Call]
  <2>1. [evaluation[e] EXCEPT !.at = "copying"] \in Call
    BY <1>2 DEF Call
  <2> QED
    BY <1>2, <2>1
<1>14. EvaluationInv'
  BY <1>2, <1>7, <1>12, <1>13 DEF EvaluationInv, Call
<1>15. LineInv'
  <2>1. n \in 0..Len(rules')
    BY <1>7
  <2>2. \A x \in Evaluators : evaluation'[x].atLeast <= n
    BY <1>2, <1>12
  <2> QED
    BY <1>7, <1>11, <2>1, <2>2 DEF LineInv
<1>16. RuleAnswerLinearizable'
  <2>1. \A x \in Evaluators : evaluation[x].at = "answered" =>
          \E k \in evaluation[x].atLeast..n :
            evaluation[x].answer = FirstMatch(Sort({r \in ToSet(rules) : r.order <= k}))
    BY <1>1 DEF RuleInv, RuleAnswerLinearizable
  <2> QED
    BY <1>7, <1>12, <2>1 DEF RuleAnswerLinearizable
<1> QED
  BY <1>2, <1>10, <1>14, <1>15, <1>16 DEF RuleInv

LEMMA RuleStep ==
  ASSUME RuleInv, [RuleNext]_ruleVars PROVE RuleInv'
<1>1. /\ evaluation \in [Evaluators -> Call] /\ Len(rules) \in Nat
      /\ \A e \in Evaluators : evaluation[e].atLeast <= Len(rules)
  BY DEF RuleInv, RulesInv, EvaluationInv, Call
<1>2. ASSUME NEW p \in Priorities, NEW matches \in BOOLEAN, RegisterRule(p, matches)
      PROVE  RuleInv'
  BY <1>2, RegistrationKeeps
<1>3. ASSUME NEW e \in Evaluators, EvaluateStart(e) PROVE RuleInv'
  <2> DEFINE d == [evaluation[e] EXCEPT !.at = "called", !.atLeast = Len(rules)]
  <2>1. /\ d \in Call /\ d.at = "called" /\ d.atLeast = Len(rules)
        /\ evaluation' = [evaluation EXCEPT ![e] = d] /\ UNCHANGED <<rules, sorted>>
    BY <1>1, <1>3 DEF EvaluateStart, Call
  <2> HIDE DEF d
  <2>2. d.atLeast <= Len(rules) /\ d.at # "copying" /\ d.at # "answered"
    BY <1>1, <2>1
  <2> QED
    BY <2>1, <2>2, CallStepKeeps
<1>4. ASSUME NEW e \in Evaluators, EvaluateSort(e) PROVE RuleInv'
  BY <1>4, SortingKeeps
<1>5. ASSUME NEW e \in Evaluators, EvaluateDone(e) PROVE RuleInv'
  <2>1. /\ Idling \in Call /\ Idling.at = "idle" /\ Idling.atLeast = 0
        /\ evaluation' = [evaluation EXCEPT ![e] = Idling] /\ UNCHANGED <<rules, sorted>>
    BY <1>5 DEF EvaluateDone, Idling, Fallback, Call
  <2>2. Idling.atLeast <= Len(rules) /\ Idling.at # "copying" /\ Idling.at # "answered"
    BY <1>1, <2>1
  <2> QED
    BY <2>1, <2>2, CallStepKeeps
<1>6. ASSUME NEW e \in Evaluators, NEW m \in 0..Len(rules), Settled(m),
             evaluation[e].atLeast <= m, Answered(e), UNCHANGED <<rules, sorted>>
      PROVE  RuleInv'
  <2> DEFINE d == [evaluation[e] EXCEPT !.at = "answered", !.answer = FirstMatch(rules)]
  <2>0. PICK least \in 0..m : least = evaluation[e].atLeast
    BY <1>1, <1>6 DEF Call
  <2>1. FirstMatch(rules) \in Nat /\ Right(FirstMatch(rules), least)
    BY <1>6, CopyIsRight DEF RuleInv
  <2>2. /\ d \in Call /\ d.at = "answered" /\ d.atLeast = least /\ d.answer = FirstMatch(rules)
        /\ evaluation' = [evaluation EXCEPT ![e] = d]
    BY <1>1, <1>6, <2>0, <2>1 DEF Answered, Call
  <2>3. least <= Len(rules)
    BY <1>1, <2>0
  <2> HIDE DEF d
  <2> QED
    BY <1>6, <2>1, <2>2, <2>3, CallStepKeeps
<1>7. ASSUME NEW e \in Evaluators, EvaluateLook(e) PROVE RuleInv'
  <2>1. CASE sorted
    <3>1. Len(rules) \in 0..Len(rules) /\ Settled(Len(rules))
      BY <1>1, <2>1 DEF RuleInv, LineInv
    <3>2. Answered(e) /\ UNCHANGED <<rules, sorted>>
      BY <1>7, <2>1 DEF EvaluateLook
    <3> QED
      BY <1>1, <1>6, <3>1, <3>2
  <2>2. CASE ~sorted
    <3> DEFINE d == [evaluation[e] EXCEPT !.at = "unsorted"]
    <3>1. /\ d \in Call /\ d.at = "unsorted" /\ d.atLeast = evaluation[e].atLeast
          /\ evaluation' = [evaluation EXCEPT ![e] = d] /\ UNCHANGED <<rules, sorted>>
      BY <1>1, <1>7, <2>2 DEF EvaluateLook, Move, Call
    <3> HIDE DEF d
    <3> QED
      BY <1>1, <3>1, CallStepKeeps
  <2> QED
    BY <2>1, <2>2
<1>8. ASSUME NEW e \in Evaluators, EvaluateCopy(e) PROVE RuleInv'
  <2>1. PICK m \in 0..Len(rules) :
          /\ Settled(m)
          /\ \A x \in Evaluators : evaluation[x].at = "copying" => evaluation[x].atLeast <= m
    BY DEF RuleInv, LineInv
  <2>2. evaluation[e].at = "copying" /\ Answered(e) /\ UNCHANGED <<rules, sorted>>
    BY <1>8 DEF EvaluateCopy
  <2> QED
    BY <1>6, <2>1, <2>2
<1>9. CASE UNCHANGED ruleVars
  BY <1>9 DEF ruleVars, RuleInv, RulesInv, EvaluationInv, LineInv, Settled, RuleAnswerLinearizable
<1> QED
  BY <1>2, <1>3, <1>4, <1>5, <1>7, <1>8, <1>9 DEF RuleNext

LEMMA RuleStarts == RuleInit => RuleInv
<1> SUFFICES ASSUME RuleInit PROVE RuleInv
  OBVIOUS
<1>1. /\ rules \in Seq(Rule) /\ Len(rules) = 0 /\ sorted = FALSE
      /\ evaluation = [e \in Evaluators |-> Idling]
  BY DEF RuleInit
<1>2. RulesInv
  BY <1>1 DEF RulesInv
<1>3. EvaluationInv
  BY <1>1 DEF EvaluationInv, Idling, Fallback
<1>4. Settled(0)
  BY <1>1 DEF Settled
<1>5. LineInv
  BY <1>1, <1>4 DEF LineInv, Idling
<1>6. RuleAnswerLinearizable
  BY <1>1 DEF RuleAnswerLinearizable, Idling
<1> QED
  BY <1>1, <1>2, <1>3, <1>5, <1>6 DEF RuleInv

(* The rules that lie in rank are the first of those registered, and a     *)
(* call that is about to copy the rules finds in rank at least those that  *)
(* were there when it began.                                               *)
THEOREM RuleInvariant == RuleSpec => []RuleInv
<1>1. RuleInv /\ [RuleNext]_ruleVars => RuleInv'
  BY RuleStep
<1> QED
  BY <1>1, RuleStarts, PTL DEF RuleSpec

(* However calls and registrations interleave, an answer is that of the    *)
(* matching rule of highest priority among the rules of some moment of the *)
(* call.                                                                   *)
THEOREM AnswersLinearizable == RuleSpec => []RuleAnswerLinearizable
<1>1. RuleInv => RuleAnswerLinearizable
  BY DEF RuleInv
<1> QED
  BY <1>1, RuleInvariant, PTL

-----------------------------------------------------------------------------
HealthSpec == HealthInit /\ [][HealthNext]_healthVars

Entry == [name : Names, checker : Checkers]

(* The entries s are what the registrations r left: each of their names    *)
(* once, in the order in which it came first, with its last checker.       *)
Mirrors(s, r) ==
  /\ \A j \in 1..Len(r) : \E i \in 1..Len(s) : s[i].name = r[j].name
  /\ \A i \in 1..Len(s) : \E j \in 1..Len(r) :
       r[j] = s[i] /\ \A k \in (j + 1)..Len(r) : r[k].name # s[i].name
  /\ \A i, j \in 1..Len(s) : i < j =>
       \E k \in 1..Len(r) : r[k].name = s[i].name /\ \A m \in 1..k : r[m].name # s[j].name

LEMMA MirrorsNames ==
  ASSUME NEW s \in Seq(Entry), NEW r \in Seq(Entry), Mirrors(s, r)
  PROVE  /\ \A i, j \in 1..Len(s) : s[i].name = s[j].name => i = j
         /\ Len(s) <= Cardinality(Names)
<1>1. PICK n \in Nat : n = Len(s)
  OBVIOUS
<1>2. ASSUME NEW i \in 1..n, NEW j \in 1..n, i < j PROVE s[i].name # s[j].name
  <2>1. PICK k \in 1..Len(r) : r[k].name = s[i].name /\ \A m \in 1..k : r[m].name # s[j].name
    <3>1. \A x, y \in 1..Len(s) : x < y =>
            \E k \in 1..Len(r) : r[k].name = s[x].name /\ \A m \in 1..k : r[m].name # s[y].name
      BY DEF Mirrors
    <3> QED
      BY <1>1, <1>2, <3>1
  <2>2. k \in 1..k
    OBVIOUS
  <2> QED
    BY <2>1, <2>2
<1>3. \A i, j \in 1..n : s[i].name = s[j].name => i = j
  BY <1>2
<1> DEFINE name == [i \in 1..n |-> s[i].name]
<1>4. name \in [1..n -> Names]
  <2>1. \A i \in 1..n : s[i] \in Entry
    BY <1>1
  <2> QED
    BY <2>1 DEF Entry
<1>5. \A i, j \in 1..n : name[i] = name[j] => i = j
  BY <1>3
<1>6. name \in Injection(1..n, Names)
  <2> HIDE DEF name
  <2> QED
    BY <1>4, <1>5, Fun_IsInj
<1>7. IsFiniteSet(Names) /\ IsFiniteSet(1..n) /\ Cardinality(1..n) = n
  BY HealthAssumption, FS_Interval
<1>8. Cardinality(1..n) <= Cardinality(Names)
  <2> HIDE DEF name
  <2> QED
    BY <1>6, <1>7, FS_Injection
<1> QED
  BY <1>1, <1>3, <1>7, <1>8

(* A registration keeps the place of its name, or takes the next.          *)
Registered(s, e) ==
  IF \E i \in DOMAIN s : s[i].name = e.name
  THEN [i \in DOMAIN s |-> IF s[i].name = e.name THEN e ELSE s[i]]
  ELSE Append(s, e)

LEMMA RegistrationMirrored ==
  ASSUME NEW s \in Seq(Entry), NEW r \in Seq(Entry), Mirrors(s, r), NEW e \in Entry
  PROVE  Registered(s, e) \in Seq(Entry) /\ Mirrors(Registered(s, e), Append(r, e))
<1> DEFINE t == Registered(s, e)
           u == Append(r, e)
           n == Len(s)
           q == Len(r)
<1>1. n \in Nat /\ n = Len(s) /\ DOMAIN s = 1..n
  OBVIOUS
<1>2. q \in Nat /\ q = Len(r)
  OBVIOUS
<1>3. Len(u) = q + 1 /\ u[q + 1] = e /\ \A j \in 1..q : u[j] = r[j]
  BY <1>2, AppendProperties
<1> HIDE DEF u, t
<1>4. \A j \in 1..q : \E i \in 1..n : s[i].name = r[j].name
  BY DEF Mirrors
<1>5. \A i \in 1..n : \E j \in 1..q :
        r[j] = s[i] /\ \A k \in (j + 1)..q : r[k].name # s[i].name
  BY DEF Mirrors
<1>6. \A i, j \in 1..n : i < j =>
        \E k \in 1..q : r[k].name = s[i].name /\ \A m \in 1..k : r[m].name # s[j].name
  BY DEF Mirrors
<1> n \in Nat /\ q \in Nat
  BY <1>1, <1>2
<1> HIDE DEF n, q
<1>7. CASE \E i \in 1..n : s[i].name = e.name
  <2>1. t = [i \in 1..n |-> IF s[i].name = e.name THEN e ELSE s[i]]
    BY <1>1, <1>7 DEF t, Registered
  <2>2. \A i \in 1..n : s[i] \in Entry
    BY <1>1
  <2>3. t \in [1..n -> Entry]
    BY <2>1, <2>2
  <2>4. t \in Seq(Entry) /\ Len(t) = n
    BY <2>3, SeqDef
  <2>5. \A i \in 1..n : t[i].name = s[i].name /\ t[i] = IF s[i].name = e.name THEN e ELSE s[i]
    BY <2>1
  <2>6. \A j \in 1..(q + 1) : \E i \in 1..n : t[i].name = u[j].name
    <3> TAKE j \in 1..(q + 1)
    <3>1. CASE j \in 1..q
      <4>1. PICK i \in 1..n : s[i].name = r[j].name
        BY <1>4, <3>1
      <4> QED
        BY <1>3, <2>5, <3>1, <4>1
    <3>2. CASE j = q + 1
      BY <1>3, <1>7, <2>5, <3>2
    <3> QED
      BY <3>1, <3>2
  <2>7. \A i \in 1..n : \E j \in 1..(q + 1) :
          u[j] = t[i] /\ \A k \in (j + 1)..(q + 1) : u[k].name # t[i].name
    <3> TAKE i \in 1..n
    <3>1. CASE s[i].name = e.name
      <4>1. q + 1 \in 1..(q + 1) /\ u[q + 1] = t[i] /\ (q + 1 + 1)..(q + 1) = {}
        BY <1>3, <2>5, <3>1
      <4> QED
        BY <4>1
    <3>2. CASE s[i].name # e.name
      <4>1. PICK j \in 1..q : r[j] = s[i] /\ \A k \in (j + 1)..q : r[k].name # s[i].name
        BY <1>5
      <4>2. \A k \in (j + 1)..(q + 1) : k \in (j + 1)..q \/ k = q + 1
        OBVIOUS
      <4>3. \A k \in (j + 1)..q : u[k] = r[k]
        BY <1>3
      <4>4. \A k \in (j + 1)..(q + 1) : u[k].name # t[i].name
        BY <1>3, <2>5, <3>2, <4>1, <4>2, <4>3
      <4>5. j \in 1..(q + 1) /\ u[j] = t[i]
        BY <1>3, <2>5, <3>2, <4>1
      <4> QED
        BY <4>4, <4>5
    <3> QED
      BY <3>1, <3>2
  <2>8. \A i, j \in 1..n : i < j =>
          \E k \in 1..(q + 1) : u[k].name = t[i].name /\ \A m \in 1..k : u[m].name # t[j].name
    <3> SUFFICES ASSUME NEW i \in 1..n, NEW j \in 1..n, i < j
                 PROVE  \E k \in 1..(q + 1) :
                          u[k].name = t[i].name /\ \A m \in 1..k : u[m].name # t[j].name
      OBVIOUS
    <3>1. PICK k \in 1..q : r[k].name = s[i].name /\ \A m \in 1..k : r[m].name # s[j].name
      BY <1>6
    <3>2. k \in 1..(q + 1) /\ \A m \in 1..k : u[m] = r[m]
      BY <1>3
    <3>3. u[k].name = t[i].name /\ \A m \in 1..k : u[m].name # t[j].name
      BY <1>3, <2>5, <3>1, <3>2
    <3> QED
      BY <3>2, <3>3
  <2>9. t \in Seq(Entry) /\ Mirrors(t, u)
    BY <1>3, <2>4, <2>6, <2>7, <2>8 DEF Mirrors
  <2> QED
    BY <2>9 DEF t, u
<1>8. CASE \A i \in 1..n : s[i].name # e.name
  <2>1. t = Append(s, e)
    BY <1>1, <1>8 DEF t, Registered
  <2>2. /\ t \in Seq(Entry) /\ Len(t) = n + 1 /\ t[n + 1] = e
        /\ \A i \in 1..n : t[i] = s[i]
    BY <1>1, <2>1, AppendProperties
  <2>3. \A j \in 1..q : r[j].name # e.name
    BY <1>4, <1>8
  <2>4. \A j \in 1..(q + 1) : \E i \in 1..(n + 1) : t[i].name = u[j].name
    <3> TAKE j \in 1..(q + 1)
    <3>1. CASE j \in 1..q
      <4>1. PICK i \in 1..n : s[i].name = r[j].name
        BY <1>4, <3>1
      <4>2. i \in 1..(n + 1) /\ t[i].name = u[j].name
        BY <1>3, <2>2, <3>1, <4>1
      <4> QED
        BY <4>2
    <3>2. CASE j = q + 1
      <4>1. n + 1 \in 1..(n + 1)
        OBVIOUS
      <4> QED
        BY <1>3, <2>2, <3>2, <4>1
    <3> QED
      BY <3>1, <3>2
  <2>5. \A i \in 1..(n + 1) : \E j \in 1..(q + 1) :
          u[j] = t[i] /\ \A k \in (j + 1)..(q + 1) : u[k].name # t[i].name
    <3> TAKE i \in 1..(n + 1)
    <3>1. CASE i = n + 1
      <4>1. q + 1 \in 1..(q + 1) /\ u[q + 1] = t[i] /\ (q + 1 + 1)..(q + 1) = {}
        BY <1>3, <2>2, <3>1
      <4> QED
        BY <4>1
    <3>2. CASE i \in 1..n
      <4>1. PICK j \in 1..q : r[j] = s[i] /\ \A k \in (j + 1)..q : r[k].name # s[i].name
        BY <1>5, <3>2
      <4>2. \A k \in (j + 1)..(q + 1) : k \in (j + 1)..q \/ k = q + 1
        OBVIOUS
      <4>3. \A k \in (j + 1)..q : u[k] = r[k]
        BY <1>3
      <4>4. \A k \in (j + 1)..(q + 1) : u[k].name # t[i].name
        BY <1>3, <1>8, <2>2, <3>2, <4>1, <4>2, <4>3
      <4>5. j \in 1..(q + 1) /\ u[j] = t[i]
        BY <1>3, <2>2, <3>2, <4>1
      <4> QED
        BY <4>4, <4>5
    <3> QED
      BY <3>1, <3>2
  <2>6. \A i, j \in 1..(n + 1) : i < j =>
          \E k \in 1..(q + 1) : u[k].name = t[i].name /\ \A m \in 1..k : u[m].name # t[j].name
    <3> SUFFICES ASSUME NEW i \in 1..(n + 1), NEW j \in 1..(n + 1), i < j
                 PROVE  \E k \in 1..(q + 1) :
                          u[k].name = t[i].name /\ \A m \in 1..k : u[m].name # t[j].name
      OBVIOUS
    <3>0. i \in 1..n /\ t[i] = s[i] /\ (j = n + 1 \/ j \in 1..n)
      BY <2>2
    <3>1. CASE j \in 1..n
      <4>1. PICK k \in 1..q : r[k].name = s[i].name /\ \A m \in 1..k : r[m].name # s[j].name
        BY <1>6, <3>0, <3>1
      <4>2. k \in 1..(q + 1) /\ \A m \in 1..k : u[m] = r[m]
        BY <1>3
      <4>3. u[k].name = t[i].name /\ \A m \in 1..k : u[m].name # t[j].name
        BY <1>3, <2>2, <3>0, <3>1, <4>1, <4>2
      <4> QED
        BY <4>2, <4>3
    <3>2. CASE j = n + 1
      <4>1. PICK k \in 1..q : r[k] = s[i]
        BY <1>5, <3>0
      <4>2. k \in 1..(q + 1) /\ \A m \in 1..k : u[m] = r[m] /\ m \in 1..q
        BY <1>3
      <4>3. u[k].name = t[i].name /\ \A m \in 1..k : u[m].name # t[j].name
        BY <2>2, <2>3, <3>0, <3>2, <4>1, <4>2
      <4> QED
        BY <4>2, <4>3
    <3> QED
      BY <3>0, <3>1, <3>2
  <2>9. t \in Seq(Entry) /\ Mirrors(t, u)
    BY <1>3, <2>2, <2>4, <2>5, <2>6 DEF Mirrors
  <2> QED
    BY <2>9 DEF t, u
<1> QED
  BY <1>1, <1>7, <1>8 DEF t

LEMMA MaxIs ==
  ASSUME NEW T \in SUBSET Nat, NEW m \in T, \A k \in T : k <= m PROVE Max(T) = m
<1>1. \A x \in T : (\A y \in T : x >= y) => x = m
  OBVIOUS
<1>2. \A y \in T : m >= y
  OBVIOUS
<1> QED
  BY <1>1, <1>2 DEF Max

LEMMA MirrorsMeans ==
  ASSUME NEW s \in Seq(Entry), NEW r \in Seq(Entry), Mirrors(s, r)
  PROVE  LET last(name) == r[Max({j \in DOMAIN r : r[j].name = name})]
             place(name) == Min({j \in DOMAIN r : r[j].name = name})
         IN /\ {s[i].name : i \in DOMAIN s} = {e.name : e \in ToSet(r)}
            /\ \A i \in DOMAIN s : s[i] = last(s[i].name)
            /\ \A i, j \in DOMAIN s : i < j => place(s[i].name) < place(s[j].name)
<1> DEFINE at(name) == {j \in DOMAIN r : r[j].name = name}
           n == Len(s)
           q == Len(r)
<1>1. n \in Nat /\ n = Len(s) /\ DOMAIN s = 1..n
  OBVIOUS
<1>2. q \in Nat /\ q = Len(r) /\ DOMAIN r = 1..q
  OBVIOUS
<1>0. \A name, j : j \in at(name) <=> j \in 1..q /\ r[j].name = name
  BY <1>2
<1>3. \A j \in 1..q : \E i \in 1..n : s[i].name = r[j].name
  BY DEF Mirrors
<1>4. \A i \in 1..n : \E j \in 1..q :
        r[j] = s[i] /\ \A k \in (j + 1)..q : r[k].name # s[i].name
  BY DEF Mirrors
<1>5. \A i, j \in 1..n : i < j =>
        \E k \in 1..q : r[k].name = s[i].name /\ \A m \in 1..k : r[m].name # s[j].name
  BY DEF Mirrors
<1> n \in Nat /\ q \in Nat
  BY <1>1, <1>2
<1> HIDE DEF n, q
<1>6. {s[i].name : i \in DOMAIN s} = {e.name : e \in ToSet(r)}
  <2>1. ToSet(r) = {r[j] : j \in 1..q}
    BY <1>2 DEF ToSet
  <2>2. \A i \in 1..n : s[i].name \in {e.name : e \in ToSet(r)}
    <3> TAKE i \in 1..n
    <3>1. PICK j \in 1..q : r[j] = s[i]
      BY <1>4
    <3> QED
      BY <2>1, <3>1
  <2>3. \A e \in ToSet(r) : e.name \in {s[i].name : i \in 1..n}
    BY <1>3, <2>1
  <2> QED
    BY <1>1, <2>2, <2>3
<1>9. \A name : at(name) \in SUBSET Nat
  <2> HIDE DEF at
  <2> QED
    BY <1>0
<1>7. \A i \in DOMAIN s : s[i] = r[Max(at(s[i].name))]
  <2> SUFFICES ASSUME NEW i \in 1..n PROVE s[i] = r[Max(at(s[i].name))]
    BY <1>1
  <2> HIDE DEF at
  <2>1. PICK j \in 1..q : r[j] = s[i] /\ \A k \in (j + 1)..q : r[k].name # s[i].name
    BY <1>4
  <2>2. PICK T \in SUBSET Nat : T = at(s[i].name)
    BY <1>9
  <2>3. j \in T
    BY <1>0, <2>1, <2>2
  <2>4. \A k \in T : k <= j
    <3> TAKE k \in T
    <3>1. k \in 1..q /\ r[k].name = s[i].name
      BY <1>0, <2>2
    <3>2. k \notin (j + 1)..q
      BY <2>1, <3>1
    <3> QED
      BY <3>1, <3>2
  <2>5. Max(T) = j
    BY <2>3, <2>4, MaxIs
  <2> QED
    BY <2>1, <2>2, <2>5
<1>8. \A i, j \in DOMAIN s : i < j => Min(at(s[i].name)) < Min(at(s[j].name))
  <2> SUFFICES ASSUME NEW i \in 1..n, NEW j \in 1..n, i < j
               PROVE  Min(at(s[i].name)) < Min(at(s[j].name))
    BY <1>1
  <2> HIDE DEF at
  <2>1. PICK k \in 1..q : r[k].name = s[i].name /\ \A m \in 1..k : r[m].name # s[j].name
    BY <1>5
  <2>2. PICK T \in SUBSET Nat : T = at(s[i].name)
    BY <1>9
  <2>3. PICK U \in SUBSET Nat : U = at(s[j].name)
    BY <1>9
  <2>4. k \in T
    BY <1>0, <2>1, <2>2
  <2>5. PICK l \in 1..q : r[l] = s[j]
    BY <1>4
  <2>6. l \in U
    BY <1>0, <2>3, <2>5
  <2>7. Min(T) \in T /\ Min(T) <= k
    BY <2>4, MinProperties
  <2>8. Min(U) \in U
    BY <2>6, MinProperties
  <2>9. Min(U) \in 1..q /\ r[Min(U)].name = s[j].name
    BY <1>0, <2>3, <2>8
  <2>10. k < Min(U)
    <3>1. Min(U) \notin 1..k
      BY <2>1, <2>9
    <3> QED
      BY <2>9, <3>1
  <2>11. Min(T) \in Nat /\ Min(U) \in Nat
    BY <2>7, <2>8
  <2>12. Min(T) < Min(U)
    BY <2>7, <2>10, <2>11
  <2> QED
    BY <2>2, <2>3, <2>12
<1> QED
  BY <1>6, <1>7, <1>8

-----------------------------------------------------------------------------
Result == [name : Names, why : Answers \cup {"timeout"}]
CheckState == [at : {"idle", "looping", "waiting", "calling", "reported"},
               snapshot : Seq(Entry), report : Seq(Result), timeUp : BOOLEAN, cancelled : BOOLEAN]

HealthTypeOK ==
  /\ registered \in Seq(Entry) /\ registrations \in Seq(Entry)
  /\ check \in [Probers -> CheckState]
  /\ channel \in [Probes -> Answers \cup {NoAnswer}]
  /\ probe \in [Probes -> Answers \cup {"none", "running", "gone"}]
  /\ answered \in [Probes -> Answers \cup {NoAnswer}]

(* What a Check looks at was registered at one moment.                     *)
Known(n) == SubSeq(registrations, 1, n)

SnapshotInv ==
  /\ Mirrors(registered, registrations)
  /\ \A c \in Probers : \E n \in 0..Len(registrations) : Mirrors(check[c].snapshot, Known(n))

(* A Check goes on while there are entries left.                           *)
Paced(c) ==
  LET k == check[c]
      size == Len(k.report)
  IN /\ size <= Len(k.snapshot)
     /\ k.at = "idle" => size = 0
     /\ k.at \in {"waiting", "calling"} => size < Len(k.snapshot)
     /\ k.at = "reported" => size = Len(k.snapshot)
     /\ k.at = "waiting" => k.snapshot[size + 1].checker.timed

(* A goroutine is there for a checker only once it is asked.               *)
Asked(c) ==
  \A i \in Places :
    Len(check[c].report) < i /\ (check[c].at = "waiting" => i # Len(check[c].report) + 1) =>
      probe[<<c, i>>] = "none"

(* An answer is in one place at a time, and is what the checker did.       *)
Carried(c) ==
  \A i \in Places :
    /\ channel[<<c, i>>] # NoAnswer =>
         probe[<<c, i>>] = "gone" /\ answered[<<c, i>>] = channel[<<c, i>>]
    /\ probe[<<c, i>>] \in Answers => answered[<<c, i>>] = probe[<<c, i>>]

(* What was reported is what the checker did, and it does no more.         *)
Truthful(c) ==
  LET k == check[c] IN
  \A i \in 1..Len(k.report) :
    /\ k.report[i].name = k.snapshot[i].name
    /\ k.report[i].why # "timeout" =>
         k.report[i].why = answered[<<c, i>>] /\ probe[<<c, i>>] \in {"none", "gone"}
    /\ k.report[i].why = "timeout" => k.snapshot[i].checker.timed

CheckInv(c) == Paced(c) /\ Asked(c) /\ Carried(c) /\ Truthful(c)

HealthInv == HealthTypeOK /\ SnapshotInv /\ \A c \in Probers : CheckInv(c)

LEMMA HealthFacts ==
  ASSUME HealthTypeOK, SnapshotInv, NEW c \in Probers, CheckInv(c)
  PROVE  /\ check[c] \in CheckState
         /\ check[c].snapshot \in Seq(Entry) /\ check[c].report \in Seq(Result)
         /\ Len(check[c].snapshot) \in Nat /\ Len(check[c].report) \in Nat
         /\ Cardinality(Names) \in Nat
         /\ 1..Len(check[c].snapshot) \subseteq Places
         /\ \A i \in Places : <<c, i>> \in Probes
         /\ \A i \in 1..Len(check[c].snapshot) : check[c].snapshot[i] \in Entry
<1>1. /\ check[c] \in CheckState
      /\ check[c].snapshot \in Seq(Entry) /\ check[c].report \in Seq(Result)
  BY DEF HealthTypeOK, CheckState
<1>2. /\ Len(check[c].snapshot) \in Nat /\ Len(check[c].report) \in Nat
      /\ \A i \in 1..Len(check[c].snapshot) : check[c].snapshot[i] \in Entry
  BY <1>1
<1>3. Cardinality(Names) \in Nat
  BY HealthAssumption, FS_CardinalityType
<1>4. Len(check[c].snapshot) <= Cardinality(Names)
  <2>1. PICK n \in 0..Len(registrations) : Mirrors(check[c].snapshot, Known(n))
    BY DEF SnapshotInv
  <2>2. Known(n) \in Seq(Entry)
    BY SubSeqProperties DEF HealthTypeOK, Known
  <2> QED
    BY <1>1, <2>1, <2>2, MirrorsNames
<1> QED
  BY <1>1, <1>2, <1>3, <1>4 DEF Places, Probes

LEMMA PrefixKept ==
  ASSUME NEW r \in Seq(Entry), NEW e \in Entry, NEW n \in 0..Len(r)
  PROVE  SubSeq(Append(r, e), 1, n) = SubSeq(r, 1, n)
<1> DEFINE u == Append(r, e)
<1>1. u \in Seq(Entry) /\ Len(u) = Len(r) + 1 /\ \A i \in 1..Len(r) : u[i] = r[i]
  BY AppendProperties
<1> HIDE DEF u
<1>2. Len(r) \in Nat
  OBVIOUS
<1>3. /\ SubSeq(u, 1, n) \in Seq(Entry) /\ Len(SubSeq(u, 1, n)) = n
      /\ \A i \in 1..n : SubSeq(u, 1, n)[i] = u[i]
  BY <1>1, <1>2, SubSeqProperties
<1>4. /\ SubSeq(r, 1, n) \in Seq(Entry) /\ Len(SubSeq(r, 1, n)) = n
      /\ \A i \in 1..n : SubSeq(r, 1, n)[i] = r[i]
  BY <1>2, SubSeqProperties
<1>5. SubSeq(u, 1, n) = SubSeq(r, 1, n)
  BY <1>1, <1>3, <1>4, SeqEqual
<1> QED
  BY <1>5 DEF u

LEMMA HealthStarts == HealthInit => HealthInv
<1> SUFFICES ASSUME HealthInit PROVE HealthInv
  OBVIOUS
<1>1. HealthTypeOK
  BY DEF HealthInit, HealthTypeOK, CheckState
<1>2. Mirrors(<<>>, <<>>)
  BY DEF Mirrors
<1>3. Known(0) = <<>>
  BY SubSeqEmpty DEF HealthInit, Known
<1>4. SnapshotInv
  <2>1. \A c \in Probers : check[c].snapshot = <<>>
    BY DEF HealthInit
  <2>2. 0 \in 0..Len(registrations)
    BY DEF HealthInit
  <2>3. registered = <<>> /\ registrations = <<>>
    BY DEF HealthInit
  <2> QED
    BY <1>2, <1>3, <2>1, <2>2, <2>3 DEF SnapshotInv
<1>5. ASSUME NEW c \in Probers PROVE CheckInv(c)
  <2>1. check[c].snapshot = <<>> /\ check[c].report = <<>> /\ check[c].at = "idle"
    BY DEF HealthInit
  <2>2. \A i \in Places : probe[<<c, i>>] = "none" /\ channel[<<c, i>>] = NoAnswer
    BY DEF HealthInit, Probes
  <2> QED
    BY <2>1, <2>2 DEF CheckInv, Paced, Asked, Carried, Truthful, Answers
<1> QED
  BY <1>1, <1>4, <1>5 DEF HealthInv

(* A Check looks only at its own record, channels and goroutines.          *)
LEMMA OthersKept ==
  ASSUME NEW d \in Probers, CheckInv(d), check'[d] = check[d],
         \A i \in Places : /\ probe'[<<d, i>>] = probe[<<d, i>>]
                           /\ channel'[<<d, i>>] = channel[<<d, i>>]
                           /\ answered'[<<d, i>>] = answered[<<d, i>>],
         HealthTypeOK, SnapshotInv
  PROVE  CheckInv(d)'
<1>1. \A i \in 1..Len(check[d].report) : i \in Places
  <2>1. Len(check[d].report) <= Len(check[d].snapshot)
    BY DEF CheckInv, Paced
  <2> QED
    BY <2>1, HealthFacts
<1>2. Places' = Places
  BY DEF Places
<1>3. Paced(d)'
  BY DEF CheckInv, Paced
<1>4. Asked(d)'
  BY <1>2 DEF CheckInv, Asked
<1>5. Carried(d)'
  BY <1>2 DEF CheckInv, Carried
<1>6. Truthful(d)'
  BY <1>1 DEF CheckInv, Truthful
<1> QED
  BY <1>3, <1>4, <1>5, <1>6 DEF CheckInv

(* What a step leaves of the registrations is enough for the snapshots.    *)
LEMMA SnapshotsKept ==
  ASSUME SnapshotInv, UNCHANGED <<registered, registrations>>,
         \A d \in Probers : \/ check'[d].snapshot = check[d].snapshot
                            \/ check'[d].snapshot = registered,
         HealthTypeOK
  PROVE  SnapshotInv'
<1>1. Known(Len(registrations)) = registrations
  BY SubSeqFull DEF Known, HealthTypeOK
<1>2. Len(registrations) \in 0..Len(registrations)
  BY DEF HealthTypeOK
<1>3. \A n : Known(n)' = Known(n)
  BY DEF Known
<1>4. ASSUME NEW d \in Probers
      PROVE  \E n \in 0..Len(registrations) : Mirrors(check'[d].snapshot, Known(n))
  <2>1. PICK n \in 0..Len(registrations) : Mirrors(check[d].snapshot, Known(n))
    BY DEF SnapshotInv
  <2>2. CASE check'[d].snapshot = check[d].snapshot
    BY <2>1, <2>2
  <2>3. CASE check'[d].snapshot = registered
    BY <1>1, <1>2, <2>3 DEF SnapshotInv
  <2> QED
    BY <2>2, <2>3
<1>5. Mirrors(registered, registrations)'
  BY DEF SnapshotInv
<1> QED
  BY <1>3, <1>4, <1>5 DEF SnapshotInv

LEMMA RegisterKeeps ==
  ASSUME HealthInv, NEW n \in Names, NEW checker \in Checkers, HealthRegister(n, checker)
  PROVE  HealthInv'
<1> DEFINE e == [name |-> n, checker |-> checker]
<1>1. e \in Entry
  BY DEF Entry
<1>2. e.name = n
  OBVIOUS
<1> HIDE DEF e
<1>3. registered \in Seq(Entry) /\ registrations \in Seq(Entry)
  BY DEF HealthInv, HealthTypeOK
<1>4. registered' = Registered(registered, e) /\ registrations' = Append(registrations, e)
  BY <1>2 DEF HealthRegister, Registered, e
<1>5. Mirrors(registered, registrations)
  BY DEF HealthInv, SnapshotInv
<1>6. Registered(registered, e) \in Seq(Entry) /\ Mirrors(Registered(registered, e), Append(registrations, e))
  BY <1>1, <1>3, <1>5, RegistrationMirrored
<1>7. /\ Append(registrations, e) \in Seq(Entry)
      /\ Len(Append(registrations, e)) = Len(registrations) + 1
  BY <1>1, <1>3, AppendProperties
<1>8. UNCHANGED <<check, channel, probe, answered>>
  BY DEF HealthRegister
<1>9. HealthTypeOK'
  BY <1>4, <1>6, <1>7, <1>8 DEF HealthInv, HealthTypeOK
<1>10. SnapshotInv'
  <2>1. ASSUME NEW d \in Probers
        PROVE  \E k \in 0..Len(registrations') : Mirrors(check'[d].snapshot, Known(k)')
    <3>1. PICK k \in 0..Len(registrations) : Mirrors(check[d].snapshot, Known(k))
      BY DEF HealthInv, SnapshotInv
    <3>2. Known(k)' = Known(k)
      BY <1>1, <1>3, <1>4, PrefixKept DEF Known
    <3>3. k \in 0..Len(registrations')
      BY <1>3, <1>4, <1>7
    <3> QED
      BY <1>8, <3>1, <3>2, <3>3
  <2>2. Mirrors(registered', registrations')
    BY <1>4, <1>6
  <2> QED
    BY <2>1, <2>2 DEF SnapshotInv
<1>11. \A d \in Probers : CheckInv(d)'
  BY <1>8, OthersKept DEF HealthInv
<1> QED
  BY <1>9, <1>10, <1>11 DEF HealthInv
(* A step of c touches nothing of the other Checks.                        *)
LEMMA StepOfOne ==
  ASSUME HealthInv, NEW c \in Probers, HealthTypeOK', CheckInv(c)',
         UNCHANGED <<registered, registrations>>,
         \/ check'[c].snapshot = check[c].snapshot
         \/ check'[c].snapshot = registered,
         \A d \in Probers \ {c} : check'[d] = check[d],
         \A d \in Probers \ {c} : \A i \in Places :
           /\ probe'[<<d, i>>] = probe[<<d, i>>]
           /\ channel'[<<d, i>>] = channel[<<d, i>>]
           /\ answered'[<<d, i>>] = answered[<<d, i>>]
  PROVE  HealthInv'
<1>1. HealthTypeOK /\ SnapshotInv
  BY DEF HealthInv
<1>2. SnapshotInv'
  BY <1>1, SnapshotsKept
<1>3. ASSUME NEW d \in Probers, d # c PROVE CheckInv(d)'
  <2>1. CheckInv(d)
    BY DEF HealthInv
  <2>2. check'[d] = check[d]
    BY <1>3
  <2>3. \A i \in Places : /\ probe'[<<d, i>>] = probe[<<d, i>>]
                          /\ channel'[<<d, i>>] = channel[<<d, i>>]
                          /\ answered'[<<d, i>>] = answered[<<d, i>>]
    BY <1>3
  <2> QED
    BY <1>1, <2>1, <2>2, <2>3, OthersKept
<1> QED
  BY <1>2, <1>3 DEF HealthInv

LEMMA CheckStartKeeps ==
  ASSUME HealthInv, NEW c \in Probers, CheckStart(c) PROVE HealthInv'
<1>1. HealthTypeOK /\ SnapshotInv /\ CheckInv(c)
  BY DEF HealthInv
<1>2. check[c] \in CheckState /\ registered \in Seq(Entry)
  BY <1>1 DEF HealthTypeOK
<1>3. /\ check' = [check EXCEPT ![c] = [check[c] EXCEPT !.at = "looping", !.snapshot = registered]]
      /\ UNCHANGED <<registered, registrations, channel, probe, answered>>
  BY <1>1 DEF CheckStart, HealthTypeOK
<1>4. [check[c] EXCEPT !.at = "looping", !.snapshot = registered] \in CheckState
  BY <1>2 DEF CheckState
<1>5. HealthTypeOK'
  BY <1>1, <1>3, <1>4 DEF HealthTypeOK
<1>6. /\ check'[c].at = "looping" /\ check'[c].snapshot = registered
      /\ check'[c].report = check[c].report
  BY <1>2, <1>3 DEF HealthInv, HealthTypeOK, CheckState
<1>7. check[c].at = "idle" /\ Len(check[c].report) = 0
  BY <1>1 DEF CheckStart, CheckInv, Paced
<1>8. \A d \in Probers \ {c} : check'[d] = check[d]
  BY <1>1, <1>3 DEF HealthTypeOK
<1>9. Paced(c)' /\ Truthful(c)'
  BY <1>2, <1>6, <1>7 DEF Paced, Truthful
<1>10. Asked(c)' /\ Carried(c)'
  BY <1>1, <1>3, <1>6, <1>7 DEF CheckInv, Asked, Carried, Places
<1>11. CheckInv(c)'
  BY <1>9, <1>10 DEF CheckInv
<1> QED
  BY <1>3, <1>5, <1>6, <1>8, <1>11, StepOfOne

(* The entry in work has a place of its own.                               *)
LEMMA EntryInWork ==
  ASSUME HealthInv, NEW c \in Probers, Len(check[c].report) < Len(check[c].snapshot)
  PROVE  /\ Place(c) \in Places /\ <<c, Place(c)>> \in Probes
         /\ check[c].snapshot[Place(c)] \in Entry
<1>1. Place(c) \in 1..Len(check[c].snapshot)
  BY HealthFacts DEF HealthInv, Place
<1> QED
  BY <1>1, HealthFacts DEF HealthInv

(* A step that only moves c on, past no entry.                             *)
LEMMA NewPhase ==
  ASSUME HealthInv, NEW c \in Probers, NEW k \in CheckState,
         check' = [check EXCEPT ![c] = k],
         UNCHANGED <<registered, registrations, channel, probe, answered>>,
         k.snapshot = check[c].snapshot, k.report = check[c].report,
         k.at = "waiting" <=> check[c].at = "waiting",
         Paced(c)'
  PROVE  HealthInv'
<1>1. HealthTypeOK /\ SnapshotInv /\ CheckInv(c)
  BY DEF HealthInv
<1>2. HealthTypeOK'
  BY <1>1 DEF HealthTypeOK
<1>3. check'[c] = k /\ \A d \in Probers \ {c} : check'[d] = check[d]
  BY <1>1 DEF HealthTypeOK
<1>4. Truthful(c)'
  <2>1. check'[c].snapshot = check[c].snapshot /\ check'[c].report = check[c].report
    BY <1>3
  <2> QED
    BY <1>1, <2>1 DEF CheckInv, Truthful
<1>5. Asked(c)' /\ Carried(c)'
  BY <1>1, <1>3 DEF CheckInv, Asked, Carried, Places
<1>6. CheckInv(c)'
  BY <1>4, <1>5 DEF CheckInv
<1> QED
  BY <1>2, <1>3, <1>6, StepOfOne

LEMMA RunCheckerKeeps ==
  ASSUME HealthInv, NEW c \in Probers, RunChecker(c) PROVE HealthInv'
<1>1. HealthTypeOK /\ SnapshotInv /\ CheckInv(c)
  BY DEF HealthInv
<1>2. /\ check[c] \in CheckState /\ Len(check[c].report) \in Nat
      /\ Len(check[c].snapshot) \in Nat
  BY <1>1, HealthFacts
<1>3. /\ check[c].at = "looping" /\ Len(check[c].report) < Len(check[c].snapshot)
      /\ UNCHANGED <<registered, registrations, channel, answered>>
  BY <1>2 DEF RunChecker, Place
<1>4. Place(c) \in Places /\ <<c, Place(c)>> \in Probes
  BY <1>3, EntryInWork
<1>5. CASE Current(c).timed
  <2>1. /\ check' = [check EXCEPT ![c] = [check[c] EXCEPT !.at = "waiting", !.timeUp = FALSE]]
        /\ probe' = [probe EXCEPT ![<<c, Place(c)>>] = "running"]
    BY <1>1, <1>5 DEF RunChecker, HealthTypeOK
  <2>2. [check[c] EXCEPT !.at = "waiting", !.timeUp = FALSE] \in CheckState
    BY <1>2 DEF CheckState
  <2>3. HealthTypeOK'
    BY <1>1, <1>3, <2>1, <2>2 DEF HealthTypeOK
  <2>4. /\ check'[c].at = "waiting" /\ check'[c].snapshot = check[c].snapshot
        /\ check'[c].report = check[c].report
    BY <1>1, <1>2, <2>1 DEF HealthTypeOK, CheckState
  <2>5. \A d \in Probers \ {c} : check'[d] = check[d]
    BY <1>1, <2>1 DEF HealthTypeOK
  <2>6. \A d \in Probers, i \in Places :
          probe'[<<d, i>>] = IF d = c /\ i = Place(c) THEN "running" ELSE probe[<<d, i>>]
    BY <1>1, <1>4, <2>1 DEF HealthTypeOK, Probes
  <2>7. probe[<<c, Place(c)>>] = "none"
    BY <1>1, <1>2, <1>3, <1>4 DEF CheckInv, Asked, Place
  <2>8. Paced(c)'
    BY <1>1, <1>2, <1>3, <1>5, <2>4 DEF CheckInv, Paced, Current, Place
  <2>9. Asked(c)'
    BY <1>1, <1>2, <1>3, <2>4, <2>6 DEF CheckInv, Asked, Places, Place
  <2>10. Carried(c)'
    BY <1>1, <1>3, <2>6, <2>7 DEF CheckInv, Carried, Places, Answers
  <2>11. Truthful(c)'
    <3>1. \A i \in 1..Len(check[c].report) : i \in Places /\ i # Place(c)
      BY <1>1, <1>2, <1>3, HealthFacts DEF Place
    <3>2. \A i \in 1..Len(check[c].report) : probe'[<<c, i>>] = probe[<<c, i>>]
      BY <2>6, <3>1
    <3> QED
      BY <1>1, <1>3, <2>4, <3>2 DEF CheckInv, Truthful
  <2>12. CheckInv(c)'
    BY <2>8, <2>9, <2>10, <2>11 DEF CheckInv
  <2> QED
    BY <1>3, <2>3, <2>4, <2>5, <2>6, <2>12, StepOfOne
<1>6. CASE ~Current(c).timed
  <2>1. /\ check' = [check EXCEPT ![c] = [check[c] EXCEPT !.at = "calling"]]
        /\ UNCHANGED probe
    BY <1>1, <1>6 DEF RunChecker, HealthTypeOK
  <2>2. [check[c] EXCEPT !.at = "calling"] \in CheckState
    BY <1>2 DEF CheckState
  <2>3. /\ check'[c].at = "calling" /\ check'[c].snapshot = check[c].snapshot
        /\ check'[c].report = check[c].report
    BY <1>1, <1>2, <2>1 DEF HealthTypeOK, CheckState
  <2>4. Paced(c)'
    BY <1>1, <1>2, <1>3, <2>1, <2>3 DEF CheckInv, Paced
  <2>5. check'[c] = [check[c] EXCEPT !.at = "calling"]
    BY <1>1, <2>1 DEF HealthTypeOK
  <2> QED
    BY <1>3, <2>1, <2>2, <2>3, <2>4, <2>5, NewPhase
<1> QED
  BY <1>5, <1>6

LEMMA TimeoutFiresKeeps ==
  ASSUME HealthInv, NEW c \in Probers, TimeoutFires(c) PROVE HealthInv'
<1>1. HealthTypeOK /\ CheckInv(c) /\ check[c] \in CheckState
  BY DEF HealthInv, HealthTypeOK
<1> DEFINE k == [check[c] EXCEPT !.timeUp = TRUE]
<1>2. /\ k \in CheckState /\ k.at = check[c].at
      /\ k.snapshot = check[c].snapshot /\ k.report = check[c].report
  BY <1>1 DEF CheckState
<1>3. /\ check' = [check EXCEPT ![c] = k]
      /\ UNCHANGED <<registered, registrations, channel, probe, answered>>
  BY <1>1 DEF TimeoutFires, HealthTypeOK
<1> HIDE DEF k
<1>4. check'[c] = k
  BY <1>1, <1>3 DEF HealthTypeOK
<1>5. Paced(c)'
  BY <1>1, <1>2, <1>4 DEF CheckInv, Paced
<1> QED
  BY <1>2, <1>3, <1>5, NewPhase

LEMMA CallerLeavesKeeps ==
  ASSUME HealthInv, NEW c \in Probers, CallerLeaves(c) PROVE HealthInv'
<1>1. HealthTypeOK /\ CheckInv(c) /\ check[c] \in CheckState
  BY DEF HealthInv, HealthTypeOK
<1> DEFINE k == [check[c] EXCEPT !.cancelled = TRUE]
<1>2. /\ k \in CheckState /\ k.at = check[c].at
      /\ k.snapshot = check[c].snapshot /\ k.report = check[c].report
  BY <1>1 DEF CheckState
<1>3. /\ check' = [check EXCEPT ![c] = k]
      /\ UNCHANGED <<registered, registrations, channel, probe, answered>>
  BY <1>1 DEF CallerLeaves, HealthTypeOK
<1> HIDE DEF k
<1>4. check'[c] = k
  BY <1>1, <1>3 DEF HealthTypeOK
<1>5. Paced(c)'
  BY <1>1, <1>2, <1>4 DEF CheckInv, Paced
<1> QED
  BY <1>2, <1>3, <1>5, NewPhase

LEMMA CheckReturnsKeeps ==
  ASSUME HealthInv, NEW c \in Probers, CheckReturns(c) PROVE HealthInv'
<1>1. HealthTypeOK /\ SnapshotInv /\ CheckInv(c) /\ check[c] \in CheckState
  BY DEF HealthInv, HealthTypeOK
<1> DEFINE k == [check[c] EXCEPT !.at = "reported"]
<1>2. /\ k \in CheckState /\ k.at = "reported"
      /\ k.snapshot = check[c].snapshot /\ k.report = check[c].report
  BY <1>1 DEF CheckState
<1>3. /\ check' = [check EXCEPT ![c] = k]
      /\ UNCHANGED <<registered, registrations, channel, probe, answered>>
      /\ check[c].at = "looping"
  BY <1>1 DEF CheckReturns, HealthTypeOK
<1> HIDE DEF k
<1>4. check'[c] = k
  BY <1>1, <1>3 DEF HealthTypeOK
<1>5. Len(check[c].report) \in Nat /\ Len(check[c].snapshot) \in Nat
  BY <1>1, HealthFacts
<1>6. Paced(c)'
  BY <1>1, <1>2, <1>4, <1>5 DEF CheckInv, Paced, CheckReturns, Place
<1> QED
  BY <1>2, <1>3, <1>6, NewPhase

(* Reporting on the entry in work goes on to the next one.                 *)
LEMMA ReportedMoves ==
  ASSUME HealthInv, NEW c \in Probers, check[c].at \in {"waiting", "calling"},
         NEW told \in Answers \cup {"timeout"}, Reported(c, told)
  PROVE  /\ check' \in [Probers -> CheckState]
         /\ \A d \in Probers \ {c} : check'[d] = check[d]
         /\ check'[c].at = "looping" /\ check'[c].snapshot = check[c].snapshot
         /\ Len(check[c].report) \in Nat /\ Len(check'[c].report) = Place(c)
         /\ Place(c) = Len(check[c].report) + 1
         /\ \A i \in 1..Len(check[c].report) : check'[c].report[i] = check[c].report[i]
         /\ check'[c].report[Place(c)].name = check[c].snapshot[Place(c)].name
         /\ check'[c].report[Place(c)].why = told
         /\ Place(c) \in Places /\ <<c, Place(c)>> \in Probes
         /\ \A i \in 1..Len(check[c].report) : i \in Places
         /\ Paced(c)'
<1>1. HealthTypeOK /\ SnapshotInv /\ CheckInv(c)
  BY DEF HealthInv
<1>2. /\ check[c] \in CheckState /\ Len(check[c].report) \in Nat
      /\ Len(check[c].snapshot) \in Nat /\ check[c].report \in Seq(Result)
  BY <1>1, HealthFacts
<1>3. Len(check[c].report) < Len(check[c].snapshot)
  BY <1>1 DEF CheckInv, Paced
<1>4. /\ Place(c) \in Places /\ <<c, Place(c)>> \in Probes
      /\ check[c].snapshot[Place(c)] \in Entry
  BY <1>3, EntryInWork
<1> DEFINE result == [name |-> check[c].snapshot[Place(c)].name, why |-> told]
           report == Append(check[c].report, result)
           k == [check[c] EXCEPT !.at = "looping", !.report = report]
<1>5. result \in Result
  BY <1>4 DEF Result, Entry
<1>6. result.name = check[c].snapshot[Place(c)].name /\ result.why = told
  OBVIOUS
<1>7. check' = [check EXCEPT ![c] = k]
  BY <1>1 DEF Reported, HealthTypeOK
<1> HIDE DEF result
<1>8. /\ report \in Seq(Result) /\ Len(report) = Len(check[c].report) + 1
      /\ report[Len(check[c].report) + 1] = result
      /\ \A i \in 1..Len(check[c].report) : report[i] = check[c].report[i]
  <2>1. PICK said \in Seq(Result) : said = check[c].report
    BY <1>2
  <2>2. /\ Append(said, result) \in Seq(Result) /\ Len(Append(said, result)) = Len(said) + 1
        /\ Append(said, result)[Len(said) + 1] = result
        /\ \A i \in 1..Len(said) : Append(said, result)[i] = said[i]
    BY <1>5, AppendProperties
  <2> QED
    BY <2>1, <2>2
<1> HIDE DEF report
<1>9. /\ k \in CheckState /\ k.at = "looping" /\ k.report = report
      /\ k.snapshot = check[c].snapshot
  BY <1>2, <1>8 DEF CheckState
<1> HIDE DEF k
<1>10. /\ check' \in [Probers -> CheckState] /\ check'[c] = k
       /\ \A d \in Probers \ {c} : check'[d] = check[d]
  BY <1>1, <1>7, <1>9 DEF HealthTypeOK
<1>11. Place(c) = Len(check[c].report) + 1
  BY DEF Place
<1>12. Paced(c)'
  <2>1. /\ check'[c].at = "looping" /\ check'[c].snapshot = check[c].snapshot
        /\ Len(check'[c].report) = Len(check[c].report) + 1
    BY <1>8, <1>9, <1>10
  <2> QED
    BY <1>2, <1>3, <2>1 DEF Paced
<1>13. \A i \in 1..Len(check[c].report) : i \in Places
  <2>1. \A i \in 1..Len(check[c].report) : i \in 1..Len(check[c].snapshot)
    BY <1>2, <1>3
  <2> QED
    BY <1>1, <2>1, HealthFacts
<1> QED
  BY <1>2, <1>4, <1>6, <1>8, <1>9, <1>10, <1>11, <1>12, <1>13

LEMMA AbandonKeeps ==
  ASSUME HealthInv, NEW c \in Probers, Abandon(c) PROVE HealthInv'
<1>1. HealthTypeOK /\ SnapshotInv /\ CheckInv(c)
  BY DEF HealthInv
<1>2. /\ check[c].at = "waiting" /\ Reported(c, "timeout")
      /\ UNCHANGED <<registered, registrations, channel, probe, answered>>
  BY DEF Abandon
<1>3. PICK told \in Answers \cup {"timeout"} : told = "timeout"
  OBVIOUS
<1>4. check[c].at \in {"waiting", "calling"} /\ Reported(c, told)
  BY <1>2, <1>3
<1>5. /\ check' \in [Probers -> CheckState]
      /\ \A d \in Probers \ {c} : check'[d] = check[d]
      /\ check'[c].at = "looping" /\ check'[c].snapshot = check[c].snapshot
      /\ Len(check[c].report) \in Nat /\ Len(check'[c].report) = Place(c)
      /\ Place(c) = Len(check[c].report) + 1
      /\ \A i \in 1..Len(check[c].report) : check'[c].report[i] = check[c].report[i]
      /\ check'[c].report[Place(c)].name = check[c].snapshot[Place(c)].name
      /\ check'[c].report[Place(c)].why = told
      /\ Paced(c)'
  BY <1>4, ReportedMoves
<1>6. HealthTypeOK'
  BY <1>1, <1>2, <1>5 DEF HealthTypeOK
<1>7. Asked(c)' /\ Carried(c)'
  BY <1>1, <1>2, <1>5 DEF CheckInv, Asked, Carried, Places
<1>8. Truthful(c)'
  <2>1. check[c].snapshot[Place(c)].checker.timed
    BY <1>1, <1>2, <1>5 DEF CheckInv, Paced
  <2>2. told \notin Answers
    BY <1>3 DEF Answers
  <2>3. \A i \in 1..Place(c) : i \in 1..Len(check[c].report) \/ i = Place(c)
    BY <1>5
  <2>4. \A i \in 1..Len(check[c].report) :
          /\ check[c].report[i].name = check[c].snapshot[i].name
          /\ check[c].report[i].why # "timeout" =>
               check[c].report[i].why = answered[<<c, i>>] /\ probe[<<c, i>>] \in {"none", "gone"}
          /\ check[c].report[i].why = "timeout" => check[c].snapshot[i].checker.timed
    BY <1>1 DEF CheckInv, Truthful
  <2>5. ASSUME NEW i \in 1..Place(c)
        PROVE  /\ check'[c].report[i].name = check[c].snapshot[i].name
               /\ check'[c].report[i].why # "timeout" =>
                    check'[c].report[i].why = answered[<<c, i>>] /\ probe[<<c, i>>] \in {"none", "gone"}
               /\ check'[c].report[i].why = "timeout" => check[c].snapshot[i].checker.timed
    <3>1. CASE i \in 1..Len(check[c].report)
      BY <1>5, <2>4, <3>1
    <3>2. CASE i = Place(c)
      BY <1>3, <1>5, <2>1, <3>2
    <3> QED
      BY <2>3, <3>1, <3>2
  <2>6. /\ Len(check'[c].report) = Place(c) /\ check'[c].snapshot = check[c].snapshot
        /\ answered' = answered /\ probe' = probe
    BY <1>2, <1>5
  <2> QED
    BY <2>5, <2>6 DEF Truthful
<1> QED
  BY <1>2, <1>5, <1>6, <1>7, <1>8, StepOfOne DEF CheckInv

LEMMA CheckerReturnsKeeps ==
  ASSUME HealthInv, NEW c \in Probers, NEW answer \in Answers, CheckerReturns(c, answer)
  PROVE  HealthInv'
<1>1. HealthTypeOK /\ SnapshotInv /\ CheckInv(c)
  BY DEF HealthInv
<1>2. /\ check[c].at = "calling" /\ Reported(c, answer)
      /\ answered' = [answered EXCEPT ![<<c, Place(c)>>] = answer]
      /\ UNCHANGED <<registered, registrations, channel, probe>>
  BY DEF CheckerReturns
<1>3. check[c].at \in {"waiting", "calling"} /\ answer \in Answers \cup {"timeout"}
  BY <1>2
<1>5. /\ check' \in [Probers -> CheckState]
      /\ \A d \in Probers \ {c} : check'[d] = check[d]
      /\ check'[c].at = "looping" /\ check'[c].snapshot = check[c].snapshot
      /\ Len(check[c].report) \in Nat /\ Len(check'[c].report) = Place(c)
      /\ Place(c) = Len(check[c].report) + 1
      /\ \A i \in 1..Len(check[c].report) : check'[c].report[i] = check[c].report[i]
      /\ check'[c].report[Place(c)].name = check[c].snapshot[Place(c)].name
      /\ check'[c].report[Place(c)].why = answer
      /\ Place(c) \in Places /\ <<c, Place(c)>> \in Probes
      /\ \A i \in 1..Len(check[c].report) : i \in Places
      /\ Paced(c)'
  BY <1>2, <1>3, ReportedMoves
<1>6. HealthTypeOK'
  BY <1>1, <1>2, <1>5 DEF HealthTypeOK
<1>7. \A d \in Probers, i \in Places :
        answered'[<<d, i>>] = IF d = c /\ i = Place(c) THEN answer ELSE answered[<<d, i>>]
  BY <1>1, <1>2, <1>5 DEF HealthTypeOK, Probes
<1>8. probe[<<c, Place(c)>>] = "none"
  BY <1>1, <1>2, <1>5 DEF CheckInv, Asked
<1>9. Asked(c)'
  BY <1>1, <1>2, <1>5 DEF CheckInv, Asked, Places
<1>10. Carried(c)'
  BY <1>1, <1>2, <1>5, <1>7, <1>8 DEF CheckInv, Carried, Places, Answers
<1>11. Truthful(c)'
  <2>1. answer # "timeout"
    BY DEF Answers
  <2>2. \A i \in 1..Place(c) : i \in 1..Len(check[c].report) \/ i = Place(c)
    BY <1>5
  <2>3. \A i \in 1..Len(check[c].report) : answered'[<<c, i>>] = answered[<<c, i>>]
    BY <1>5, <1>7
  <2>4. answered'[<<c, Place(c)>>] = answer
    BY <1>5, <1>7
  <2>5. \A i \in 1..Len(check[c].report) :
          /\ check[c].report[i].name = check[c].snapshot[i].name
          /\ check[c].report[i].why # "timeout" =>
               check[c].report[i].why = answered[<<c, i>>] /\ probe[<<c, i>>] \in {"none", "gone"}
          /\ check[c].report[i].why = "timeout" => check[c].snapshot[i].checker.timed
    BY <1>1 DEF CheckInv, Truthful
  <2>6. ASSUME NEW i \in 1..Place(c)
        PROVE  /\ check'[c].report[i].name = check[c].snapshot[i].name
               /\ check'[c].report[i].why # "timeout" =>
                    check'[c].report[i].why = answered'[<<c, i>>] /\ probe[<<c, i>>] \in {"none", "gone"}
               /\ check'[c].report[i].why = "timeout" => check[c].snapshot[i].checker.timed
    <3>1. CASE i \in 1..Len(check[c].report)
      BY <1>5, <2>3, <2>5, <3>1
    <3>2. CASE i = Place(c)
      BY <1>5, <1>8, <2>1, <2>4, <3>2
    <3> QED
      BY <2>2, <3>1, <3>2
  <2> QED
    BY <1>2, <1>5, <2>6 DEF Truthful
<1> QED
  BY <1>2, <1>5, <1>6, <1>7, <1>9, <1>10, <1>11, StepOfOne DEF CheckInv

LEMMA ReceiveAnswerKeeps ==
  ASSUME HealthInv, NEW c \in Probers, ReceiveAnswer(c) PROVE HealthInv'
<1>1. HealthTypeOK /\ SnapshotInv /\ CheckInv(c)
  BY DEF HealthInv
<1>2. PICK x : x = channel[<<c, Place(c)>>]
  OBVIOUS
<1>3. /\ check[c].at = "waiting" /\ x # NoAnswer /\ Reported(c, x)
      /\ channel' = [channel EXCEPT ![<<c, Place(c)>>] = NoAnswer]
      /\ UNCHANGED <<registered, registrations, probe, answered>>
  BY <1>2 DEF ReceiveAnswer, ChannelOf
<1>4. Len(check[c].report) < Len(check[c].snapshot)
  BY <1>1, <1>3 DEF CheckInv, Paced
<1>5. x \in Answers
  BY <1>1, <1>2, <1>3, <1>4, EntryInWork DEF HealthTypeOK
<1>6. check[c].at \in {"waiting", "calling"} /\ x \in Answers \cup {"timeout"}
  BY <1>3, <1>5
<1>7. /\ check' \in [Probers -> CheckState]
      /\ \A d \in Probers \ {c} : check'[d] = check[d]
      /\ check'[c].at = "looping" /\ check'[c].snapshot = check[c].snapshot
      /\ Len(check[c].report) \in Nat /\ Len(check'[c].report) = Place(c)
      /\ Place(c) = Len(check[c].report) + 1
      /\ \A i \in 1..Len(check[c].report) : check'[c].report[i] = check[c].report[i]
      /\ check'[c].report[Place(c)].name = check[c].snapshot[Place(c)].name
      /\ check'[c].report[Place(c)].why = x
      /\ Place(c) \in Places /\ <<c, Place(c)>> \in Probes
      /\ Paced(c)'
  BY <1>3, <1>6, ReportedMoves
<1>8. HealthTypeOK'
  BY <1>1, <1>3, <1>7 DEF HealthTypeOK
<1>9. \A d \in Probers, i \in Places :
        channel'[<<d, i>>] = IF d = c /\ i = Place(c) THEN NoAnswer ELSE channel[<<d, i>>]
  BY <1>1, <1>3, <1>7 DEF HealthTypeOK, Probes
<1>10. Asked(c)'
  BY <1>1, <1>3, <1>7 DEF CheckInv, Asked, Places
<1>11. Carried(c)'
  BY <1>1, <1>3, <1>7, <1>9 DEF CheckInv, Carried, Places
<1>12. Truthful(c)'
  <2>1. x # "timeout"
    BY <1>5 DEF Answers
  <2>2. \A i \in 1..Place(c) : i \in 1..Len(check[c].report) \/ i = Place(c)
    BY <1>7
  <2>3. answered[<<c, Place(c)>>] = x /\ probe[<<c, Place(c)>>] = "gone"
    BY <1>1, <1>2, <1>3, <1>7 DEF CheckInv, Carried
  <2>4. \A i \in 1..Len(check[c].report) :
          /\ check[c].report[i].name = check[c].snapshot[i].name
          /\ check[c].report[i].why # "timeout" =>
               check[c].report[i].why = answered[<<c, i>>] /\ probe[<<c, i>>] \in {"none", "gone"}
          /\ check[c].report[i].why = "timeout" => check[c].snapshot[i].checker.timed
    BY <1>1 DEF CheckInv, Truthful
  <2>5. ASSUME NEW i \in 1..Place(c)
        PROVE  /\ check'[c].report[i].name = check[c].snapshot[i].name
               /\ check'[c].report[i].why # "timeout" =>
                    check'[c].report[i].why = answered[<<c, i>>] /\ probe[<<c, i>>] \in {"none", "gone"}
               /\ check'[c].report[i].why = "timeout" => check[c].snapshot[i].checker.timed
    <3>1. CASE i \in 1..Len(check[c].report)
      BY <1>7, <2>4, <3>1
    <3>2. CASE i = Place(c)
      BY <1>7, <2>1, <2>3, <3>2
    <3> QED
      BY <2>2, <3>1, <3>2
  <2> QED
    BY <1>3, <1>7, <2>5 DEF Truthful
<1> QED
  BY <1>3, <1>7, <1>8, <1>9, <1>10, <1>11, <1>12, StepOfOne DEF CheckInv

LEMMA ProbeReturnsKeeps ==
  ASSUME HealthInv, NEW c \in Probers, NEW i \in Places, NEW answer \in Answers,
         ProbeReturns(c, i, answer)
  PROVE  HealthInv'
<1>1. HealthTypeOK /\ SnapshotInv /\ CheckInv(c)
  BY DEF HealthInv
<1>2. <<c, i>> \in Probes
  BY DEF Probes
<1>3. /\ probe[<<c, i>>] = "running"
      /\ probe' = [probe EXCEPT ![<<c, i>>] = answer]
      /\ answered' = [answered EXCEPT ![<<c, i>>] = answer]
      /\ UNCHANGED <<registered, registrations, check, channel>>
  BY DEF ProbeReturns
<1>4. HealthTypeOK'
  BY <1>1, <1>3 DEF HealthTypeOK
<1>5. \A d \in Probers, j \in Places :
        /\ probe'[<<d, j>>] = IF d = c /\ j = i THEN answer ELSE probe[<<d, j>>]
        /\ answered'[<<d, j>>] = IF d = c /\ j = i THEN answer ELSE answered[<<d, j>>]
  BY <1>1, <1>2, <1>3 DEF HealthTypeOK, Probes
<1>6. answer # "gone" /\ answer # "none"
  BY DEF Answers
<1>7. Paced(c)'
  BY <1>1, <1>3 DEF CheckInv, Paced
<1>8. Asked(c)'
  BY <1>1, <1>3, <1>5 DEF CheckInv, Asked, Places
<1>9. Carried(c)'
  BY <1>1, <1>3, <1>5 DEF CheckInv, Carried, Places
<1>10. Truthful(c)'
  <2>1. \A j \in 1..Len(check[c].report) : j \in Places
    <3>1. Len(check[c].report) <= Len(check[c].snapshot)
      BY <1>1 DEF CheckInv, Paced
    <3> QED
      BY <1>1, <3>1, HealthFacts
  <2>2. ASSUME NEW j \in 1..Len(check[c].report)
        PROVE  \/ check[c].report[j].why = "timeout"
               \/ answered'[<<c, j>>] = answered[<<c, j>>] /\ probe'[<<c, j>>] = probe[<<c, j>>]
    <3>1. j = i => check[c].report[j].why = "timeout"
      BY <1>1, <1>3 DEF CheckInv, Truthful
    <3> QED
      BY <1>5, <2>1, <3>1
  <2> QED
    BY <1>1, <1>3, <2>2 DEF CheckInv, Truthful
<1> QED
  BY <1>3, <1>4, <1>5, <1>7, <1>8, <1>9, <1>10, StepOfOne DEF CheckInv

LEMMA ProbeSendsKeeps ==
  ASSUME HealthInv, NEW c \in Probers, NEW i \in Places, ProbeSends(c, i) PROVE HealthInv'
<1>1. HealthTypeOK /\ SnapshotInv /\ CheckInv(c)
  BY DEF HealthInv
<1>2. <<c, i>> \in Probes
  BY DEF Probes
<1>3. PICK answer \in Answers : answer = probe[<<c, i>>]
  BY DEF ProbeSends
<1>4. /\ probe' = [probe EXCEPT ![<<c, i>>] = "gone"]
      /\ channel' = [channel EXCEPT ![<<c, i>>] = answer]
      /\ UNCHANGED <<registered, registrations, check, answered>>
  BY <1>3 DEF ProbeSends, Deliver, ChannelOf
<1>5. HealthTypeOK'
  BY <1>1, <1>4 DEF HealthTypeOK
<1>6. \A d \in Probers, j \in Places :
        /\ probe'[<<d, j>>] = IF d = c /\ j = i THEN "gone" ELSE probe[<<d, j>>]
        /\ channel'[<<d, j>>] = IF d = c /\ j = i THEN answer ELSE channel[<<d, j>>]
  BY <1>1, <1>2, <1>4 DEF HealthTypeOK, Probes
<1>7. answer # "none" /\ answered[<<c, i>>] = answer
  BY <1>1, <1>3 DEF CheckInv, Carried, Answers
<1>8. Paced(c)'
  BY <1>1, <1>4 DEF CheckInv, Paced
<1>9. Asked(c)'
  BY <1>1, <1>3, <1>4, <1>6, <1>7 DEF CheckInv, Asked, Places
<1>10. Carried(c)'
  BY <1>1, <1>4, <1>6, <1>7 DEF CheckInv, Carried, Places, Answers
<1>11. Truthful(c)'
  <2>1. \A j \in 1..Len(check[c].report) : j \in Places
    <3>1. Len(check[c].report) <= Len(check[c].snapshot)
      BY <1>1 DEF CheckInv, Paced
    <3> QED
      BY <1>1, <3>1, HealthFacts
  <2>2. \A j \in 1..Len(check[c].report) : probe'[<<c, j>>] \in {probe[<<c, j>>], "gone"}
    BY <1>6, <2>1
  <2> QED
    BY <1>1, <1>4, <2>2 DEF CheckInv, Truthful
<1> QED
  BY <1>4, <1>5, <1>6, <1>8, <1>9, <1>10, <1>11, StepOfOne DEF CheckInv
(* The invariant is what the property says, of the entries left.           *)
LEMMA HealthInvSuffices == HealthInv => HealthFaithful
<1> SUFFICES ASSUME HealthInv, NEW c \in Probers, check[c].at = "reported"
             PROVE  LET snapshot == check[c].snapshot
                        report == check[c].report
                    IN /\ Len(report) = Len(snapshot)
                       /\ \E n \in 0..Len(registrations) :
                            LET known == SubSeq(registrations, 1, n)
                                last(name) == known[Max({j \in DOMAIN known : known[j].name = name})]
                                place(name) == Min({j \in DOMAIN known : known[j].name = name})
                            IN /\ {snapshot[i].name : i \in DOMAIN snapshot} = {e.name : e \in ToSet(known)}
                               /\ \A i \in DOMAIN snapshot : snapshot[i] = last(snapshot[i].name)
                               /\ \A i, j \in DOMAIN snapshot :
                                    i < j => place(snapshot[i].name) < place(snapshot[j].name)
                       /\ \A i \in DOMAIN report :
                            /\ report[i].name = snapshot[i].name
                            /\ report[i].why # "timeout" => report[i].why = answered[<<c, i>>]
                            /\ report[i].why = "timeout" => snapshot[i].checker.timed
                       /\ HTTPStatus(report) = 200 =>
                            \A i \in DOMAIN snapshot : answered[<<c, i>>] = "nil"
  BY DEF HealthFaithful
<1>1. HealthTypeOK /\ SnapshotInv /\ CheckInv(c)
  BY DEF HealthInv
<1>2. PICK snapshot \in Seq(Entry) : snapshot = check[c].snapshot
  BY <1>1, HealthFacts
<1>3. PICK report \in Seq(Result) : report = check[c].report
  BY <1>1, HealthFacts
<1>4. Len(report) = Len(snapshot)
  BY <1>1, <1>2, <1>3 DEF CheckInv, Paced
<1>5. PICK n \in 0..Len(registrations) : Mirrors(snapshot, Known(n))
  BY <1>1, <1>2 DEF SnapshotInv
<1>6. PICK known \in Seq(Entry) : known = SubSeq(registrations, 1, n)
  <2>1. SubSeq(registrations, 1, n) \in Seq(Entry)
    BY <1>1, SubSeqProperties DEF HealthTypeOK
  <2> QED
    BY <2>1
<1>7. Mirrors(snapshot, known)
  BY <1>5, <1>6 DEF Known
<1> DEFINE last(name) == known[Max({j \in DOMAIN known : known[j].name = name})]
           place(name) == Min({j \in DOMAIN known : known[j].name = name})
<1>8. /\ {snapshot[i].name : i \in DOMAIN snapshot} = {e.name : e \in ToSet(known)}
      /\ \A i \in DOMAIN snapshot : snapshot[i] = last(snapshot[i].name)
      /\ \A i, j \in DOMAIN snapshot : i < j => place(snapshot[i].name) < place(snapshot[j].name)
  BY <1>7, MirrorsMeans
<1>9. \A i \in DOMAIN report :
        /\ report[i].name = snapshot[i].name
        /\ report[i].why # "timeout" => report[i].why = answered[<<c, i>>]
        /\ report[i].why = "timeout" => snapshot[i].checker.timed
  <2>1. DOMAIN report = 1..Len(report)
    OBVIOUS
  <2> QED
    BY <1>1, <1>2, <1>3, <2>1 DEF CheckInv, Truthful
<1>10. DOMAIN report = DOMAIN snapshot
  BY <1>4
<1>11. HTTPStatus(report) = 200 => \A i \in DOMAIN snapshot : answered[<<c, i>>] = "nil"
  <2>1. HTTPStatus(report) = 200 => \A i \in DOMAIN report : report[i].why = "nil"
    BY DEF HTTPStatus, Healthy
  <2> QED
    BY <1>9, <1>10, <2>1
<1> HIDE DEF last, place
<1>12. \E k \in 0..Len(registrations) :
         LET seen == SubSeq(registrations, 1, k)
             newest(name) == seen[Max({j \in DOMAIN seen : seen[j].name = name})]
             first(name) == Min({j \in DOMAIN seen : seen[j].name = name})
         IN /\ {check[c].snapshot[i].name : i \in DOMAIN check[c].snapshot}
                 = {e.name : e \in ToSet(seen)}
            /\ \A i \in DOMAIN check[c].snapshot :
                 check[c].snapshot[i] = newest(check[c].snapshot[i].name)
            /\ \A i, j \in DOMAIN check[c].snapshot :
                 i < j => first(check[c].snapshot[i].name) < first(check[c].snapshot[j].name)
  <2> WITNESS n \in 0..Len(registrations)
  <2>1. /\ {check[c].snapshot[i].name : i \in DOMAIN check[c].snapshot}
             = {e.name : e \in ToSet(known)}
        /\ \A i \in DOMAIN check[c].snapshot :
             check[c].snapshot[i] = last(check[c].snapshot[i].name)
        /\ \A i, j \in DOMAIN check[c].snapshot :
             i < j => place(check[c].snapshot[i].name) < place(check[c].snapshot[j].name)
    BY <1>2, <1>8
  <2> QED
    BY <1>6, <2>1 DEF last, place
<1>13. Len(check[c].report) = Len(check[c].snapshot)
  BY <1>2, <1>3, <1>4
<1>14. \A i \in DOMAIN check[c].report :
         /\ check[c].report[i].name = check[c].snapshot[i].name
         /\ check[c].report[i].why # "timeout" => check[c].report[i].why = answered[<<c, i>>]
         /\ check[c].report[i].why = "timeout" => check[c].snapshot[i].checker.timed
  BY <1>2, <1>3, <1>9
<1>15. HTTPStatus(check[c].report) = 200 =>
         \A i \in DOMAIN check[c].snapshot : answered[<<c, i>>] = "nil"
  BY <1>2, <1>3, <1>11
<1> QED
  BY <1>12, <1>13, <1>14, <1>15, Zenon

LEMMA HealthStepKeeps == HealthInv /\ [HealthNext]_healthVars => HealthInv'
<1> SUFFICES ASSUME HealthInv, [HealthNext]_healthVars PROVE HealthInv'
  OBVIOUS
<1>1. ASSUME NEW n \in Names, NEW checker \in Checkers, HealthRegister(n, checker)
      PROVE  HealthInv'
  BY <1>1, RegisterKeeps
<1>2. ASSUME NEW c \in Probers, CheckStart(c) PROVE HealthInv'
  BY <1>2, CheckStartKeeps
<1>3. ASSUME NEW c \in Probers, CheckStep(c) PROVE HealthInv'
  BY <1>3, RunCheckerKeeps, ReceiveAnswerKeeps, AbandonKeeps, CheckReturnsKeeps DEF CheckStep
<1>4. ASSUME NEW c \in Probers, TimeoutFires(c) \/ CallerLeaves(c) PROVE HealthInv'
  BY <1>4, TimeoutFiresKeeps, CallerLeavesKeeps
<1>5. ASSUME NEW c \in Probers, NEW answer \in Answers, CheckerReturns(c, answer)
      PROVE  HealthInv'
  BY <1>5, CheckerReturnsKeeps
<1>6. ASSUME NEW c \in Probers, NEW i \in Places, ProbeSends(c, i) PROVE HealthInv'
  BY <1>6, ProbeSendsKeeps
<1>7. ASSUME NEW c \in Probers, NEW i \in Places, NEW answer \in Answers,
             ProbeReturns(c, i, answer)
      PROVE  HealthInv'
  BY <1>7, ProbeReturnsKeeps
<1>8. CASE UNCHANGED healthVars
  <2>1. UNCHANGED <<registered, registrations, check, channel, probe, answered>>
    BY <1>8 DEF healthVars
  <2>2. HealthTypeOK /\ SnapshotInv
    BY DEF HealthInv
  <2>3. HealthTypeOK'
    BY <2>1, <2>2 DEF HealthTypeOK
  <2>4. SnapshotInv'
    BY <2>1, <2>2, SnapshotsKept
  <2>5. ASSUME NEW c \in Probers PROVE CheckInv(c)'
    <3>1. CheckInv(c)
      BY DEF HealthInv
    <3> QED
      BY <2>1, <2>2, <3>1, OthersKept
  <2> QED
    BY <2>3, <2>4, <2>5 DEF HealthInv
<1> QED
  BY <1>1, <1>2, <1>3, <1>4, <1>5, <1>6, <1>7, <1>8 DEF HealthNext

(* A report lists every name registered when it began, once and in order   *)
(* of registration, asks the checker last registered for it, and says of   *)
(* each what that checker did in this Check, however late an abandoned one *)
(* answers; 200 means every checker returned nil.                          *)
THEOREM HealthReportsFaithful == HealthSpec => []HealthFaithful
<1>1. HealthSpec => []HealthInv
  BY HealthStarts, HealthStepKeeps, PTL DEF HealthSpec
<1> QED
  BY <1>1, HealthInvSuffices, PTL

-----------------------------------------------------------------------------
EntitySpec == EntityInit /\ [][EntityNext]_entityVars

(* What a sequence of texts or of records runs through is finite.          *)
LEMMA RunThroughFinite ==
  ASSUME NEW S, NEW s \in Seq(S)
  PROVE  ToSet(s) = {s[i] : i \in 1..Len(s)} /\ ToSet(s) \subseteq S /\ IsFiniteSet(ToSet(s))
<1>1. PICK n \in Nat : n = Len(s) /\ DOMAIN s = 1..n
  OBVIOUS
<1>2. ToSet(s) = {s[i] : i \in 1..n}
  BY <1>1 DEF ToSet
<1>3. ToSet(s) \subseteq S
  BY <1>1, <1>2
<1> DEFINE f == [i \in 1..n |-> s[i]]
<1>4. f \in Surjection(1..n, ToSet(s))
  <2>1. f \in [1..n -> ToSet(s)] /\ \A x \in ToSet(s) : \E i \in 1..n : f[i] = x
    BY <1>2
  <2> HIDE DEF f
  <2> QED
    BY <2>1 DEF Surjection
<1>5. IsFiniteSet(1..n)
  BY FS_Interval
<1> HIDE DEF f
<1>6. IsFiniteSet(ToSet(s))
  BY <1>4, <1>5, FS_Surjection
<1> QED
  BY <1>1, <1>2, <1>3, <1>6

(* The n-th record of a set by name.                                       *)
RecordAt(S, n) == CHOOSE x \in S : Cardinality({y \in S : Trim(y.name) < Trim(x.name)}) = n - 1

(* All names are words, and nobody shares one.                             *)
Named(S) ==
  /\ IsFiniteSet(S) /\ \A x \in S : Trim(x.name) \in Nat
  /\ \A x, y \in S : Trim(x.name) = Trim(y.name) => x = y

LEMMA RecordsInOrder ==
  ASSUME NEW S, Named(S)
  PROVE  /\ Cardinality(S) \in Nat
         /\ \A n \in 1..Cardinality(S) : RecordAt(S, n) \in S
         /\ \A m, n \in 1..Cardinality(S) :
              m < n => Trim(RecordAt(S, m).name) < Trim(RecordAt(S, n).name)
         /\ \A x \in S : \E n \in 1..Cardinality(S) : RecordAt(S, n) = x
<1> DEFINE before == {p \in S \X S : Trim(p[1].name) < Trim(p[2].name)}
<1>1. \A x, y \in S : <<x, y>> \in before <=> Trim(x.name) < Trim(y.name)
  OBVIOUS
<1>2. \A x \in S : Below(before, S, x) = {y \in S : Trim(y.name) < Trim(x.name)}
  BY DEF Below
<1>3. Orders(before, S)
  <2> HIDE DEF before
  <2> QED
    BY <1>1 DEF Orders, Named
<1>0. IsFiniteSet(S)
  BY DEF Named
<1> HIDE DEF before
<1>4. \A n : Ranked(before, S, n) = RecordAt(S, n)
  BY <1>2 DEF Ranked, RecordAt
<1>5. /\ Cardinality(S) \in Nat
      /\ \A n \in 1..Cardinality(S) : Ranked(before, S, n) \in S
      /\ \A m, n \in 1..Cardinality(S) :
           m < n => <<Ranked(before, S, m), Ranked(before, S, n)>> \in before
      /\ \A x \in S : \E n \in 1..Cardinality(S) : Ranked(before, S, n) = x
  BY <1>0, <1>3, RankedProperties
<1> QED
  BY <1>1, <1>4, <1>5

-----------------------------------------------------------------------------
(* A normalized list is that of its words, each once and in order.         *)
LEMMA SameWords ==
  ASSUME NEW a, NEW b, WordsOf(a) = WordsOf(b)
  PROVE  NormalizeStrings(a) = NormalizeStrings(b)
BY DEF NormalizeStrings

LEMMA WordsFinite ==
  ASSUME NEW texts \in Seq(Texts)
  PROVE  /\ WordsOf(texts) \in SUBSET (Nat \ {0}) /\ IsFiniteSet(WordsOf(texts))
         /\ \A w : w \in WordsOf(texts) <=> w # 0 /\ \E i \in 1..Len(texts) : w = Trim(texts[i])
<1>1. PICK n \in Nat : n = Len(texts) /\ DOMAIN texts = 1..n
  OBVIOUS
<1>2. \A i \in 1..n : texts[i] \in Texts
  BY <1>1
<1> DEFINE words == [i \in 1..n |-> Trim(texts[i])]
<1>3. words \in [1..n -> Nat]
  BY <1>2 DEF Trim, Texts
<1>4. words \in Seq(Nat)
  <2> HIDE DEF words
  <2> QED
    BY <1>3, SeqDef
<1>5. ToSet(words) \subseteq Nat /\ IsFiniteSet(ToSet(words))
  <2> HIDE DEF words
  <2> QED
    BY <1>4, RunThroughFinite
<1>6. ToSet(words) = {Trim(texts[i]) : i \in 1..n}
  BY DEF ToSet
<1>7. ToSet(texts) = {texts[i] : i \in 1..n}
  BY <1>1 DEF ToSet
<1>8. WordsOf(texts) = ToSet(words) \ {0}
  BY <1>6, <1>7 DEF WordsOf, Empty
<1>9. IsFiniteSet(WordsOf(texts))
  BY <1>5, <1>8, FS_Subset
<1>10. \A w : w \in WordsOf(texts) <=> w # 0 /\ \E i \in 1..n : w = Trim(texts[i])
  BY <1>6, <1>8
<1> QED
  BY <1>1, <1>5, <1>8, <1>9, <1>10

LEMMA Normalized ==
  ASSUME NEW texts \in Seq(Texts)
  PROVE  /\ NormalizeStrings(texts) \in Seq(Texts)
         /\ ToSet(NormalizeStrings(texts)) = {Plain(w) : w \in WordsOf(texts)}
         /\ WordsOf(NormalizeStrings(texts)) = WordsOf(texts)
         /\ NormalizeStrings(NormalizeStrings(texts)) = NormalizeStrings(texts)
         /\ \A i, j \in DOMAIN NormalizeStrings(texts) :
              i < j => Trim(NormalizeStrings(texts)[i]) < Trim(NormalizeStrings(texts)[j])
<1> DEFINE W == WordsOf(texts)
           N == NormalizeStrings(texts)
<1>1. W \in SUBSET Nat /\ IsFiniteSet(W) /\ 0 \notin W
  BY WordsFinite
<1>2. N = [n \in 1..Cardinality(W) |-> Plain(Nth(W, n))]
  BY DEF NormalizeStrings, Nth
<1> HIDE DEF W
<1>3. /\ Cardinality(W) \in Nat
      /\ \A n \in 1..Cardinality(W) : Nth(W, n) \in W
      /\ \A m, n \in 1..Cardinality(W) : m < n => Nth(W, m) < Nth(W, n)
      /\ \A w \in W : \E n \in 1..Cardinality(W) : Nth(W, n) = w
  BY <1>1, NthProperties
<1> HIDE DEF N
<1>4. PICK size \in Nat : size = Cardinality(W)
  BY <1>3
<1>5. /\ DOMAIN N = 1..size
      /\ \A n \in 1..size : N[n] = Plain(Nth(W, n)) /\ Trim(N[n]) = Nth(W, n) /\ N[n] \in Texts
  BY <1>1, <1>2, <1>3, <1>4 DEF Plain, Trim, Texts
<1>6. N \in [1..size -> Texts]
  BY <1>2, <1>4, <1>5
<1>7. N \in Seq(Texts)
  BY <1>6, SeqDef
<1>8. ToSet(N) = {Plain(w) : w \in W}
  BY <1>3, <1>4, <1>5 DEF ToSet
<1>9. WordsOf(N) = W
  <2>1. {Trim(t) : t \in ToSet(N)} = W
    <3>1. \A w : Trim(Plain(w)) = w
      BY DEF Trim, Plain
    <3>2. \A w \in W : w \in {Trim(t) : t \in ToSet(N)}
      BY <1>8, <3>1
    <3>3. \A t \in ToSet(N) : Trim(t) \in W
      BY <1>8, <3>1
    <3> QED
      BY <3>2, <3>3
  <2> QED
    BY <1>1, <2>1 DEF WordsOf, Empty
<1>10. \A i, j \in DOMAIN N : i < j => Trim(N[i]) < Trim(N[j])
  BY <1>3, <1>4, <1>5
<1>11. NormalizeStrings(N) = N
  <2>1. WordsOf(N) = WordsOf(texts)
    BY <1>9 DEF W
  <2> QED
    BY <2>1, SameWords DEF N
<1> QED
  BY <1>7, <1>8, <1>9, <1>10, <1>11 DEF N, W

LEMMA OrElseSettles ==
  ASSUME NEW t, NEW default
  PROVE  /\ Trim(OrElse(t, default)) = IF Trim(t) = 0 THEN default ELSE Trim(t)
         /\ OrElse(OrElse(t, default), default) = OrElse(t, default)
         /\ Plain(Trim(OrElse(t, default))) = OrElse(t, default)
BY DEF OrElse, Plain, Trim, Blank, Empty

-----------------------------------------------------------------------------
LEMMA ImageFinite ==
  ASSUME NEW T, IsFiniteSet(T), NEW g, DOMAIN g = T
  PROVE  IsFiniteSet({g[x] : x \in T})
<1> DEFINE image == {g[x] : x \in T}
           f == [x \in T |-> g[x]]
<1>1. f \in [T -> image] /\ \A y \in image : \E x \in T : f[x] = y
  OBVIOUS
<1> HIDE DEF f, image
<1>2. f \in Surjection(T, image)
  BY <1>1 DEF Surjection
<1>3. IsFiniteSet(image)
  BY <1>2, FS_Surjection
<1> QED
  BY <1>3 DEF image

(* A sorted list holds the records it was made of, and is sorted for good. *)
LEMMA SortedByName ==
  ASSUME NEW S, Named(S)
  PROVE  /\ ByName(S) \in Seq(S) /\ ToSet(ByName(S)) = S /\ NoDoubles(ByName(S))
<1> DEFINE N == ByName(S)
<1>1. N = [n \in 1..Cardinality(S) |-> RecordAt(S, n)]
  BY DEF ByName, RecordAt
<1> HIDE DEF N
<1>2. /\ Cardinality(S) \in Nat
      /\ \A n \in 1..Cardinality(S) : RecordAt(S, n) \in S
      /\ \A m, n \in 1..Cardinality(S) :
           m < n => Trim(RecordAt(S, m).name) < Trim(RecordAt(S, n).name)
      /\ \A x \in S : \E n \in 1..Cardinality(S) : RecordAt(S, n) = x
  BY RecordsInOrder
<1>3. PICK size \in Nat : size = Cardinality(S)
  BY <1>2
<1>4. N \in [1..size -> S] /\ DOMAIN N = 1..size
  BY <1>1, <1>2, <1>3
<1>5. N \in Seq(S)
  BY <1>4, SeqDef
<1>6. ToSet(N) = S
  BY <1>1, <1>2, <1>3, <1>4 DEF ToSet
<1>7. \A m, n \in 1..size : m < n => Trim(N[m].name) < Trim(N[n].name)
  BY <1>1, <1>2, <1>3
<1>8. \A n \in 1..size : Trim(N[n].name) \in Nat
  BY <1>4 DEF Named
<1>9. \A m, n \in 1..size : Trim(N[m].name) = Trim(N[n].name) => m = n
  BY <1>7, <1>8
<1>10. NoDoubles(N)
  BY <1>4, <1>9 DEF NoDoubles
<1> QED
  BY <1>5, <1>6, <1>10 DEF N

LEMMA FieldSettles ==
  ASSUME NEW f \in AnyField, ValidField(f)
  PROVE  /\ ValidField(NormalField(f)) /\ NormalField(NormalField(f)) = NormalField(f)
         /\ Trim(NormalField(f).name) = Trim(f.name) /\ Trim(f.name) \in Nat
<1> DEFINE n == NormalField(f)
<1>1. f.name \in Texts /\ f.type \in Texts /\ f.label \in Texts /\ f.enum \in Seq(Texts)
  BY DEF AnyField
<1>2. /\ n.name = Plain(Trim(f.name)) /\ n.type = Plain(Trim(f.type))
      /\ n.label = OrElse(f.label, Trim(f.name)) /\ n.enum = NormalizeStrings(f.enum)
  BY DEF NormalField
<1>3. \A w : Trim(Plain(w)) = w
  BY DEF Trim, Plain
<1>4. NormalizeStrings(n.enum) = n.enum
  BY <1>1, <1>2, Normalized
<1>5. OrElse(n.label, Trim(n.name)) = n.label
  BY <1>2, <1>3, OrElseSettles
<1>6. NormalField(n) = [name |-> n.name, type |-> n.type, label |-> n.label, enum |-> n.enum]
  BY <1>2, <1>3, <1>4, <1>5 DEF NormalField
<1>7. n = [name |-> n.name, type |-> n.type, label |-> n.label, enum |-> n.enum]
  BY DEF NormalField
<1>8. ValidField(n)
  BY <1>2, <1>3, <1>4 DEF ValidField, Name, Blank, Trim
<1>9. Trim(n.name) = Trim(f.name) /\ Trim(f.name) \in Nat
  BY <1>1, <1>2, <1>3 DEF Trim, Texts
<1> QED
  BY <1>6, <1>7, <1>8, <1>9

LEMMA RelationshipSettles ==
  ASSUME NEW r \in AnyRelationship, NEW m, m # 0, ~HasSpace(m), ValidRelationship(r)
  PROVE  /\ ValidRelationship(NormalRelationship(r, m))
         /\ NormalRelationship(NormalRelationship(r, m), m) = NormalRelationship(r, m)
         /\ Trim(NormalRelationship(r, m).name) = Trim(r.name) /\ Trim(r.name) \in Nat
         /\ ~Blank(NormalRelationship(r, m).targetModule)
         /\ ~Blank(NormalRelationship(r, m).targetEntity)
<1> DEFINE n == NormalRelationship(r, m)
<1>1. r.name \in Texts
  BY DEF AnyRelationship
<1>2. /\ n.name = Plain(Trim(r.name)) /\ n.kind = Plain(Trim(r.kind))
      /\ n.targetEntity = Plain(Trim(r.targetEntity))
      /\ n.targetModule = OrElse(r.targetModule, m)
  BY DEF NormalRelationship
<1>3. \A w : Trim(Plain(w)) = w
  BY DEF Trim, Plain
<1>4. OrElse(n.targetModule, m) = n.targetModule
  BY <1>2, OrElseSettles
<1>5. NormalRelationship(n, m) = [name |-> n.name, kind |-> n.kind,
                                  targetEntity |-> n.targetEntity, targetModule |-> n.targetModule]
  BY <1>2, <1>3, <1>4 DEF NormalRelationship
<1>6. n = [name |-> n.name, kind |-> n.kind,
           targetEntity |-> n.targetEntity, targetModule |-> n.targetModule]
  BY DEF NormalRelationship
<1>7. Trim(n.targetModule) = (IF Trim(r.targetModule) = 0 THEN m ELSE Trim(r.targetModule))
  BY <1>2, OrElseSettles
<1>8. ValidRelationship(n)
  BY <1>2, <1>3, <1>7 DEF ValidRelationship, Name, Blank, Trim
<1>9. Trim(n.name) = Trim(r.name) /\ Trim(r.name) \in Nat
  BY <1>1, <1>2, <1>3 DEF Trim, Texts
<1>10. ~Blank(n.targetModule) /\ ~Blank(n.targetEntity)
  BY <1>2, <1>3, <1>7 DEF ValidRelationship, Name, Blank, Trim, Empty
<1> QED
  BY <1>5, <1>6, <1>8, <1>9, <1>10

LEMMA FieldsSettle ==
  ASSUME NEW fs \in Seq(AnyField), \A f \in ToSet(fs) : ValidField(f), NoDoubles(fs)
  PROVE  LET S == {NormalField(f) : f \in ToSet(fs)}
         IN /\ \A f \in ToSet(ByName(S)) : ValidField(f)
            /\ NoDoubles(ByName(S))
            /\ {NormalField(f) : f \in ToSet(ByName(S))} = S
<1> DEFINE T == ToSet(fs)
           S == {NormalField(f) : f \in T}
           g == [f \in T |-> NormalField(f)]
<1>1. T = {fs[i] : i \in DOMAIN fs} /\ IsFiniteSet(T) /\ T \subseteq AnyField
  BY RunThroughFinite DEF ToSet
<1>2. \A f \in T : ValidField(f)
  OBVIOUS
<1> HIDE DEF T
<1>3. \A f \in T : /\ ValidField(NormalField(f))
                   /\ NormalField(NormalField(f)) = NormalField(f)
                   /\ Trim(NormalField(f).name) = Trim(f.name) /\ Trim(f.name) \in Nat
  BY <1>1, <1>2, FieldSettles
<1>4. IsFiniteSet(S)
  <2>1. S = {g[f] : f \in T} /\ DOMAIN g = T
    OBVIOUS
  <2> HIDE DEF g
  <2> QED
    BY <1>1, <2>1, ImageFinite
<1>5. \A f, h \in T : Trim(f.name) = Trim(h.name) => f = h
  BY <1>1 DEF NoDoubles
<1>6. Named(S)
  <2>1. \A x \in S : \E f \in T : x = NormalField(f)
    OBVIOUS
  <2> HIDE DEF S
  <2> QED
    BY <1>3, <1>4, <1>5, <2>1 DEF Named
<1>7. ToSet(ByName(S)) = S /\ NoDoubles(ByName(S))
  BY <1>6, SortedByName
<1>8. {NormalField(f) : f \in S} = S
  BY <1>3
<1>9. \A f \in S : ValidField(f)
  BY <1>3
<1> QED
  BY <1>7, <1>8, <1>9 DEF T

LEMMA RelationshipsSettle ==
  ASSUME NEW rs \in Seq(AnyRelationship), NEW m, m # 0, ~HasSpace(m),
         \A r \in ToSet(rs) : ValidRelationship(r), NoDoubles(rs)
  PROVE  LET S == {NormalRelationship(r, m) : r \in ToSet(rs)}
         IN /\ \A r \in ToSet(ByName(S)) :
                 ValidRelationship(r) /\ ~Blank(r.targetModule) /\ ~Blank(r.targetEntity)
            /\ NoDoubles(ByName(S))
            /\ {NormalRelationship(r, m) : r \in ToSet(ByName(S))} = S
<1> DEFINE T == ToSet(rs)
           S == {NormalRelationship(r, m) : r \in T}
           g == [r \in T |-> NormalRelationship(r, m)]
<1>1. T = {rs[i] : i \in DOMAIN rs} /\ IsFiniteSet(T) /\ T \subseteq AnyRelationship
  BY RunThroughFinite DEF ToSet
<1>2. \A r \in T : ValidRelationship(r)
  OBVIOUS
<1> HIDE DEF T
<1>3. \A r \in T : /\ ValidRelationship(NormalRelationship(r, m))
                   /\ NormalRelationship(NormalRelationship(r, m), m) = NormalRelationship(r, m)
                   /\ Trim(NormalRelationship(r, m).name) = Trim(r.name)
                   /\ Trim(r.name) \in Nat
                   /\ ~Blank(NormalRelationship(r, m).targetModule)
                   /\ ~Blank(NormalRelationship(r, m).targetEntity)
  BY <1>1, <1>2, RelationshipSettles
<1>4. IsFiniteSet(S)
  <2>1. S = {g[r] : r \in T} /\ DOMAIN g = T
    OBVIOUS
  <2> HIDE DEF g
  <2> QED
    BY <1>1, <2>1, ImageFinite
<1>5. \A q, r \in T : Trim(q.name) = Trim(r.name) => q = r
  BY <1>1 DEF NoDoubles
<1>6. Named(S)
  <2>1. \A x \in S : \E r \in T : x = NormalRelationship(r, m)
    OBVIOUS
  <2> HIDE DEF S
  <2> QED
    BY <1>3, <1>4, <1>5, <2>1 DEF Named
<1>7. ToSet(ByName(S)) = S /\ NoDoubles(ByName(S))
  BY <1>6, SortedByName
<1>8. {NormalRelationship(r, m) : r \in S} = S
  BY <1>3
<1>9. \A r \in S : ValidRelationship(r) /\ ~Blank(r.targetModule) /\ ~Blank(r.targetEntity)
  BY <1>3
<1> QED
  BY <1>7, <1>8, <1>9 DEF T

-----------------------------------------------------------------------------
LEMMA AppendWords ==
  ASSUME NEW texts \in Seq(Texts), NEW w \in Nat \ {0}
  PROVE  /\ Append(texts, Plain(w)) \in Seq(Texts)
         /\ WordsOf(Append(texts, Plain(w))) = WordsOf(texts) \cup {w}
<1> DEFINE more == Append(texts, Plain(w))
<1>1. Plain(w) \in Texts /\ Trim(Plain(w)) = w
  BY DEF Plain, Trim, Texts
<1>2. PICK n \in Nat : n = Len(texts)
  OBVIOUS
<1>3. /\ more \in Seq(Texts) /\ Len(more) = n + 1 /\ more[n + 1] = Plain(w)
      /\ \A i \in 1..n : more[i] = texts[i]
  BY <1>1, <1>2
<1>4. 1..(n + 1) = (1..n) \cup {n + 1}
  BY <1>2
<1> HIDE DEF more
<1>5. \A v : v \in WordsOf(texts) <=> v # 0 /\ \E i \in 1..n : v = Trim(texts[i])
  BY <1>2, WordsFinite
<1>6. \A v : v \in WordsOf(more) <=> v # 0 /\ \E i \in 1..(n + 1) : v = Trim(more[i])
  <2>1. more \in Seq(Texts)
    BY <1>3
  <2>2. \A v : v \in WordsOf(more) <=> v # 0 /\ \E i \in 1..Len(more) : v = Trim(more[i])
    BY <2>1, WordsFinite
  <2>3. Len(more) = n + 1
    BY <1>3
  <2> QED
    BY <2>2, <2>3
<1>7. \A v : v \in WordsOf(more) <=> v \in WordsOf(texts) \/ v = w
  BY <1>1, <1>3, <1>4, <1>5, <1>6
<1> QED
  BY <1>3, <1>7 DEF more

LEMMA ConcatenatedWords ==
  ASSUME NEW a \in Seq(Texts), NEW b \in Seq(Texts)
  PROVE  a \o b \in Seq(Texts) /\ WordsOf(a \o b) = WordsOf(a) \cup WordsOf(b)
<1> DEFINE both == a \o b
<1>1. PICK m \in Nat : m = Len(a)
  OBVIOUS
<1>2. PICK n \in Nat : n = Len(b)
  OBVIOUS
<1>3. /\ both \in Seq(Texts) /\ Len(both) = m + n
      /\ \A i \in 1..m : both[i] = a[i]
      /\ \A i \in 1..n : both[m + i] = b[i]
  BY <1>1, <1>2
<1>4. /\ \A i \in 1..(m + n) : i \in 1..m \/ (i - m \in 1..n /\ m + (i - m) = i)
      /\ \A i \in 1..m : i \in 1..(m + n)
      /\ \A i \in 1..n : m + i \in 1..(m + n)
  BY <1>1, <1>2
<1> HIDE DEF both
<1>5. \A v : v \in WordsOf(a) <=> v # 0 /\ \E i \in 1..m : v = Trim(a[i])
  BY <1>1, WordsFinite
<1>6. \A v : v \in WordsOf(b) <=> v # 0 /\ \E i \in 1..n : v = Trim(b[i])
  BY <1>2, WordsFinite
<1>7. \A v : v \in WordsOf(both) <=> v # 0 /\ \E i \in 1..(m + n) : v = Trim(both[i])
  <2>1. both \in Seq(Texts)
    BY <1>3
  <2>2. \A v : v \in WordsOf(both) <=> v # 0 /\ \E i \in 1..Len(both) : v = Trim(both[i])
    BY <2>1, WordsFinite
  <2>3. Len(both) = m + n
    BY <1>3
  <2> QED
    BY <2>2, <2>3
<1>8. ASSUME NEW v \in WordsOf(both) PROVE v \in WordsOf(a) \cup WordsOf(b)
  <2>1. PICK i \in 1..(m + n) : v = Trim(both[i]) /\ v # 0
    BY <1>7
  <2>2. CASE i \in 1..m
    BY <1>3, <1>5, <2>1, <2>2
  <2>3. CASE i - m \in 1..n /\ m + (i - m) = i
    <3>1. both[i] = b[i - m]
      BY <1>3, <2>3
    <3> QED
      BY <1>6, <2>1, <2>3, <3>1
  <2> QED
    BY <1>4, <2>2, <2>3
<1>9. \A v : v \in WordsOf(a) \cup WordsOf(b) => v \in WordsOf(both)
  BY <1>3, <1>4, <1>5, <1>6, <1>7
<1> QED
  BY <1>3, <1>8, <1>9 DEF both

LEMMA CapabilitiesSettle ==
  ASSUME NEW caps \in Seq(Texts), ValidCapabilities(caps), NEW scoped \in BOOLEAN
  PROVE  LET n == NormalizeStrings(IF scoped THEN Append(caps, Plain(TenantScoped)) ELSE caps)
         IN /\ n \in Seq(Texts) /\ ValidCapabilities(n)
            /\ NormalizeStrings(IF scoped THEN Append(n, Plain(TenantScoped)) ELSE n) = n
            /\ \A i, j \in DOMAIN n : i < j => Trim(n[i]) < Trim(n[j])
            /\ scoped => Contains(n, Plain(TenantScoped))
<1> DEFINE all == IF scoped THEN Append(caps, Plain(TenantScoped)) ELSE caps
           n == NormalizeStrings(all)
           W == WordsOf(caps) \cup (IF scoped THEN {TenantScoped} ELSE {})
<1>1. TenantScoped \in Nat \ {0} /\ TenantScoped \in Capabilities
  BY EntityAssumption DEF Empty
<1>2. all \in Seq(Texts) /\ WordsOf(all) = W
  <2>1. CASE scoped
    BY <1>1, <2>1, AppendWords
  <2>2. CASE ~scoped
    BY <2>2
  <2> QED
    BY <2>1, <2>2
<1> HIDE DEF all
<1>3. /\ n \in Seq(Texts) /\ ToSet(n) = {Plain(w) : w \in W} /\ WordsOf(n) = W
      /\ NormalizeStrings(n) = n
      /\ \A i, j \in DOMAIN n : i < j => Trim(n[i]) < Trim(n[j])
  BY <1>2, Normalized
<1>4. \A w : Trim(Plain(w)) = w
  BY DEF Trim, Plain
<1>5. \A w \in W : w \in Capabilities \cup Extensions
  <2>1. ToSet(NormalizeStrings(caps)) = {Plain(w) : w \in WordsOf(caps)}
    BY Normalized
  <2>2. \A w \in WordsOf(caps) : w \in Capabilities \cup Extensions
    BY <1>4, <2>1 DEF ValidCapabilities
  <2> QED
    BY <1>1, <2>2
<1> HIDE DEF n
<1>6. ValidCapabilities(n)
  <2>1. \A c \in ToSet(n) : Trim(c) \in Capabilities \cup Extensions
    BY <1>3, <1>4, <1>5
  <2> QED
    BY <1>3, <2>1 DEF ValidCapabilities
<1>7. NormalizeStrings(IF scoped THEN Append(n, Plain(TenantScoped)) ELSE n) = n
  <2>1. CASE scoped
    <3>1. WordsOf(Append(n, Plain(TenantScoped))) = WordsOf(n)
      BY <1>1, <1>3, <2>1, AppendWords
    <3>2. NormalizeStrings(Append(n, Plain(TenantScoped))) = NormalizeStrings(n)
      BY <3>1, SameWords
    <3> QED
      BY <1>3, <2>1, <3>2
  <2>2. CASE ~scoped
    BY <1>3, <2>2
  <2> QED
    BY <2>1, <2>2
<1>8. scoped => Contains(n, Plain(TenantScoped))
  <2>1. ToSet(n) = {n[i] : i \in 1..Len(n)}
    BY <1>3, RunThroughFinite
  <2>2. scoped => Plain(TenantScoped) \in ToSet(n)
    BY <1>3
  <2> QED
    BY <2>1, <2>2 DEF Contains
<1> QED
  BY <1>3, <1>6, <1>7, <1>8 DEF n, all

-----------------------------------------------------------------------------
EntityOps == {"read", "write", "delete"}

(* What is said of one published descriptor, and what makes it so.         *)
SettledDescriptor(d) ==
  /\ ValidDescriptor(d) /\ NormalDescriptor(d) = d
  /\ \A i, j \in DOMAIN d.capabilities :
       i < j => Trim(d.capabilities[i]) < Trim(d.capabilities[j])
  /\ d.tenantScoped => Contains(d.capabilities, Plain(TenantScoped))
  /\ \A r \in ToSet(d.relationships) : ~Blank(r.targetModule) /\ ~Blank(r.targetEntity)
  /\ \A op \in EntityOps : d.policy[op] \in Seq(Texts)

LEMMA DescriptorSettles ==
  ASSUME NEW d \in AnyDescriptor, ValidDescriptor(d)
  PROVE  SettledDescriptor(NormalDescriptor(d)) /\ Key(NormalDescriptor(d)) = Key(d)
<1> DEFINE n == NormalDescriptor(d)
           display == OrElse(d.display, Trim(d.entity))
           fields == ByName({NormalField(f) : f \in ToSet(d.fields)})
           relationships == ByName({NormalRelationship(r, Trim(d.module)) :
                                      r \in ToSet(d.relationships)})
           policy == [op \in EntityOps |-> NormalizeStrings(d.policy[op])]
<1>1. /\ d.module \in Texts /\ d.entity \in Texts /\ d.tenantScoped \in BOOLEAN
      /\ d.capabilities \in Seq(Texts) /\ d.fields \in Seq(AnyField)
      /\ d.relationships \in Seq(AnyRelationship) /\ d.policy \in [EntityOps -> Seq(Texts)]
  BY DEF AnyDescriptor, EntityOps
<1>2. /\ Name(d.module) /\ Name(d.entity) /\ ValidCapabilities(d.capabilities)
      /\ \A f \in ToSet(d.fields) : ValidField(f)
      /\ NoDoubles(d.fields)
      /\ \A r \in ToSet(d.relationships) : ValidRelationship(r)
      /\ NoDoubles(d.relationships)
  BY DEF ValidDescriptor
<1>3. n = [module |-> Plain(Trim(d.module)), entity |-> Plain(Trim(d.entity)),
           display |-> display, plural |-> OrElse(d.plural, Plural(Trim(display))),
           tenantScoped |-> d.tenantScoped, capabilities |-> NormalCapabilities(d),
           fields |-> fields, relationships |-> relationships, policy |-> policy]
  BY DEF NormalDescriptor, EntityOps
<1>4. Trim(d.module) # 0 /\ ~HasSpace(Trim(d.module))
  BY <1>2 DEF Name, Blank, Empty, Trim
<1>5. \A w : Trim(Plain(w)) = w
  BY DEF Trim, Plain
<1>6. /\ n.module = Plain(Trim(d.module)) /\ n.entity = Plain(Trim(d.entity))
      /\ n.display = display /\ n.plural = OrElse(d.plural, Plural(Trim(display)))
      /\ n.tenantScoped = d.tenantScoped /\ n.capabilities = NormalCapabilities(d)
      /\ n.fields = fields /\ n.relationships = relationships /\ n.policy = policy
  BY <1>3
<1>7. /\ n.capabilities \in Seq(Texts) /\ ValidCapabilities(n.capabilities)
      /\ NormalCapabilities(n) = n.capabilities
      /\ \A i, j \in DOMAIN n.capabilities :
           i < j => Trim(n.capabilities[i]) < Trim(n.capabilities[j])
      /\ n.tenantScoped => Contains(n.capabilities, Plain(TenantScoped))
  <2>1. NormalCapabilities(n) =
          NormalizeStrings(IF d.tenantScoped THEN Append(n.capabilities, Plain(TenantScoped))
                           ELSE n.capabilities)
    BY <1>6 DEF NormalCapabilities
  <2>2. n.capabilities =
          NormalizeStrings(IF d.tenantScoped THEN Append(d.capabilities, Plain(TenantScoped))
                           ELSE d.capabilities)
    BY <1>6 DEF NormalCapabilities
  <2>3. n.tenantScoped = d.tenantScoped
    BY <1>6
  <2> HIDE DEF n
  <2> QED
    BY <1>1, <1>2, <2>1, <2>2, <2>3, CapabilitiesSettle
<1>8. /\ \A f \in ToSet(n.fields) : ValidField(f)
      /\ NoDoubles(n.fields)
      /\ ByName({NormalField(f) : f \in ToSet(n.fields)}) = n.fields
  <2>1. n.fields = fields
    BY <1>6
  <2> HIDE DEF n
  <2> QED
    BY <1>1, <1>2, <2>1, FieldsSettle
<1>9. /\ \A r \in ToSet(n.relationships) :
           ValidRelationship(r) /\ ~Blank(r.targetModule) /\ ~Blank(r.targetEntity)
      /\ NoDoubles(n.relationships)
      /\ ByName({NormalRelationship(r, Trim(d.module)) : r \in ToSet(n.relationships)})
           = n.relationships
  <2>1. n.relationships = relationships
    BY <1>6
  <2> HIDE DEF n
  <2> QED
    BY <1>1, <1>2, <1>4, <2>1, RelationshipsSettle
<1>10. \A op \in EntityOps : /\ n.policy[op] \in Seq(Texts)
                       /\ NormalizeStrings(n.policy[op]) = n.policy[op]
  <2>1. \A op \in EntityOps : /\ d.policy[op] \in Seq(Texts)
                              /\ n.policy[op] = NormalizeStrings(d.policy[op])
    BY <1>1, <1>6
  <2> HIDE DEF n
  <2> QED
    BY <2>1, Normalized
<1>11. [op \in EntityOps |-> NormalizeStrings(n.policy[op])] = n.policy
  <2>1. n.policy = [op \in EntityOps |-> NormalizeStrings(d.policy[op])]
    BY <1>6
  <2> HIDE DEF n
  <2>2. \A op \in EntityOps : NormalizeStrings(n.policy[op]) = n.policy[op]
    BY <1>10
  <2> QED
    BY <2>1, <2>2
<1>12. Trim(n.module) = Trim(d.module) /\ Trim(n.entity) = Trim(d.entity)
  BY <1>5, <1>6
<1>13. /\ OrElse(n.display, Trim(n.entity)) = n.display
       /\ OrElse(n.plural, Plural(Trim(n.display))) = n.plural
  BY <1>6, <1>12, OrElseSettles
<1>14. ValidDescriptor(n)
  <2>1. Name(n.module) /\ Name(n.entity)
    BY <1>2, <1>12 DEF Name, Blank, Trim
  <2> HIDE DEF n
  <2> QED
    BY <1>7, <1>8, <1>9, <2>1 DEF ValidDescriptor
<1>15. NormalDescriptor(n) = n
  <2>1. NormalDescriptor(n) =
          [module |-> Plain(Trim(n.module)), entity |-> Plain(Trim(n.entity)),
           display |-> OrElse(n.display, Trim(n.entity)),
           plural |-> OrElse(n.plural, Plural(Trim(OrElse(n.display, Trim(n.entity))))),
           tenantScoped |-> n.tenantScoped, capabilities |-> NormalCapabilities(n),
           fields |-> ByName({NormalField(f) : f \in ToSet(n.fields)}),
           relationships |-> ByName({NormalRelationship(r, Trim(n.module)) :
                                       r \in ToSet(n.relationships)}),
           policy |-> [op \in EntityOps |-> NormalizeStrings(n.policy[op])]]
    BY DEF NormalDescriptor, EntityOps
  <2>2. Plain(Trim(n.module)) = n.module /\ Plain(Trim(n.entity)) = n.entity
    BY <1>6, <1>12
  <2>3. NormalDescriptor(n) =
          [module |-> n.module, entity |-> n.entity, display |-> n.display,
           plural |-> n.plural, tenantScoped |-> n.tenantScoped,
           capabilities |-> n.capabilities, fields |-> n.fields,
           relationships |-> n.relationships, policy |-> n.policy]
    <3> HIDE DEF n
    <3> QED
      BY <1>7, <1>8, <1>9, <1>11, <1>12, <1>13, <2>1, <2>2
  <2>4. n = [module |-> n.module, entity |-> n.entity, display |-> n.display,
             plural |-> n.plural, tenantScoped |-> n.tenantScoped,
             capabilities |-> n.capabilities, fields |-> n.fields,
             relationships |-> n.relationships, policy |-> n.policy]
    BY <1>3, <1>6
  <2> QED
    BY <2>3, <2>4
<1>16. Key(n) = Key(d)
  BY <1>12 DEF Key
<1> HIDE DEF n
<1> QED
  BY <1>7, <1>9, <1>10, <1>14, <1>15, <1>16 DEF SettledDescriptor, n

(* All the tokens asked for are those of some operation.                   *)
LEMMA TokensOfOperations ==
  ASSUME NEW d, SettledDescriptor(d)
  PROVE  ToSet(RequiredPolicyTokens(d)) = UNION {ToSet(OperationPolicy(d, op)) : op \in EntityOps}
<1> DEFINE tokens(op) == {Plain(w) : w \in WordsOf(d.policy[op])}
<1>1. \A op \in EntityOps : /\ OperationPolicy(d, op) = d.policy[op]
                      /\ d.policy[op] \in Seq(Texts)
                      /\ NormalizeStrings(d.policy[op]) = d.policy[op]
  <2>1. ValidDescriptor(d) /\ NormalDescriptor(d) = d
        /\ \A op \in EntityOps : d.policy[op] \in Seq(Texts)
    BY DEF SettledDescriptor
  <2>2. NormalDescriptor(d).policy = [op \in EntityOps |-> NormalizeStrings(d.policy[op])]
    BY DEF NormalDescriptor, EntityOps
  <2>3. d.policy = [op \in EntityOps |-> NormalizeStrings(d.policy[op])]
    BY <2>1, <2>2
  <2> DEFINE p == d.policy
  <2>4. p = [op \in EntityOps |-> NormalizeStrings(p[op])]
    BY <2>3
  <2> HIDE DEF p
  <2>5. \A op \in EntityOps : p[op] = NormalizeStrings(p[op])
    BY <2>4
  <2> QED
    BY <2>1, <2>5 DEF OperationPolicy, p
<1>2. \A op \in EntityOps : ToSet(OperationPolicy(d, op)) = tokens(op)
  BY <1>1, Normalized
<1>3. "read" \in EntityOps /\ "write" \in EntityOps /\ "delete" \in EntityOps
  BY DEF EntityOps
<1> DEFINE r == d.policy["read"]
           w == d.policy["write"]
           x == d.policy["delete"]
<1>4. r \in Seq(Texts) /\ w \in Seq(Texts) /\ x \in Seq(Texts)
  BY <1>1, <1>3
<1>5. RequiredPolicyTokens(d) = NormalizeStrings(r \o w \o x)
  BY <1>1, <1>3 DEF RequiredPolicyTokens
<1> HIDE DEF r, w, x
<1>6. r \o w \in Seq(Texts) /\ WordsOf(r \o w) = WordsOf(r) \cup WordsOf(w)
  BY <1>4, ConcatenatedWords
<1>7. /\ (r \o w) \o x \in Seq(Texts)
      /\ WordsOf((r \o w) \o x) = WordsOf(r) \cup WordsOf(w) \cup WordsOf(x)
  BY <1>4, <1>6, ConcatenatedWords
<1>8. ToSet(RequiredPolicyTokens(d)) =
        {Plain(v) : v \in WordsOf(r) \cup WordsOf(w) \cup WordsOf(x)}
  BY <1>5, <1>7, Normalized
<1>9. UNION {ToSet(OperationPolicy(d, op)) : op \in EntityOps} =
        tokens("read") \cup tokens("write") \cup tokens("delete")
  BY <1>2 DEF EntityOps
<1> QED
  BY <1>8, <1>9 DEF r, w, x

-----------------------------------------------------------------------------
(* All that is published is settled, and no key is published twice.        *)
EntityInvariant ==
  /\ published \in Seq({NormalDescriptor(e) : e \in AnyDescriptor})
  /\ \A k \in DOMAIN published : SettledDescriptor(published[k])
  /\ \A j, k \in DOMAIN published : Key(published[j]) = Key(published[k]) => j = k

LEMMA PublishedSettled ==
  ASSUME EntityInvariant, NEW d \in AnyDescriptor, PublishEntity(d)
  PROVE  EntityInvariant'
<1> DEFINE N == {NormalDescriptor(e) : e \in AnyDescriptor}
           p == NormalDescriptor(d)
<1>1. CASE published' = published
  BY <1>1 DEF EntityInvariant, SettledDescriptor
<1>2. CASE /\ published' = Append(published, NormalDescriptor(d))
           /\ ValidDescriptor(d) /\ \A y \in ToSet(published) : Key(y) # Key(d)
  <2>1. SettledDescriptor(p) /\ Key(p) = Key(d)
    BY <1>2, DescriptorSettles
  <2>2. p \in N
    OBVIOUS
  <2>3. published' = Append(published, p)
    BY <1>2
  <2> HIDE DEF p, N
  <2>4. published \in Seq(N)
    BY DEF EntityInvariant, N
  <2>5. PICK m \in Nat : m = Len(published)
    BY <2>4
  <2>6. /\ published' \in Seq(N) /\ DOMAIN published' = 1..(m + 1)
        /\ DOMAIN published = 1..m
        /\ published'[m + 1] = p /\ \A i \in 1..m : published'[i] = published[i]
    BY <2>2, <2>3, <2>4, <2>5
  <2>7. \A i \in 1..(m + 1) : i = m + 1 \/ i \in 1..m
    BY <2>5
  <2>8. \A k \in 1..(m + 1) : SettledDescriptor(published'[k])
    BY <2>1, <2>6, <2>7 DEF EntityInvariant
  <2>9. \A k \in 1..m : Key(published[k]) # Key(p)
    BY <1>2, <2>1, <2>6 DEF ToSet
  <2>10. \A j, k \in 1..(m + 1) : Key(published'[j]) = Key(published'[k]) => j = k
    BY <2>6, <2>7, <2>9 DEF EntityInvariant
  <2> QED
    BY <2>6, <2>8, <2>10 DEF EntityInvariant, N
<1> QED
  BY <1>1, <1>2 DEF PublishEntity

LEMMA EntityAlways == EntitySpec => []EntityInvariant
<1>1. EntityInit => EntityInvariant
  BY DEF EntityInit, EntityInvariant
<1>2. EntityInvariant /\ [EntityNext]_entityVars => EntityInvariant'
  <2> SUFFICES ASSUME EntityInvariant, [EntityNext]_entityVars PROVE EntityInvariant'
    OBVIOUS
  <2>1. CASE EntityNext
    <3>1. PICK d \in DescriptorMenu \cup LaterMenu : PublishEntity(d)
      BY <2>1 DEF EntityNext
    <3> QED
      BY <3>1, EntityAssumption, PublishedSettled
  <2>2. CASE UNCHANGED entityVars
    BY <2>2 DEF entityVars, EntityInvariant
  <2> QED
    BY <2>1, <2>2
<1> QED
  BY <1>1, <1>2, PTL DEF EntitySpec

(* Whatever descriptors are offered and in whatever order, what the        *)
(* catalog publishes is valid and normalizing it again changes nothing:    *)
(* capabilities sorted, with the tenant's among them where the entity is   *)
(* scoped, relationships with a target, every policy token that of some    *)
(* operation, and no two descriptors under one key (entity.go, NewCatalog, *)
(* NormalizeDescriptor, RequiredPolicyTokens).                             *)
THEOREM DescriptorsAreSettled == EntitySpec => []DescriptorsSettle
<1>1. EntityInvariant => DescriptorsSettle
  <2> SUFFICES ASSUME EntityInvariant, NEW k \in DOMAIN published
               PROVE  LET d == published[k]
                          Sorted(s) == \A i, j \in DOMAIN s : i < j => Trim(s[i]) < Trim(s[j])
                      IN /\ ValidDescriptor(d) /\ NormalDescriptor(d) = d
                         /\ Sorted(d.capabilities)
                         /\ d.tenantScoped => Contains(d.capabilities, Plain(TenantScoped))
                         /\ \A r \in ToSet(d.relationships) :
                              ~Blank(r.targetModule) /\ ~Blank(r.targetEntity)
                         /\ ToSet(RequiredPolicyTokens(d)) =
                              UNION {ToSet(OperationPolicy(d, op)) : op \in EntityOps}
                         /\ \A j \in DOMAIN published : Key(published[j]) = Key(d) => j = k
    BY DEF DescriptorsSettle, EntityOps
  <2> DEFINE d == published[k]
  <2>1. SettledDescriptor(d)
    BY DEF EntityInvariant
  <2>2. ToSet(RequiredPolicyTokens(d)) = UNION {ToSet(OperationPolicy(d, op)) : op \in EntityOps}
    BY <2>1, TokensOfOperations
  <2>3. \A j \in DOMAIN published : Key(published[j]) = Key(d) => j = k
    BY DEF EntityInvariant
  <2> HIDE DEF d
  <2> QED
    BY <2>1, <2>2, <2>3 DEF SettledDescriptor, d
<1> QED
  BY <1>1, EntityAlways, PTL

-----------------------------------------------------------------------------
(* Composition: the modules a catalog offers, the providers their          *)
(* dependencies are given, and the order they are started in.              *)
CompositionSpec == CompositionInit /\ [][CompositionNext]_compVars

-----------------------------------------------------------------------------
(* A list without doubles in which every loop finds its places.            *)
LEMMA AscendingProperties ==
  ASSUME NEW K \in SUBSET Nat, IsFiniteSet(K)
  PROVE  /\ Cardinality(K) \in Nat /\ Ascending(K) \in [1..Cardinality(K) -> K]
         /\ \A i \in K : \E n \in 1..Cardinality(K) : Ascending(K)[n] = i
<1>1. \A n \in 1..Cardinality(K) : Ascending(K)[n] = Nth(K, n)
  BY DEF Ascending, Nth
<1>2. DOMAIN Ascending(K) = 1..Cardinality(K)
  BY DEF Ascending
<1>3. Ascending(K) = [n \in 1..Cardinality(K) |-> Ascending(K)[n]]
  <2> DEFINE nth(n) == CHOOSE m \in K : Cardinality({k \in K : k < m}) = n - 1
  <2>1. Ascending(K) = [n \in 1..Cardinality(K) |-> nth(n)]
    BY Zenon DEF Ascending
  <2> HIDE DEF nth
  <2> QED
    BY <2>1
<1> HIDE DEF Ascending
<1> QED
  BY <1>1, <1>2, <1>3, NthProperties

LEMMA ThoseAre ==
  ASSUME NEW T, NEW s \in Seq(T), NEW S \in SUBSET DOMAIN s
  PROVE  /\ Those(s, S) \in Seq(T)
         /\ ToSet(Those(s, S)) = {s[i] : i \in S}
         /\ Those(s, S) = <<>> <=> S = {}
<1>1. S \in SUBSET Nat /\ IsFiniteSet(S)
  <2>1. IsFiniteSet(1..Len(s)) /\ S \subseteq 1..Len(s)
    BY FS_Interval
  <2> QED
    BY <2>1, FS_Subset
<1> DEFINE size == Cardinality(S)
           A == Ascending(S)
           R == Those(s, S)
<1>2. /\ size \in Nat /\ A \in [1..size -> S]
      /\ \A i \in S : \E n \in 1..size : A[n] = i
  BY <1>1, AscendingProperties
<1>3. R = [n \in 1..size |-> s[A[n]]]
  BY DEF Those
<1> HIDE DEF A, R
<1>4. \A n \in 1..size : A[n] \in S /\ s[A[n]] \in T
  BY <1>2
<1>5. R \in Seq(T) /\ Len(R) = size /\ DOMAIN R = 1..size
  BY <1>2, <1>3, <1>4
<1>6. ToSet(R) = {s[i] : i \in S}
  BY <1>2, <1>3, <1>4, <1>5 DEF ToSet
<1>7. R = <<>> <=> S = {}
  <2>1. S = {} <=> size = 0
    BY <1>1, FS_EmptySet
  <2>2. R = <<>> <=> size = 0
    BY <1>2, <1>5
  <2> QED
    BY <2>1, <2>2
<1> QED
  BY <1>5, <1>6, <1>7 DEF R

LEMMA InTurnProperties ==
  ASSUME NEW P \in SUBSET (Nat \X Nat), IsFiniteSet(P)
  PROVE  /\ Cardinality(P) \in Nat /\ InTurn(P) \in [1..Cardinality(P) -> P]
         /\ \A m, n \in 1..Cardinality(P) : m < n => Earlier(InTurn(P)[m], InTurn(P)[n])
         /\ \A x \in P : \E n \in 1..Cardinality(P) : InTurn(P)[n] = x
<1> DEFINE R == {p \in P \X P : Earlier(p[1], p[2])}
<1>0. \A x, y \in P : <<x, y>> \in R <=> Earlier(x, y)
  OBVIOUS
<1>1. Orders(R, P)
  <2> HIDE DEF R
  <2>1. \A x \in P : x[1] \in Nat /\ x[2] \in Nat /\ x = <<x[1], x[2]>>
    OBVIOUS
  <2>2. \A x \in P : ~Earlier(x, x)
    BY <2>1 DEF Earlier
  <2>3. \A x, y, z \in P : Earlier(x, y) /\ Earlier(y, z) => Earlier(x, z)
    BY <2>1 DEF Earlier
  <2>4. \A x, y \in P : x # y => Earlier(x, y) \/ Earlier(y, x)
    BY <2>1 DEF Earlier
  <2> QED
    BY <1>0, <2>2, <2>3, <2>4 DEF Orders
<1>2. \A x \in P : Below(R, P, x) = {y \in P : Earlier(y, x)}
  BY <1>0 DEF Below
<1> HIDE DEF R
<1>3. \A n \in 1..Cardinality(P) : InTurn(P)[n] = Ranked(R, P, n)
  BY <1>2 DEF InTurn, Ranked
<1>4. /\ Cardinality(P) \in Nat
      /\ \A n \in 1..Cardinality(P) : Ranked(R, P, n) \in P
      /\ \A m, n \in 1..Cardinality(P) : m < n => <<Ranked(R, P, m), Ranked(R, P, n)>> \in R
      /\ \A x \in P : \E n \in 1..Cardinality(P) : Ranked(R, P, n) = x
  BY <1>1, RankedProperties
<1>5. InTurn(P) = [n \in 1..Cardinality(P) |-> InTurn(P)[n]]
  <2> DEFINE nth(n) == CHOOSE x \in P : Cardinality({y \in P : Earlier(y, x)}) = n - 1
  <2>1. InTurn(P) = [n \in 1..Cardinality(P) |-> nth(n)]
    BY DEF InTurn
  <2> HIDE DEF nth
  <2> QED
    BY <2>1
<1>6. InTurn(P) \in [1..Cardinality(P) -> P]
  BY <1>3, <1>4, <1>5
<1>7. \A m, n \in 1..Cardinality(P) : m < n => Earlier(InTurn(P)[m], InTurn(P)[n])
  <2> TAKE m, n \in 1..Cardinality(P)
  <2>1. InTurn(P)[m] \in P /\ InTurn(P)[n] \in P
    BY <1>3, <1>4
  <2> QED
    BY <1>0, <1>3, <1>4, <2>1
<1>8. \A x \in P : \E n \in 1..Cardinality(P) : InTurn(P)[n] = x
  BY <1>3, <1>4
<1> QED
  BY <1>4, <1>6, <1>7, <1>8

LEMMA PlacesFinite ==
  ASSUME NEW lists, NEW n \in Nat, DOMAIN lists = 1..n,
         NEW lengths \in [1..n -> Nat], \A i \in 1..n : DOMAIN lists[i] = 1..lengths[i]
  PROVE  /\ PlacesOf(lists) \in SUBSET (Nat \X Nat) /\ IsFiniteSet(PlacesOf(lists))
         /\ \A x : x \in PlacesOf(lists) <=> \E i \in 1..n : \E j \in DOMAIN lists[i] : x = <<i, j>>
<1>1. \A x : x \in PlacesOf(lists) <=> \E i \in 1..n : \E j \in DOMAIN lists[i] : x = <<i, j>>
  BY DEF PlacesOf
<1>2. PlacesOf(lists) \in SUBSET (Nat \X Nat)
  BY <1>1
<1> DEFINE Row == [i \in 1..n |-> {i} \X DOMAIN lists[i]]
           Rows == {{i} \X DOMAIN lists[i] : i \in 1..n}
<1>3. IsFiniteSet(Rows)
  <2>1. IsFiniteSet(1..n)
    BY FS_Interval
  <2>2. Row \in Surjection(1..n, Rows)
    BY DEF Surjection
  <2> HIDE DEF Row, Rows
  <2> QED
    BY <2>1, <2>2, FS_Surjection
<1>4. \A T \in Rows : IsFiniteSet(T)
  <2> SUFFICES ASSUME NEW i \in 1..n PROVE IsFiniteSet({i} \X DOMAIN lists[i])
    OBVIOUS
  <2>1. IsFiniteSet({i})
    BY FS_Singleton
  <2>2. IsFiniteSet(1..lengths[i]) /\ 1..lengths[i] = DOMAIN lists[i]
    <3>1. lengths[i] \in Int
      OBVIOUS
    <3> QED
      BY <3>1, FS_Interval
  <2> QED
    BY <2>1, <2>2, FS_Product
<1>5. IsFiniteSet(UNION Rows)
  <2> HIDE DEF Rows
  <2> QED
    BY <1>3, <1>4, FS_UNION
<1> QED
  BY <1>1, <1>2, <1>5 DEF PlacesOf

LEMMA TextPlaces ==
  ASSUME NEW lists, NEW n \in Nat, DOMAIN lists = 1..n,
         NEW T, \A i \in 1..n : lists[i] \in Seq(T)
  PROVE  /\ PlacesOf(lists) \in SUBSET (Nat \X Nat) /\ IsFiniteSet(PlacesOf(lists))
         /\ \A x : x \in PlacesOf(lists) <=> \E i \in 1..n : \E j \in DOMAIN lists[i] : x = <<i, j>>
         /\ \A x \in PlacesOf(lists) : At(lists, x) \in T
<1> DEFINE lengths == [i \in 1..n |-> Len(lists[i])]
<1>1. lengths \in [1..n -> Nat] /\ \A i \in 1..n : DOMAIN lists[i] = 1..lengths[i]
  OBVIOUS
<1> HIDE DEF lengths
<1>2. /\ PlacesOf(lists) \in SUBSET (Nat \X Nat) /\ IsFiniteSet(PlacesOf(lists))
      /\ \A x : x \in PlacesOf(lists) <=> \E i \in 1..n : \E j \in DOMAIN lists[i] : x = <<i, j>>
  BY <1>1, PlacesFinite
<1>3. ASSUME NEW x \in PlacesOf(lists) PROVE At(lists, x) \in T
  <2>1. PICK i \in 1..n : \E j \in DOMAIN lists[i] : x = <<i, j>>
    BY <1>2
  <2>2. PICK j \in DOMAIN lists[i] : x = <<i, j>>
    BY <2>1
  <2> QED
    BY <2>2 DEF At
<1> QED
  BY <1>2, <1>3

AllDistinct(s) == \A i, j \in DOMAIN s : s[i] = s[j] => i = j

(* Normalized IDs are words, and each is there once.                       *)
LEMMA NormalIDs ==
  ASSUME NEW lists, NEW n \in Nat, DOMAIN lists = 1..n, \A i \in 1..n : lists[i] \in Seq(Texts)
  PROVE  NormalizeIDs(lists) \in Seq(Nat \ {Empty}) /\ AllDistinct(NormalizeIDs(lists))
<1> DEFINE Fresh(x) == /\ ~Blank(At(lists, x))
                       /\ \A y \in PlacesOf(lists) :
                            Earlier(y, x) => Trim(At(lists, y)) # Trim(At(lists, x))
           P == {x \in PlacesOf(lists) : Fresh(x)}
           size == Cardinality(P)
           F == InTurn(P)
           N == NormalizeIDs(lists)
<1>1. /\ PlacesOf(lists) \in SUBSET (Nat \X Nat) /\ IsFiniteSet(PlacesOf(lists))
      /\ \A x \in PlacesOf(lists) : At(lists, x) \in Texts
  BY TextPlaces
<1>2. P \in SUBSET (Nat \X Nat) /\ IsFiniteSet(P)
  BY <1>1, FS_Subset
<1>3. /\ size \in Nat /\ F \in [1..size -> P]
      /\ \A l, m \in 1..size : l < m => Earlier(F[l], F[m])
  <2> HIDE DEF P
  <2> QED
    BY <1>2, InTurnProperties
<1>4. \A x \in P : /\ Trim(At(lists, x)) \in Nat \ {Empty}
                   /\ \A y \in P : Earlier(y, x) => Trim(At(lists, y)) # Trim(At(lists, x))
  BY <1>1 DEF Blank, Trim, Texts, Empty
<1>5. N = [m \in DOMAIN F |-> Trim(At(lists, F[m]))]
  BY DEF NormalizeIDs
<1> HIDE DEF P, F, N
<1>6. DOMAIN N = 1..size /\ \A m \in 1..size : N[m] = Trim(At(lists, F[m])) /\ F[m] \in P
  BY <1>3, <1>5
<1>7. N \in Seq(Nat \ {Empty})
  <2>1. \A m \in 1..size : N[m] \in Nat \ {Empty}
    BY <1>4, <1>6
  <2>2. N = [m \in 1..size |-> N[m]]
    BY <1>3, <1>5
  <2> QED
    BY <1>3, <2>1, <2>2
<1>8. ASSUME NEW l \in 1..size, NEW m \in 1..size, l < m PROVE N[l] # N[m]
  BY <1>3, <1>4, <1>6, <1>8
<1>9. \A l, m \in 1..size : N[l] = N[m] => l = m
  <2>1. \A l, m \in 1..size : l < m \/ m < l \/ l = m
    BY <1>3
  <2> QED
    BY <1>8, <2>1
<1> QED
  BY <1>6, <1>7, <1>9 DEF AllDistinct, N

-----------------------------------------------------------------------------
(* Modules and their providers.                                            *)
AnyDeclaration == UNION {Declarations[id] \ {Nil} : id \in DOMAIN Declarations}

(* The modules built are those of the first IDs asked for.                 *)
ModulesInv ==
  /\ ids \in Seq(Nat \ {Empty}) /\ AllDistinct(ids)
  /\ modules \in Seq(AnyDeclaration) /\ Len(modules) <= Len(ids)
  /\ \A i \in DOMAIN modules : IdOf(modules[i]) = ids[i]

LEMMA DeclarationsListed ==
  ASSUME NEW d \in AnyDeclaration
  PROVE  d.deps \in Seq(ToSet(d.deps)) /\ \A dep \in ToSet(d.deps) : dep.fallbacks \in Seq(Texts)
BY CompositionAssumption DEF AnyDeclaration

LEMMA ModulesKnown ==
  ASSUME ModulesInv
  PROVE  /\ ModuleIDs \in SUBSET (Nat \ {Empty}) /\ IsFiniteSet(ModuleIDs)
         /\ Cardinality(ModuleIDs) = Len(modules)
         /\ \A i \in DOMAIN modules : /\ IdOf(modules[i]) \in ModuleIDs
                                      /\ ModuleOf(IdOf(modules[i])) = modules[i]
         /\ \A id \in ModuleIDs : \E i \in DOMAIN modules : id = IdOf(modules[i])
<1> DEFINE n == Len(modules)
           idOf == [i \in 1..n |-> ids[i]]
<1>1. n \in Nat /\ DOMAIN modules = 1..n /\ Len(ids) \in Nat /\ n <= Len(ids) /\ DOMAIN ids = 1..Len(ids)
  BY DEF ModulesInv
<1>2. \A i \in 1..n : i \in DOMAIN ids /\ ids[i] \in Nat \ {Empty} /\ IdOf(modules[i]) = ids[i]
  BY <1>1 DEF ModulesInv
<1>3. \A i, j \in 1..n : ids[i] = ids[j] => i = j
  BY <1>1, <1>2 DEF ModulesInv, AllDistinct
<1>4. /\ ModuleIDs \in SUBSET (Nat \ {Empty})
      /\ \A i \in 1..n : idOf[i] \in ModuleIDs
      /\ \A id \in ModuleIDs : \E i \in 1..n : id = idOf[i]
  BY <1>1, <1>2 DEF ModuleIDs
<1>5. IsFiniteSet(ModuleIDs) /\ Cardinality(ModuleIDs) = n
  <2>1. idOf \in [1..n -> ModuleIDs]
    BY <1>4
  <2>2. idOf \in Injection(1..n, ModuleIDs)
    BY <1>3, <2>1 DEF Injection, IsInjective
  <2>3. idOf \in Surjection(1..n, ModuleIDs)
    BY <1>4, <2>1 DEF Surjection
  <2> HIDE DEF idOf, n
  <2>4. IsFiniteSet(1..n) /\ Cardinality(1..n) = n
    BY <1>1, FS_Interval
  <2> QED
    BY <2>2, <2>3, <2>4, FS_Surjection, FS_Injection
<1>6. ASSUME NEW i \in 1..n PROVE ModuleOf(IdOf(modules[i])) = modules[i]
  <2>1. \A j \in DOMAIN modules : IdOf(modules[j]) = IdOf(modules[i]) => j = i
    BY <1>1, <1>2, <1>3
  <2> QED
    BY <1>1, <2>1 DEF ModuleOf
<1> QED
  BY <1>1, <1>2, <1>4, <1>5, <1>6

Served(dep) == {id \in ModuleIDs : Provides(id, dep)}

Fallbacks(dep) == {Trim(f) : f \in ToSet(dep.fallbacks)} \cap Served(dep)

(* What a provider that satisfies a dependency is to it.                   *)
Satisfies(id, dep) ==
  /\ id \in Served(dep)
  /\ \/ id = Trim(dep.preferred)
     \/ Trim(dep.preferred) \notin Served(dep) /\ id \in Fallbacks(dep)
     \/ Blank(dep.preferred) /\ Fallbacks(dep) = {}

LEMMA SatisfyingSay ==
  ASSUME ModulesInv, NEW dep, dep.fallbacks \in Seq(Texts)
  PROVE  /\ SatisfyingProviders(dep) \in Seq(Served(dep))
         /\ \A id \in ToSet(SatisfyingProviders(dep)) : Satisfies(id, dep)
<1> DEFINE V == Served(dep)
           A == Ascending(V)
           texts == [i \in DOMAIN dep.fallbacks |-> Trim(dep.fallbacks[i])]
           at == {i \in DOMAIN dep.fallbacks : Contains(A, texts[i])}
           G == Those(texts, at)
           P == Trim(dep.preferred)
           S == SatisfyingProviders(dep)
<1>1. V \in SUBSET (Nat \ {Empty}) /\ IsFiniteSet(V)
  <2>1. V \in SUBSET ModuleIDs
    BY DEF Served
  <2> QED
    BY <2>1, ModulesKnown, FS_Subset
<1>2. /\ Cardinality(V) \in Nat /\ A \in [1..Cardinality(V) -> V]
      /\ \A i \in V : \E n \in 1..Cardinality(V) : A[n] = i
  <2> HIDE DEF V
  <2> QED
    BY <1>1, AscendingProperties
<1> HIDE DEF V, A
<1>3. A \in Seq(V) /\ ToSet(A) = V /\ \A x : Contains(A, x) <=> x \in V
  <2>1. A \in Seq(V) /\ Len(A) = Cardinality(V) /\ DOMAIN A = 1..Cardinality(V)
    BY <1>2
  <2> QED
    BY <1>2, <2>1 DEF ToSet, Contains
<1>4. texts \in Seq(Nat) /\ DOMAIN texts = DOMAIN dep.fallbacks
      /\ {texts[i] : i \in DOMAIN texts} = {Trim(f) : f \in ToSet(dep.fallbacks)}
  <2>1. \A i \in 1..Len(dep.fallbacks) : Trim(dep.fallbacks[i]) \in Nat
    <3>1. \A x \in Texts : Trim(x) \in Nat
      BY DEF Trim, Texts
    <3> QED
      BY <3>1
  <2>2. texts \in Seq(Nat) /\ DOMAIN texts = DOMAIN dep.fallbacks
    BY <2>1
  <2>3. {texts[i] : i \in DOMAIN texts} = {Trim(f) : f \in ToSet(dep.fallbacks)}
    BY DEF ToSet
  <2> QED
    BY <2>2, <2>3
<1>5. G \in Seq(Nat) /\ ToSet(G) = {texts[i] : i \in at} /\ (G = <<>> <=> at = {})
  <2>1. at \in SUBSET DOMAIN texts
    OBVIOUS
  <2> HIDE DEF texts, at
  <2> QED
    BY <1>4, <2>1, ThoseAre
<1>6. {texts[i] : i \in at} = Fallbacks(dep)
  <2>1. at = {i \in DOMAIN texts : texts[i] \in V}
    BY <1>3, <1>4
  <2> HIDE DEF texts, at
  <2> QED
    BY <1>4, <2>1 DEF Fallbacks, V
<1>7. /\ G \in Seq(V) /\ ToSet(G) = Fallbacks(dep)
      /\ G = <<>> <=> Fallbacks(dep) = {}
      /\ Fallbacks(dep) \subseteq V
  <2>1. Fallbacks(dep) \subseteq V
    BY DEF Fallbacks, V
  <2>2. ToSet(G) = Fallbacks(dep)
    BY <1>5, <1>6
  <2>3. \A i \in 1..Len(G) : G[i] \in V
    <3> HIDE DEF G
    <3> QED
      BY <1>5, <2>1, <2>2 DEF ToSet
  <2>4. at = {} <=> Fallbacks(dep) = {}
    BY <1>6
  <2> HIDE DEF G, at
  <2>5. G \in Seq(V)
    BY <1>5, <2>3
  <2> QED
    BY <1>5, <2>1, <2>2, <2>4, <2>5
<1>8. S = IF ~Blank(dep.preferred) THEN IF P \in V THEN <<P>> ELSE G
          ELSE IF G # <<>> THEN G ELSE A
  BY <1>3 DEF SatisfyingProviders, CompatibleProviders, MatchingProviders, A, V, Served
<1>9. Blank(dep.preferred) => P \notin V
  BY <1>1 DEF Blank, Trim
<1> HIDE DEF G, P, S
<1>10. CASE ~Blank(dep.preferred) /\ P \in V
  <2>1. S = <<P>>
    BY <1>8, <1>10
  <2>2. S \in Seq(V) /\ ToSet(S) = {P}
    BY <1>10, <2>1 DEF ToSet
  <2> QED
    BY <1>10, <2>2 DEF Satisfies, V, P, S
<1>11. CASE ~Blank(dep.preferred) /\ P \notin V
  BY <1>7, <1>8, <1>11 DEF Satisfies, V, P, S
<1>12. CASE Blank(dep.preferred) /\ G # <<>>
  BY <1>7, <1>8, <1>9, <1>12 DEF Satisfies, V, P, S
<1>13. CASE Blank(dep.preferred) /\ G = <<>>
  BY <1>3, <1>7, <1>8, <1>13 DEF Satisfies, V, P, S
<1> QED
  BY <1>10, <1>11, <1>12, <1>13

(* The open dependencies of the modules, and how each may be served.       *)
LEMMA OthersAre ==
  ASSUME ModulesInv, NEW i \in DOMAIN modules, NEW j \in DOMAIN modules[i].deps
  PROVE  LET S == SatisfyingProviders(modules[i].deps[j])
             own == IdOf(modules[i])
         IN /\ ProvidersFor(<<i, j>>) \in Seq(ToSet(S))
            /\ ToSet(ProvidersFor(<<i, j>>)) = ToSet(S) \ {own}
            /\ ProvidersFor(<<i, j>>) = <<>> <=> ToSet(S) \subseteq {own}
<1> DEFINE S == SatisfyingProviders(modules[i].deps[j])
           own == IdOf(modules[i])
           K == {n \in DOMAIN S : S[n] # own}
<1>1. modules[i] \in AnyDeclaration /\ modules[i].deps[j] \in ToSet(modules[i].deps)
  BY DEF ModulesInv, ToSet
<1>2. S \in Seq(Served(modules[i].deps[j]))
  BY <1>1, DeclarationsListed, SatisfyingSay
<1>3. ProvidersFor(<<i, j>>) = Those(S, K)
  BY DEF ProvidersFor, At, Dependencies
<1> HIDE DEF S, own
<1>4. S \in Seq(ToSet(S)) /\ K \in SUBSET DOMAIN S
  BY <1>2 DEF ToSet
<1>5. /\ Those(S, K) \in Seq(ToSet(S)) /\ ToSet(Those(S, K)) = {S[n] : n \in K}
      /\ Those(S, K) = <<>> <=> K = {}
  <2> HIDE DEF K
  <2> QED
    BY <1>4, ThoseAre
<1>6. {S[n] : n \in K} = ToSet(S) \ {own} /\ (K = {} <=> ToSet(S) \subseteq {own})
  BY DEF ToSet
<1> HIDE DEF K
<1> QED
  BY <1>3, <1>5, <1>6 DEF S, own

(* A choice is an open dependency of a module, and none is forgotten.      *)
IsChoice(c) ==
  \E i \in DOMAIN modules : \E dep \in Required(modules[i]) :
    /\ c.consumer = IdOf(modules[i])
    /\ c.providers \in Seq(ToSet(SatisfyingProviders(dep)) \ {c.consumer})
    /\ c.providers # <<>>

LEMMA ChoicesAre ==
  ASSUME ModulesInv
  PROVE  /\ \E n \in Nat : DOMAIN DependencyChoices = 1..n
         /\ Len(DependencyChoices) \in Nat /\ DOMAIN DependencyChoices = 1..Len(DependencyChoices)
         /\ \A n \in DOMAIN DependencyChoices : IsChoice(DependencyChoices[n])
         /\ \A i \in DOMAIN modules : \A dep \in Required(modules[i]) :
              ToSet(SatisfyingProviders(dep)) \subseteq {IdOf(modules[i])}
              \/ \E n \in DOMAIN DependencyChoices :
                   /\ DependencyChoices[n].consumer = IdOf(modules[i])
                   /\ ToSet(DependencyChoices[n].providers) \subseteq ToSet(SatisfyingProviders(dep))
<1> DEFINE P == PlacesOf(Dependencies)
           Q == {x \in P : At(Dependencies, x).required /\ ProvidersFor(x) # <<>>}
           size == Cardinality(Q)
           open == InTurn(Q)
           C == DependencyChoices
           T == UNION {ToSet(modules[i].deps) : i \in DOMAIN modules}
<1>1. Len(modules) \in Nat /\ DOMAIN Dependencies = 1..Len(modules) /\ DOMAIN modules = 1..Len(modules)
  BY DEF ModulesInv, Dependencies
<1>2. \A i \in 1..Len(modules) : Dependencies[i] \in Seq(T) /\ Dependencies[i] = modules[i].deps
  <2> SUFFICES ASSUME NEW i \in 1..Len(modules)
               PROVE  Dependencies[i] \in Seq(T) /\ Dependencies[i] = modules[i].deps
    OBVIOUS
  <2>1. Dependencies[i] = modules[i].deps
    BY <1>1 DEF Dependencies
  <2>2. modules[i] \in AnyDeclaration
    BY <1>1 DEF ModulesInv
  <2>3. modules[i].deps \in Seq(ToSet(modules[i].deps))
    BY <2>2, DeclarationsListed
  <2>4. ToSet(modules[i].deps) \subseteq T
    BY <1>1
  <2> HIDE DEF T
  <2> QED
    BY <2>1, <2>3, <2>4
<1>3. /\ P \in SUBSET (Nat \X Nat) /\ IsFiniteSet(P)
      /\ \A x : x \in P <=> \E i \in 1..Len(modules) : \E j \in DOMAIN modules[i].deps : x = <<i, j>>
  <2> HIDE DEF T
  <2>1. /\ P \in SUBSET (Nat \X Nat) /\ IsFiniteSet(P)
        /\ \A x : x \in P <=> \E i \in 1..Len(modules) : \E j \in DOMAIN Dependencies[i] : x = <<i, j>>
    BY <1>1, <1>2, TextPlaces
  <2> QED
    BY <1>2, <2>1
<1> HIDE DEF P
<1>4. Q \in SUBSET (Nat \X Nat) /\ IsFiniteSet(Q)
  BY <1>3, FS_Subset
<1>5. /\ size \in Nat /\ open \in [1..size -> Q]
      /\ \A x \in Q : \E n \in 1..size : open[n] = x
  <2> HIDE DEF Q
  <2> QED
    BY <1>4, InTurnProperties
<1>6. C = [n \in DOMAIN open |->
             [consumer |-> IdOf(modules[open[n][1]]), providers |-> ProvidersFor(open[n])]]
  BY DEF DependencyChoices, P
<1>7. ASSUME NEW x \in Q
      PROVE  \E i \in DOMAIN modules : \E j \in DOMAIN modules[i].deps :
               /\ x = <<i, j>> /\ modules[i].deps[j] \in Required(modules[i])
               /\ ProvidersFor(x) # <<>>
  <2>1. PICK i \in 1..Len(modules) : \E j \in DOMAIN modules[i].deps : x = <<i, j>>
    BY <1>3
  <2>2. PICK j \in DOMAIN modules[i].deps : x = <<i, j>>
    BY <2>1
  <2>3. At(Dependencies, x) = modules[i].deps[j]
    BY <1>2, <2>2 DEF At
  <2>4. modules[i].deps[j] \in Required(modules[i])
    BY <2>3 DEF Required, ToSet
  <2> QED
    BY <1>1, <2>2, <2>4
<1>8. \A i \in DOMAIN modules : \A j \in DOMAIN modules[i].deps :
        modules[i].deps[j] \in Required(modules[i]) /\ ProvidersFor(<<i, j>>) # <<>> => <<i, j>> \in Q
  BY <1>1, <1>2, <1>3 DEF At, Required
<1> HIDE DEF Q, open, C
<1>9. DOMAIN C = 1..size /\ Len(C) = size
      /\ \A n \in 1..size : /\ open[n] \in Q
                            /\ C[n].consumer = IdOf(modules[open[n][1]])
                            /\ C[n].providers = ProvidersFor(open[n])
  BY <1>5, <1>6
<1>10. ASSUME NEW n \in 1..size PROVE IsChoice(C[n])
  <2>1. PICK i \in DOMAIN modules : \E j \in DOMAIN modules[i].deps :
               /\ open[n] = <<i, j>> /\ modules[i].deps[j] \in Required(modules[i])
               /\ ProvidersFor(open[n]) # <<>>
    BY <1>7, <1>9
  <2>2. PICK j \in DOMAIN modules[i].deps :
               /\ open[n] = <<i, j>> /\ modules[i].deps[j] \in Required(modules[i])
               /\ ProvidersFor(open[n]) # <<>>
    BY <2>1
  <2> DEFINE S == SatisfyingProviders(modules[i].deps[j])
             own == IdOf(modules[i])
             R == ProvidersFor(open[n])
  <2>3. R \in Seq(ToSet(S)) /\ ToSet(R) = ToSet(S) \ {own}
    BY <2>2, OthersAre
  <2> HIDE DEF S, own, R
  <2>4. R \in Seq(ToSet(S) \ {own})
    <3> DEFINE W == ToSet(S)
    <3>1. \A m \in 1..Len(R) : R[m] \in ToSet(R)
      BY <2>3 DEF ToSet
    <3>2. \A m \in 1..Len(R) : R[m] \in W \ {own}
      BY <2>3, <3>1
    <3> HIDE DEF W
    <3> QED
      BY <2>3, <3>2
  <2>5. C[n].consumer = own /\ C[n].providers = R /\ R # <<>>
    BY <1>9, <2>2 DEF own, R
  <2> QED
    BY <2>2, <2>4, <2>5 DEF IsChoice, S, own
<1>11. ASSUME NEW i \in DOMAIN modules, NEW dep \in Required(modules[i]),
              ~(ToSet(SatisfyingProviders(dep)) \subseteq {IdOf(modules[i])})
       PROVE  \E n \in DOMAIN C :
                /\ C[n].consumer = IdOf(modules[i])
                /\ ToSet(C[n].providers) \subseteq ToSet(SatisfyingProviders(dep))
  <2>1. PICK j \in DOMAIN modules[i].deps : dep = modules[i].deps[j]
    BY DEF Required, ToSet
  <2>2. /\ ToSet(ProvidersFor(<<i, j>>)) = ToSet(SatisfyingProviders(dep)) \ {IdOf(modules[i])}
        /\ ProvidersFor(<<i, j>>) # <<>>
    BY <1>11, <2>1, OthersAre
  <2>3. <<i, j>> \in Q
    BY <1>8, <2>1, <2>2
  <2>4. PICK n \in 1..size : open[n] = <<i, j>>
    BY <1>5, <2>3
  <2>5. C[n].consumer = IdOf(modules[i]) /\ C[n].providers = ProvidersFor(<<i, j>>)
    BY <1>9, <2>4
  <2>6. ToSet(C[n].providers) \subseteq ToSet(SatisfyingProviders(dep))
    BY <2>2, <2>5
  <2> QED
    BY <1>9, <2>5, <2>6
<1> QED
  BY <1>5, <1>9, <1>10, <1>11 DEF C

-----------------------------------------------------------------------------
(* The search.                                                             *)

(* What the search needs to know of choices.                               *)
Searchable(C) ==
  /\ Len(C) \in Nat /\ DOMAIN C = 1..Len(C)
  /\ \A n \in 1..Len(C) : /\ Len(C[n].providers) \in Nat \ {0}
                          /\ DOMAIN C[n].providers = 1..Len(C[n].providers)

Chosen(C, f) ==
  /\ DOMAIN f = 1..Len(C)
  /\ \A n \in 1..Len(C) : f[n] \in 1..Len(C[n].providers)
  /\ Acyclic(EdgesOf(C, f))

Partial(C, pick) ==
  /\ pick \in Seq(Nat) /\ Len(pick) <= Len(C)
  /\ \A n \in 1..Len(pick) : pick[n] \in 1..Len(C[n].providers)

(* f and pick part ways at n.                                              *)
PartAt(f, pick, n) == \A j \in 1..(n - 1) : f[j] = pick[j]

NoneBefore(C, pick) ==
  \A f : Chosen(C, f) => \A n \in 1..Len(pick) : ~(f[n] < pick[n] /\ PartAt(f, pick, n))

LEMMA ChoicesFit ==
  ASSUME ModulesInv
  PROVE  /\ Searchable(DependencyChoices)
         /\ \A n \in DOMAIN DependencyChoices :
              /\ DependencyChoices[n].consumer \in ModuleIDs
              /\ \A m \in DOMAIN DependencyChoices[n].providers :
                   DependencyChoices[n].providers[m] \in ModuleIDs \ {DependencyChoices[n].consumer}
<1> DEFINE C == DependencyChoices
<1>1. Len(C) \in Nat /\ DOMAIN C = 1..Len(C) /\ \A n \in DOMAIN C : IsChoice(C[n])
  BY ChoicesAre
<1> HIDE DEF C
<1>2. ASSUME NEW c, IsChoice(c)
      PROVE  /\ Len(c.providers) \in Nat \ {0} /\ DOMAIN c.providers = 1..Len(c.providers)
             /\ c.consumer \in ModuleIDs
             /\ \A m \in DOMAIN c.providers : c.providers[m] \in ModuleIDs \ {c.consumer}
  <2>1. PICK i \in DOMAIN modules : \E dep \in Required(modules[i]) :
            /\ c.consumer = IdOf(modules[i])
            /\ c.providers \in Seq(ToSet(SatisfyingProviders(dep)) \ {c.consumer})
            /\ c.providers # <<>>
    BY <1>2 DEF IsChoice
  <2>2. PICK dep \in Required(modules[i]) :
            /\ c.consumer = IdOf(modules[i])
            /\ c.providers \in Seq(ToSet(SatisfyingProviders(dep)) \ {c.consumer})
            /\ c.providers # <<>>
    BY <2>1
  <2>3. modules[i] \in AnyDeclaration /\ dep \in ToSet(modules[i].deps)
    BY DEF ModulesInv, Required
  <2>4. dep.fallbacks \in Seq(Texts)
    BY <2>3, DeclarationsListed
  <2>5. ToSet(SatisfyingProviders(dep)) \subseteq ModuleIDs
    BY <2>4, SatisfyingSay DEF Satisfies, Served
  <2> DEFINE S == ToSet(SatisfyingProviders(dep))
             R == c.providers
  <2>6. R \in Seq(S \ {c.consumer}) /\ R # <<>> /\ S \subseteq ModuleIDs
    BY <2>2, <2>5
  <2> HIDE DEF S, R
  <2>7. /\ Len(R) \in Nat \ {0} /\ DOMAIN R = 1..Len(R)
        /\ \A m \in DOMAIN R : R[m] \in ModuleIDs \ {c.consumer}
    BY <2>6
  <2> QED
    BY <2>2, <2>7, ModulesKnown DEF R
<1> QED
  BY <1>1, <1>2 DEF Searchable, C

LEMMA SelectionsAre ==
  ASSUME ModulesInv
  PROVE  \A f : f \in Selections <=> f = [n \in DOMAIN f |-> f[n]] /\ Chosen(DependencyChoices, f)
<1> DEFINE C == DependencyChoices
           U == UNION {DOMAIN C[i].providers : i \in DOMAIN C}
<1>1. Searchable(C)
  BY ChoicesFit
<1>2. \A f : f \in Selections <=> /\ f \in [DOMAIN C -> U]
                                  /\ \A i \in DOMAIN C : f[i] \in DOMAIN C[i].providers
                                  /\ Acyclic(EdgesOf(C, f))
  BY DEF Selections
<1>3. \A i \in DOMAIN C : DOMAIN C[i].providers \subseteq U
  OBVIOUS
<1> HIDE DEF C, U
<1>4. \A f : f \in [DOMAIN C -> U] <=> /\ f = [n \in DOMAIN f |-> f[n]] /\ DOMAIN f = DOMAIN C
                                       /\ \A i \in DOMAIN C : f[i] \in U
  OBVIOUS
<1> QED
  BY <1>1, <1>2, <1>3, <1>4 DEF Searchable, Chosen, C

(* A whole assignment takes another way at the first place where a         *)
(* candidate that cannot be completed is to blame.                         *)
LEMMA Pruned ==
  ASSUME NEW C, Searchable(C), NEW pick, Partial(C, pick), NoneBefore(C, pick),
         ~Acyclic(EdgesOf(C, pick)), NEW f, Chosen(C, f)
  PROVE  \E n \in 1..Len(pick) : pick[n] < f[n] /\ PartAt(f, pick, n)
<1>1. /\ Len(pick) \in Nat /\ DOMAIN pick = 1..Len(pick) /\ 1..Len(pick) \subseteq DOMAIN f
      /\ \A n \in 1..Len(pick) : pick[n] \in Nat /\ f[n] \in Nat
  BY DEF Partial, Chosen, Searchable
<1> DEFINE D == {n \in 1..Len(pick) : f[n] # pick[n]}
<1>2. D # {}
  <2> SUFFICES ASSUME D = {} PROVE FALSE
    OBVIOUS
  <2>1. \A n \in 1..Len(pick) : f[n] = pick[n]
    OBVIOUS
  <2>2. EdgesOf(C, pick) \subseteq EdgesOf(C, f)
    BY <1>1, <2>1 DEF EdgesOf
  <2>3. Acyclic(EdgesOf(C, f))
    BY DEF Chosen
  <2> QED
    BY <2>2, <2>3 DEF Acyclic
<1>3. D \in SUBSET Nat
  OBVIOUS
<1>4. PICK n \in D : \A m \in D : n <= m
  <2> HIDE DEF D
  <2> QED
    BY <1>2, <1>3, LeastExists
<1>5. n \in 1..Len(pick) /\ f[n] # pick[n] /\ \A j \in 1..(n - 1) : f[j] = pick[j]
  BY <1>1, <1>4
<1>6. ~(f[n] < pick[n])
  BY <1>5 DEF NoneBefore, PartAt
<1> QED
  BY <1>1, <1>5, <1>6 DEF PartAt

LEMMA ExhaustedMeansNone ==
  ASSUME NEW C, Searchable(C), NEW pick, Partial(C, pick), NoneBefore(C, pick),
         ~Acyclic(EdgesOf(C, pick)), Exhausted(C, pick), NEW f
  PROVE  ~Chosen(C, f)
<1> SUFFICES ASSUME Chosen(C, f) PROVE FALSE
  OBVIOUS
<1>1. PICK n \in 1..Len(pick) : pick[n] < f[n] /\ PartAt(f, pick, n)
  BY Pruned
<1>2. pick[n] = Len(C[n].providers)
  BY DEF Exhausted, Partial
<1>3. n \in 1..Len(C) /\ f[n] \in 1..Len(C[n].providers) /\ Len(C[n].providers) \in Nat
  BY DEF Partial, Searchable, Chosen
<1> QED
  BY <1>1, <1>2, <1>3

LEMMA MaxProperties ==
  ASSUME NEW n \in Nat, NEW T \in SUBSET (1..n), T # {}
  PROVE  Max(T) \in T /\ \A k \in T : k <= Max(T)
<1> DEFINE Up == {m \in 0..n : \A k \in T : k <= m}
<1>1. Up \in SUBSET Nat /\ n \in Up
  OBVIOUS
<1>2. PICK m \in Up : \A l \in Up : m <= l
  <2> HIDE DEF Up
  <2> QED
    BY <1>1, LeastExists
<1>3. m \in T
  <2> SUFFICES ASSUME m \notin T PROVE FALSE
    OBVIOUS
  <2>1. \A k \in T : k <= m - 1 /\ k >= 1
    BY <1>2
  <2>2. m - 1 \in Up
    <3>1. PICK k \in T : TRUE
      OBVIOUS
    <3>2. m \in 0..n /\ k <= m - 1 /\ k >= 1 /\ k \in Nat
      BY <1>2, <2>1
    <3>3. m - 1 \in 0..n
      BY <3>2
    <3> QED
      BY <2>1, <3>3
  <2> QED
    BY <1>2, <2>2
<1>4. \A k \in T : m >= k
  BY <1>2
<1> QED
  BY <1>3, <1>4 DEF Max

LEMMA AdvanceKeeps ==
  ASSUME NEW C, Searchable(C), NEW pick, Partial(C, pick), NoneBefore(C, pick),
         ~Acyclic(EdgesOf(C, pick)), ~Exhausted(C, pick)
  PROVE  Partial(C, Advance(C, pick)) /\ NoneBefore(C, Advance(C, pick))
<1> DEFINE T == {k \in DOMAIN pick : pick[k] < Len(C[k].providers)}
           i == Max(T)
           new == Advance(C, pick)
<1>1. /\ Len(pick) \in Nat /\ DOMAIN pick = 1..Len(pick) /\ Len(C) \in Nat
      /\ \A n \in 1..Len(pick) : /\ n \in 1..Len(C) /\ pick[n] \in 1..Len(C[n].providers)
                                 /\ Len(C[n].providers) \in Nat
  BY DEF Partial, Searchable
<1>2. T \in SUBSET (1..Len(pick)) /\ T # {}
  BY <1>1 DEF Exhausted
<1>3. i \in T /\ \A k \in T : k <= i
  <2> HIDE DEF T
  <2> QED
    BY <1>1, <1>2, MaxProperties
<1>4. new = [SubSeq(pick, 1, i) EXCEPT ![i] = @ + 1]
  BY DEF Advance
<1>5. i \in 1..Len(pick) /\ pick[i] < Len(C[i].providers)
  BY <1>1, <1>3
<1>6. \A k \in 1..Len(pick) : pick[k] < Len(C[k].providers) => k <= i
  BY <1>1, <1>3
<1> HIDE DEF T, i, new
<1>7. /\ new \in Seq(Nat) /\ Len(new) = i /\ new[i] = pick[i] + 1
      /\ \A n \in 1..(i - 1) : new[n] = pick[n]
  <2> DEFINE s == SubSeq(pick, 1, i)
  <2>1. pick \in Seq(Nat) /\ i \in Nat /\ i <= Len(pick)
    BY <1>1, <1>5 DEF Partial
  <2>2. s \in Seq(Nat) /\ Len(s) = i /\ \A n \in 1..i : s[n] = pick[n]
    BY <1>5, <2>1, SubSeqProperties
  <2> HIDE DEF s
  <2>3. new = [s EXCEPT ![i] = s[i] + 1]
    BY <1>4 DEF s
  <2> QED
    BY <1>5, <2>1, <2>2, <2>3
<1>8. Partial(C, new)
  <2>1. Len(new) <= Len(C)
    BY <1>1, <1>5, <1>7
  <2>2. \A n \in 1..(i - 1) : new[n] \in 1..Len(C[n].providers)
    BY <1>1, <1>5, <1>7
  <2>3. new[i] \in 1..Len(C[i].providers)
    BY <1>1, <1>5, <1>7
  <2>4. \A n \in 1..i : n \in 1..(i - 1) \/ n = i
    BY <1>1, <1>5
  <2> QED
    BY <1>7, <2>1, <2>2, <2>3, <2>4 DEF Partial
<1>9. ASSUME NEW f, Chosen(C, f), NEW l \in 1..i, f[l] < new[l], PartAt(f, new, l) PROVE FALSE
  <2>1. PICK n \in 1..Len(pick) : pick[n] < f[n] /\ PartAt(f, pick, n)
    BY <1>9, Pruned
  <2>2. f[n] \in 1..Len(C[n].providers) /\ f[i] \in 1..Len(C[i].providers)
    BY <1>1, <1>5, <1>9 DEF Chosen
  <2>3. n <= i
    BY <1>1, <1>6, <2>1, <2>2
  <2>4. \A j \in 1..(l - 1) : f[j] = pick[j]
    BY <1>5, <1>7, <1>9 DEF PartAt
  <2>5. CASE l < i
    <3>1. f[l] < pick[l] /\ l \in 1..Len(pick)
      BY <1>5, <1>7, <1>9, <2>5
    <3> QED
      BY <1>9, <2>4, <3>1 DEF NoneBefore, PartAt
  <2>6. CASE l = i
    <3>1. n = i
      BY <1>1, <1>5, <2>1, <2>3, <2>4, <2>6
    <3>2. f[i] < pick[i] + 1 /\ pick[i] < f[i]
      BY <1>7, <1>9, <2>1, <2>6, <3>1
    <3> QED
      BY <1>1, <1>5, <2>2, <3>2
  <2> QED
    BY <1>5, <2>5, <2>6
<1> QED
  BY <1>7, <1>8, <1>9 DEF NoneBefore, new

-----------------------------------------------------------------------------
(* The order.                                                              *)

(* s lists members of M, each behind what it waits for, and behind every   *)
(* lower one that does not wait for one behind.                            *)
OrderedBy(E, M, s) ==
  /\ s \in Seq(M) /\ AllDistinct(s)
  /\ \A k \in 1..Len(s) : \A e \in E : e[2] = s[k] => \E j \in 1..(k - 1) : s[j] = e[1]
  /\ \A k \in 1..Len(s) : \A id \in M :
       id < s[k] /\ (\A j \in 1..k : s[j] # id) =>
         \E e \in E : e[2] = id /\ \A j \in 1..(k - 1) : s[j] # e[1]

ReadyIn(E, M, s) == {id \in M \ ToSet(s) : \A e \in E : e[2] = id => Contains(s, e[1])}

LEMMA SortKeeps ==
  ASSUME NEW E, NEW M \in SUBSET Nat, NEW s, OrderedBy(E, M, s), ReadyIn(E, M, s) # {}
  PROVE  OrderedBy(E, M, Append(s, Min(ReadyIn(E, M, s))))
<1> DEFINE R == ReadyIn(E, M, s)
           m == Min(R)
           t == Append(s, m)
           n == Len(s)
<1>1. m \in R /\ \A x \in R : m <= x
  <2>1. R \in SUBSET Nat
    BY DEF ReadyIn
  <2> HIDE DEF R
  <2> QED
    BY <2>1, MinProperties DEF R
<1>2. \A x : x \in R <=> x \in M /\ x \notin ToSet(s) /\ \A e \in E : e[2] = x => Contains(s, e[1])
  BY DEF ReadyIn
<1> HIDE DEF R, m
<1>3. s \in Seq(M) /\ n \in Nat /\ m \in M
  BY <1>1, <1>2 DEF OrderedBy
<1>4. t \in Seq(M) /\ Len(t) = n + 1 /\ t[n + 1] = m /\ \A j \in 1..n : t[j] = s[j]
  BY <1>3
<1> HIDE DEF t
<1>5. \A j \in 1..n : s[j] # m
  BY <1>1, <1>2, <1>3 DEF ToSet
<1>6. AllDistinct(t)
  <2>1. \A i, j \in 1..n : s[i] = s[j] => i = j
    BY <1>3 DEF OrderedBy, AllDistinct
  <2>2. \A i, j \in 1..(n + 1) : t[i] = t[j] => i = j
    BY <1>3, <1>4, <1>5, <2>1
  <2> QED
    BY <1>4, <2>2 DEF AllDistinct
<1>7. ASSUME NEW k \in 1..(n + 1), NEW e \in E, e[2] = t[k]
      PROVE  \E j \in 1..(k - 1) : t[j] = e[1]
  <2>1. CASE k \in 1..n
    <3>1. PICK j \in 1..(k - 1) : s[j] = e[1]
      BY <1>3, <1>4, <1>7, <2>1 DEF OrderedBy
    <3>2. t[j] = e[1]
      BY <1>3, <1>4, <2>1, <3>1
    <3> QED
      BY <3>2
  <2>2. CASE k = n + 1
    <3>1. Contains(s, e[1])
      BY <1>1, <1>2, <1>4, <1>7, <2>2
    <3>2. PICK j \in 1..n : s[j] = e[1]
      BY <3>1 DEF Contains
    <3>3. t[j] = e[1] /\ j \in 1..(k - 1)
      BY <1>3, <1>4, <2>2, <3>2
    <3> QED
      BY <3>3
  <2> QED
    BY <1>3, <2>1, <2>2
<1>8. ASSUME NEW k \in 1..(n + 1), NEW id \in M, id < t[k], \A j \in 1..k : t[j] # id
      PROVE  \E e \in E : e[2] = id /\ \A j \in 1..(k - 1) : t[j] # e[1]
  <2>1. CASE k \in 1..n
    <3>1. id < s[k] /\ \A j \in 1..k : s[j] # id
      BY <1>3, <1>4, <1>8, <2>1
    <3>2. PICK e \in E : e[2] = id /\ \A j \in 1..(k - 1) : s[j] # e[1]
      BY <2>1, <3>1 DEF OrderedBy
    <3>3. \A j \in 1..(k - 1) : t[j] # e[1]
      BY <1>3, <1>4, <2>1, <3>2
    <3> QED
      BY <3>2, <3>3
  <2>2. CASE k = n + 1
    <3>1. id \notin R
      BY <1>1, <1>3, <1>4, <1>8, <2>2
    <3>2. id \notin ToSet(s)
      BY <1>3, <1>4, <1>8, <2>2 DEF ToSet
    <3>3. PICK e \in E : e[2] = id /\ ~Contains(s, e[1])
      BY <1>2, <3>1, <3>2
    <3>4. \A j \in 1..n : t[j] # e[1]
      BY <1>4, <3>3 DEF Contains
    <3> QED
      BY <1>3, <2>2, <3>3, <3>4
  <2> QED
    BY <1>3, <2>1, <2>2
<1>9. OrderedBy(E, M, t)
  BY <1>4, <1>6, <1>7, <1>8 DEF OrderedBy
<1> QED
  BY <1>9 DEF t, m, R

LEMMA SortedAll ==
  ASSUME NEW E, NEW M \in SUBSET Nat, IsFiniteSet(M), NEW s, OrderedBy(E, M, s),
         ReadyIn(E, M, s) = {}, \A e \in E : e[1] \in M,
         \A S \in SUBSET M \ {{}} : \E id \in S : \A x \in S : <<x, id>> \notin E,
         \A e \in E : e = <<e[1], e[2]>>
  PROVE  ToSet(s) = M /\ Len(s) = Cardinality(M)
<1>1. s \in Seq(M) /\ Len(s) \in Nat /\ DOMAIN s = 1..Len(s) /\ ToSet(s) \subseteq M
  BY DEF OrderedBy, ToSet
<1>2. ToSet(s) = M
  <2> SUFFICES ASSUME ToSet(s) # M PROVE FALSE
    OBVIOUS
  <2> DEFINE S == M \ ToSet(s)
  <2>1. S \in SUBSET M \ {{}}
    BY <1>1
  <2>2. PICK id \in S : \A x \in S : <<x, id>> \notin E
    BY <2>1
  <2>3. ASSUME NEW e \in E, e[2] = id PROVE Contains(s, e[1])
    <3>1. e[1] \notin S /\ e[1] \in M
      BY <2>2, <2>3
    <3>2. e[1] \in ToSet(s)
      BY <3>1
    <3> QED
      BY <1>1, <3>2 DEF ToSet, Contains
  <2>4. id \in ReadyIn(E, M, s)
    BY <2>2, <2>3 DEF ReadyIn
  <2> QED
    BY <2>4
<1>3. s \in [1..Len(s) -> M]
  BY <1>1
<1>4. s \in Injection(1..Len(s), M) /\ s \in Surjection(1..Len(s), M)
  BY <1>1, <1>2, <1>3 DEF Injection, IsInjective, Surjection, OrderedBy, AllDistinct, ToSet
<1>5. IsFiniteSet(1..Len(s)) /\ Cardinality(1..Len(s)) = Len(s)
  BY <1>1, FS_Interval
<1> QED
  BY <1>2, <1>4, <1>5, FS_Injection

-----------------------------------------------------------------------------
(* The whole of it.                                                        *)
BundlesInv ==
  /\ bundles \in Seq(AnyBundle)
  /\ \A b \in ToSet(bundles) : \A e \in ToSet(b.entries) :
       ~Blank(e.id) => Trim(e.id) \in DOMAIN Declarations
  /\ entries \subseteq DOMAIN Declarations
  /\ defaults \in Seq(Nat \ {Empty}) /\ AllDistinct(defaults)

(* What is there in which phase, and what a cycle means.                   *)
PhaseInv ==
  /\ phase \in {"idle", "adding", "catalog"} => ids = <<>> /\ modules = <<>>
  /\ phase \in {"idle", "adding", "catalog", "building"} => picked = <<>> /\ order = <<>>
  /\ phase = "selecting" => order = <<>>
  /\ phase \in {"selecting", "sorting", "validating", "planned"} => Len(modules) = Len(ids)
  /\ why = "cycle" => phase = "refused" /\ \A f : ~Chosen(DependencyChoices, f)

SearchInv ==
  /\ phase = "selecting" => /\ Partial(DependencyChoices, picked)
                            /\ NoneBefore(DependencyChoices, picked)
  /\ phase \in {"sorting", "validating", "planned"} =>
       \/ phase = "planned" /\ modules = <<>>
       \/ Chosen(DependencyChoices, picked) /\ NoneBefore(DependencyChoices, picked)
          /\ picked \in Seq(Nat) /\ Len(picked) = Len(DependencyChoices)

SortInv ==
  /\ phase \in {"sorting", "validating", "planned"} =>
       OrderedBy(EdgesOf(DependencyChoices, picked), ModuleIDs, order)
  /\ phase \in {"validating", "planned"} => ToSet(order) = ModuleIDs /\ Len(order) = Len(modules)
  /\ phase = "planned" => Missing = {}

CompositionInv == BundlesInv /\ ModulesInv /\ PhaseInv /\ SearchInv /\ SortInv

(* What is known of the modules changes with nothing else.                 *)
LEMMA ModulesStay ==
  ASSUME UNCHANGED modules
  PROVE  /\ ModuleIDs' = ModuleIDs /\ DependencyChoices' = DependencyChoices
         /\ Missing' = Missing
<1>1. ModuleIDs' = ModuleIDs /\ \A id : ModuleOf(id)' = ModuleOf(id)
  BY DEF ModuleIDs, ModuleOf
<1>2. \A id, dep : Provides(id, dep)' <=> Provides(id, dep)
  BY <1>1 DEF Provides
<1>3. \A dep : CompatibleProviders(dep)' = CompatibleProviders(dep)
  BY <1>1, <1>2 DEF CompatibleProviders
<1>4. \A dep : SatisfyingProviders(dep)' = SatisfyingProviders(dep)
  BY <1>3 DEF SatisfyingProviders
<1>5. Dependencies' = Dependencies
  BY DEF Dependencies
<1>6. \A x : ProvidersFor(x)' = ProvidersFor(x)
  BY <1>4, <1>5 DEF ProvidersFor
<1>7. DependencyChoices' = DependencyChoices
  BY <1>5, <1>6 DEF DependencyChoices
<1>8. Missing' = Missing
  BY <1>4 DEF Missing
<1> QED
  BY <1>1, <1>7, <1>8

LEMMA SearchStays ==
  ASSUME UNCHANGED modules
  PROVE  /\ (\A f : ~Chosen(DependencyChoices, f))' <=> (\A f : ~Chosen(DependencyChoices, f))
         /\ Chosen(DependencyChoices, picked)' <=> Chosen(DependencyChoices, picked')
         /\ Partial(DependencyChoices, picked)' <=> Partial(DependencyChoices, picked')
         /\ NoneBefore(DependencyChoices, picked)' <=> NoneBefore(DependencyChoices, picked')
         /\ OrderedBy(EdgesOf(DependencyChoices, picked), ModuleIDs, order)' <=>
              OrderedBy(EdgesOf(DependencyChoices, picked'), ModuleIDs, order')
<1>1. DependencyChoices' = DependencyChoices /\ ModuleIDs' = ModuleIDs
  BY ModulesStay
<1>2. \A f : Chosen(DependencyChoices, f)' <=> Chosen(DependencyChoices, f)
  BY <1>1 DEF Chosen, Acyclic, EdgesOf
<1>3. Chosen(DependencyChoices, picked)' <=> Chosen(DependencyChoices, picked')
  BY <1>1 DEF Chosen, Acyclic, EdgesOf
<1>4. Partial(DependencyChoices, picked)' <=> Partial(DependencyChoices, picked')
  BY <1>1 DEF Partial
<1>5. NoneBefore(DependencyChoices, picked)' <=> NoneBefore(DependencyChoices, picked')
  BY <1>2 DEF NoneBefore, PartAt
<1>6. OrderedBy(EdgesOf(DependencyChoices, picked), ModuleIDs, order)' <=>
        OrderedBy(EdgesOf(DependencyChoices, picked'), ModuleIDs, order')
  BY <1>1 DEF OrderedBy, EdgesOf, AllDistinct
<1> QED
  BY <1>2, <1>3, <1>4, <1>5, <1>6

LEMMA AddAllKeeps == ASSUME CompositionInv, AddAll PROVE CompositionInv'
<1>1. PICK bs \in BundleMenu : bundles' = Those(bs, {i \in DOMAIN bs : bs[i] # Nil})
  BY DEF AddAll
<1>2. /\ phase = "idle" /\ phase' = "adding" /\ why' = why
      /\ UNCHANGED <<entries, defaults, ids, modules, picked, order>>
  BY DEF AddAll, Go
<1>3. BundlesInv'
  <2> DEFINE S == {i \in DOMAIN bs : bs[i] # Nil}
  <2>1. bs \in Seq(AnyBundle \cup {Nil})
    BY CompositionAssumption
  <2>2. bundles' \in Seq(AnyBundle \cup {Nil}) /\ ToSet(bundles') = {bs[i] : i \in S}
    BY <1>1, <2>1, ThoseAre
  <2>3. ToSet(bundles') \subseteq ToSet(bs) \ {Nil}
    BY <2>2 DEF ToSet
  <2>4. bundles' \in Seq(AnyBundle)
    <3>1. \A i \in 1..Len(bundles') : bundles'[i] \in AnyBundle
      BY <2>2, <2>3 DEF ToSet
    <3> QED
      BY <2>2, <3>1
  <2>5. \A b \in ToSet(bundles') : \A e \in ToSet(b.entries) :
          ~Blank(e.id) => Trim(e.id) \in DOMAIN Declarations
    BY <2>3, CompositionAssumption
  <2> QED
    BY <1>2, <2>4, <2>5 DEF CompositionInv, BundlesInv, AllDistinct
<1>4. ModulesInv'
  BY <1>2 DEF CompositionInv, ModulesInv, AllDistinct
<1>5. PhaseInv' /\ SearchInv' /\ SortInv'
  BY <1>2 DEF CompositionInv, PhaseInv, SearchInv, SortInv
<1> QED
  BY <1>3, <1>4, <1>5 DEF CompositionInv

LEMMA BuildKeeps == ASSUME CompositionInv, Build PROVE CompositionInv'
<1>1. phase = "adding" /\ UNCHANGED <<bundles, ids, modules, picked, order>>
  BY DEF Build
<1>2. /\ phase' \in {"catalog", "refused"} /\ (why' = "cycle" => why = "cycle")
  BY DEF Build, Go, CompRefuse
<1>3. ModulesInv'
  BY <1>1 DEF CompositionInv, ModulesInv, AllDistinct
<1>4. PhaseInv' /\ SearchInv' /\ SortInv'
  BY <1>1, <1>2 DEF CompositionInv, PhaseInv, SearchInv, SortInv
<1>5. BundlesInv'
  <2> DEFINE es == AllEntries(bundles)
             ds == [i \in DOMAIN bundles |-> bundles[i].defaults]
  <2>1. /\ Len(bundles) \in Nat /\ DOMAIN bundles = 1..Len(bundles)
        /\ DOMAIN es = 1..Len(bundles) /\ DOMAIN ds = 1..Len(bundles)
        /\ \A i \in 1..Len(bundles) : bundles[i] \in AnyBundle
    BY DEF CompositionInv, BundlesInv, AllEntries
  <2>2. \A i \in 1..Len(bundles) : es[i] = bundles[i].entries /\ ds[i] = bundles[i].defaults
    BY <2>1 DEF AllEntries
  <2>3. \A b \in AnyBundle : b.defaults \in Seq(Texts) /\ b.entries \in Seq(AnyEntry)
    BY DEF AnyBundle
  <2>4. \A i \in 1..Len(bundles) : es[i] \in Seq(AnyEntry) /\ ds[i] \in Seq(Texts)
    BY <2>1, <2>2, <2>3
  <2>5. NormalizeIDs(ds) \in Seq(Nat \ {Empty}) /\ AllDistinct(NormalizeIDs(ds))
    <3> HIDE DEF ds
    <3> QED
      BY <2>1, <2>4, NormalIDs
  <2>6. CASE BundlesWellFormed(bundles)
    <3>1. entries' = {Trim(At(es, x).id) : x \in PlacesOf(es)} /\ defaults' = NormalizeIDs(ds)
      BY <2>6 DEF Build
    <3>2. ASSUME NEW x \in PlacesOf(es) PROVE Trim(At(es, x).id) \in DOMAIN Declarations
      <4>1. ~Blank(At(es, x).id)
        BY <2>6 DEF BundlesWellFormed
      <4>2. PICK i \in 1..Len(bundles) : \E j \in DOMAIN es[i] : x = <<i, j>>
        <5> HIDE DEF es
        <5>1. \A y : y \in PlacesOf(es) <=>
                      \E i \in 1..Len(bundles) : \E j \in DOMAIN es[i] : y = <<i, j>>
          BY <2>1, <2>4, TextPlaces
        <5> QED
          BY <5>1
      <4>3. PICK j \in DOMAIN es[i] : x = <<i, j>>
        BY <4>2
      <4>4. At(es, x) \in ToSet(bundles[i].entries) /\ bundles[i] \in ToSet(bundles)
        BY <2>1, <2>2, <4>3 DEF At, ToSet
      <4> QED
        BY <4>1, <4>4 DEF CompositionInv, BundlesInv
    <3>3. entries' \subseteq DOMAIN Declarations
      BY <3>1, <3>2
    <3>4. defaults' \in Seq(Nat \ {Empty}) /\ AllDistinct(defaults')
      BY <2>5, <3>1
    <3> QED
      BY <1>1, <3>3, <3>4 DEF CompositionInv, BundlesInv, AllDistinct
  <2>7. CASE ~BundlesWellFormed(bundles)
    BY <1>1, <2>7 DEF Build, CompositionInv, BundlesInv, AllDistinct
  <2> QED
    BY <2>6, <2>7
<1> QED
  BY <1>3, <1>4, <1>5 DEF CompositionInv

LEMMA ComposeKeeps == ASSUME CompositionInv, Compose PROVE CompositionInv'
<1>1. PICK request \in RequestMenu :
        ids' = IF request = <<>> THEN defaults ELSE NormalizeIDs(<<request>>)
  BY DEF Compose
<1>2. /\ phase = "catalog" /\ phase' = IF ids' = <<>> THEN "planned" ELSE "building"
      /\ why' = why /\ UNCHANGED <<bundles, entries, defaults, modules, picked, order>>
  BY DEF Compose, Go
<1>3. modules = <<>> /\ order = <<>> /\ picked = <<>> /\ why # "cycle"
  BY <1>2 DEF CompositionInv, PhaseInv
<1>4. BundlesInv'
  BY <1>2 DEF CompositionInv, BundlesInv, AllDistinct
<1>5. ids' \in Seq(Nat \ {Empty}) /\ AllDistinct(ids')
  <2>1. request \in Seq(Texts)
    BY CompositionAssumption
  <2> DEFINE lists == <<request>>
  <2>2. DOMAIN lists = 1..1 /\ \A i \in 1..1 : lists[i] \in Seq(Texts)
    BY <2>1
  <2>3. NormalizeIDs(lists) \in Seq(Nat \ {Empty}) /\ AllDistinct(NormalizeIDs(lists))
    <3> HIDE DEF lists
    <3> QED
      BY <2>2, NormalIDs
  <2> QED
    BY <1>1, <2>3 DEF CompositionInv, BundlesInv
<1>6. ModulesInv'
  <2>1. modules' \in Seq(AnyDeclaration) /\ Len(modules') = 0 /\ DOMAIN modules' = {} /\ Len(ids') \in Nat
    BY <1>2, <1>3, <1>5
  <2> QED
    BY <1>5, <2>1 DEF ModulesInv, AllDistinct
<1>7. PhaseInv'
  BY <1>2, <1>3 DEF PhaseInv
<1>8. SearchInv'
  BY <1>2, <1>3 DEF SearchInv
<1>9. SortInv'
  <2>1. modules' = <<>> /\ order' = <<>>
    BY <1>2, <1>3
  <2>2. ModuleIDs' = {} /\ Missing' = {}
    BY <2>1 DEF ModuleIDs, Missing, ToSet
  <2>3. ToSet(order') = {} /\ Len(order') = 0 /\ Len(modules') = 0
    BY <2>1 DEF ToSet
  <2>4. OrderedBy(EdgesOf(DependencyChoices, picked), ModuleIDs, order)'
    BY <2>1 DEF OrderedBy, AllDistinct
  <2> QED
    BY <1>2, <2>2, <2>3, <2>4 DEF SortInv
<1> QED
  BY <1>4, <1>6, <1>7, <1>8, <1>9 DEF CompositionInv

LEMMA BuildModuleKeeps == ASSUME CompositionInv, BuildModule PROVE CompositionInv'
<1>1. /\ phase = "building" /\ Len(modules) < Len(ids)
      /\ UNCHANGED <<bundles, entries, defaults, ids, picked, order>>
  BY DEF BuildModule
<1>2. picked = <<>> /\ order = <<>> /\ why # "cycle"
  BY <1>1 DEF CompositionInv, PhaseInv
<1> DEFINE id == ids[Len(modules) + 1]
<1>3. \/ phase' = "refused" /\ why' # "cycle" /\ UNCHANGED modules
      \/ /\ phase' = "building" /\ why' = why /\ id \in entries
         /\ \E d \in Declarations[id] : d # Nil /\ Trim(d.id) = id /\ modules' = Append(modules, d)
  BY DEF BuildModule, Go, CompRefuse
<1>4. BundlesInv'
  BY <1>1 DEF CompositionInv, BundlesInv, AllDistinct
<1>5. PhaseInv' /\ SearchInv' /\ SortInv'
  BY <1>1, <1>2, <1>3 DEF PhaseInv, SearchInv, SortInv
<1>6. ModulesInv'
  <2>1. CASE UNCHANGED modules
    BY <1>1, <2>1 DEF CompositionInv, ModulesInv, AllDistinct
  <2>2. ASSUME id \in entries, NEW d \in Declarations[id], d # Nil, Trim(d.id) = id,
               modules' = Append(modules, d)
        PROVE  ModulesInv'
    <3>1. d \in AnyDeclaration
      BY <2>2 DEF CompositionInv, BundlesInv, AnyDeclaration
    <3>2. /\ modules \in Seq(AnyDeclaration) /\ Len(modules) \in Nat /\ Len(ids) \in Nat
          /\ \A i \in 1..Len(modules) : IdOf(modules[i]) = ids[i]
          /\ ids' \in Seq(Nat \ {Empty}) /\ AllDistinct(ids')
      BY <1>1 DEF CompositionInv, ModulesInv, AllDistinct
    <3>3. /\ modules' \in Seq(AnyDeclaration) /\ Len(modules') = Len(modules) + 1
          /\ modules'[Len(modules) + 1] = d /\ \A i \in 1..Len(modules) : modules'[i] = modules[i]
      BY <2>2, <3>1, <3>2
    <3>4. \A i \in 1..(Len(modules) + 1) : IdOf(modules'[i]) = ids'[i]
      BY <1>1, <2>2, <3>2, <3>3 DEF IdOf
    <3>5. Len(modules') <= Len(ids') /\ DOMAIN modules' = 1..(Len(modules) + 1)
      BY <1>1, <3>2, <3>3
    <3> QED
      BY <3>2, <3>3, <3>4, <3>5 DEF ModulesInv, AllDistinct
  <2> QED
    BY <1>3, <2>1, <2>2
<1> QED
  BY <1>4, <1>5, <1>6 DEF CompositionInv

(* Nothing but what is asked of the search and the order remains to show.  *)
LEMMA CatalogStays ==
  ASSUME CompositionInv, UNCHANGED <<bundles, entries, defaults, ids, modules>>
  PROVE  BundlesInv' /\ ModulesInv'
BY DEF CompositionInv, BundlesInv, ModulesInv, AllDistinct

LEMMA CheckKeeps == ASSUME CompositionInv, CheckDeclarations PROVE CompositionInv'
<1>1. /\ phase = "building" /\ Len(modules) = Len(ids)
      /\ UNCHANGED <<bundles, entries, defaults, ids, modules, picked, order>>
      /\ phase' \in {"selecting", "refused"} /\ (why' = "cycle" => why = "cycle")
  BY DEF CheckDeclarations, Go, CompRefuse
<1>2. picked = <<>> /\ order = <<>> /\ why' # "cycle"
  BY <1>1 DEF CompositionInv, PhaseInv
<1>3. ModulesInv /\ BundlesInv' /\ ModulesInv'
  BY <1>1, CatalogStays DEF CompositionInv
<1>4. PhaseInv'
  BY <1>1, <1>2 DEF PhaseInv
<1>5. SortInv'
  BY <1>1 DEF SortInv
<1>6. SearchInv'
  <2>1. Len(DependencyChoices) \in Nat
    BY <1>3, ChoicesAre
  <2>2. picked' = <<>> /\ Len(picked') = 0 /\ 1..Len(picked') = {} /\ picked' \in Seq(Nat)
    BY <1>1, <1>2
  <2>3. Partial(DependencyChoices, picked') /\ NoneBefore(DependencyChoices, picked')
    BY <2>1, <2>2 DEF Partial, NoneBefore
  <2>4. Partial(DependencyChoices, picked)' /\ NoneBefore(DependencyChoices, picked)'
    BY <1>1, <2>3, SearchStays
  <2> QED
    BY <1>1, <2>4 DEF SearchInv
<1> QED
  BY <1>3, <1>4, <1>5, <1>6 DEF CompositionInv

LEMMA ChooseKeeps == ASSUME CompositionInv, Choose PROVE CompositionInv'
<1> DEFINE C == DependencyChoices
<1>1. /\ phase = "selecting" /\ UNCHANGED <<bundles, entries, defaults, ids, modules, order>>
  BY DEF Choose
<1>2. BundlesInv' /\ ModulesInv' /\ ModulesInv
  BY <1>1, CatalogStays DEF CompositionInv
<1>3. /\ Partial(C, picked) /\ NoneBefore(C, picked) /\ order = <<>> /\ why # "cycle"
      /\ Len(modules) = Len(ids) /\ Searchable(C)
  BY <1>1, <1>2, ChoicesFit DEF CompositionInv, PhaseInv, SearchInv
<1>4. \/ /\ ~Acyclic(EdgesOf(C, picked)) /\ Exhausted(C, picked)
         /\ phase' = "refused" /\ why' = "cycle" /\ UNCHANGED picked
      \/ /\ ~Acyclic(EdgesOf(C, picked)) /\ ~Exhausted(C, picked)
         /\ phase' = "selecting" /\ why' = why /\ picked' = Advance(C, picked)
      \/ /\ Acyclic(EdgesOf(C, picked)) /\ Len(picked) = Len(C)
         /\ phase' = "sorting" /\ why' = why /\ UNCHANGED picked
      \/ /\ Acyclic(EdgesOf(C, picked)) /\ Len(picked) # Len(C)
         /\ phase' = "selecting" /\ why' = why /\ picked' = Append(picked, 1)
  BY DEF Choose, Backtrack, CompRefuse, Go
<1>5. /\ (\A f : ~Chosen(C, f))' <=> (\A f : ~Chosen(C, f))
      /\ Chosen(C, picked)' <=> Chosen(C, picked')
      /\ Partial(C, picked)' <=> Partial(C, picked')
      /\ NoneBefore(C, picked)' <=> NoneBefore(C, picked')
      /\ OrderedBy(EdgesOf(C, picked), ModuleIDs, order)' <=>
           OrderedBy(EdgesOf(C, picked'), ModuleIDs, order')
      /\ C' = C
  BY <1>1, SearchStays, ModulesStay
<1> HIDE DEF C
<1>6. CASE /\ ~Acyclic(EdgesOf(C, picked)) /\ Exhausted(C, picked)
           /\ phase' = "refused" /\ why' = "cycle" /\ UNCHANGED picked
  <2>1. \A f : ~Chosen(C, f)
    BY <1>3, <1>6, ExhaustedMeansNone
  <2> QED
    BY <1>2, <1>5, <1>6, <2>1 DEF CompositionInv, PhaseInv, SearchInv, SortInv, C
<1>7. CASE phase' = "selecting" /\ why' = why /\ Partial(C, picked') /\ NoneBefore(C, picked')
  BY <1>1, <1>2, <1>3, <1>5, <1>7 DEF CompositionInv, PhaseInv, SearchInv, SortInv, C
<1>8. CASE /\ ~Acyclic(EdgesOf(C, picked)) /\ ~Exhausted(C, picked)
           /\ phase' = "selecting" /\ why' = why /\ picked' = Advance(C, picked)
  BY <1>3, <1>7, <1>8, AdvanceKeeps
<1>9. CASE /\ Acyclic(EdgesOf(C, picked)) /\ Len(picked) = Len(C)
           /\ phase' = "sorting" /\ why' = why /\ UNCHANGED picked
  <2>1. Chosen(C, picked') /\ NoneBefore(C, picked') /\ picked' \in Seq(Nat) /\ Len(picked') = Len(C)
    BY <1>3, <1>9 DEF Chosen, Partial
  <2>2. OrderedBy(EdgesOf(C, picked'), ModuleIDs, order')
    BY <1>1, <1>3 DEF OrderedBy, AllDistinct
  <2> QED
    BY <1>1, <1>2, <1>3, <1>5, <1>9, <2>1, <2>2 DEF CompositionInv, PhaseInv, SearchInv, SortInv, C
<1>10. CASE /\ Acyclic(EdgesOf(C, picked)) /\ Len(picked) # Len(C)
            /\ phase' = "selecting" /\ why' = why /\ picked' = Append(picked, 1)
  <2> DEFINE n == Len(picked)
  <2>1. /\ picked \in Seq(Nat) /\ n \in Nat /\ Len(C) \in Nat /\ n < Len(C)
        /\ picked' \in Seq(Nat) /\ Len(picked') = n + 1 /\ picked'[n + 1] = 1
        /\ \A j \in 1..n : picked'[j] = picked[j]
    BY <1>3, <1>10 DEF Partial, Searchable
  <2> HIDE DEF n
  <2>2. Partial(C, picked')
    <3>1. \A j \in 1..n : picked[j] \in 1..Len(C[j].providers)
      BY <1>3 DEF Partial, n
    <3>2. 1 \in 1..Len(C[n + 1].providers)
      BY <1>3, <2>1 DEF Searchable
    <3>3. \A j \in 1..(n + 1) : picked'[j] \in 1..Len(C[j].providers)
      BY <2>1, <3>1, <3>2
    <3> QED
      BY <2>1, <3>3 DEF Partial
  <2>3. ASSUME NEW f, Chosen(C, f), NEW l \in 1..(n + 1), f[l] < picked'[l], PartAt(f, picked', l)
        PROVE  FALSE
    <3>1. CASE l \in 1..n
      <4>1. f[l] < picked[l] /\ PartAt(f, picked, l)
        BY <2>1, <2>3, <3>1 DEF PartAt
      <4> QED
        BY <1>3, <2>3, <3>1, <4>1 DEF NoneBefore, n
    <3>2. CASE l = n + 1
      <4>1. f[l] \in 1..Len(C[l].providers) /\ Len(C[l].providers) \in Nat
        BY <1>3, <2>1, <2>3, <3>2 DEF Chosen, Searchable
      <4> QED
        BY <2>1, <2>3, <3>2, <4>1
    <3> QED
      BY <2>1, <3>1, <3>2
  <2>4. NoneBefore(C, picked')
    BY <2>1, <2>3 DEF NoneBefore
  <2> QED
    BY <1>7, <1>10, <2>2, <2>4
<1> QED
  BY <1>4, <1>6, <1>8, <1>9, <1>10

LEMMA SortNextKeeps == ASSUME CompositionInv, SortNext PROVE CompositionInv'
<1> DEFINE C == DependencyChoices
           E == EdgesOf(C, picked)
           M == ModuleIDs
<1>1. /\ phase = "sorting" /\ UNCHANGED <<bundles, entries, defaults, ids, modules, picked>>
  BY DEF SortNext
<1>2. BundlesInv' /\ ModulesInv' /\ ModulesInv
  BY <1>1, CatalogStays DEF CompositionInv
<1>3. /\ Chosen(C, picked) /\ NoneBefore(C, picked) /\ picked \in Seq(Nat) /\ Len(picked) = Len(C)
      /\ OrderedBy(E, M, order) /\ why # "cycle" /\ Len(modules) = Len(ids)
  BY <1>1 DEF CompositionInv, PhaseInv, SearchInv, SortInv
<1>4. Ready = ReadyIn(E, M, order)
  BY DEF Ready, ReadyIn
<1>5. /\ Chosen(C, picked)' <=> Chosen(C, picked')
      /\ NoneBefore(C, picked)' <=> NoneBefore(C, picked')
      /\ OrderedBy(EdgesOf(C, picked), M, order)' <=> OrderedBy(EdgesOf(C, picked'), M, order')
      /\ C' = C /\ M' = M
  BY <1>1, SearchStays, ModulesStay
<1>6. M \in SUBSET Nat /\ IsFiniteSet(M) /\ Cardinality(M) = Len(modules)
  BY <1>2, ModulesKnown
<1>7. Chosen(C, picked') /\ NoneBefore(C, picked') /\ picked' \in Seq(Nat) /\ Len(picked') = Len(C')
      /\ EdgesOf(C, picked') = E
  BY <1>1, <1>3, <1>5
<1> HIDE DEF C, M
<1>8. CASE Ready # {}
  <2>1. order' = Append(order, Min(ReadyIn(E, M, order))) /\ phase' = "sorting" /\ why' = why
    BY <1>1, <1>4, <1>8 DEF SortNext, NextReady, Go
  <2>2. OrderedBy(E, M, order')
    <3> HIDE DEF E
    <3> QED
      BY <1>3, <1>4, <1>6, <1>8, <2>1, SortKeeps
  <2> QED
    BY <1>1, <1>2, <1>3, <1>5, <1>7, <2>1, <2>2
       DEF CompositionInv, PhaseInv, SearchInv, SortInv, C, M
<1>9. CASE Ready = {}
  <2>1. \A e \in E : e[1] \in M /\ e = <<e[1], e[2]>>
    <3>1. \A n \in DOMAIN picked : n \in DOMAIN C /\ picked[n] \in DOMAIN C[n].providers
      BY <1>2, <1>3, ChoicesFit DEF Chosen, Searchable, C
    <3>2. \A n \in DOMAIN picked : C[n].providers[picked[n]] \in M
      BY <1>2, <3>1, ChoicesFit DEF C, M
    <3> QED
      BY <3>2 DEF EdgesOf
  <2>2. \A S \in SUBSET M \ {{}} : \E id \in S : \A x \in S : <<x, id>> \notin E
    BY <1>3 DEF Chosen, Acyclic, M
  <2>3. ToSet(order) = M /\ Len(order) = Len(modules)
    <3> HIDE DEF E
    <3> QED
      BY <1>3, <1>4, <1>6, <1>9, <2>1, <2>2, SortedAll
  <2>4. phase' = "validating" /\ why' = why /\ order' = order
    BY <1>9, <2>3 DEF SortNext, Go
  <2>5. OrderedBy(EdgesOf(C, picked'), M, order') /\ ToSet(order') = M' /\ Len(order') = Len(modules')
    BY <1>1, <1>3, <1>5, <1>7, <2>3, <2>4
  <2> QED
    BY <1>1, <1>2, <1>3, <1>5, <1>7, <2>4, <2>5
       DEF CompositionInv, PhaseInv, SearchInv, SortInv, C, M
<1> QED
  BY <1>8, <1>9

LEMMA ValidateKeeps == ASSUME CompositionInv, Validate PROVE CompositionInv'
<1> DEFINE C == DependencyChoices
           M == ModuleIDs
<1>1. /\ phase = "validating"
      /\ UNCHANGED <<bundles, entries, defaults, ids, modules, picked, order>>
      /\ \/ phase' = "planned" /\ Missing = {} /\ why' = why
         \/ phase' = "refused" /\ why' = "missing"
  BY DEF Validate, Go, CompRefuse
<1>2. BundlesInv' /\ ModulesInv'
  BY <1>1, CatalogStays
<1>3. /\ Chosen(C, picked) /\ NoneBefore(C, picked) /\ picked \in Seq(Nat) /\ Len(picked) = Len(C)
      /\ OrderedBy(EdgesOf(C, picked), M, order) /\ ToSet(order) = M /\ Len(order) = Len(modules)
      /\ why # "cycle" /\ Len(modules) = Len(ids)
  BY <1>1 DEF CompositionInv, PhaseInv, SearchInv, SortInv
<1>4. /\ Chosen(C, picked)' <=> Chosen(C, picked')
      /\ NoneBefore(C, picked)' <=> NoneBefore(C, picked')
      /\ OrderedBy(EdgesOf(C, picked), M, order)' <=> OrderedBy(EdgesOf(C, picked'), M, order')
      /\ C' = C /\ M' = M /\ Missing' = Missing
  BY <1>1, SearchStays, ModulesStay
<1>5. /\ Chosen(C, picked') /\ NoneBefore(C, picked') /\ picked' \in Seq(Nat) /\ Len(picked') = Len(C')
      /\ OrderedBy(EdgesOf(C, picked'), M, order') /\ ToSet(order') = M' /\ Len(order') = Len(modules')
  BY <1>1, <1>3, <1>4
<1> HIDE DEF C, M
<1> QED
  BY <1>1, <1>2, <1>3, <1>4, <1>5 DEF CompositionInv, PhaseInv, SearchInv, SortInv, C, M

LEMMA CompositionStands == ASSUME CompositionInv, UNCHANGED compVars PROVE CompositionInv'
<1>1. UNCHANGED <<phase, bundles, entries, defaults, ids, modules, picked, order, why>>
  BY DEF compVars
<1>2. BundlesInv' /\ ModulesInv'
  BY <1>1, CatalogStays
<1>3. PhaseInv'
  BY <1>1, SearchStays DEF CompositionInv, PhaseInv
<1>4. DependencyChoices' = DependencyChoices /\ ModuleIDs' = ModuleIDs /\ Missing' = Missing
  BY <1>1, ModulesStay
<1>5. SearchInv'
  <2> DEFINE C == DependencyChoices
  <2>1. /\ Chosen(C, picked)' <=> Chosen(C, picked)
        /\ Partial(C, picked)' <=> Partial(C, picked)
        /\ NoneBefore(C, picked)' <=> NoneBefore(C, picked)
        /\ (Len(picked) = Len(C))' <=> Len(picked) = Len(C)
    BY <1>1, <1>4, SearchStays
  <2> HIDE DEF C
  <2> QED
    BY <1>1, <2>1 DEF CompositionInv, SearchInv, C
<1>6. SortInv'
  BY <1>1, <1>4, SearchStays DEF CompositionInv, SortInv
<1> QED
  BY <1>2, <1>3, <1>5, <1>6 DEF CompositionInv

LEMMA CompositionStarts == CompositionInit => CompositionInv
<1> SUFFICES ASSUME CompositionInit PROVE CompositionInv
  OBVIOUS
<1>1. /\ phase = "idle" /\ why = "none" /\ entries = {}
      /\ bundles = <<>> /\ defaults = <<>> /\ ids = <<>> /\ modules = <<>>
      /\ picked = <<>> /\ order = <<>>
  BY DEF CompositionInit
<1>2. BundlesInv
  BY <1>1 DEF BundlesInv, AllDistinct, ToSet
<1>3. ModulesInv
  BY <1>1 DEF ModulesInv, AllDistinct
<1>4. PhaseInv /\ SearchInv /\ SortInv
  BY <1>1 DEF PhaseInv, SearchInv, SortInv
<1> QED
  BY <1>2, <1>3, <1>4 DEF CompositionInv

(* The inductive invariant: a candidate assignment comes after none that   *)
(* would do, and what is sorted so far is the beginning of the plan.       *)
THEOREM CompositionAlways == CompositionSpec => []CompositionInv
<1>1. CompositionInv /\ [CompositionNext]_compVars => CompositionInv'
  BY AddAllKeeps, BuildKeeps, ComposeKeeps, BuildModuleKeeps, CheckKeeps, ChooseKeeps,
     SortNextKeeps, ValidateKeeps, CompositionStands DEF CompositionNext
<1> QED
  BY <1>1, CompositionStarts, PTL DEF CompositionSpec

-----------------------------------------------------------------------------
LEMMA PlanServes == CompositionInv => PlanServesInOrder
<1> SUFFICES ASSUME CompositionInv, phase = "planned" PROVE PlanServesInOrder
  BY DEF PlanServesInOrder
<1> DEFINE C == DependencyChoices
<1>1. /\ ModulesInv /\ Len(modules) = Len(ids) /\ ToSet(order) = ModuleIDs /\ Len(order) = Len(modules)
      /\ Missing = {} /\ OrderedBy(EdgesOf(C, picked), ModuleIDs, order)
      /\ modules = <<>> \/ (Chosen(C, picked) /\ picked \in Seq(Nat) /\ Len(picked) = Len(C))
  BY DEF CompositionInv, PhaseInv, SearchInv, SortInv
<1>2. ToSet(order) = ToSet(ids) /\ Len(order) = Len(ids)
  <2>1. DOMAIN modules = DOMAIN ids /\ \A i \in DOMAIN modules : IdOf(modules[i]) = ids[i]
    BY <1>1 DEF ModulesInv
  <2>2. ModuleIDs = ToSet(ids)
    BY <2>1 DEF ModuleIDs, ToSet
  <2> QED
    BY <1>1, <2>2
<1>3. ASSUME NEW k \in DOMAIN order, NEW dep \in Required(ModuleOf(order[k]))
      PROVE  \E id \in {order[j] : j \in 1..k} : Satisfies(id, dep)
  <2>1. /\ order \in Seq(ModuleIDs) /\ Len(order) \in Nat /\ DOMAIN order = 1..Len(order)
        /\ k \in 1..Len(order) /\ order[k] \in ModuleIDs
    BY <1>1 DEF OrderedBy
  <2>2. PICK i \in DOMAIN modules : order[k] = IdOf(modules[i]) /\ ModuleOf(order[k]) = modules[i]
    BY <1>1, <2>1, ModulesKnown
  <2>3. dep \in Required(modules[i]) /\ modules[i] \in ToSet(modules) /\ modules[i] \in AnyDeclaration
    BY <1>1, <1>3, <2>2 DEF ModulesInv, ToSet
  <2> DEFINE S == SatisfyingProviders(dep)
  <2>4. S # <<>>
    BY <1>1, <2>3 DEF Missing
  <2>5. dep.fallbacks \in Seq(Texts)
    BY <2>3, DeclarationsListed DEF Required
  <2>6. S \in Seq(Served(dep)) /\ \A id \in ToSet(S) : Satisfies(id, dep)
    BY <1>1, <2>5, SatisfyingSay
  <2>7. CASE ToSet(S) \subseteq {IdOf(modules[i])}
    <3> HIDE DEF S
    <3>1. S[1] \in ToSet(S)
      BY <2>4, <2>6 DEF ToSet
    <3>2. Satisfies(order[k], dep)
      BY <2>2, <2>6, <2>7, <3>1
    <3> QED
      BY <2>1, <3>2
  <2>8. CASE ~(ToSet(S) \subseteq {IdOf(modules[i])})
    <3>1. PICK n \in DOMAIN C : /\ C[n].consumer = order[k] /\ ToSet(C[n].providers) \subseteq ToSet(S)
      BY <1>1, <2>2, <2>3, <2>8, ChoicesAre
    <3>2. Chosen(C, picked) /\ Searchable(C) /\ DOMAIN picked = DOMAIN C
      <4>1. DOMAIN modules # {}
        OBVIOUS
      <4>2. modules # <<>>
        BY <4>1
      <4>3. Searchable(C)
        BY <1>1, ChoicesFit
      <4> HIDE DEF C
      <4> QED
        BY <1>1, <4>2, <4>3 DEF Chosen, Searchable
    <3> DEFINE id == C[n].providers[picked[n]]
    <3>3. id \in ToSet(C[n].providers)
      <4> HIDE DEF C
      <4> QED
        BY <3>1, <3>2 DEF Chosen, Searchable, ToSet
    <3>4. <<id, order[k]>> \in EdgesOf(C, picked)
      BY <3>1, <3>2 DEF EdgesOf
    <3> HIDE DEF id, C, S
    <3>5. PICK j \in 1..(k - 1) : order[j] = <<id, order[k]>>[1]
      BY <1>1, <2>1, <3>4 DEF OrderedBy
    <3>6. order[j] = id /\ j \in 1..k
      BY <2>1, <3>5
    <3>7. Satisfies(id, dep)
      BY <2>6, <3>1, <3>3
    <3> QED
      BY <3>6, <3>7
  <2> QED
    BY <2>7, <2>8
<1>4. ASSUME NEW k \in DOMAIN order, NEW dep \in Required(ModuleOf(order[k]))
      PROVE  LET before    == {order[j] : j \in 1..k}
                 served    == {id \in ModuleIDs : Provides(id, dep)}
                 fallbacks == {Trim(f) : f \in ToSet(dep.fallbacks)} \cap served
             IN \/ Trim(dep.preferred) \in before \cap served
                \/ Trim(dep.preferred) \notin served /\ fallbacks # {} /\ fallbacks \cap before # {}
                \/ Blank(dep.preferred) /\ fallbacks = {} /\ served \cap before # {}
  <2>1. PICK id \in {order[j] : j \in 1..k} : Satisfies(id, dep)
    BY <1>3, <1>4
  <2> QED
    BY <2>1 DEF Satisfies, Served, Fallbacks
<1> QED
  BY <1>2, <1>4 DEF PlanServesInOrder

LEMMA PlanIsFirst == CompositionInv => PlanIsCanonical
<1> SUFFICES ASSUME CompositionInv PROVE PlanIsCanonical
  OBVIOUS
<1> DEFINE C == DependencyChoices
<1>1. ModulesInv
  BY DEF CompositionInv
<1>2. \A f : f \in Selections <=> f = [n \in DOMAIN f |-> f[n]] /\ Chosen(C, f)
  BY <1>1, SelectionsAre
<1>3. why = "cycle" => Selections = {}
  BY <1>2 DEF CompositionInv, PhaseInv
<1>4. ASSUME phase = "sorting" PROVE picked \in Selections /\ \A f \in Selections : ~Before(f, picked)
  <2>1. Chosen(C, picked) /\ NoneBefore(C, picked) /\ picked \in Seq(Nat) /\ Len(picked) = Len(C)
    BY <1>4 DEF CompositionInv, SearchInv
  <2> HIDE DEF C
  <2>2. picked \in Selections
    BY <1>2, <2>1
  <2>3. ASSUME NEW f \in Selections PROVE ~Before(f, picked)
    <3>1. Chosen(C, f) /\ DOMAIN f = 1..Len(picked)
      BY <1>2, <2>1, <2>3 DEF Chosen
    <3> QED
      BY <2>1, <3>1 DEF NoneBefore, Before, PartAt
  <2> QED
    BY <2>2, <2>3
<1>5. ASSUME phase \in {"validating", "planned"}, NEW i \in DOMAIN order, NEW j \in DOMAIN order,
             i < j, order[j] < order[i]
      PROVE  \E k \in i..(j - 1) : <<order[k], order[j]>> \in EdgesOf(C, picked)
  <2> DEFINE E == EdgesOf(C, picked)
  <2>1. OrderedBy(E, ModuleIDs, order)
    BY <1>5 DEF CompositionInv, SortInv
  <2>2. \A e \in E : e = <<e[1], e[2]>>
    BY DEF EdgesOf
  <2> HIDE DEF E
  <2>3. /\ Len(order) \in Nat /\ i \in 1..Len(order) /\ j \in 1..Len(order)
        /\ order[j] \in ModuleIDs /\ \A l, m \in 1..Len(order) : order[l] = order[m] => l = m
    BY <2>1 DEF OrderedBy, AllDistinct
  <2>4. \A l \in 1..i : order[l] # order[j]
    BY <1>5, <2>3
  <2>5. PICK e \in E : e[2] = order[j] /\ \A l \in 1..(i - 1) : order[l] # e[1]
    BY <1>5, <2>1, <2>3, <2>4 DEF OrderedBy
  <2>6. PICK k \in 1..(j - 1) : order[k] = e[1]
    BY <2>1, <2>3, <2>5 DEF OrderedBy
  <2>7. k \in i..(j - 1)
    BY <2>3, <2>5, <2>6
  <2> QED
    BY <2>2, <2>5, <2>6, <2>7 DEF E
<1> QED
  BY <1>3, <1>4, <1>5 DEF PlanIsCanonical

(* For any modules, bundles, requests and constraints: a plan holds every  *)
(* module asked for once, behind a provider of each port it requires, and  *)
(* that is the preferred one, a fallback or any other as the dependency    *)
(* says (compose.go).                                                      *)
THEOREM PlanAlwaysServes == CompositionSpec => []PlanServesInOrder
<1> QED
  BY CompositionAlways, PlanServes, PTL

(* However many providers and choices there are: a cycle is reported only  *)
(* when every assignment of providers has one, the assignment taken is the *)
(* first without one in preference order, and the plan the first by ID of  *)
(* the orders that respect it (compose.go:158-175, 254-290).               *)
THEOREM PlanAlwaysCanonical == CompositionSpec => []PlanIsCanonical
<1> QED
  BY CompositionAlways, PlanIsFirst, PTL
=============================================================================
