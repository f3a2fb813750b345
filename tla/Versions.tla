------------------------------ MODULE Versions ------------------------------
(***************************************************************************)
(* pkg/module/dependency.go: versions of ports and the constraints put on  *)
(* them. A version as written is a record of its dotted segments (numbers, *)
(* or Bad for what strconv or the leading-zero rule refuses) and of what   *)
(* follows a "-" or "+" ("none", "some", or "empty" after a bare sign). A  *)
(* constraint is "any" (empty or "*"), "^", "~", or a list of comparators  *)
(* separated by commas; a comparator with no operator is "==".             *)
(*                                                                         *)
(* verCase is the pair of versions and constraint just looked at.          *)
(***************************************************************************)
EXTENDS Integers, Sequences

CONSTANTS
  Bad,               \* a segment that is not a plain decimal number
  NoCase,
  VersionMenu,       \* the versions as written that a run looks at
  ConstraintMenu     \* and the constraints

Version == [segments : Seq(Nat \cup {Bad}), meta : {"none", "some", "empty"}]

Operators == {"==", "!=", ">", ">=", "<", "<="}

Constraint ==
  [form : {"any"}] \cup [form : {"^", "~"}, base : Version]
  \cup [form : {"list"}, parts : Seq([op : Operators, want : Version])]

ASSUME VersionAssumption ==
  /\ Bad \notin Nat
  /\ VersionMenu \subseteq Version /\ ConstraintMenu \subseteq Constraint

VARIABLE verCase

(* parseSemver: missing segments count as zero; what follows "-" or "+" is *)
(* checked and forgotten.                                                  *)
WellFormed(v) ==
  /\ v.segments # <<>> /\ Len(v.segments) <= 3
  /\ \A i \in DOMAIN v.segments : v.segments[i] # Bad
  /\ v.meta # "empty"

Semver(v) == [i \in 1..3 |-> IF i <= Len(v.segments) THEN v.segments[i] ELSE 0]

(* semver.cmp: the sign of a - b at the first segment that differs.        *)
Less(a, b) ==
  \E i \in 1..3 : a[i] < b[i] /\ \A j \in 1..(i - 1) : a[j] = b[j]

Compares(op, have, want) ==
  \/ op = "==" /\ have = want
  \/ op = "!=" /\ have # want
  \/ op = ">"  /\ Less(want, have)
  \/ op = ">=" /\ ~Less(have, want)
  \/ op = "<"  /\ Less(have, want)
  \/ op = "<=" /\ ~Less(want, have)

(* Mutant: a caret always allows everything below the next major.          *)
NextMajor(base) == <<base[1] + 1, 0, 0>>

CaretUpperBound(base) ==
  CASE base[1] > 0 -> <<base[1] + 1, 0, 0>>
    [] base[1] = 0 /\ base[2] > 0 -> <<0, base[2] + 1, 0>>
    [] OTHER -> <<0, 0, base[3] + 1>>

TildeUpperBound(base) == <<base[1], base[2] + 1, 0>>

(* parseVersionConstraint: an empty segment of a list is an error.         *)
ValidConstraint(c) ==
  \/ c.form = "any"
  \/ c.form \in {"^", "~"} /\ WellFormed(c.base)
  \/ c.form = "list" /\ c.parts # <<>>
     /\ \A i \in DOMAIN c.parts : WellFormed(c.parts[i].want)

Between(low, high) == <<[op |-> ">=", want |-> low], [op |-> "<", want |-> high]>>

Comparators(c) ==
  CASE c.form = "any" -> <<>>
    [] c.form = "^" -> Between(Semver(c.base), CaretUpperBound(Semver(c.base)))
    [] c.form = "~" -> Between(Semver(c.base), TildeUpperBound(Semver(c.base)))
    [] c.form = "list" -> [i \in DOMAIN c.parts |->
                             [op |-> c.parts[i].op, want |-> Semver(c.parts[i].want)]]

(* MatchesVersion, of a valid version and a valid constraint.              *)
MatchesVersion(v, c) ==
  \A i \in DOMAIN Comparators(c) :
    Compares(Comparators(c)[i].op, Semver(v), Comparators(c)[i].want)

(* The constraint is parsed before the version.                            *)
Verdict(v, c) ==
  CASE ~ValidConstraint(c) -> "invalid constraint"
    [] ValidConstraint(c) /\ ~WellFormed(v) -> "invalid version"
    [] OTHER -> IF MatchesVersion(v, c) THEN "match" ELSE "no match"

VersionsInit == verCase = NoCase

LookAt(v, c) ==
  /\ verCase = NoCase
  /\ verCase' = [version |-> v, constraint |-> c, verdict |-> Verdict(v, c)]

VersionsNext == \E v \in VersionMenu, c \in ConstraintMenu : LookAt(v, c)

-----------------------------------------------------------------------------
(* What each form of constraint is for: "^" keeps the leftmost non-zero    *)
(* segment of its base (all of 0.0.0), "~" its first two, a list is a      *)
(* conjunction; a malformed constraint or version never matches.           *)
Meant(h, c) ==
  CASE c.form = "any" -> TRUE
    [] c.form = "^" ->
         LET b == Semver(c.base)
             kept == {i \in 1..3 : \A j \in 1..(i - 1) : b[j] = 0}
         IN ~Less(h, b) /\ \A i \in kept : h[i] = b[i]
    [] c.form = "~" ->
         LET b == Semver(c.base) IN h[1] = b[1] /\ h[2] = b[2] /\ h[3] >= b[3]
    [] c.form = "list" ->
         \A p \in {c.parts[i] : i \in DOMAIN c.parts} :
           LET w == Semver(p.want)
               later == \/ h[1] > w[1]
                        \/ h[1] = w[1] /\ h[2] > w[2]
                        \/ h[1] = w[1] /\ h[2] = w[2] /\ h[3] > w[3]
               same == h[1] = w[1] /\ h[2] = w[2] /\ h[3] = w[3]
           IN CASE p.op = "==" -> same  [] p.op = "!=" -> ~same
                [] p.op = ">"  -> later [] p.op = ">=" -> later \/ same
                [] p.op = "<"  -> ~(later \/ same) [] p.op = "<=" -> ~later

(* The comparators a constraint is turned into accept exactly what its     *)
(* form means, for a well-formed version and constraint, and nothing else  *)
(* is ever accepted (dependency.go:95-115, 213-265).                       *)
ConstraintsMeanIt ==
  verCase # NoCase =>
    LET v == verCase.version
        c == verCase.constraint
    IN verCase.verdict = "match" <=>
         WellFormed(v) /\ ValidConstraint(c) /\ Meant(Semver(v), c)
=============================================================================
