----------------------------- MODULE MCSamePlan -----------------------------
(* One catalog, composed twice: three modules of which two require the     *)
(* port that all of them provide. Constructors return the same each time.  *)
EXTENDS Composition, TLC

CONSTANT p

VARIABLE earlier   \* the plan of the first time, or Nil

vars == <<verCase, compVars, earlier>>

Provided == [port |-> p, version |-> [segments |-> <<1>>, meta |-> "none"]]
Needed == [port |-> p, required |-> TRUE, constraint |-> [form |-> "any"],
           preferred |-> Plain(0), fallbacks |-> <<>>]

OneBundle ==
  {<<[name |-> Plain(9), entries |-> [i \in 1..3 |-> [id |-> Plain(i), new |-> TRUE]],
      defaults |-> <<>>]>>}
TheDeclarations ==
  [i \in 1..3 |-> {[id |-> Plain(i), provides |-> <<Provided>>,
                    deps |-> IF i = 3 THEN <<>> ELSE <<Needed>>]}]
EveryOrder == {[i \in 1..3 |-> Plain(f[i])] : f \in Permutations(1..3)}

Init == VersionsInit /\ CompositionInit /\ earlier = Nil

ComposeAgain ==
  /\ phase = "planned" /\ earlier = Nil
  /\ earlier' = order
  /\ phase' = "catalog"
  /\ ids' = <<>> /\ modules' = <<>> /\ picked' = <<>> /\ order' = <<>>
  /\ UNCHANGED <<bundles, entries, defaults, why>>

Next ==
  /\ UNCHANGED verCase
  /\ \/ CompositionNext /\ UNCHANGED earlier
     \/ ComposeAgain

Spec == Init /\ [][Next]_vars

(* "The same block set always produces the same plan": composition depends *)
(* on the blocks, "not [...] traversal order" (docs/COMPOSABILITY.md:73,   *)
(* 75).                                                                    *)
SameBlocksSamePlan ==
  phase = "planned" /\ earlier # Nil => (ToSet(order) = ToSet(earlier) => order = earlier)
=============================================================================
