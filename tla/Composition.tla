----------------------------- MODULE Composition -----------------------------
(***************************************************************************)
(* pkg/module: bundles are built into a catalog (catalog.go), and Compose  *)
(* turns module IDs into a plan (compose.go): construct the modules, pick  *)
(* a provider for every required port so that nothing waits for itself,    *)
(* order the modules, check that nothing required is missing.              *)
(*                                                                         *)
(* In an entry, new says whether there is a constructor. What that returns *)
(* is chosen when it is called, from Declarations or Nil: a declaration is *)
(* [id, provides, deps], a port provided [port, version], a dependency     *)
(* [port, required, constraint, preferred, fallbacks].                     *)
(*                                                                         *)
(* The search for providers is a step per call of choose: picked[i] is the *)
(* provider tried for choices[i], by its place in preference order. Kahn's *)
(* queue is the set of modules whose in-degree is zero, as it is kept      *)
(* sorted.                                                                 *)
(***************************************************************************)
EXTENDS Text, Versions, SequencesExt

CONSTANTS
  BundleMenu,      \* sequences of bundles a builder is given
  RequestMenu,     \* sequences of IDs passed to Compose
  Declarations,    \* [IDs -> what a constructor of that ID may return]
  NoPort, Nil

AnyEntry == [id : Texts, new : BOOLEAN]
AnyBundle == [name : Texts, entries : Seq(AnyEntry), defaults : Seq(Texts)]

ASSUME CompositionAssumption ==
  /\ BundleMenu \subseteq Seq(AnyBundle \cup {Nil}) /\ Nil \notin AnyBundle
  /\ RequestMenu \subseteq Seq(Texts)
  /\ \A bs \in BundleMenu : \A b \in ToSet(bs) \ {Nil} : \A e \in ToSet(b.entries) :
       ~Blank(e.id) => Trim(e.id) \in DOMAIN Declarations
  /\ \A id \in DOMAIN Declarations : \A d \in Declarations[id] \ {Nil} :
       /\ d.deps \in Seq(ToSet(d.deps))
       /\ \A dep \in ToSet(d.deps) : dep.fallbacks \in Seq(Texts)

VARIABLES
  phase,           \* where the build and Compose stand
  bundles, entries, defaults,      \* the catalog
  ids, modules,    \* IDs asked for, declarations built so far
  picked, order,   \* providers picked, modules sorted so far
  why              \* why it was refused

compVars == <<phase, bundles, entries, defaults, ids, modules, picked, order, why>>

CompositionInit ==
  /\ phase = "idle" /\ why = "none"
  /\ bundles = <<>> /\ entries = {} /\ defaults = <<>>
  /\ ids = <<>> /\ modules = <<>> /\ picked = <<>> /\ order = <<>>

CompRefuse(reason) == phase' = "refused" /\ why' = reason

Go(to) == phase' = to /\ UNCHANGED why

-----------------------------------------------------------------------------
(* Lists. The places of a list of lists, and in which order loops come to  *)
(* them; the elements of a list at some of its places.                     *)
PlacesOf(lists) == UNION {{i} \X DOMAIN lists[i] : i \in DOMAIN lists}

At(lists, x) == lists[x[1]][x[2]]

Earlier(x, y) == x[1] < y[1] \/ (x[1] = y[1] /\ x[2] < y[2])

InTurn(P) ==
  [n \in 1..Cardinality(P) |->
     CHOOSE x \in P : Cardinality({y \in P : Earlier(y, x)}) = n - 1]

Ascending(S) ==
  [n \in 1..Cardinality(S) |-> CHOOSE m \in S : Cardinality({k \in S : k < m}) = n - 1]

Those(s, S) == [n \in 1..Cardinality(S) |-> s[Ascending(S)[n]]]

-----------------------------------------------------------------------------
(* The catalog.                                                            *)

(* normalizeIDs, and the defaults of Build: trimmed, no blanks, first wins. *)
NormalizeIDs(lists) ==
  LET Fresh(x) == /\ ~Blank(At(lists, x))
                  /\ \A y \in PlacesOf(lists) :
                       Earlier(y, x) => Trim(At(lists, y)) # Trim(At(lists, x))
      firsts == InTurn({x \in PlacesOf(lists) : Fresh(x)})
  IN [n \in DOMAIN firsts |-> Trim(At(lists, firsts[n]))]

(* Builder.Add and AddAll drop nil bundles.                                *)
AddAll ==
  /\ phase = "idle"
  /\ \E bs \in BundleMenu : bundles' = Those(bs, {i \in DOMAIN bs : bs[i] # Nil})
  /\ Go("adding")
  /\ UNCHANGED <<entries, defaults, ids, modules, picked, order>>

AllEntries(bs) == [i \in DOMAIN bs |-> bs[i].entries]

(* Build stops at a nameless bundle, an entry without ID or constructor, or *)
(* an ID some entry before has, in the same bundle or another.             *)
BundlesWellFormed(bs) ==
  /\ \A i \in DOMAIN bs : ~Blank(bs[i].name)
  /\ LET es == AllEntries(bs) IN
       \A x \in PlacesOf(es) :
         /\ ~Blank(At(es, x).id) /\ At(es, x).new
         /\ \A y \in PlacesOf(es) : Earlier(y, x) => Trim(At(es, y).id) # Trim(At(es, x).id)

Build ==
  /\ phase = "adding"
  /\ IF BundlesWellFormed(bundles)
     THEN /\ LET es == AllEntries(bundles) IN
               entries' = {Trim(At(es, x).id) : x \in PlacesOf(es)}
          /\ defaults' = NormalizeIDs([i \in DOMAIN bundles |-> bundles[i].defaults])
          /\ Go("catalog")
     ELSE CompRefuse("bundle") /\ UNCHANGED <<entries, defaults>>
  /\ UNCHANGED <<bundles, ids, modules, picked, order>>

Compose ==
  /\ phase = "catalog"
  /\ \E request \in RequestMenu :
       ids' = IF request = <<>> THEN defaults ELSE NormalizeIDs(<<request>>)
  /\ Go(IF ids' = <<>> THEN "planned" ELSE "building")
  /\ UNCHANGED <<bundles, entries, defaults, modules, picked, order>>

(* Metadata.Normalize also fills in a name and a version.                  *)
ValidMetadata(d) == ~Blank(d.id) /\ ~HasSpace(Trim(d.id))

BuildModule ==
  /\ phase = "building" /\ Len(modules) < Len(ids)
  /\ LET id == ids[Len(modules) + 1] IN
       IF id \notin entries
       THEN CompRefuse("unknown") /\ UNCHANGED modules
       ELSE \E d \in Declarations[id] :
              IF d = Nil \/ ~ValidMetadata(d) \/ Trim(d.id) # id
              THEN CompRefuse("constructor") /\ UNCHANGED modules
              ELSE Go("building") /\ modules' = Append(modules, d)
  /\ UNCHANGED <<bundles, entries, defaults, ids, picked, order>>

-----------------------------------------------------------------------------
(* Providers of a port.                                                    *)

IdOf(d) == Trim(d.id)

ModuleIDs == {IdOf(modules[i]) : i \in DOMAIN modules}

ModuleOf(id) == modules[CHOOSE i \in DOMAIN modules : IdOf(modules[i]) = id]

(* providerIndex and validateDependency.                                   *)
WellDeclared(d) ==
  /\ \A p \in ToSet(d.provides) : p.port # NoPort /\ WellFormed(p.version)
  /\ \A dep \in ToSet(d.deps) : dep.port # NoPort /\ ValidConstraint(dep.constraint)

Provides(id, dep) ==
  \E p \in ToSet(ModuleOf(id).provides) :
    p.port = dep.port /\ MatchesVersion(p.version, dep.constraint)

(* Sorted by ID; an ID that provides the port twice counts once.           *)
CompatibleProviders(dep) ==
  Ascending({id \in ModuleIDs : Provides(id, dep)})

MatchingProviders(candidates, allowed) ==
  Those([i \in DOMAIN allowed |-> Trim(allowed[i])],
        {i \in DOMAIN allowed : Contains(candidates, Trim(allowed[i]))})

(* Mutant: when the preferred provider is not there, any other will do.    *)
AnySatisfyingProviders(dep) ==
  LET candidates == CompatibleProviders(dep) IN
  IF Contains(candidates, Trim(dep.preferred)) THEN <<Trim(dep.preferred)>> ELSE candidates

(* A preferred provider that is there is the only choice. Otherwise the    *)
(* fallbacks, in their order; with no preference and no fallback, any.     *)
SatisfyingProviders(dep) ==
  LET candidates == CompatibleProviders(dep)
      fallbacks  == MatchingProviders(candidates, dep.fallbacks)
  IN IF ~Blank(dep.preferred)
     THEN IF Contains(candidates, Trim(dep.preferred))
          THEN <<Trim(dep.preferred)>> ELSE fallbacks
     ELSE IF fallbacks # <<>> THEN fallbacks ELSE candidates

Required(d) == {dep \in ToSet(d.deps) : dep.required}

(* dependencyChoices: a module is not its own choice.                      *)
Dependencies == [i \in DOMAIN modules |-> modules[i].deps]

ProvidersFor(x) ==
  LET providers == SatisfyingProviders(At(Dependencies, x))
  IN Those(providers, {n \in DOMAIN providers : providers[n] # IdOf(modules[x[1]])})

DependencyChoices ==
  LET open == InTurn({x \in PlacesOf(Dependencies) :
                        At(Dependencies, x).required /\ ProvidersFor(x) # <<>>})
  IN [n \in DOMAIN open |->
        [consumer |-> IdOf(modules[open[n][1]]), providers |-> ProvidersFor(open[n])]]

(* Sort, up to the search.                                                 *)
CheckDeclarations ==
  /\ phase = "building" /\ Len(modules) = Len(ids)
  /\ IF \A d \in ToSet(modules) : WellDeclared(d)
     THEN Go("selecting") ELSE CompRefuse("declaration")
  /\ UNCHANGED <<bundles, entries, defaults, ids, modules, picked, order>>

-----------------------------------------------------------------------------
(* acyclicProviderSelection.                                               *)

EdgesOf(choices, pick) ==
  {<<choices[i].providers[pick[i]], choices[i].consumer>> : i \in DOMAIN pick}

(* What isAcyclic finds: no set of modules waits for itself.               *)
Acyclic(edges) ==
  \A S \in SUBSET ModuleIDs \ {{}} :
    \E id \in S : \A x \in S : <<x, id>> \notin edges

(* The next assignment to try when this one failed: the last choice with a *)
(* provider left takes it, those after it are undone.                      *)
Exhausted(choices, pick) == \A i \in DOMAIN pick : pick[i] = Len(choices[i].providers)

Advance(choices, pick) ==
  LET i == Max({k \in DOMAIN pick : pick[k] < Len(choices[k].providers)})
  IN [SubSeq(pick, 1, i) EXCEPT ![i] = @ + 1]

(* Mutant: the search is not undone; the first provider that closes a      *)
(* cycle fails it.                                                         *)
GiveUp(choices) == CompRefuse("cycle") /\ UNCHANGED picked

Backtrack(choices) ==
  IF Exhausted(choices, picked)
  THEN CompRefuse("cycle") /\ UNCHANGED picked
  ELSE Go("selecting") /\ picked' = Advance(choices, picked)

Choose ==
  /\ phase = "selecting"
  /\ LET choices == DependencyChoices IN
       \/ ~Acyclic(EdgesOf(choices, picked)) /\ Backtrack(choices)
       \/ /\ Acyclic(EdgesOf(choices, picked))
          /\ IF Len(picked) = Len(choices)
             THEN Go("sorting") /\ UNCHANGED picked
             ELSE Go("selecting") /\ picked' = Append(picked, 1)
  /\ UNCHANGED <<bundles, entries, defaults, ids, modules, order>>

(* Modules not yet sorted whose picked providers all are.                  *)
Ready ==
  {id \in ModuleIDs \ ToSet(order) :
     \A e \in EdgesOf(DependencyChoices, picked) : e[2] = id => Contains(order, e[1])}

(* Mutant: the queue is first in, first out and not kept sorted.           *)
AnyReady == Max(Ready)

NextReady == Min(Ready)

SortNext ==
  /\ phase = "sorting"
  /\ IF Ready # {} THEN Go("sorting") /\ order' = Append(order, NextReady)
     ELSE /\ IF Len(order) = Len(modules) THEN Go("validating") ELSE CompRefuse("cycle")
          /\ UNCHANGED order
  /\ UNCHANGED <<bundles, entries, defaults, ids, modules, picked>>

(* Validate comes last, and counts a module among its own providers.       *)
Missing ==
  {dep \in UNION {Required(d) : d \in ToSet(modules)} :
     SatisfyingProviders(dep) = <<>>}

Validate ==
  /\ phase = "validating"
  /\ IF Missing = {} THEN Go("planned") ELSE CompRefuse("missing")
  /\ UNCHANGED <<bundles, entries, defaults, ids, modules, picked, order>>

CompositionNext ==
  \/ AddAll \/ Build \/ Compose \/ BuildModule \/ CheckDeclarations
  \/ Choose \/ SortNext \/ Validate

-----------------------------------------------------------------------------
(* Properties.                                                             *)

(* In a plan every module asked for stands once, and after a provider of   *)
(* each port it requires: the preferred one where that serves it, else a   *)
(* fallback where one serves it. Only a module that serves itself need not *)
(* wait (compose.go:127, 254-257).                                         *)
PlanServesInOrder ==
  phase = "planned" =>
    /\ ToSet(order) = ToSet(ids) /\ Len(order) = Len(ids)
    /\ \A k \in DOMAIN order : \A dep \in Required(ModuleOf(order[k])) :
         LET before    == {order[j] : j \in 1..k}
             served    == {id \in ModuleIDs : Provides(id, dep)}
             fallbacks == {Trim(f) : f \in ToSet(dep.fallbacks)} \cap served
         IN \/ Trim(dep.preferred) \in before \cap served
            \/ Trim(dep.preferred) \notin served /\ fallbacks # {} /\ fallbacks \cap before # {}
            \/ Blank(dep.preferred) /\ fallbacks = {} /\ served \cap before # {}

(* All ways of giving each choice one of its providers without a cycle.    *)
Selections ==
  LET choices == DependencyChoices IN
    {f \in [DOMAIN choices -> UNION {DOMAIN choices[i].providers : i \in DOMAIN choices}] :
       /\ \A i \in DOMAIN choices : f[i] \in DOMAIN choices[i].providers
       /\ Acyclic(EdgesOf(choices, f))}

Before(f, g) == \E i \in DOMAIN f : f[i] < g[i] /\ \A j \in 1..(i - 1) : f[j] = g[j]

(* The search misses nothing and keeps preferences: a cycle is reported    *)
(* only when every assignment of providers has one, and what is picked is  *)
(* the first in preference order, dependencies being looked at in the      *)
(* order in which their modules were asked for. The plan is then the first *)
(* by ID of all orders that respect the picked providers: the order of the *)
(* request bears on it through the pick only, though the same modules      *)
(* asked for otherwise may pick and start otherwise, against the docs      *)
(* (SameBlocksSamePlan in MCSamePlan) (compose.go:158-175, 254-291).       *)
PlanIsCanonical ==
  /\ why = "cycle" => Selections = {}
  /\ phase = "sorting" /\ order = <<>> =>
       picked \in Selections /\ \A f \in Selections : ~Before(f, picked)
  /\ phase \in {"validating", "planned"} =>
       \A i, j \in DOMAIN order : i < j /\ order[j] < order[i] =>
         \E k \in i..(j - 1) : <<order[k], order[j]>> \in EdgesOf(DependencyChoices, picked)
=============================================================================
