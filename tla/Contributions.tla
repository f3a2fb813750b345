---------------------------- MODULE Contributions ----------------------------
(***************************************************************************)
(* pkg/registry: the declarative Catalog with its Spec, built once, and    *)
(* the mutable Registry, which several callers share under one lock.       *)
(*                                                                         *)
(* A contribution is [key, value]; its source is its place in contributed. *)
(* Which hooks the builder was given is setup = [trims, checks, sorts,   *)
(* spec]: keys are trimmed, keys and values checked by the hooks below,    *)
(* and sorted by KeyRank, in which distinct keys may be equal.             *)
(***************************************************************************)
EXTENDS Integers, Text, SequencesExt

CONSTANTS
  RawKeys,         \* keys as contributed
  Values, BadValues,
  Options,         \* the builders looked at
  MaxContributions,
  KeyRank,         \* [words -> Nat], what the less function compares
  Owners,          \* the owner layers of spec.go
  Callers, Unset

VARIABLES
  contributed, setup,     \* the builder
  built, keys, outcome,     \* entries (key -> place), their order, result
  registry,                 \* the Registry: [words -> value or Unset]
  owner                     \* history: who was told it owns a key

catVars == <<contributed, setup, built, keys, outcome>>
regVars == <<registry, owner>>

RegistryWords == {Trim(k) : k \in RawKeys}

ASSUME ContributionAssumption == \A w \in RegistryWords : KeyRank[w] \in Int

Undecided == [code |-> "none", at |-> 0]

CatalogInit ==
  /\ contributed = <<>> /\ setup = Unset
  /\ built = <<>> /\ keys = <<>> /\ outcome = Undecided

-----------------------------------------------------------------------------
(* Spec.Normalize: what is wrong with a spec, in order. Every problem is   *)
(* reported, not only the first.                                           *)
SpecProblems(s) ==
  SelectSeq(<<
      <<Blank(s.id), "id missing">>,
      <<HasSpace(Trim(s.id)), "id has whitespace">>,
      <<Blank(s.owner), "owner missing">>,
      <<~Blank(s.owner) /\ Trim(s.owner) \notin Owners, "owner unknown">>,
      <<Blank(s.contribution), "contribution missing">>,
      <<Blank(s.key), "key missing">>>>,
    LAMBDA problem : problem[1])

SpecAccepted == setup.spec # Unset => SpecProblems(setup.spec) = <<>>

(* CatalogBuilder: setup, then Add.                                        *)
NewCatalogBuilder ==
  /\ setup = Unset
  /\ setup' \in Options
  /\ UNCHANGED <<contributed, built, keys, outcome>>

Add ==
  /\ setup # Unset /\ outcome = Undecided /\ built = <<>>
  /\ Len(contributed) < MaxContributions
  /\ \E k \in RawKeys, v \in Values :
       contributed' = Append(contributed, [key |-> k, value |-> v])
  /\ UNCHANGED <<setup, built, keys, outcome>>

KeyOf(c) == IF setup.trims THEN Plain(Trim(c.key)) ELSE c.key

CatRefuse(code, at) == outcome' = [code |-> code, at |-> at] /\ UNCHANGED <<built, keys>>

(* The key and value validators, when the builder has them.                *)
BadKey(k) == setup.checks /\ (Blank(k) \/ HasSpace(Trim(k)))
BadValue(v) == setup.checks /\ v \in BadValues

(* Mutant: the duplicate check looks at the key as it was contributed.     *)
TakenAsWritten(c) == \E i \in DOMAIN built : contributed[i].key = c.key

(* A contribution counts by its normalized key.                            *)
TakenBy(c) == \E i \in DOMAIN built : built[i] = KeyOf(c)

(* One turn of Build's loop; built is the normalized keys so far.          *)
BuildTurn ==
  /\ setup # Unset /\ outcome = Undecided
  /\ IF ~SpecAccepted
     THEN CatRefuse("invalid_spec", 0)
     ELSE /\ Len(built) < Len(contributed)
          /\ LET i == Len(built) + 1
                 c == contributed[i]
             IN \/ BadKey(KeyOf(c)) /\ CatRefuse("invalid_key", i)
                \/ ~BadKey(KeyOf(c)) /\ BadValue(c.value) /\ CatRefuse("invalid_value", i)
                \/ /\ ~BadKey(KeyOf(c)) /\ ~BadValue(c.value)
                   /\ IF TakenBy(c) THEN CatRefuse("duplicate_key", i)
                      ELSE built' = Append(built, KeyOf(c)) /\ UNCHANGED <<keys, outcome>>
  /\ UNCHANGED <<contributed, setup>>

(* SortStableFunc: by rank, and where ranks are equal in builder order. As *)
(* the registry of rules does, it says which place comes n-th by how many  *)
(* come before it.                                                         *)
SortsBefore(s, i, j) ==
  \/ KeyRank[Trim(s[i])] < KeyRank[Trim(s[j])]
  \/ KeyRank[Trim(s[i])] = KeyRank[Trim(s[j])] /\ i < j

SortedPlace(s, n) ==
  CHOOSE i \in DOMAIN s : Cardinality({j \in DOMAIN s : SortsBefore(s, j, i)}) = n - 1

StableSort(s) == [n \in DOMAIN s |-> s[SortedPlace(s, n)]]

BuildDone ==
  /\ setup # Unset /\ outcome = Undecided
  /\ SpecAccepted
  /\ Len(built) = Len(contributed)
  /\ keys' = IF setup.sorts THEN StableSort(built) ELSE built
  /\ outcome' = [code |-> "built", at |-> 0]
  /\ UNCHANGED <<contributed, setup, built>>

CatalogNext == NewCatalogBuilder \/ Add \/ BuildTurn \/ BuildDone

(* Lookup, Contribution, Source and Has: the place of the contribution.    *)
LookupIn(k) ==
  LET at == {i \in DOMAIN built : built[i] = KeyOf([key |-> k])} IN
  IF at = {} THEN 0 ELSE Min(at)

-----------------------------------------------------------------------------
(* Registry: every operation normalizes its key, then works under the      *)
(* lock. Get, Range and the other readers take a copy under it.            *)

RegistryInit ==
  /\ registry = [w \in RegistryWords |-> Unset]
  /\ owner = [w \in RegistryWords |-> {}]

Register(c, k) ==
  /\ registry' = [registry EXCEPT ![Trim(k)] = c]
  /\ owner' = [owner EXCEPT ![Trim(k)] = {}]

(* Mutant: the check and the write do not share the lock, so that another  *)
(* caller may have written in between.                                     *)
RegisterUnlocked(c, k) ==
  /\ registry' = [registry EXCEPT ![Trim(k)] = c]
  /\ owner' = [owner EXCEPT ![Trim(k)] = @ \cup {c}]

(* A caller that is refused gets ErrAlreadyRegistered and changes nothing. *)
RegisterIfAbsent(c, k) ==
  /\ registry[Trim(k)] = Unset
  /\ registry' = [registry EXCEPT ![Trim(k)] = c]
  /\ owner' = [owner EXCEPT ![Trim(k)] = {c}]

Delete(k) ==
  /\ registry[Trim(k)] # Unset
  /\ registry' = [registry EXCEPT ![Trim(k)] = Unset]
  /\ owner' = [owner EXCEPT ![Trim(k)] = {}]

RegistryNext ==
  \/ \E c \in Callers, k \in RawKeys : Register(c, k) \/ RegisterIfAbsent(c, k)
  \/ \E k \in RawKeys : Delete(k)

-----------------------------------------------------------------------------
(* Properties.                                                             *)

(* Build is all or nothing and blames the first contribution that is       *)
(* wrong; otherwise every contribution is found under its key, however it  *)
(* is written, and keys of equal rank stay in builder order                *)
(* (catalog.go:117-198).                                                   *)
CatalogIsExact ==
  outcome # Undecided =>
    LET Wrong(i) ==
          \/ BadKey(KeyOf(contributed[i])) \/ BadValue(contributed[i].value)
          \/ \E j \in 1..(i - 1) : KeyOf(contributed[j]) = KeyOf(contributed[i])
        wrong == {i \in DOMAIN contributed : Wrong(i)}
        place(k) == LookupIn(k)
    IN CASE outcome.code = "invalid_spec" -> SpecProblems(setup.spec) # <<>>
         [] outcome.code = "built" ->
              /\ wrong = {} /\ ToSet(keys) = {KeyOf(c) : c \in ToSet(contributed)}
              /\ \A i \in DOMAIN contributed : LookupIn(contributed[i].key) = i
              /\ setup.sorts => \A i, j \in DOMAIN keys : i < j =>
                   \/ KeyRank[Trim(keys[i])] < KeyRank[Trim(keys[j])]
                   \/ /\ KeyRank[Trim(keys[i])] = KeyRank[Trim(keys[j])]
                      /\ place(keys[i]) < place(keys[j])
         [] OTHER -> wrong # {} /\ outcome.at = Min(wrong)

(* Of callers that register a key strictly at most one is told it owns it  *)
(* as long as nobody deletes or overwrites it, and its value is there.     *)
OneOwner ==
  \A w \in RegistryWords : Cardinality(owner[w]) <= 1 /\ \A c \in owner[w] : registry[w] = c

(* "duplicate ownership must fail closed" for a catalog and for a strict   *)
(* registration (registry.go:18-20).                                       *)
OwnershipFailsClosed == CatalogIsExact /\ OneOwner
=============================================================================
