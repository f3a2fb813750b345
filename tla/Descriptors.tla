----------------------------- MODULE Descriptors -----------------------------
(***************************************************************************)
(* pkg/entity/entity.go: what a module publishes about an entity is        *)
(* normalized, then checked and collected into a catalog. A descriptor is  *)
(* a record of texts and of sequences of them; description, label and      *)
(* metadata, which are only trimmed, are left out.                         *)
(***************************************************************************)
EXTENDS Text, SequencesExt

CONSTANTS
  Capabilities, FieldTypes, Kinds,   \* the words entity.go names
  Extensions,                        \* well-formed words that begin with "x."
  TenantScoped, Enum,                \* one capability, one field type
  Plural(_),                         \* the display name with an "s"
  DescriptorMenu, LaterMenu          \* descriptors published first, and then

AnyField == [name : Texts, type : Texts, label : Texts, enum : Seq(Texts)]

AnyRelationship == [name : Texts, kind : Texts, targetModule : Texts, targetEntity : Texts]

AnyDescriptor ==
  [module : Texts, entity : Texts, display : Texts, plural : Texts, tenantScoped : BOOLEAN,
   capabilities : Seq(Texts), fields : Seq(AnyField), relationships : Seq(AnyRelationship),
   policy : [{"read", "write", "delete"} -> Seq(Texts)]]

ASSUME EntityAssumption ==
  /\ DescriptorMenu \cup LaterMenu \subseteq AnyDescriptor
  /\ TenantScoped \in (Nat \ {Empty}) \cap Capabilities

VARIABLES published, refused    \* normalized so far; whether NewCatalog failed

entityVars == <<published, refused>>

-----------------------------------------------------------------------------
(* normalizeStrings and normalizeCapabilities: trimmed, no blanks, no      *)
(* doubles, sorted.                                                        *)
WordsOf(texts) == {Trim(t) : t \in ToSet(texts)} \ {Empty}

NormalizeStrings(texts) ==
  [n \in 1..Cardinality(WordsOf(texts)) |->
     Plain(CHOOSE w \in WordsOf(texts) :
             Cardinality({v \in WordsOf(texts) : v < w}) = n - 1)]

OrElse(t, default) == IF Blank(t) THEN Plain(default) ELSE Plain(Trim(t))

(* A name is required and has no blanks inside.                            *)
Name(t) == ~Blank(t) /\ ~HasSpace(Trim(t))

(* Sorted by name, of which there are no doubles.                          *)
ByName(S) ==
  [n \in 1..Cardinality(S) |->
     CHOOSE x \in S : Cardinality({y \in S : Trim(y.name) < Trim(x.name)}) = n - 1]

NoDoubles(s) == \A i, j \in DOMAIN s : Trim(s[i].name) = Trim(s[j].name) => i = j

(* normalizeFields.                                                        *)
ValidField(f) ==
  /\ Name(f.name)
  /\ Trim(f.type) \in FieldTypes \cup Extensions
  /\ Trim(f.type) = Enum => NormalizeStrings(f.enum) # <<>>

NormalField(f) ==
  [name |-> Plain(Trim(f.name)), type |-> Plain(Trim(f.type)),
   label |-> OrElse(f.label, Trim(f.name)), enum |-> NormalizeStrings(f.enum)]

(* normalizeRelationships: the target module is the descriptor's own       *)
(* unless another is named.                                                *)
ValidRelationship(r) ==
  /\ Name(r.name)
  /\ Trim(r.kind) \in Kinds \cup Extensions
  /\ Name(r.targetEntity)
  /\ ~HasSpace(Trim(r.targetModule))

NormalRelationship(r, module) ==
  [name |-> Plain(Trim(r.name)), kind |-> Plain(Trim(r.kind)),
   targetEntity |-> Plain(Trim(r.targetEntity)),
   targetModule |-> OrElse(r.targetModule, module)]

ValidCapabilities(caps) ==
  \A c \in ToSet(NormalizeStrings(caps)) : Trim(c) \in Capabilities \cup Extensions

ValidDescriptor(d) ==
  /\ Name(d.module) /\ Name(d.entity)
  /\ ValidCapabilities(d.capabilities)
  /\ \A f \in ToSet(d.fields) : ValidField(f)
  /\ NoDoubles(d.fields)
  /\ \A r \in ToSet(d.relationships) : ValidRelationship(r)
  /\ NoDoubles(d.relationships)

(* Mutant: the capability is appended after the list was sorted.           *)
AppendCapability(d) ==
  LET caps == NormalizeStrings(d.capabilities) IN
  IF d.tenantScoped /\ ~Contains(caps, Plain(TenantScoped))
  THEN Append(caps, Plain(TenantScoped)) ELSE caps

NormalCapabilities(d) ==
  NormalizeStrings(IF d.tenantScoped THEN Append(d.capabilities, Plain(TenantScoped))
                   ELSE d.capabilities)

NormalDescriptor(d) ==
  LET display == OrElse(d.display, Trim(d.entity))
  IN [module |-> Plain(Trim(d.module)), entity |-> Plain(Trim(d.entity)),
      display |-> display, plural |-> OrElse(d.plural, Plural(Trim(display))),
      tenantScoped |-> d.tenantScoped,
      capabilities |-> NormalCapabilities(d),
      fields |-> ByName({NormalField(f) : f \in ToSet(d.fields)}),
      relationships |-> ByName({NormalRelationship(r, Trim(d.module)) :
                                  r \in ToSet(d.relationships)}),
      policy |-> [op \in {"read", "write", "delete"} |-> NormalizeStrings(d.policy[op])]]

(* RequiredPolicyTokens and OperationPolicy normalize what they are asked. *)
OperationPolicy(d, op) == IF ValidDescriptor(d) THEN NormalDescriptor(d).policy[op] ELSE <<>>

RequiredPolicyTokens(d) ==
  NormalizeStrings(OperationPolicy(d, "read") \o OperationPolicy(d, "write")
                     \o OperationPolicy(d, "delete"))

-----------------------------------------------------------------------------
Key(d) == <<Trim(d.module), Trim(d.entity)>>

EntityInit == published = <<>> /\ refused = FALSE

(* NewCatalog normalizes each descriptor, and its value validator does it  *)
(* again; a second descriptor with the key is refused.                     *)
PublishEntity(d) ==
  /\ ~refused
  /\ IF /\ ValidDescriptor(d) /\ ValidDescriptor(NormalDescriptor(d))
        /\ \A x \in ToSet(published) : Key(x) # Key(d)
     THEN published' = Append(published, NormalDescriptor(d)) /\ UNCHANGED refused
     ELSE refused' = TRUE /\ UNCHANGED published

EntityNext ==
  \E d \in IF published = <<>> THEN DescriptorMenu
           ELSE IF Len(published) = 1 THEN LaterMenu ELSE {} : PublishEntity(d)

-----------------------------------------------------------------------------
(* A published descriptor is as good as it gets: normalizing it again      *)
(* changes nothing, whoever does it (NewCatalog and every policy question  *)
(* do), its lists are sorted and free of doubles, a tenant-scoped entity   *)
(* says so among its capabilities, every relationship leads somewhere, and *)
(* all policy tokens are those of some operation (entity.go:148-262).      *)
DescriptorsSettle ==
  \A k \in DOMAIN published :
    LET d == published[k]
        Sorted(s) == \A i, j \in DOMAIN s : i < j => Trim(s[i]) < Trim(s[j])
    IN /\ ValidDescriptor(d) /\ NormalDescriptor(d) = d
       /\ Sorted(d.capabilities)
       /\ d.tenantScoped => Contains(d.capabilities, Plain(TenantScoped))
       /\ \A r \in ToSet(d.relationships) : ~Blank(r.targetModule) /\ ~Blank(r.targetEntity)
       /\ ToSet(RequiredPolicyTokens(d)) =
            UNION {ToSet(OperationPolicy(d, op)) : op \in {"read", "write", "delete"}}
       /\ \A j \in DOMAIN published : Key(published[j]) = Key(d) => j = k
=============================================================================
