SPECIFICATION Spec
CONSTANTS
  p = p
  q = q
  c1 = c1
  c2 = c2
  n1 = n1
  n2 = n2
  h1 = h1
  Names = {n1, n2}
  Checkers <- SomeCheckers
  Probers = {h1}
  MaxRegistrations = 3
  NoAnswer = NoAnswer
  Bad = Bad
  NoCase = NoCase
  NoPort = NoPort
  Nil = Nil
  Unset = Unset
  Malformed = Malformed
  None = None
  NoConfig = NoConfig
  Absent = Absent
  EmptyText = EmptyText
  BlankText = BlankText
  SpacedWords = {7}
  VersionMenu <- AllVersions
  ConstraintMenu <- AllConstraints
  BundleMenu <- Bundles
  RequestMenu <- Requests
  Declarations <- Menus
  RawKeys <- Keys
  Values = {1, 2}
  BadValues = {2}
  Options <- Setups
  MaxContributions = 3
  KeyRank <- Ranks
  Owners = {6}
  Callers = {c1, c2}
  Capabilities = {10, 11}
  FieldTypes = {12, 13}
  Kinds = {16}
  Extensions = {15}
  TenantScoped = 10
  Enum = 13
  Plural <- PluralOf
  DescriptorMenu <- FirstDescriptors
  LaterMenu <- LaterDescriptors
  TopFields = {"appName", "environment"}
  SectionFields = {"addr"}
  DurationFields = {"readTimeout"}
  Defaults <- ConfigDefaults
  JSONChoices <- InFile
  EnvChoices <- InEnv
  RequiredFields = {"appName", "addr"}
  Environment = "environment"
  Environments = {"development", "staging", "production"}
  Star = 50
  Operations = {20, 21, 22, 23}
  PolicyMenu <- Policies
  QuestionMenu <- Questions
  RuleMenu <- Rules
  IntentMenu <- Intents
  OtherEvaluators <- Others
  GateDefaults = {"allow", "deny", "maybe"}
  MaxDeclared = 3
INVARIANTS
  ConstraintsMeanIt
  PlanServesInOrder
  PlanIsCanonical
  OwnershipFailsClosed
  DescriptorsSettle
  ConfigLayered
  CautionWins
  HealthFaithful
PROPERTY
  HealthReturns
CHECK_DEADLOCK FALSE
