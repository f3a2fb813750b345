SPECIFICATION Spec
CONSTANTS
  k1 = k1
  k2 = k2
  k3 = k3
  b1 = b1
  b2 = b2
  c1 = c1
  c2 = c2
  CacheKeys = {k1, k2, k3}
  CacheValues = {1, 2}
  TTLs = {0, 1}
  MaxEntries = 2
  MaxCacheClock = 3
  Sentinel = Sentinel
  Unlinked = Unlinked
  Nothing = Nothing
  BucketKeys = {b1, b2}
  BucketCallers = {c1, c2}
  Observed = {b1}
  Token = 1
  Capacity = 4
  IdleTTL = 2
  MaxBucketClock = 3
  NoBucket = NoBucket
  NoCall = NoCall
  Priorities = {1, 2}
  Evaluators = {c1, c2}
  MaxRules = 3
  r1 = r1
  r2 = r2
  e1 = e1
  Policies <- SomePolicies
  DefaultInitialDelay = 10
  DefaultMaxDelay = 20
  NoPolicy = NoPolicy
  SpacedWords = {7}
  BuiltInProfiles <- BuiltIn
  ProfileMenu <- SomeProfiles
  BadCookieNames = {5}
  BadCookiePaths = {6}
  RootPath = 1
  SettingsMenu <- SomeSettings
  MaxKinds = 4
  Requests = {r1, r2}
  Shapes <- SomeShapes
  LayerGroups <- SomeGroups
  MaxUse = 2
  Entities = {e1}
  LongerSegments <- SomeLonger
  NoLayer = NoLayer
  Nobody = Nobody
  BadCredential = BadCredential
  Unbuilt = Unbuilt
INVARIANTS
  CacheSound
  BucketBound
  RuleAnswerLinearizable
  RetryWithinBudget
  PipelineGuards
CHECK_DEADLOCK FALSE
