SPECIFICATION Spec
CONSTANTS
  p = p
  Bad = Bad
  NoCase = NoCase
  NoPort = NoPort
  Nil = Nil
  SpacedWords = {}
  VersionMenu = {}
  ConstraintMenu = {}
  BundleMenu <- OneBundle
  RequestMenu <- EveryOrder
  Declarations <- TheDeclarations
INVARIANT
  SameBlocksSamePlan
CHECK_DEADLOCK FALSE
