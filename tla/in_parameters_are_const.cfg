SPECIFICATION Spec
CONSTANTS
  subject = subject
  second = second
  third = third
  Keys <- MCKeys
  Routes <- MCRoutes
  QualifiersOf <- MCQualifiersOf
  ExpressionsFor <- MCExpressionsFor
  ExpressionsAgain <- MCExpressionsAgain
  Defaults <- MCDefaults
  MaxArgs = 3
  MaxLookups = 2
INVARIANTS
  InParametersAreConst
CHECK_DEADLOCK FALSE
