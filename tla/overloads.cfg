SPECIFICATION Spec
CONSTANTS
  Data = Data
  Kinds = {"function", "fun", "no_spec"}
  MaxArities = {2, 3, 4}
  Wide = TRUE
  Interfaces <- MCInterfaces
  ParameterNames <- MCParameterNames
  COMPOSE_MAX_ARITY = 15
  MaxCallArity = 4
  PPForLimit = 256
INVARIANTS
  TypeOK
  EveryCombinationOnce
  FailsOnlyAtItsLimits
  EveryArityDeclared
  CallsAreForwarded
  MutabilityReachesThePack
  ArgumentsReachTheirNodes
  SplitAgreesWithRange
CHECK_DEADLOCK FALSE
