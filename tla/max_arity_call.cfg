SPECIFICATION Spec
CONSTANTS
  Data = Data
  Kinds = {"function"}
  MaxArities = {2, 3}
  Wide = FALSE
  Interfaces <- MCInterfaces
  ParameterNames <- MCParameterNames
  COMPOSE_MAX_ARITY = 5
  MaxCallArity = 3
  PPForLimit = 256
INVARIANT
  EveryArityHasAnOperator
CHECK_DEADLOCK FALSE
