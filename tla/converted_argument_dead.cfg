SPECIFICATION Spec
CONSTANTS
  r1 = r1
  o1 = o1
  o2 = o2
  o3 = o3
  other = other
  PerfectForwarding = FALSE
  MaxOpt = 2
  Keys <- MCKeys
  Signatures <- MCSignatures
  CallerPacks <- MCCallerPacks
INVARIANTS
  ParametersAreObjects
CHECK_DEADLOCK FALSE
