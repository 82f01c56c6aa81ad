SPECIFICATION FairSpec
CONSTANTS
  r1 = r1
  o1 = o1
  o2 = o2
  o3 = o3
  other = other
  PerfectForwarding = TRUE
  MaxOpt = 3
  Keys <- MCKeys
  Signatures <- MCSignatures
  CallerPacks <- MCCallerPacks
INVARIANTS
  TypeOK
  NoDuplicateKeyword
  AccessibleBothWays
  NoDanglingReference
  DefaultSawWhatTheBodyGets
PROPERTIES
  ImplementsDefaultsInOrder
  Terminates
CHECK_DEADLOCK FALSE
