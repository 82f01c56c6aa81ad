\* The whole loop: parameter lists of up to 3 specs, calls of up to 3 arguments.
SPECIFICATION FairSpec
CONSTANTS
  k1 = k1
  k2 = k2
  k3 = k3
  other = other
  NoKey = NoKey
  MaxSpecs = 3
  MaxArgs = 3
  Types = {"int", "string"}
  Keys <- MCKeys
  Preds <- MCPreds
  Holds <- MCHolds
  SpecLists <- MCSpecLists
  ArgLists <- MCArgLists
INVARIANTS
  TypeOK
  PackReversesCall
  PositionalPrefix
  UsedAreNotPositional
  AssertionMeansDuplicate
  ErrorIsParityOfLastRun
PROPERTIES
  InstantiationsDescend
  ImplementsTagAssignment
  Terminates
CHECK_DEADLOCK FALSE
