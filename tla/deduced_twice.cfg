\* A deduced parameter that takes two arguments of one call.
SPECIFICATION FairSpec
CONSTANTS
  k1 = k1
  k2 = k2
  k3 = k3
  other = other
  NoKey = NoKey
  MaxSpecs = 3
  MaxArgs = 3
  Types = {"int", "string"}
  Keys <- MCKeys
  Preds <- MCPreds
  Holds <- MCHolds
  SpecLists <- MCSpecLists
  ArgLists <- MCArgLists
INVARIANT
  DeducedSpecTakesOneArgument
CHECK_DEADLOCK FALSE
