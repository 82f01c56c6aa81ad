\* A call that compiles although a keyword is bound to another argument than its own.
SPECIFICATION FairSpec
CONSTANTS
  k1 = k1
  k2 = k2
  other = other
  NoKey = NoKey
  MaxSpecs = 2
  MaxArgs = 3
  Types = {"literal", "string"}
  Keys <- MCKeys
  Preds <- MCPreds
  Holds <- MCHolds
  Converts <- MCConverts
  SpecLists <- MCSpecLists
  ArgLists <- MCArgLists
INVARIANT
  KeywordHoldsItsArgument
CHECK_DEADLOCK FALSE
