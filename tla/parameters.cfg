\* match<> and operator() on lists of up to 2 specs and calls of up to 3 arguments.
SPECIFICATION FairSpec
CONSTANTS
  k1 = k1
  k2 = k2
  other = other
  NoKey = NoKey
  MaxSpecs = 2
  MaxArgs = 3
  Types = {"literal", "string"}
  Keys <- MCKeys
  Preds <- MCPreds
  Holds <- MCHolds
  Converts <- MCConverts
  SpecLists <- MCSpecLists
  ArgLists <- MCArgLists
INVARIANTS
  TypeOK
  MatchMeansSatisfied
  BindBuildsTheMatchedPack
  CompletePackIsAligned
  ViableFailsOnlyOnDuplicateOrLoss
  TrailingUnmatchedIsRefused
PROPERTIES
  Decided
CHECK_DEADLOCK FALSE
