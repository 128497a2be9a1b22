CONSTANTS
  Name <- CheckedNames
  Type <- MCTypes
  Node <- CheckedNodes
  Function <- CheckedFunctions
  Inner <- CheckedInner
  Unit <- CheckedUnits
  Layout <- MCLayouts
  MaxFrames = 40
SPECIFICATION Spec
INVARIANTS
  TypeOK
  EndsAreOwnedOnce
  NothingIsLinkedTwice
  NothingDangles
  MergesOpenEnds
  NoUnreachableBlocks
  OnlyTailCallsGoBack
  CallersScopeIsRestored
  OneContinuationPerType
  OneValueEach
  JumpsLandInTheCallee
  JumpsOnlyInTailPosition
  FaultsAreFound
PROPERTIES
  ClosedForGood
  ImplementsFlowGraph
  TestsAreBuilt
