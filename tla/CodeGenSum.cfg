CONSTANTS
  Name <- SumNames
  Type <- MCTypes
  Node <- SumNodes
  Function <- SumFunctions
  Inner <- SumInner
  Unit <- SumUnits
  Layout <- MCLayouts
  MaxFrames = 40
SPECIFICATION Spec
INVARIANT JumpsOnlyInTailPosition
