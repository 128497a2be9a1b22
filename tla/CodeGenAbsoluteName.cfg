CONSTANTS
  Name <- AbsoluteNames
  Type <- MCTypes
  Node <- AbsoluteNodes
  Function <- AbsoluteFunctions
  Inner <- AbsoluteInner
  Unit <- AbsoluteUnits
  Layout <- MCLayouts
  MaxFrames = 40
SPECIFICATION Spec
INVARIANT JumpsLandInTheCallee
