CONSTANTS
  main = main
  lib = lib
  other = other
  Paths <- ThreeFiles
  Contents <- ThreeContents
  Rewrites <- ToItself
  NoPath = none
  MaxClock = 2
  MaxEdits = 1
SPECIFICATION OneProgramSpec
INVARIANTS FreshIsFresh OnlyStaleIsBuilt ModuleIsComplete
SYMMETRY Symmetry
PROPERTIES ImplementsMake
