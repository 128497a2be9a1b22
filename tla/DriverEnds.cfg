CONSTANTS
  main = main
  lib = lib
  other = other
  Paths <- TwoFiles
  Contents <- CyclicContents
  Rewrites <- ToAnyCycle
  NoPath = none
  MaxClock = 2
  MaxEdits = 1
SPECIFICATION Spec
PROPERTIES RunsEnd
