CONSTANTS
  main = main
  lib = lib
  other = other
  Paths <- TwoFiles
  Contents <- TwoContents
  Rewrites <- ToAnything
  NoPath = none
  MaxClock = 3
  MaxEdits = 2
SPECIFICATION Spec
INVARIANTS TypeOK FailureIsRemembered
PROPERTIES LinkIsCurrent LinkIsComplete
