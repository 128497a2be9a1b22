CONSTANTS
  none = none
  FieldName <- FieldNames
  Scalar <- Scalars
  NoDefault <- none
  NoType <- none
  Program = {"chain", "shortcut", "mixed", "unfit", "scoped", "interop"}
  Declarations <- ProgramDeclarations
  Overloads <- ProgramOverloads
  Written <- ProgramWritten
  Imports <- ProgramImports
  Size <- Sizes
  MaxCells = 4
  Assignments <- Given
  MaxLocals = 2
  MaxLevel = 2
SPECIFICATION InteropSpec
INVARIANTS TypeOK RejectedForAReason ArrivesAsItIs
PROPERTIES FieldsReadBack CallersStructsAreKept CellsKeepTheirType
           NearestOverload JumpsStayInTheOverload
