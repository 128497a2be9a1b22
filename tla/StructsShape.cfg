CONSTANTS
  none = none
  FieldName <- FieldNames
  Scalar <- Scalars
  NoDefault <- none
  NoType <- none
  Program = {"twins"}
  Declarations <- ProgramDeclarations
  Overloads <- ProgramOverloads
  Written <- ProgramWritten
  Imports <- ProgramImports
  Size <- Sizes
  MaxCells = 4
  Assignments <- Given
  MaxLocals = 2
  MaxLevel = 2
SPECIFICATION Spec
PROPERTY JumpsStayInTheOverload
