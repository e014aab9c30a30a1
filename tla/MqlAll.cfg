\* Every query of a family and other statements, and two more of them.
CONSTANTS
  Statements <- AllStatements
  Databases <- AllDatabases
  MaxStatements = 3
  MaxTables = 8
  Junk = Junk
  NoTable = NoTable
  NoStatement = NoStatement
SPECIFICATION MqlSpec
CHECK_DEADLOCK FALSE
INVARIANTS
  TypeOK
  StackShallow
  StaysInside
  ScansAreWhole
  PositionInside
  PrintsTheRest
PROPERTIES
  ImplementsMql
  StatementEnds
