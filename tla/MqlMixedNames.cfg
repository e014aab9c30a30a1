\* A column without its table, then one with it: the second is not found.
CONSTANTS
  Statements <- MixedStatements
  Databases <- MixedDatabases
  MaxStatements = 1
  MaxTables = 8
  Junk = Junk
  NoTable = NoTable
  NoStatement = NoStatement
SPECIFICATION ResultSpec
CHECK_DEADLOCK FALSE

PROPERTY EitherNameSelects
