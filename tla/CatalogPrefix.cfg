SPECIFICATION CalmSpec
CONSTANTS
  Names <- PrefixNames
  Layouts <- TwoLayouts
  Rows <- OneRow
  None = None
  Junk = Junk
  MaxLength = 5000000
INVARIANT CreatedIsFound
