SPECIFICATION Spec
CONSTANTS
  Names <- ApartNames
  Layouts <- TwoLayouts
  Rows <- OneRow
  None = None
  Junk = Junk
  MaxLength = 5000000
INVARIANTS
  BlocksDisjoint ListedHasTree SystemTablesListed CreatedIsFound OrdersOptimal
