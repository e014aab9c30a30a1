SPECIFICATION TallSpec
CONSTANTS
  N = 10
  Key <- MCKey
  Record <- MCRecord
  KeyOf <- MCKeyOf
  Cmp <- MCCmp
  Order = 2
  None = None
  Wipe = FALSE
  MaxPages = 20
  Length = 10
  Calls = 4
INVARIANTS OneParent NoPageLost
CHECK_DEADLOCK FALSE
