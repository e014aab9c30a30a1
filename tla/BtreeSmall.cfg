SPECIFICATION Spec
CONSTANTS
  N = 6
  Key <- MCKey
  Record <- MCRecord
  KeyOf <- MCKeyOf
  Cmp <- MCCmp
  Order = 2
  None = None
  Wipe = TRUE
  MaxPages = 6
INVARIANTS TypeOK NodeBounds Room Balanced NoPageLost Ordered
PROPERTIES OneLevelDown ImplementsMap CallReturns
