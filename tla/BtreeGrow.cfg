SPECIFICATION GrowScanSpec
CONSTANTS
  N = 8
  Key <- MCKey
  Record <- MCRecord
  KeyOf <- MCKeyOf
  Cmp <- MCCmp
  Order = 2
  None = None
  Wipe = FALSE
  MaxPages = 20
PROPERTIES ImplementsMap ScanInOrder EndMeansAll
