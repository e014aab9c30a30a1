SPECIFICATION MQLSpec
CONSTANTS
  N = 4
  Key <- MCKey
  Record <- MCRecord
  KeyOf <- MCKeyOf
  Cmp <- MCCmp
  Order = 2
  None = None
  Wipe = FALSE
  MaxPages = 5
INVARIANT RootPositionInFile
