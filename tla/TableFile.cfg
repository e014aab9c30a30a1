SPECIFICATION TableSpec
CONSTANTS
  N = 5
  Key <- MCKey
  Record <- OneRecord
  KeyOf <- MCKeyOf
  Cmp <- MCCmp
  Order = 2
  None = None
  Wipe = FALSE
  MaxPages = 4
INVARIANTS
  CursorIsPath AllWritten ChildrenFirst DescriptorNamesLeaf LoadedIsBtree
PROPERTIES
  ScanInOrder EndMeansAll ScanEnds SmallestSurvive MergeLosesNothing
