SPECIFICATION Spec
CONSTANTS
  Key <- Int16Keys
  Record <- Int16Keys
  KeyOf <- KeyIsRecord
  Cmp <- Int16Cmp
  Order = 3
  None = None
  Wipe = TRUE
  MaxPages = 4
PROPERTIES ImplementsMap NotFoundMeansAbsent CollisionMeansExists
