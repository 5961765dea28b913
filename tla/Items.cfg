CONSTANTS
  A = A
  a = a
  B = B
  None = None
  Items <- Offers
  Canonical <- Spelling
  Hashed <- Covered
  MaxItems = 2
SPECIFICATION Spec
INVARIANTS
  TablesInv
  RejectionsAreKnown
PROPERTIES
  ImplementsKeyedStore
  RecollectingChangesNothing
