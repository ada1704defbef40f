CONSTANTS
  Geometry <- MCGeometry
  penalty = 10
  Block = {0, 1, 2, 4}
  MaxAccess = 6
SPECIFICATION CacheSpec
CHECK_DEADLOCK FALSE
INVARIANTS CacheTypeOK NoDuplicate LruRanks Accounting FullyAssociative
PROPERTIES TrueLru
