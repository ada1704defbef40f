CONSTANTS
  Radix = 2
  PAGE_SIZE = 8
  Map <- MCMap
  Raw <- MCRaw
  Sections <- MCSections
  VAddr = {0, 3, 5, 10, 12}
  Word0 = 13
  MaxStores = 2
SPECIFICATION Spec
VIEW MCView
INVARIANTS MemTypeOK ImageLoaded
PROPERTIES IsFlat
