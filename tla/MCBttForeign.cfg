SPECIFICATION Spec
CONSTANTS
  NArenas = 1
  ExternalNLbas = 1
  NFree = 1
  EntriesPerLine = 1
  FlogsPerBlock = 1
  Zero = Zero
  v1 = v1
  Values <- MCValues
  Torn = Torn
  Lost = Lost
  CachePersistent = TRUE
  MaxBad = 1
  BadSets <- MCBadSets
  ForeignKinds = {"write", "zero", "error", "arena"}
  MaxForeign = 2
PROPERTY AtomicBlocks
