SPECIFICATION FairSpec
CONSTANTS
  NArenas = 1
  ExternalNLbas = 1
  NFree = 1
  EntriesPerLine = 1
  FlogsPerBlock = 1
  Zero = Zero
  v1 = v1
  Values = {Zero}
  Torn = Torn
  Lost = Lost
  CachePersistent = FALSE
  MaxBad = 1
  BadSets <- MCBadSets
  ForeignKinds = {"damage"}
  MaxForeign = 1
INVARIANT FlogReadable
PROPERTY OperationEnds
