SPECIFICATION Spec
CONSTANTS
  NArenas = 1
  ExternalNLbas = 2
  NFree = 1
  EntriesPerLine = 1
  FlogsPerBlock = 1
  Zero = Zero
  v1 = v1
  Values = {Zero}
  Torn = Torn
  Lost = Lost
  CachePersistent = FALSE
  MaxBad = 0
  BadSets <- MCBadSets
  ForeignKinds = {}
  MaxForeign = 0
INVARIANT BlockOwnership
