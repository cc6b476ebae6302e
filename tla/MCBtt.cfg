SPECIFICATION Spec
CONSTANTS
  NArenas = 1
  ExternalNLbas = 2
  NFree = 1
  EntriesPerLine = 1
  FlogsPerBlock = 1
  Zero = Zero
  v1 = v1
  Values <- MCValues
  Torn = Torn
  Lost = Lost
  CachePersistent = TRUE
  MaxBad = 1
  BadSets <- MCBadSets
  ForeignKinds = {}
  MaxForeign = 0
INVARIANT TypeOK
INVARIANT BlockOwnership
INVARIANT FlogReadable
INVARIANT NoTornBlock
INVARIANT LateStepsCannotFail
INVARIANT ReadBackSucceeds
PROPERTY AtomicBlocks
