SPECIFICATION Spec
CONSTANTS
  NArenas = 2
  ExternalNLbas = 2
  NFree = 1
  EntriesPerLine = 1
  FlogsPerBlock = 1
  Zero = Zero
  v1 = v1
  Values = {Zero}
  Torn = Torn
  Lost = Lost
  CachePersistent = TRUE
  MaxBad = 0
  BadSets <- MCBadSets
  ForeignKinds = {"damage"}
  MaxForeign = 1
INVARIANT LayoutKnownValid
CONSTRAINT FirstNamespace
