SPECIFICATION Spec
CONSTANTS
  NArenas = 1
  ExternalNLbas = 2
  NFree = 2
  EntriesPerLine = 1
  FlogsPerBlock = 1
  Zero = Zero
  v1 = v1
  Values = {Zero}
  Torn = Torn
  Lost = Lost
  CachePersistent = TRUE
  MaxBad = 0
  BadSets <- MCBadSets
  ForeignKinds = {"write", "damage"}
  MaxForeign = 2
INVARIANT RecoveryComplete
INVARIANT RuntimeCurrent
INVARIANT InductiveInvariant
CONSTRAINT FirstNamespace
