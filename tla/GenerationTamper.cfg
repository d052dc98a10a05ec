CONSTANTS
  None = None
  scoped = scoped
  persistent = persistent
  Gens = {g1, g2}
  Inodes = {n1, n2, n3}
  Manifests <- MCManifests
  Keeping <- MCKeeping
  MaxTampers = 2
  MaxFaults = 1
SPECIFICATION Spec
INVARIANT PayloadIsMarked
INVARIANT DeletedIsGone
PROPERTY DeletesOnlyIntended
