CONSTANTS
  None = None
  scoped = scoped
  persistent = persistent
  Gens = {g1, g2, g3}
  Inodes = {n1, n2}
  Manifests <- MCManifests
  Keeping <- MCKeeping
  MaxTampers = 0
  MaxFaults = 3
SPECIFICATION FairSpec
INVARIANT OwnTreeIsAdmitted
PROPERTY ImplementsGeneration
PROPERTY DeletionCompletes
