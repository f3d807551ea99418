SPECIFICATION Spec
SYMMETRY Alike
CONSTANTS
  a = a
  b = b
  Names = {a, b}
  NeverUsed = NeverUsed
  DELETED = DELETED
  Junk = Junk
  NSft = 1
  MaxCluster = 3
  ClusterSize = 2
  RootEnts = 2
  DirEnts = 1
  Counts = {3}
  Seeks = {0, 4}
  MaxSize = 4
  Bad = {"fail", "abort", "power"}
INVARIANT TypeOK
INVARIANT ChainsApart
INVARIANT SizeFits
INVARIANT CachedPosition
INVARIANT FreeCount
INVARIANT SavedStays
INVARIANT NothingLost
INVARIANT DirsClean
