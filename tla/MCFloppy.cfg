SPECIFICATION Spec
CONSTANTS
  Units = {1, 2, 3, 4, 5}
  Letters = {1, 2}
  Geometry <- Geometries
  Requests <- FewRequests
  Media = {"a", "b", "c", "d"}
  Serial <- Serials
  NoBoot = 0
  Flat = {"d"}
  None = None
  SecSize = 2
  MaxSecSize = 2
  Page = 8
  High = 16
  Buffer = 2
  BufsHigh = TRUE
  N_RETRY = 2
  Word = 32
  Blocks = 10
INVARIANT TypeOK
INVARIANT CacheTrue
INVARIANT WritesRight
INVARIANT DropsOnly
INVARIANT Transferred
INVARIANT ChunkFits
INVARIANT AllDelivered
CONSTRAINT Bound
