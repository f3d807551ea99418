SPECIFICATION Spec
SYMMETRY Alike
CONSTANTS
  b1 = b1
  b2 = b2
  v0 = v0
  v1 = v1
  Buf = {b1, b2}
  HmaBufs = {}
  Units = {0}
  FatSize = 1
  DataSize = 2
  Vals = {v0, v1}
  ReadOutcomes = {"ok"}
  WriteOutcomes = {"ok", "ignore", "fail", "abort"}
  MaxTold = 1
  AbsCounts = {}
  ExtWrites = FALSE
INVARIANT Coherent
INVARIANT DirectReadsLatest
INVARIANT FatMirrored
