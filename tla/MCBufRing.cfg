SPECIFICATION Spec
SYMMETRY Alike
CONSTANTS
  b1 = b1
  b2 = b2
  h = h
  v0 = v0
  Buf = {b1, b2, h}
  HmaBufs = {h}
  Units = {0}
  FatSize = 2
  DataSize = 1
  Vals = {v0}
  ReadOutcomes = {"ok", "ignore", "fail", "abort"}
  WriteOutcomes = {"ok", "ignore", "fail", "abort"}
  MaxTold = 1
  AbsCounts = {1}
  ExtWrites = TRUE
INVARIANT TypeOK
INVARIANT RingIntact
INVARIANT OneCopy
INVARIANT HeldStays
