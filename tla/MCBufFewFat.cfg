SPECIFICATION Spec
CONSTANTS
  b1 = b1
  b2 = b2
  b3 = b3
  v0 = v0
  Buf = {b1, b2, b3}
  HmaBufs = {}
  Units = {0}
  FatSize = 1
  DataSize = 3
  Vals = {v0}
  ReadOutcomes = {"ok"}
  WriteOutcomes = {"ok"}
  MaxTold = 1
  AbsCounts = {}
  ExtWrites = FALSE
PROPERTY FewFatKept
