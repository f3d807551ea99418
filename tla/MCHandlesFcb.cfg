SPECIFICATION Spec
CONSTANTS
  r = r
  a = a
  b = b
  Segs = {r, a, b}
  None = None
  Root = r
  NSft = 2
  StdFiles = 1
  MaxFiles = 1
  Outcomes = {"ok"}
  Kinds = {"file"}
  Fcbs = TRUE
  MaxLost = 0
PROPERTY FcbsClosed
