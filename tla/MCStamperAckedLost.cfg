SPECIFICATION Spec
CONSTANTS
  c1 = c1
  c2 = c2
  p1 = p1
  p2 = p2
  k1 = k1
  None = None
  Chunk = {c1, c2}
  Cluster = {k1}
  Program = {p1, p2}
  Record <- OneBucket
  Overlong = {}
  Faults = {}
  MaxLevel = 2
  Horizon = 1
  Hold = 1
  Span = 2
  MaxTime = 0
  MaxRestarts = 2
  MaxLines = 4
INVARIANTS
  AckedIsNeverLost
