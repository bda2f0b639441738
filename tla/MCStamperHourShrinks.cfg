SPECIFICATION Spec
CONSTANTS
  c1 = c1
  c2 = c2
  p1 = p1
  p2 = p2
  k1 = k1
  None = None
  Chunk = {c1, c2}
  Cluster = {k1}
  Program = {p1, p2}
  Record <- TwoBuckets
  Overlong = {}
  Faults = {}
  MaxLevel = 1
  Horizon = 1
  Hold = 1
  Span = 2
  MaxTime = 2
  MaxRestarts = 1
  MaxLines = 4
PROPERTIES
  HourKeepsCounts
