SPECIFICATION FairSpec
CONSTANTS
  Publisher = {p1, p2}
  BatchMax = 2
  ReplayRows = 1
  QueueMax = 1
  MaxRows = 3
  MaxStreams = 2
  MaxBoots = 2
  None = None
CHECK_DEADLOCK FALSE
INVARIANTS
  TypeOK
  NoRowTwice
  DrainedPageIsCurrent
PROPERTIES
  EveryPostEnds
