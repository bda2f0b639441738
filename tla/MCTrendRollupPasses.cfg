SPECIFICATION Spec
CONSTANTS
  host = host
  node = node
  Combos <- TwoCohorts
  Entity = {1, 2, 3}
  CohortOf <- TwoHosts
  Copy = {i1, i2}
  Backfill = 2
  Memory = 1
  Retention = 5
  MaxEntities = 2
  Lateness = 1
  Started = 2
  MaxTime = 4
  MaxRecords = 2
  MaxFailures = 1
  None = None
CONSTRAINT FewOrders
SYMMETRY Symmetry
CHECK_DEADLOCK FALSE
INVARIANTS
  TypeOK
  CompleteCommitIsBacked
  SilentHostIsSeen
  BackfillHeals
