SPECIFICATION Spec
CONSTANTS
  Node = {n1, n2}
  Version = {v}
  Overlong = {}
  Span = 2
  Ledger = 5
  Idle = 1
  Window = 2
  Expire = 3
  Retention = 6
  MaxTime = 6
  MaxRecords = 2
  MaxFailures = 1
  RestartUntil = 2
  LastCount = 3
  FirstPublish = 1
  LastPublish = 5
  None = None
CONSTRAINT Followed
SYMMETRY Symmetry
CHECK_DEADLOCK FALSE
INVARIANTS
  TypeOK
  CompleteViewIsExact
  NewVersionIsListed
PROPERTIES
  AuditIsFair
