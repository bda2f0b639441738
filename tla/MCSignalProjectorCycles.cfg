SPECIFICATION FairSpec
CONSTANTS
  a1 = a1
  a2 = a2
  a3 = a3
  m1 = m1
  m2 = m2
  d2 = d2
  Monitor = {m1, m2}
  Detector = {d1, d2}
  Alert = {a1, a2, a3}
  MonitorOf <- SplitOwners
  MonitorRequired = 1
  DetectorRequired = 2
  Overlap = 1
  EvidenceOverlap = 1
  Lag = 1
  InOrder = TRUE
  Budget = 1
  Faults = {"names"}
  MaxTime = 3
  Budgets <- OneKindOfSource
  MaxFailures = 2
  None = None
CONSTRAINTS FewOrders FewFailures
INVARIANTS
  TypeOK
  RecoveryIsEvidenced
  AlertsAreCovered
  BreachesAreCovered
  EveryOpenEpisodeIsPushed
PROPERTIES
  SignalKeepsEpisode
  CatchesUp
