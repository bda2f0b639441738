SPECIFICATION FairSpec
CONSTANTS
  Worker = {w1, w2}
  Actions <- TwoAndARun
  Loop = TRUE
  New = {w1}
  MaxJobs = 3
  MaxPasses = 2
  MaxWaits = 1
  MaxLosses = 2
  MaxBursts = 1
  MaxRestarts = 1
  None = None
CHECK_DEADLOCK FALSE
INVARIANTS
  TypeOK
  WipeIsQuiet
  RunsExclude
  FaultIsRestored
  ArchivesLoadOnce
PROPERTIES
  EveryJobEnds
  StoppedPassEnds
