SPECIFICATION Spec
CONSTANTS
  Jobs = {j1}
  RebuildJob = rebuild
  MaxLoads = 3
  MaxRebuilds = 1
  MaxFaults = 2
  Replicas = {a, b}
  Free = free
  NoEvent = none
INVARIANTS
  TypeOK
  CompletedHasRun
  FailedHasCause
  FeaturesAdvance
PROPERTIES
  LedgerSpec
  DeliveriesSettle
CHECK_DEADLOCK FALSE
