\* Two datasets and two concurrent requests; three jobs, so that a dataset can have
\* a retry of a retry, or the two datasets a retry between them.
SPECIFICATION Spec
CONSTANTS
  d1 = d1
  d2 = d2
  h1 = h1
  h2 = h2
  Dataset = {d1, d2}
  Handler = {h1, h2}
  MaxJobs = 3
  MaxFailures = 1
SYMMETRY Symmetry
INVARIANTS
  TypeOK
  OnlyLatestIsActive
  RetriesFormChain
  ArchivedIsQuiet
  StartPublishesOnce
  OutcomeHasCause
  DatasetFollowsLatest
CHECK_DEADLOCK FALSE
