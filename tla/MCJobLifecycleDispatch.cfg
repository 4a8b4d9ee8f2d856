\* A start request that may be cut off between its claim and its publish.
SPECIFICATION FairSpec
CONSTANTS
  d1 = d1
  h1 = h1
  Dataset = {d1}
  Handler = {h1}
  MaxJobs = 1
  MaxFailures = 0
PROPERTY StartedIsDispatched
CHECK_DEADLOCK FALSE
