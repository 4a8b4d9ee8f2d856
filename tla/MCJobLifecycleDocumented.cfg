\* One start request and one job are enough to leave the documented lifecycle.
SPECIFICATION Spec
CONSTANTS
  d1 = d1
  h1 = h1
  Dataset = {d1}
  Handler = {h1}
  MaxJobs = 1
  MaxFailures = 0
PROPERTY ImplementsDocumentedRuns
CHECK_DEADLOCK FALSE
