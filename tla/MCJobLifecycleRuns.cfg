\* One dataset, three jobs in a chain of retries, two pipeline failures.
SPECIFICATION Spec
CONSTANTS
  d1 = d1
  h1 = h1
  h2 = h2
  Dataset = {d1}
  Handler = {h1, h2}
  MaxJobs = 3
  MaxFailures = 2
SYMMETRY HandlerSymmetry
PROPERTIES ImplementsRuns PollNeverGoesBack
CHECK_DEADLOCK FALSE
