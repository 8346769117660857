CONSTANTS
  MaxJobs = 4
  MaxCounters = 7
  MaxFences = 1
SPECIFICATION Spec
INVARIANTS WaitsHold ResultCoversWork ContinuationExtendsParent
CHECK_DEADLOCK FALSE
