CONSTANTS
  w1 = w1
  w2 = w2
  w3 = w3
  main = main
  ext = ext
  j1 = j1
  j2 = j2
  j3 = j3
  c1 = c1
  c2 = c2
  d1 = d1
  NoCounter = NoCounter
  NoJob = NoJob
  Workers = {w1, w2}
  Clients = {main}
  FlushThread = main
  Stoppers = {main}
  Jobs = {j1, j2, j3}
  Deferrals = {d1}
  Counters = {c1, c2}
  Programs <- ChainPrograms
  DeferralCounter <- OneDeferral
  CounterPriority <- TwoLanes
  AllJobsCriticalPath = FALSE
  MaxLatentJobs = 4
  MaxCriticalPathJobs = 1
  MaxImmediateJobs = 4
  FlushKinds = {"plain", "timed"}
SPECIFICATION Spec
SYMMETRY Symmetry
INVARIANTS CounterConservation NoStrandedWaiter DependencyOrder NoSilentLoss
PROPERTIES ImplementsContract
CHECK_DEADLOCK FALSE
