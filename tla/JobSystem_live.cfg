CONSTANTS
  w1 = w1
  w2 = w2
  w3 = w3
  main = main
  ext = ext
  j1 = j1
  j2 = j2
  j3 = j3
  c1 = c1
  c2 = c2
  d1 = d1
  NoCounter = NoCounter
  NoJob = NoJob
  Workers = {w1, w2}
  Clients = {main}
  FlushThread = main
  Stoppers = {main}
  Jobs = {j1, j2}
  Deferrals = {}
  Counters = {c1, c2}
  Programs <- LivePrograms
  DeferralCounter <- NoDeferral
  CounterPriority <- AllCritical
  AllJobsCriticalPath = TRUE
  MaxLatentJobs = 4
  MaxCriticalPathJobs = 4
  MaxImmediateJobs = 4
  FlushKinds = {"plain", "renderFrame"}
SPECIFICATION FairSpecRequeue
INVARIANTS NoLostWakeup
PROPERTIES EveryJobFinishes FlushComesBack ShutdownStopsWorkers
CHECK_DEADLOCK FALSE
