\* Two workers that share one scheduler, two clients; in-call fairness only.
SPECIFICATION FairSpec
CONSTANTS
  JobIds = {j1, j2, j3}
  Clients = {c1, c2}
  Workers = {w1, w2}
  NoJob = NoJob
INVARIANTS
  NoneLostNorReordered
  StatusMatchesPosition
  StaleHandleReadsRunning
PROPERTIES
  ImplementsJobQueue
  EveryJobSettles
CHECK_DEADLOCK FALSE
