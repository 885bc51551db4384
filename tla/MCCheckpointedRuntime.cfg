\* Two processes, two algorithms, every runtime, a crash.
SPECIFICATION Spec
CONSTANTS
  Drivers = {d1, d2}
  j1 = j1
  j2 = j2
  k1 = k1
  long = long
  pagerank = pagerank
  kcore = kcore
  Jobs <- MCJobs
  Algs <- MCAlgs
  AlgOf <- MCAlgOf
  ItersOf <- MCItersOf
  Asks <- MCAsksAny
  Kinds = {"run", "partitioned", "resume", "recover", "pregel"}
  MaxCalls = 3
  MaxCrashes = 1
  Blocks = 2
  NoFile = NoFile
  Missing = Missing
  Hole = Hole
  Nobody = Nobody
SYMMETRY Symmetry
INVARIANTS
  CountersMatchCheckpoints
  FinishedRunLeavesCheckpoint

  
CHECK_DEADLOCK FALSE
