\* resume_or_run hands out another job's output.
SPECIFICATION Spec
CONSTANTS
  Drivers = {d1}
  j1 = j1
  j2 = j2
  k1 = k1
  long = long
  pagerank = pagerank
  kcore = kcore
  Jobs <- MCLongJobs
  Algs <- MCAlgs
  AlgOf <- MCAlgOf
  ItersOf <- MCItersOf
  Asks <- MCAsksExact
  Kinds = {"resume"}
  MaxCalls = 2
  MaxCrashes = 0
  Blocks = 2
  NoFile = NoFile
  Missing = Missing
  Hole = Hole
  Nobody = Nobody
INVARIANTS
  ResumedOutputIsOfThisJob
CHECK_DEADLOCK FALSE
