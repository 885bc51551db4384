\* RayRuntime: a connection, jobs on two other threads, shutdowns, one restart.
SPECIFICATION Spec
CONSTANTS
  Requests = {r1}
  Others = {w1, w2}
  Runtimes = {"ray"}
  Backlog = 1
  Iterations = {1}
  MaxRestarts = 1
INVARIANTS
  RayIsUpForJobs
CHECK_DEADLOCK FALSE
