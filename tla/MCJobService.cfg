\* Two connections and a job on another thread, with no Ray; one restart.
SPECIFICATION FairSpec
CONSTANTS
  Requests = {r1, r2}
  Others = {w}
  Runtimes = {"local", "pregel"}
  Backlog = 1
  Iterations <- MCIterations
  MaxRestarts = 1
INVARIANTS
  AnsweredIsCounted
  FailuresAreAnswered
PROPERTIES
  ScrapesAddUp
  EverySentRequestSettles
CHECK_DEADLOCK FALSE
