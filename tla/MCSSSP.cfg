\* max_iterations is the number of vertices.
SPECIFICATION Spec
CONSTANTS
  s = s
  a = a
  b = b
  c = c
  Nodes <- MCNodes
  Source = s
  Candidates <- MCCandidates
  MaxIterations = 4
  Inf = Inf
INVARIANTS
  RelaxedOrPending
  ConvergedIsFixpoint
  DistancesAreHopLimited
CHECK_DEADLOCK FALSE
