\* What is reported as modularity.
SPECIFICATION Spec
CONSTANTS
  Nodes <- MCNodes
  Candidates <- MCCandidates
  MaxPasses = 3
INVARIANTS
  ReportedIsModularity
CHECK_DEADLOCK FALSE
