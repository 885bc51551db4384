\* Every graph of every plugin; runs that settle in time and runs that do not.
SPECIFICATION Spec
CONSTANTS
  Nodes <- MCNodes
  EdgesOf <- MCEdgesOf
  Sources = {3, 4, 6}
  SourceLists <- MCSourceLists
  MaxHops = 3
  Ks = {0, 1, 2, 3}
  MaxIterations <- MCMaxIterations
  Damping <- Half
  Tolerance <- Eighth
  Unit = 60
  Clusterings <- MCClusterings
  Regressions <- MCRegressions
  LearningRate <- Half
  MaxPasses = 3
  Unused = Unused
INVARIANTS
  QueueIsLayered
  DistancesAreShortest
  NeighborhoodsAreExact
  ConvergedIsComponents
  LabelsAreHopLimited
  ResultIsTheCore
  TrianglesAreCountedOnce
  MassIsPreserved
  SuperstepsContract
  KernelsAgree
  ConvergedIsSettled
PROPERTIES
  EveryMoveHelps
  EveryMoveGains
  EveryIterationGains
  EveryStepFits
CHECK_DEADLOCK FALSE
