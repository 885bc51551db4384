\* Two drivers, a GPU for each of two actors, an actor that dies: two runs of
\* two actors each do not fit together.
SPECIFICATION FairSpec
CONSTANTS
  Drivers = {d1, d2}
  Datasets <- MCDatasets
  MaxPartitions = 2
  Gpus = 2
  GpusPerActor = 1
  MaxRuns = 3
  MaxDeaths = 1
INVARIANTS
  TypeOK
  EdgesComeBack
  StarvedOnlyByDemand
PROPERTIES
  FittingRunsEnd
CHECK_DEADLOCK FALSE
