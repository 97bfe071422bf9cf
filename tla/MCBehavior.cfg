\* Every way four states move under one letter, two ways under another, every
\* binary observation; the partition, and the search from every state and from
\* one index beyond the table.
SPECIFICATION AnalysisSpec
CONSTANTS
  StateCount <- MCStateCount
  AlphabetSize <- MCAlphabetSize
  Observations <- MCObservations
  Machines <- MCMachines
INVARIANTS
  ClassesAreFutures
  ComplementIsTight
  SearchIsExact
PROPERTIES
  AnalysisEnds
CHECK_DEADLOCK FALSE
