\* The same pool, smaller, under the fairness of its threads.
SPECIFICATION FairSpec
CONSTANTS
  Workers = {w1, w2}
  MaxTasks = 3
  GenModulus = 2
PROPERTIES
  RunEnds
  DestructorEnds
