\* Three workers and up to four tasks: batches smaller than, equal to and
\* larger than the pool; a worker can sleep through any number of batches.
SPECIFICATION Spec
CONSTANTS
  Workers = {w1, w2, w3}
  MaxTasks = 4
  GenModulus = 3
INVARIANTS
  SlotsAreOwned
  NoLostWakeup
PROPERTIES
  ImplementsContract
