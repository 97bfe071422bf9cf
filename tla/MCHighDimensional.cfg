\* Functors, superpositions, interference and tensors with coefficients of
\* three bits.
SPECIFICATION Spec
CONSTANTS
  Maximum = 3
  CounterMaximum = 3
  Families <- MCFamilies
  Inputs <- MCInputs
  Others <- MCOthers
  Tensors <- MCTensors
  Factors <- MCFactors
INVARIANTS
  CausalHistory
  InterferenceConserves
  VerdictIsRank
PROPERTY
  ExactOrRefused
