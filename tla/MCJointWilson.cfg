\* Candidates up to sixty-one in full, up to four hundred as far as the plan.
SPECIFICATION Spec
CONSTANTS
  Requests <- MCRequests
  MaxRadius <- MCMaxRadius
INVARIANTS
  IInv
PROPERTIES
  ImplementsObserver
  EachStepProgresses
