\* Every answer of the linear and of the block consumer, over all orders in
\* which their threads and branches take turns.
SPECIFICATION Spec
CONSTANTS
  PracticalCalls <- MCPracticalCalls
  LinearCalls <- MCLinearCalls
  BlockCalls <- MCBlockCalls
INVARIANTS
  IInv
  VerifiersAccept
PROPERTY
  ImplementsObserver
