SPECIFICATION Spec
CONSTANTS
  Addresses = {a1, a2}
  None = None
  maxTokens = 3
  refillInterval = 1
  refillRate = 2
  idleLimit = 3
  maxDelay = 2
  MaxSeconds = 3
  MaxRestarts = 1
INVARIANTS TypeOK IdleIsRefilled MapForgets AdmittedBounded
PROPERTY ImplementsTokenBucket
