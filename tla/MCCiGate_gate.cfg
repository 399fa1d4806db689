SPECIFICATION Spec
CONSTANTS
  Invocations <- AllInvocations
  MaxBatch = 12
INVARIANTS
  ExitCodeIsTrue
  
