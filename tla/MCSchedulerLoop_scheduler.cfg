SPECIFICATION FairSpec
CONSTANTS
  main = main
  other = other
  Callers = {main, other}
  Program <- MCProgram
  Readers = {r1}
  QueueSize = 2
  Hooks <- MCHooks
  Notices <- MCNotices
  MaxFailures = 1
  Outcomes <- MCOutcomes
  MaxItems = 1
  MaxStarts = 2
  MaxCycles = 2
INVARIANTS OneLoop SendIsTrue StreamFaithful
PROPERTIES StopEndsLoop CyclesReachClients
CHECK_DEADLOCK FALSE
