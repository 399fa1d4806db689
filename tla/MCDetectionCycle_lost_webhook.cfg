SPECIFICATION Spec
CONSTANTS
  Categories <- MCCategories
  HighRisk <- MCHighRisk
  Thresholds <- MCThresholds
  RollbackRules <- MCRules
  Kind <- MCKind
  scheduler = scheduler
  run_now = run_now
  report = report
  alice = alice
  bob = bob
  Threads = {scheduler}
  Requests = {}
  Detections <- TripOrNot
  MaxCycles = 2
  MaxFaults = 1
INVARIANT ActiveRollbackAnnounced
CHECK_DEADLOCK FALSE
