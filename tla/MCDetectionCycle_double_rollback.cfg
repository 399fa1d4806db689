SPECIFICATION Spec
CONSTANTS
  Categories <- MCCategories
  HighRisk <- MCHighRisk
  Thresholds <- MCThresholds
  RollbackRules <- MCRules
  Kind <- MCKind
  scheduler = scheduler
  run_now = run_now
  report = report
  alice = alice
  bob = bob
  Threads = {scheduler, run_now}
  Requests = {}
  Detections <- TripOrNot
  MaxCycles = 2
  MaxFaults = 0
PROPERTY SkipsWhenActive
CHECK_DEADLOCK FALSE
