SPECIFICATION FairSpec
CONSTANTS
  Categories <- MCCategories
  HighRisk <- MCHighRisk
  Thresholds <- MCThresholds
  RollbackRules <- MCRules
  Kind <- MCKind
  scheduler = scheduler
  run_now = run_now
  report = report
  alice = alice
  bob = bob
  Threads = {scheduler, report}
  Requests = {alice, bob}
  Detections <- TripOrNot
  MaxCycles = 2
  MaxFaults = 1
INVARIANTS TypeOK AtMostOneActive ReplyIsTrue SentIsStored AnnouncedUnlessFaulty HistoryHasAlerts
PROPERTIES LatchSpec SchedulerGoesOn
CHECK_DEADLOCK FALSE
