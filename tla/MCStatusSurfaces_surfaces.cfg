SPECIFICATION SSpec
CONSTANTS
  Categories <- MCCategories
  HighRisk <- MCHighRisk
  Thresholds <- MCThresholds
  RollbackRules <- MCRules
  Kind <- MCKind
  scheduler = scheduler
  report = report
  Threads = {scheduler, report}
  Clients = {client}
  Surfaces = {"status", "dashboard"}
  Requests = {alice}
  Detections <- Drifting
  HistoryLimit = 5
  MaxCycles = 2
  MaxFaults = 1
INVARIANTS  ReportIsComplete
CHECK_DEADLOCK FALSE
