SPECIFICATION Spec
CONSTANTS
  Submissions <- TheSubmissions
  Payload <- ThePayload
  PatternOrder <- TheOrder
  Monitored <- TheMonitored
  Lookback = 5
  Exclusion = 2
  Detection = 2
  BaselineSize = 2
  DetectionSize = 2
  MinBaseline = 1
  MinDetection = 2
  Period = 1
  MaxTime = 4
  MaxRequests = 2
  MaxAttempts = 2
  MaxFaults = 1
INVARIANTS
  AllOrNothing
  WindowsDisjoint
  BaselineWasExamined
  DrillDownExplains
  
