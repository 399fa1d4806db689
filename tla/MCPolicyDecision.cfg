SPECIFICATION Spec
CONSTANTS
  FileTypes <- MCFileTypes
  Cases <- MCCases
CHECK_DEADLOCK FALSE
INVARIANTS TypeOK MandatoryChecksFail RequirementsHonoured TraceExplainsVerdict VerifiedMeansClean
PROPERTIES  JudgementSpec
