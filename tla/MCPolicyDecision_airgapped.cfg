SPECIFICATION Spec
CONSTANTS
  FileTypes <- MCFileTypes
  Cases <- AirgappedCases
CHECK_DEADLOCK FALSE
INVARIANT FatalScanFails
