SPECIFICATION FairSpec
CONSTANTS
  good = good
  bad = bad
  text = text
  absent = absent
  Absent <- absent
  Contents <- MCContents
  Infected <- MCInfected
  KnownBad <- MCKnownBad
  Dense <- MCDense
  Executables <- MCExecutables
  FileTypes <- MCFileTypes
  FileTypeOf <- MCFileTypeOf
  Configs <- MCConfigs
  Caches <- MCCaches
  MaxTampers = 2
  MayRevert = TRUE
CHECK_DEADLOCK FALSE
INVARIANT ReportedDigestExpected
PROPERTY Terminates
