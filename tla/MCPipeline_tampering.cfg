SPECIFICATION Spec
CONSTANTS
  good = good
  bad = bad
  text = text
  absent = absent
  Absent <- absent
  Contents <- MCContents
  Infected <- MCInfected
  KnownBad <- MCKnownBad
  Dense <- MCDense
  Executables <- MCExecutables
  FileTypes <- MCFileTypes
  FileTypeOf <- MCFileTypeOf
  Configs <- MCConfigs
  Caches <- MCCaches
  MaxTampers = 2
  MayRevert = FALSE
CHECK_DEADLOCK FALSE
INVARIANTS TypeOK ReportIsAboutOneContent VerifiedFactsHold
PROPERTY SnapshotSpec
