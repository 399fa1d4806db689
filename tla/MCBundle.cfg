SPECIFICATION Spec
CONSTANTS
  v1 = v1
  v2 = v2
  old = old
  new = new
  absent = absent
  Absent <- absent
  Contents <- MCContents
  Infected = {}
  KnownBad = {}
  Dense = {}
  Executables <- MCExecutables
  FileTypes <- MCFileTypes
  FileTypeOf <- MCFileTypeOf
  Keys <- MCKeys
  Jobs <- MCJobs
  Runs <- MCRuns
  MaxCreations = 2
  MaxChanges = 2
SYMMETRY Symmetric
INVARIANTS TypeOK AcceptedIsOneCreation JudgedIsListed  CreatedIsJudged
CHECK_DEADLOCK FALSE
