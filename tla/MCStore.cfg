SPECIFICATION FairSpec
CONSTANTS
  r1 = r1
  r2 = r2
  r3 = r3
  u1 = u1
  u2 = u2
  u3 = u3
  Requests <- ThreeRequests
  Assignments <- EveryThreeJobs
  Columns <- AllColumns
  Urls <- ThreeUrls
  HomeOf <- OneOfEach
  Templates <- TwoTemplates
  Written <- OneWritten
  OldSteps = 2
  MaxSteps = 2
  Faults <- DbFaults
  MaxFaults = 1
INVARIANTS
  TypeOK SequenceWhole UploadAllOrNothing NoOrphans AcknowledgedStands
PROPERTIES
  Answered
CHECK_DEADLOCK FALSE
