SPECIFICATION FairSpec
CONSTANTS
  campaign = campaign
  jobs = jobs
  feed = feed
  old = old
  new = new
  Missing = Missing
  Nobody = Nobody
  Loops <- ThreeLoops
  Credentials <- TwoCredentials
  MaxRotations = 2
INVARIANTS
  TypeOK OneClientUntilRotation SlowPathIsCurrent
PROPERTIES
  GetReturns
