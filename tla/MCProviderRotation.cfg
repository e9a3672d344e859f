SPECIFICATION Spec
CONSTANTS
  campaign = campaign
  jobs = jobs
  feed = feed
  old = old
  new = new
  Missing = Missing
  Nobody = Nobody
  Loops <- TwoLoops
  Credentials <- TwoCredentials
  MaxRotations = 1
INVARIANTS
  ClientIsCurrent
