SPECIFICATION FairSpec
CONSTANTS
  w1 = w1
  w2 = w2
  p1 = p1
  p2 = p2
  NoRow = NoRow
  Workers <- TwoWorkers
  Prospects <- OneProspect
  Resolved <- OneProspect
  Plans <- InvitePlan
  BatchSize = 2
  Faults <- RecoverableFaults
  MaxFaults = 2
  MaxEdits = 0
  MaxRows = 4
PROPERTIES
  Settles WonIsFinal
