SPECIFICATION RetrySpec
CONSTANTS
  w1 = w1
  p1 = p1
  NoRow = NoRow
  MaxRetries = 3
  Workers <- OneWorker
  Prospects <- OneProspect
  Resolved <- OneProspect
  Plans <- InviteOnly
  BatchSize = 1
  Faults <- ThrottleOnly
  MaxFaults = 4
  MaxEdits = 0
  MaxRows = 1
INVARIANTS
  RetriesHonoured
