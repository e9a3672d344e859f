SPECIFICATION Spec
CONSTANTS
  w1 = w1
  w2 = w2
  p1 = p1
  p2 = p2
  NoRow = NoRow
  Workers <- TwoWorkers
  Prospects <- OneProspect
  Resolved <- OneProspect
  Plans <- EditedPlan
  BatchSize = 2
  Faults <- AllFaults
  MaxFaults = 2
  MaxEdits = 1
  MaxRows = 6
INVARIANTS
  TypeOK ExclusiveLease DuplicateNeedsLapse AcceptedIsRecorded
  OneOpenStep OneConversation InOrder
  LeaseDiscipline
PROPERTIES
  SentIsFinal ChainStopsByFault Delivers
