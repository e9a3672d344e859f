SPECIFICATION FairSpec
CONSTANTS
  w1 = w1
  r1 = r1
  r2 = r2
  s1 = s1
  p1 = p1
  p2 = p2
  a1 = a1
  c1 = c1
  c2 = c2
  untitled = untitled
  NoId = untitled
  MaxResults = 2
  NoAuthor = NoAuthor
  Workers <- OneWorker
  Requests <- TwoRequests
  Searches <- OneSearch
  Posts <- TwoPosts
  Finds <- FindsBoth
  Author <- SameAuthor
  Campaigns <- TwoCampaigns
  Active <- OneActive
  SearchLimit = 1
  ClassifyBatch = 1
  Faults <- AllFaults
  MaxFaults = 1
  MaxClicks = 2
  MaxDeletes = 1
INVARIANTS
  TypeOK DecisionStands ImportLinked
PROPERTIES
  FeedDrains
