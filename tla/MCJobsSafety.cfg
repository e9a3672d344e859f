SPECIFICATION Spec
CONSTANTS
  w1 = w1
  w2 = w2
  s1 = s1
  s2 = s2
  j1 = j1
  j2 = j2
  ad = ad
  untitled = untitled
  Workers <- TwoWorkers
  Searches <- OneSearch
  Postings <- AllPostings
  NoId = untitled
  Promoted <- OneAd
  MaxResults = 3
  Finds <- FindsBoth
  SearchLimit = 1
  ScoreBatch = 2
  Faults <- AllFaults
  MaxFaults = 1
  MaxDecisions = 2
INVARIANTS
  TypeOK DecisionStands PaidOnce
