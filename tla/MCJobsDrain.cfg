SPECIFICATION FairSpec
CONSTANTS
  w1 = w1
  w2 = w2
  s1 = s1
  s2 = s2
  j1 = j1
  j2 = j2
  ad = ad
  untitled = untitled
  Workers <- OneWorker
  Searches <- TwoSearches
  Postings <- AllPostings
  NoId = untitled
  Promoted <- OneAd
  MaxResults = 3
  Finds <- FindsOneEach
  SearchLimit = 1
  ScoreBatch = 1
  Faults <- AllFaults
  MaxFaults = 2
  MaxDecisions = 1
PROPERTIES
  Drains SearchesRun
