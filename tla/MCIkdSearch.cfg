SPECIFICATION FairSearchSpec
CONSTANTS
  s1 = s1
  s2 = s2
  Searchers <- MCSearchers
  Share = 2
  MaxRebuilds = 2
INVARIANTS
  SearchExclusion
PROPERTIES
  NeitherStarves
