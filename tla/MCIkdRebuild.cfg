SPECIFICATION FairSpec
CONSTANTS
  Left = Left
  Right = Right
  Root = Root
  NoSlot = NoSlot
  p1 = p1
  p2 = p2
  p3 = p3
  Point <- MCPoint
  Home <- MCHome
  Boxes <- MCBoxes
  InitPoints <- MCInit
  MaxRequests = 2
INVARIANTS
  CopyFollowsLive
  Exclusion
PROPERTIES
  CleanSwap
  
