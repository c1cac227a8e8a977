SPECIFICATION Spec
CONSTANTS
  Nil = Nil
  p1 = p1
  p2 = p2
  p3 = p3
  p4 = p4
  p5 = p5
  Point <- MCPoint
  Dim = 2
  Pos <- MCPos
  Boxes <- MCBoxes
  Cell = 2
  TieOrder <- MCTieOrder
  MinUnbalanced = 2
  BigTree = 4
  Clouds <- MCClouds
  Queries <- MCQueries
  Neighbours = {2}
  Radii = {2}
  DeletablePoint = {p5}
  MaxOps = 5
INVARIANTS
  
  SearchExact
  

  
CHECK_DEADLOCK FALSE
