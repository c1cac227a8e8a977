------------------------------- MODULE MCIkdTree -------------------------------
(* An instance of IkdTree for TLC: five points on a plane. *)
EXTENDS IkdTree, TLC
CONSTANTS p1, p2, p3, p4, p5

MCPoint == {p1, p2, p3, p4, p5}
At(x, y) == [a \in 0 .. 1 |-> IF a = 0 THEN x ELSE y]
MCPos == p1 :> At(0, 0) @@ p2 :> At(1, 0) @@ p3 :> At(1, 3) @@ p4 :> At(2, 1)
           @@ p5 :> At(5, 2)
MCTieOrder == p1 :> 1 @@ p2 :> 3 @@ p3 :> 2 @@ p4 :> 4 @@ p5 :> 5
Box(x1, y1, x2, y2) == [lo |-> At(x1, y1), hi |-> At(x2, y2)]
MCBoxes == {Box(0, 0, 2, 2), Box(1, 0, 3, 4), Box(0, 0, 6, 4)}
MCClouds == {{p1, p2, p3, p4}, {p2, p5}}
MCQueries == {At(1, 1), At(4, 3)}
=============================================================================
