---------------------------- MODULE MCIkdRebuild ----------------------------
(* Instances of IkdRebuild for TLC. *)
EXTENDS IkdRebuild
CONSTANTS p1, p2, p3

MCPoint == {p1, p2, p3}
MCHome == [p \in MCPoint |-> IF p = p3 THEN Right ELSE Left]
MCBoxes == {{p1}, {p1, p3}, MCPoint}
MCInit == {p1, p3}
=============================================================================
