------------------------------ MODULE PointStore ------------------------------
(***************************************************************************)
(* What the map of the LIO node promises: a set of points, changed a point *)
(* or a box at a time, from which searches are answered.  IkdTree, the     *)
(* lazily labelled tree behind it, implements this specification.          *)
(***************************************************************************)
EXTENDS Integers, FiniteSets, FiniteSetsExt

CONSTANTS
  Point,  \* the points a program may put into the map
  Dim,    \* the number of axes
  Pos,    \* the coordinates of each point, along the axes 0 .. Dim - 1
  Boxes,  \* the boxes deletions and searches are asked about
  Cell    \* downsample_size: the side of the cubes of a downsampled addition

Axes == 0 .. Dim - 1
Region == [lo : [Axes -> Int], hi : [Axes -> Int]]

VARIABLES
  live,    \* the points in the map
  removed, \* those deleted by a box or a point, and still known
  count    \* what the last operation returned

storeVars == <<live, removed, count>>

\* A box holds its lower faces and not its upper ones.
Inside(b, c) == \A a \in Axes : b.lo[a] <= c[a] /\ c[a] < b.hi[a]
InBox(b, S) == {p \in S : Inside(b, Pos[p])}

\* The cube of the downsampling grid a point lies in.
CellOf(p) ==
  LET lo == [a \in Axes |-> (Pos[p][a] \div Cell) * Cell]
  IN [lo |-> lo, hi |-> [a \in Axes |-> lo[a] + Cell]]

\* Squared distance, and four times the squared distance to a cube's middle.
Distance(c, d) ==
  MapThenSumSet(LAMBDA a : (c[a] - d[a]) * (c[a] - d[a]), Axes)
MidDistance(b, c) ==
  MapThenSumSet(LAMBDA a : (2 * c[a] - b.lo[a] - b.hi[a])
                             * (2 * c[a] - b.lo[a] - b.hi[a]), Axes)

\* The points the loop of a downsampling may end with: the new one unless
\* another is nearer to the middle, then one of the nearest.
Representatives(p, S) ==
  LET far(x) == MidDistance(CellOf(p), Pos[x])
      nearer == {x \in S : far(x) < far(p)}
  IN IF nearer = {} THEN {p}
     ELSE {x \in nearer : \A y \in nearer : far(x) <= far(y)}

-----------------------------------------------------------------------------
Init == live = {} /\ removed = {} /\ count = 0

Build(S) == count' = 0 /\ removed' = {} /\ live' = S

Add(p) ==
  /\ count' = 0
  /\ removed' = removed \ {p}
  /\ live' = live \cup {p}

\* A downsampled addition leaves one point of the cube: nothing happens when
\* the only point there is nearer to the middle than the new one.
AddSampled(p) ==
  LET there == InBox(CellOf(p), live)
      keep(best) == (live \ there) \cup {best}
      changes(best) == Cardinality(there) > 1 \/ best = p
  IN \E best \in Representatives(p, there) :
       /\ count' = IF changes(best) THEN 1 ELSE 0
       /\ live' = IF changes(best) THEN keep(best) ELSE live
       /\ removed' = removed \ live'

DeleteBox(b) ==
  LET there == InBox(b, live)
  IN /\ count' = Cardinality(there)
     /\ removed' = removed \cup there
     /\ live' = live \ there

DeletePoint(p) ==
  /\ count' = 0
  /\ removed' = removed \cup (live \cap {p})
  /\ live' = live \ {p}

\* A re-insertion brings back points that were deleted and that no later
\* downsampling has replaced, and none is lost.  Which ones come back depends
\* on what the rebuilds have dropped and on the ranges of the nodes.
Reinsert ==
  /\ count' = 0
  /\ live \subseteq live'
  /\ live' \subseteq live \cup removed
  /\ removed' = removed \ live'

Next ==
  \/ live = {} /\ \E S \in SUBSET Point : Build(S)
  \/ \E p \in Point \ live : Add(p) \/ AddSampled(p)
  \/ \E b \in Boxes : DeleteBox(b)
  \/ \E p \in Point : DeletePoint(p)
  \/ Reinsert

Spec == Init /\ [][Next]_storeVars
=============================================================================
