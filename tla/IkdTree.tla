-------------------------------- MODULE IkdTree --------------------------------
(***************************************************************************)
(* The operations of the ikd-Tree on the tree itself: nodes with lazy      *)
(* deletion labels, the ranges and counts searches prune by, the inline    *)
(* rebuild of a subtree that is out of balance, and the replay on a copy   *)
(* by which the rebuild thread catches up with the tree.                   *)
(*                                                                         *)
(* One operation is one step: IkdRebuild has the interleavings, and sees   *)
(* the tree as sets of points; here are the nodes those sets stand for.    *)
(* The replay interleaves with the operations one logged entry at a time.  *)
(* Coordinates are integers.  nth_element may put equal coordinates on     *)
(* either side of the middle; TieOrder stands for the library's choice.    *)
(***************************************************************************)
EXTENDS Integers, Sequences, FiniteSets, FiniteSetsExt

CONSTANTS
  Point, Dim, Pos, Boxes, Cell, \* as in PointStore
  Nil,            \* nullptr
  TieOrder,       \* a rank of the points for nth_element to break ties by
  MinUnbalanced,  \* Minimal_Unbalanced_Tree_Size
  BigTree,        \* Multi_Thread_Rebuild_Point_Num
  Clouds,         \* the scans the tree may be built from
  Queries,        \* the places Nearest_Search is asked about
  Neighbours,     \* the numbers of neighbours it is asked for
  Radii,          \* the radiuses Radius_Search is asked for
  DeletablePoint, \* the points Delete_Points is asked for
  MaxOps          \* bound of the model: operations on the tree

ASSUME TreeAssumption ==
  /\ Dim \in Nat \ {0} /\ Cell \in Nat \ {0}
  /\ Pos \in [Point -> [0 .. Dim - 1 -> Int]]
  /\ TieOrder \in [Point -> Int]
  /\ MinUnbalanced \in Nat \ {0} /\ BigTree \in Nat /\ BigTree > 1
  /\ Clouds \subseteq SUBSET Point /\ {} \notin Clouds
  /\ Queries \subseteq [0 .. Dim - 1 -> Int]
  /\ Neighbours \subseteq Nat \ {0} /\ Radii \subseteq Nat /\ MaxOps \in Nat

\* A point whose deletion descends to its node wherever a rebuild has put it.
ASSUME DeletableAssumption ==
  \A p \in DeletablePoint : \A q \in Point \ {p} :
    \A a \in 0 .. Dim - 1 : Pos[p][a] # Pos[q][a]

VARIABLES
  tree,       \* Root_Node
  target,     \* the path from the root to *Rebuild_Ptr while a copy is rebuilt
  copy,       \* new_root_node of the rebuild thread
  log,        \* Rebuild_Logger
  live,       \* history: the points flatten() would collect from the tree
  removed,    \* history: the points deleted, as in PointStore
  count,      \* what the last operation returned
  reinserted, \* history: Add_Point_Boxes has been called
  pointwise,  \* history: Delete_Points has been called
  ops         \* how many operations there have been

vars == <<tree, target, copy, log, live, removed, count, reinserted, pointwise,
          ops>>
copyVars == <<target, copy>>

\* Paths are sequences of the sides taken; a path that is no longer below the
\* current node is NoPath.
NoPath == <<"none">>
Below(path, side) ==
  IF path # <<>> /\ Head(path) = side THEN Tail(path) ELSE NoPath

-----------------------------------------------------------------------------
(* Nodes *)

SizeOf(n) == IF n = Nil THEN 0 ELSE n.sz
InvalidOf(n) == IF n = Nil THEN 0 ELSE n.inv
DownDelOf(n) == IF n = Nil THEN 0 ELSE n.ddn

\* validnum() and tree_range() of the root: without waiting they give up when the
\* rebuild thread holds the lock (busy) and the root is what it rebuilds.
validnum(busy) ==
  IF tree = Nil THEN 0
  ELSE IF busy /\ target = <<>> THEN -1
  ELSE SizeOf(tree) - InvalidOf(tree)

tree_range(busy) ==
  IF tree = Nil \/ (busy /\ target = <<>>)
  THEN [lo |-> [a \in 0 .. Dim - 1 |-> 0], hi |-> [a \in 0 .. Dim - 1 |-> 0]]
  ELSE [lo |-> tree.lo, hi |-> tree.hi]

NewNode(p, axis) ==
  [pt |-> p, axis |-> axis, l |-> Nil, r |-> Nil, sz |-> 0, inv |-> 0,
   ddn |-> 0, pd |-> FALSE, td |-> FALSE, pdd |-> FALSE, tdd |-> FALSE,
   pl |-> FALSE, pr |-> FALSE, working |-> FALSE,
   lo |-> [a \in 0 .. Dim - 1 |-> 0], hi |-> [a \in 0 .. Dim - 1 |-> 0]]

\* Mutation: the node's own point is left out of the range when it has sons.
UpdateFromSons(n) ==
  LET sons == {s \in {n.l, n.r} : s # Nil}
      parts == IF sons = {} THEN {[lo |-> Pos[n.pt], hi |-> Pos[n.pt]]} ELSE sons
  IN [n EXCEPT
       !.sz = SizeOf(n.l) + SizeOf(n.r) + 1,
       !.inv = InvalidOf(n.l) + InvalidOf(n.r) + (IF n.pd THEN 1 ELSE 0),
       !.ddn = DownDelOf(n.l) + DownDelOf(n.r) + (IF n.pdd THEN 1 ELSE 0),
       !.td = n.pd /\ \A s \in sons : s.td,
       !.tdd = n.pdd /\ \A s \in sons : s.tdd,
       !.lo = [a \in 0 .. Dim - 1 |-> Min({p.lo[a] : p \in parts})],
       !.hi = [a \in 0 .. Dim - 1 |-> Max({p.hi[a] : p \in parts})]]

\* A node's counts, flags and range from its point and its sons: the range is
\* that of the parts not deleted, or of all when every part is deleted.
Update(n) ==
  LET sons == {s \in {n.l, n.r} : s # Nil}
      parts == {[lo |-> s.lo, hi |-> s.hi, gone |-> s.td] : s \in sons}
                 \cup {[lo |-> Pos[n.pt], hi |-> Pos[n.pt], gone |-> n.pd]}
      kept == {p \in parts : ~p.gone}
      seen == IF kept = {} THEN parts ELSE kept
  IN [n EXCEPT
       !.sz = SizeOf(n.l) + SizeOf(n.r) + 1,
       !.inv = InvalidOf(n.l) + InvalidOf(n.r) + (IF n.pd THEN 1 ELSE 0),
       !.ddn = DownDelOf(n.l) + DownDelOf(n.r) + (IF n.pdd THEN 1 ELSE 0),
       !.td = kept = {},
       !.tdd = n.pdd /\ \A s \in sons : s.tdd,
       !.lo = [a \in 0 .. Dim - 1 |-> Min({p.lo[a] : p \in seen})],
       !.hi = [a \in 0 .. Dim - 1 |-> Max({p.hi[a] : p \in seen})]]

\* A father's label written into a son, by Push_Down or by its replay.
Labelled(n, td, tdd) ==
  LET gone == n.tdd \/ tdd
      down == IF tdd THEN n.sz ELSE n.ddn
  IN [n EXCEPT !.tdd = gone, !.pdd = @ \/ tdd, !.td = td \/ gone,
               !.pd = td \/ gone \/ n.pdd, !.ddn = down,
               !.inv = IF td THEN n.sz ELSE down, !.pl = TRUE, !.pr = TRUE]

\* A label for a son that is not there stays with the node.
Push_Down(n) ==
  [n EXCEPT
    !.l = IF n.pl /\ @ # Nil THEN Labelled(@, n.td, n.tdd) ELSE @,
    !.r = IF n.pr /\ @ # Nil THEN Labelled(@, n.td, n.tdd) ELSE @,
    !.pl = @ /\ n.l = Nil,
    !.pr = @ /\ n.r = Nil]

\* Mutation: the label pushed into the tree being rebuilt is not logged.
PushLogNever(n, path) == <<>>

\* What Push_Down logs: the label that goes into the tree being rebuilt.
PushLog(n, path) ==
  IF (path = <<"l">> /\ n.pl) \/ (path = <<"r">> /\ n.pr)
  THEN <<[op |-> "PUSH_DOWN", td |-> n.td, tdd |-> n.tdd]>>
  ELSE <<>>

-----------------------------------------------------------------------------
(* Flattening and building *)

\* flatten(): the points not deleted, labels pushed all the way down.
RECURSIVE Flat(_)
Flat(n) ==
  IF n = Nil THEN {}
  ELSE LET m == Push_Down(n)
       IN (IF m.pd THEN {} ELSE {m.pt}) \cup Flat(m.l) \cup Flat(m.r)

\* ... and the tree it leaves behind, and what it logs.
RECURSIVE Flattened(_)
Flattened(n) ==
  IF n = Nil THEN Nil
  ELSE LET m == Push_Down(n)
       IN [m EXCEPT !.l = Flattened(@), !.r = Flattened(@)]

RECURSIVE FlatLog(_, _)
FlatLog(n, path) ==
  IF n = Nil THEN <<>>
  ELSE LET m == Push_Down(n)
       IN PushLog(n, path) \o FlatLog(m.l, Below(path, "l"))
                           \o FlatLog(m.r, Below(path, "r"))

\* The first of the axes along which the points are most spread.
LongestAxis(S) ==
  LET spread(a) == Max({Pos[p][a] : p \in S}) - Min({Pos[p][a] : p \in S})
  IN CHOOSE a \in 0 .. Dim - 1 :
       \A b \in 0 .. Dim - 1 :
         spread(b) < spread(a) \/ (spread(b) = spread(a) /\ a <= b)

RECURSIVE BuildTree(_)
BuildTree(S) ==
  IF S = {} THEN Nil
  ELSE
    LET axis == LongestAxis(S)
        before(p, q) ==
          \/ Pos[p][axis] < Pos[q][axis]
          \/ Pos[p][axis] = Pos[q][axis] /\ TieOrder[p] < TieOrder[q]
        mid == CHOOSE p \in S :
                 Cardinality({q \in S : before(q, p)}) = (Cardinality(S) - 1) \div 2
    IN Update([NewNode(mid, axis) EXCEPT
                 !.l = BuildTree({p \in S : before(p, mid)}),
                 !.r = BuildTree({p \in S : before(mid, p)})])

\* delete_criterion_param 0.5 and balance_criterion_param 0.7.
Criterion_Check(n) ==
  LET son == IF n.l # Nil THEN n.l ELSE n.r
  IN /\ n.sz > MinUnbalanced
     /\ \/ 2 * n.inv > n.sz
        \/ 10 * son.sz > 7 * (n.sz - 1)
        \/ 10 * son.sz < 3 * (n.sz - 1)

\* What follows the descent in every operation: the node is brought up to
\* date, and rebuilt on the spot when it may be, should be, and is small.
Settle(n, allow) ==
  LET u == [Update(n) EXCEPT !.working = FALSE]
  IN IF allow /\ Criterion_Check(u) /\ u.sz < BigTree
     THEN BuildTree(Flat(u)) ELSE u

-----------------------------------------------------------------------------
(* The operations.  Each returns the tree it leaves (t) and what it logs    *)
(* (log).  path leads to the tree being rebuilt: operations on it log       *)
(* themselves and may not rebuild anything below.                           *)

Entry(path, e) == IF path = <<>> THEN <<e>> ELSE <<>>

Begun(n) == [Push_Down(n) EXCEPT !.working = TRUE]

Disjoint(b, n) == \E a \in 0 .. Dim - 1 : b.hi[a] <= n.lo[a] \/ b.lo[a] > n.hi[a]
Covers(b, n) == \A a \in 0 .. Dim - 1 : b.lo[a] <= n.lo[a] /\ b.hi[a] > n.hi[a]
Hits(b, n) == \A a \in 0 .. Dim - 1 : b.lo[a] <= Pos[n.pt][a] /\ b.hi[a] > Pos[n.pt][a]

\* The label of a deletion of the whole tree.
DeletedWhole(n, down) ==
  [n EXCEPT !.td = TRUE, !.pd = TRUE, !.pl = TRUE, !.pr = TRUE, !.inv = n.sz,
            !.tdd = @ \/ down, !.pdd = @ \/ down,
            !.ddn = IF down THEN n.sz ELSE @]

RECURSIVE Delete_by_range(_, _, _, _, _)
Delete_by_range(n, b, allow, down, path) ==
  LET self == Entry(path, [op |-> IF down THEN "DOWNSAMPLE_DELETE" ELSE "DELETE_BOX",
                           box |-> b])
      may == allow /\ path # <<>>
  IN IF n = Nil \/ n.td
     THEN [t |-> n, n |-> 0, log |-> self]
     ELSE
       LET m == Begun(n)
           hit == ~m.pd /\ Hits(b, m)
           L == Delete_by_range(m.l, b, may, down, Below(path, "l"))
           R == Delete_by_range(m.r, b, may, down, Below(path, "r"))
       IN IF Disjoint(b, m)
          THEN [t |-> m, n |-> 0, log |-> PushLog(n, path) \o self]
          ELSE IF Covers(b, m)
          THEN [t |-> DeletedWhole(m, down), n |-> m.sz - m.inv,
                log |-> PushLog(n, path) \o self]
          ELSE [t |-> Settle([m EXCEPT !.l = L.t, !.r = R.t, !.pd = @ \/ hit,
                                       !.pdd = @ \/ (hit /\ down)], may),
                n |-> (IF hit THEN 1 ELSE 0) + L.n + R.n,
                log |-> PushLog(n, path) \o L.log \o R.log \o self]

\* The side of the division plane a point is looked for and added on.
SideOf(n, p) == IF Pos[p][n.axis] < Pos[n.pt][n.axis] THEN "l" ELSE "r"

RECURSIVE Delete_by_point(_, _, _, _)
Delete_by_point(n, p, allow, path) ==
  LET self == Entry(path, [op |-> "DELETE_POINT", pt |-> p])
      may == allow /\ path # <<>>
  IN IF n = Nil \/ n.td
     THEN [t |-> n, log |-> self]
     ELSE
       LET m == Begun(n)
           S == Delete_by_point(IF SideOf(m, p) = "l" THEN m.l ELSE m.r, p, may,
                                Below(path, SideOf(m, p)))
       IN IF Pos[m.pt] = Pos[p] /\ ~m.pd
          THEN [t |-> [m EXCEPT !.pd = TRUE, !.inv = @ + 1, !.td = m.inv + 1 = m.sz],
                log |-> PushLog(n, path) \o self]
          ELSE [t |-> Settle(IF SideOf(m, p) = "l" THEN [m EXCEPT !.l = S.t]
                                                   ELSE [m EXCEPT !.r = S.t], may),
                log |-> PushLog(n, path) \o S.log \o self]

RECURSIVE Add_by_point(_, _, _, _, _)
Add_by_point(n, p, allow, axis, path) ==
  LET self == Entry(path, [op |-> "ADD_POINT", pt |-> p])
      may == allow /\ path # <<>>
  IN IF n = Nil
     THEN [t |-> Update(NewNode(p, (axis + 1) % Dim)), log |-> self]
     ELSE
       LET m == Begun(n)
           S == Add_by_point(IF SideOf(m, p) = "l" THEN m.l ELSE m.r, p, may,
                             m.axis, Below(path, SideOf(m, p)))
       IN [t |-> Settle(IF SideOf(m, p) = "l" THEN [m EXCEPT !.l = S.t]
                                              ELSE [m EXCEPT !.r = S.t], may),
           log |-> PushLog(n, path) \o S.log \o self]

RECURSIVE Add_by_range(_, _, _, _)
Add_by_range(n, b, allow, path) ==
  LET self == Entry(path, [op |-> "ADD_BOX", box |-> b])
      may == allow /\ path # <<>>
  IN IF n = Nil
     THEN [t |-> n, log |-> self]
     ELSE
       LET m == Begun(n)
           L == Add_by_range(m.l, b, may, Below(path, "l"))
           R == Add_by_range(m.r, b, may, Below(path, "r"))
       IN IF Disjoint(b, m)
          THEN [t |-> m, log |-> PushLog(n, path) \o self]
          ELSE IF Covers(b, m)
          THEN [t |-> [m EXCEPT !.td = m.tdd, !.pd = m.pdd, !.inv = m.ddn,
                                !.pl = TRUE, !.pr = TRUE],
                log |-> PushLog(n, path) \o self]
          ELSE [t |-> Settle([m EXCEPT !.l = L.t, !.r = R.t,
                                       !.pd = IF Hits(b, m) THEN m.pdd ELSE @], may),
                log |-> PushLog(n, path) \o L.log \o R.log \o self]

\* The replay of an entry on the new tree (run_operation).  Nothing below a
\* replayed node is the tree being rebuilt, and nothing is rebuilt.
run_operation(n, e) ==
  CASE e.op = "ADD_POINT" -> Add_by_point(n, e.pt, FALSE, n.axis, NoPath).t
    [] e.op = "ADD_BOX" -> Add_by_range(n, e.box, FALSE, NoPath).t
    [] e.op = "DELETE_POINT" -> Delete_by_point(n, e.pt, FALSE, NoPath).t
    [] e.op = "DELETE_BOX" -> Delete_by_range(n, e.box, FALSE, FALSE, NoPath).t
    [] e.op = "DOWNSAMPLE_DELETE" -> Delete_by_range(n, e.box, FALSE, TRUE, NoPath).t
    [] e.op = "PUSH_DOWN" -> Labelled(n, e.td, e.tdd)

-----------------------------------------------------------------------------
(* The searches.  They push labels down on their way, and log that.         *)

RECURSIVE Search_by_range(_, _, _)
Search_by_range(n, b, path) ==
  IF n = Nil THEN [t |-> n, found |-> {}, log |-> <<>>]
  ELSE
    LET m == Push_Down(n)
        L == Search_by_range(m.l, b, Below(path, "l"))
        R == Search_by_range(m.r, b, Below(path, "r"))
    IN IF Disjoint(b, m)
       THEN [t |-> m, found |-> {}, log |-> PushLog(n, path)]
       ELSE IF Covers(b, m)
       THEN [t |-> Flattened(m), found |-> Flat(m),
             log |-> FlatLog(n, path)]
       ELSE [t |-> [m EXCEPT !.l = L.t, !.r = R.t],
             found |-> (IF Hits(b, m) /\ ~m.pd THEN {m.pt} ELSE {})
                         \cup L.found \cup R.found,
             log |-> PushLog(n, path) \o L.log \o R.log]

Distance(c, d) ==
  MapThenSumSet(LAMBDA a : (c[a] - d[a]) * (c[a] - d[a]), 0 .. Dim - 1)
Far(q, p) == Distance(q, Pos[p])

\* calc_box_dist; of nullptr it is infinite.
BoxDist(n, q) ==
  MapThenSumSet(LAMBDA a : IF q[a] < n.lo[a]
                           THEN (n.lo[a] - q[a]) * (n.lo[a] - q[a])
                           ELSE IF q[a] > n.hi[a]
                           THEN (q[a] - n.hi[a]) * (q[a] - n.hi[a]) ELSE 0,
                0 .. Dim - 1)

\* Search_by_radius prunes by the ball around a node's range: Apart when it is out of
\* reach, Inside when all of it is within.  Lengths are doubled and the roots squared
\* away: off is the distance to the middle, wide the ball's radius, both squared.
Off(n, q) ==
  MapThenSumSet(LAMBDA a : (n.lo[a] + n.hi[a] - 2 * q[a]) * (n.lo[a] + n.hi[a] - 2 * q[a]),
                0 .. Dim - 1)
radius_sq(n) == Distance(n.lo, n.hi)
Apart(off, wide, r) ==
  LET over == off - 4 * r * r - wide
  IN over > 0 /\ over * over > 16 * r * r * wide
Inside(off, wide, r) ==
  LET left == 4 * r * r - off - wide
  IN left >= 0 /\ left * left >= 4 * off * wide

RECURSIVE Search_by_radius(_, _, _, _)
Search_by_radius(n, q, r, path) ==
  IF n = Nil THEN [t |-> n, found |-> {}, log |-> <<>>]
  ELSE
    LET m == Push_Down(n)
        L == Search_by_radius(m.l, q, r, Below(path, "l"))
        R == Search_by_radius(m.r, q, r, Below(path, "r"))
    IN IF Apart(Off(m, q), radius_sq(m), r)
       THEN [t |-> m, found |-> {}, log |-> PushLog(n, path)]
       ELSE IF Inside(Off(m, q), radius_sq(m), r)
       THEN [t |-> Flattened(m), found |-> Flat(m), log |-> FlatLog(n, path)]
       ELSE [t |-> [m EXCEPT !.l = L.t, !.r = R.t],
             found |-> (IF Far(q, m.pt) <= r * r /\ ~m.pd THEN {m.pt} ELSE {})
                         \cup L.found \cup R.found,
             log |-> PushLog(n, path) \o L.log \o R.log]

\* MANUAL_HEAP: its top is the farthest of the points found, the one with the
\* greater first coordinate among equals.
Top(q, heap) ==
  CHOOSE p \in heap : \A x \in heap :
    \/ Far(q, x) < Far(q, p)
    \/ Far(q, x) = Far(q, p) /\ Pos[x][0] <= Pos[p][0]

Wanted(q, k, heap, dist) ==
  Cardinality(heap) < k \/ dist < Far(q, Top(q, heap))

\* Mutation: a full heap takes a nearer point without letting go of its top.
OfferWithoutPop(q, k, heap, p) ==
  IF Wanted(q, k, heap, Far(q, p)) /\ Cardinality(heap) < k
  THEN heap \cup {p} ELSE heap

\* A point offered to the heap pushes out the top of a full one.
Offer(q, k, heap, p) ==
  IF ~Wanted(q, k, heap, Far(q, p)) THEN heap
  ELSE (IF Cardinality(heap) >= k THEN heap \ {Top(q, heap)} ELSE heap) \cup {p}

\* Search(), with max_dist left at infinity as all calls do: the nearer son
\* first, each only as long as it may hold something nearer than the top.
RECURSIVE Search(_, _, _, _, _)
Search(n, q, k, heap, path) ==
  IF n = Nil \/ n.td THEN [t |-> n, heap |-> heap, log |-> <<>>]
  ELSE
    LET m == Push_Down(n)
        here == IF m.pd THEN heap ELSE Offer(q, k, heap, m.pt)
        side1 == IF m.r = Nil \/ (m.l # Nil /\ BoxDist(m.l, q) <= BoxDist(m.r, q))
                 THEN "l" ELSE "r"
        side2 == IF side1 = "l" THEN "r" ELSE "l"
        son(s) == IF s = "l" THEN m.l ELSE m.r
        visit(s, h) ==
          IF son(s) # Nil /\ Wanted(q, k, h, BoxDist(son(s), q))
          THEN Search(son(s), q, k, h, Below(path, s))
          ELSE [t |-> son(s), heap |-> h, log |-> <<>>]
        first == visit(side1, here)
        second == visit(side2, first.heap)
    IN [t |-> IF side1 = "l" THEN [m EXCEPT !.l = first.t, !.r = second.t]
                             ELSE [m EXCEPT !.r = first.t, !.l = second.t],
        heap |-> second.heap,
        log |-> PushLog(n, path) \o first.log \o second.log]

-----------------------------------------------------------------------------
(* The state machine *)

Copying == target # NoPath

Init ==
  /\ tree = Nil /\ target = NoPath /\ copy = Nil /\ log = <<>>
  /\ live = {} /\ removed = {} /\ count = 0 /\ ops = 0
  /\ reinserted = FALSE /\ pointwise = FALSE

\* A re-insertion may leave live points outside the ranges, after which the
\* operations promise nothing: the model stops there.
Operate(t, e, n) ==
  /\ ops < MaxOps /\ ~reinserted
  /\ ops' = ops + 1
  /\ tree' = t
  /\ live' = Flat(t)
  /\ log' = IF Copying THEN log \o e ELSE log
  /\ count' = n
  /\ UNCHANGED copyVars

\* The searches are not counted as operations: all they change is how far down
\* the labels are.
Look(t, e) ==
  /\ ~reinserted
  /\ tree' = t
  /\ live' = Flat(t)
  /\ log' = IF Copying THEN log \o e ELSE log
  /\ UNCHANGED <<copyVars, removed, count, reinserted, pointwise, ops>>

\* The mapping thread builds the tree when there is none.
Build(S) ==
  /\ tree = Nil /\ ~Copying
  /\ Operate(BuildTree(S), <<>>, 0)
  /\ removed' = {}
  /\ UNCHANGED <<reinserted, pointwise>>

\* Add_Points without downsampling.
AddPoint(p) ==
  LET r == Add_by_point(tree, p, TRUE, tree.axis, target)
  IN /\ tree # Nil /\ p \notin live
     /\ Operate(r.t, r.log, 0)
     /\ removed' = removed \ live'
     /\ UNCHANGED <<reinserted, pointwise>>

CellBox(p) ==
  LET lo == [a \in 0 .. Dim - 1 |-> (Pos[p][a] \div Cell) * Cell]
  IN [lo |-> lo, hi |-> [a \in 0 .. Dim - 1 |-> lo[a] + Cell]]

\* Four times the squared distance from the middle of the point's cube.
OffMiddle(p) ==
  LET b == CellBox(p)
  IN MapThenSumSet(LAMBDA a : (2 * Pos[p][a] - b.lo[a] - b.hi[a])
                                * (2 * Pos[p][a] - b.lo[a] - b.hi[a]),
                   0 .. Dim - 1)

\* The loop over Downsample_Storage keeps the first of the nearest.
Nearest(p, S) ==
  LET nearer == {x \in S : OffMiddle(x) < OffMiddle(p)}
  IN IF nearer = {} THEN {p}
     ELSE {x \in nearer : \A y \in nearer : OffMiddle(x) <= OffMiddle(y)}

\* Mutation: the cube is not emptied when it holds a single point.
EmptiesLate(S) == Cardinality(S) > 1
Empties(S) == S # {}

\* Add_Points with downsampling: the cube is searched, emptied if anything is
\* in it, and its representative added.
AddSampled(p) ==
  LET b == CellBox(p)
      s == Search_by_range(tree, b, target)
      d == IF Empties(s.found)
           THEN Delete_by_range(s.t, b, TRUE, TRUE, target)
           ELSE [t |-> s.t, log |-> <<>>]
  IN /\ tree # Nil /\ p \notin live
     /\ \E best \in Nearest(p, s.found) :
          IF Cardinality(s.found) > 1 \/ best = p
          THEN LET a == Add_by_point(d.t, best, TRUE, d.t.axis, target)
               IN Operate(IF d.t = Nil THEN Nil ELSE a.t,
                          s.log \o d.log \o a.log, 1)
          ELSE Operate(s.t, s.log, 0)
     /\ removed' = removed \ live'
     /\ UNCHANGED <<reinserted, pointwise>>

Within(b, S) ==
  {p \in S : \A a \in 0 .. Dim - 1 : b.lo[a] <= Pos[p][a] /\ Pos[p][a] < b.hi[a]}

\* Delete_Point_Boxes.
DeleteBox(b) ==
  LET r == Delete_by_range(tree, b, TRUE, FALSE, target)
  IN /\ tree # Nil
     /\ Operate(r.t, r.log, r.n)
     /\ removed' = removed \cup Within(b, live)
     /\ UNCHANGED <<reinserted, pointwise>>

\* Delete_Points.
DeletePoint(p) ==
  LET r == Delete_by_point(tree, p, TRUE, target)
  IN /\ tree # Nil
     /\ Operate(r.t, r.log, 0)
     /\ removed' = removed \cup (live \cap {p})
     /\ pointwise' = TRUE
     /\ UNCHANGED reinserted

\* Add_Point_Boxes.
AddPointBoxes(b) ==
  LET r == Add_by_range(tree, b, TRUE, target)
  IN /\ tree # Nil
     /\ Operate(r.t, r.log, 0)
     /\ removed' = removed \ live'
     /\ reinserted' = TRUE
     /\ UNCHANGED pointwise

Nearest_Search(q, k) ==
  LET r == Search(tree, q, k, {}, target) IN Look(r.t, r.log)

Box_Search(b) ==
  LET r == Search_by_range(tree, b, target) IN Look(r.t, r.log)

Radius_Search(q, r) ==
  LET s == Search_by_radius(tree, q, r, target) IN Look(s.t, s.log)

-----------------------------------------------------------------------------
(* The rebuild thread *)

SonOf(n, side) == IF side = "l" THEN n.l ELSE n.r
WithSon(n, side, m) == IF side = "l" THEN [n EXCEPT !.l = m] ELSE [n EXCEPT !.r = m]

RECURSIVE BigPaths(_)
BigPaths(n) ==
  IF SizeOf(n) < BigTree THEN {}
  ELSE {<<>>} \cup {<<"l">> \o p : p \in BigPaths(n.l)}
              \cup {<<"r">> \o p : p \in BigPaths(n.r)}

RECURSIVE NodeAt(_, _)
NodeAt(n, path) ==
  IF path = <<>> THEN n ELSE NodeAt(SonOf(n, Head(path)), Tail(path))

RECURSIVE PutAt(_, _, _)
PutAt(n, path, m) ==
  IF path = <<>> THEN m
  ELSE WithSon(n, Head(path), PutAt(SonOf(n, Head(path)), Tail(path), m))

\* Any subtree big enough may be the one asked for (IkdRebuild has which); it
\* is flattened and built anew.  An empty one is IkdRebuild's matter.
StartRebuild ==
  /\ ~Copying /\ ~reinserted
  /\ \E path \in BigPaths(tree) :
       LET old == NodeAt(tree, path)
       IN /\ Flat(old) # {}
          /\ target' = path
          /\ copy' = BuildTree(Flat(old))
          /\ tree' = PutAt(tree, path, Flattened(old))
          /\ live' = Flat(tree')
  /\ UNCHANGED <<log, removed, count, reinserted, pointwise, ops>>

Replay ==
  /\ Copying /\ ~reinserted /\ log # <<>>
  /\ copy' = run_operation(copy, Head(log))
  /\ log' = Tail(log)
  /\ UNCHANGED <<tree, live, target, removed, count, reinserted, pointwise, ops>>

\* The new tree under its father, and the fathers above brought up to date as
\* far as one that an operation has left marked as being worked on, or one
\* with a label pending for it (held).
RECURSIVE SwappedIn(_, _, _, _)
SwappedIn(n, path, new, held) ==
  IF path = <<>> THEN [t |-> new, up |-> TRUE]
  ELSE
    LET side == Head(path)
        s == SwappedIn(SonOf(n, side), Tail(path), new,
                       IF side = "l" THEN n.pl ELSE n.pr)
        m == WithSon(n, side, s.t)
        up == s.up /\ ~n.working /\ ~held
    IN [t |-> IF up THEN Update(m) ELSE m, up |-> up]

Swap ==
  /\ Copying /\ ~reinserted /\ log = <<>>
  /\ tree' = SwappedIn(tree, target, copy, FALSE).t
  /\ live' = Flat(tree')
  /\ target' = NoPath
  /\ copy' = Nil
  /\ UNCHANGED <<log, removed, count, reinserted, pointwise, ops>>

Next ==
  \/ \E S \in Clouds : Build(S)
  \/ \E p \in Point : AddPoint(p) \/ AddSampled(p)
  \/ \E b \in Boxes : DeleteBox(b) \/ AddPointBoxes(b) \/ Box_Search(b)
  \/ \E p \in DeletablePoint : DeletePoint(p)
  \/ \E q \in Queries, k \in Neighbours : Nearest_Search(q, k)
  \/ \E q \in Queries, r \in Radii : Radius_Search(q, r)
  \/ StartRebuild \/ Replay \/ Swap

Spec == Init /\ [][Next]_vars

-----------------------------------------------------------------------------
(* Properties *)

RECURSIVE Held(_)
Held(n) == IF n = Nil THEN {} ELSE {n.pt} \cup Held(n.l) \cup Held(n.r)

\* The points of a node's sons are on their sides of its division plane.
RECURSIVE KdOrdered(_)
KdOrdered(n) ==
  n = Nil \/
    /\ \A p \in Held(n.l) : Pos[p][n.axis] <= Pos[n.pt][n.axis]
    /\ \A p \in Held(n.r) : Pos[p][n.axis] >= Pos[n.pt][n.axis]
    /\ KdOrdered(n.l) /\ KdOrdered(n.r)

\* The tree and the copy are k-d trees over the points.
TypeOK ==
  /\ Held(tree) \cup Held(copy) \cup removed \subseteq Point
  /\ KdOrdered(tree) /\ KdOrdered(copy)
  /\ target = NoPath \/ target \in Seq({"l", "r"})
  /\ \A i \in DOMAIN log : log[i].op \in
       {"ADD_POINT", "ADD_BOX", "DELETE_POINT", "DELETE_BOX",
        "DOWNSAMPLE_DELETE", "PUSH_DOWN"}
  /\ count \in Nat /\ ops \in 0 .. MaxOps
  /\ {reinserted, pointwise} \subseteq BOOLEAN

\* The range of a node, once the labels above it have come down, holds every
\* point in it that is not deleted; all pruning rests on that.
RECURSIVE RangesCover(_)
RangesCover(n) ==
  n = Nil \/
    LET m == Push_Down(n)
    IN /\ \A p \in Flat(m) : \A a \in 0 .. Dim - 1 :
            m.lo[a] <= Pos[p][a] /\ Pos[p][a] <= m.hi[a]
       /\ RangesCover(m.l) /\ RangesCover(m.r)

\* Add_Points reads Root_Node->division_axis unchecked.  The operations of the
\* mapping thread never leave the tree without a root; Delete_Points and
\* Add_Point_Boxes, which it does not call, can.
RootKept == ops > 0 /\ ~pointwise /\ ~reinserted => tree # Nil

\* What the tree knows about itself however the labels stand: the ranges hold
\* the points, and validnum() is how many a search could find.  And there is a
\* root when Add_Points reads its axis unchecked.
TreeSound ==
  /\ RootKept
  /\ ~reinserted =>
       /\ RangesCover(tree) /\ validnum(FALSE) = Cardinality(live)
       /\ \A p \in live : \A a \in 0 .. Dim - 1 :
            Pos[p][a] \in tree_range(FALSE).lo[a] .. tree_range(FALSE).hi[a]

\* A nearest search finds as many points as there are, up to k, all in the map,
\* and no point left out is nearer than one returned.  A box search, on which
\* downsampling relies, finds the points in the box, and a search by radius, with
\* its balls around boxes, those in the circle.
NearestExact(q, k) ==
  LET found == Search(tree, q, k, {}, target).heap
  IN /\ found \subseteq live
     /\ Cardinality(found) = Min({k, Cardinality(live)})
     /\ \A x \in found, y \in live \ found : Far(q, x) <= Far(q, y)
BoxExact(b) == Search_by_range(tree, b, target).found = Within(b, live)
RadiusExact(q, r) ==
  Search_by_radius(tree, q, r, target).found = {p \in live : Far(q, p) <= r * r}
SearchExact ==
  ~reinserted => /\ \A q \in Queries, k \in Neighbours : NearestExact(q, k)
                 /\ \A b \in Boxes : BoxExact(b)
                 /\ \A q \in Queries, r \in Radii : RadiusExact(q, r)

\* Were what is logged replayed now and the new tree put in place, the map
\* would not change: labels pending above the rebuilt tree, the entries logged
\* on their way down and the order they are replayed in make no difference.
RECURSIVE Replayed(_, _)
Replayed(n, l) ==
  IF l = <<>> THEN n ELSE Replayed(run_operation(n, Head(l)), Tail(l))
ReplayFaithful ==
  Copying /\ ~reinserted =>
    Flat(SwappedIn(tree, target, Replayed(copy, log), FALSE).t) = live

\* The tree, its labels, its rebuilds and its copy behave as a set of points.
Store == INSTANCE PointStore
StoreImplemented == Store!Spec
=============================================================================
