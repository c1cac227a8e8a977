------------------------------- MODULE Preprocess -------------------------------
(***************************************************************************)
(* What becomes of the points of one scan before the odometry sees them    *)
(* (FAST_LIO_ROS2/src/preprocess.cpp): a handler for each kind of lidar    *)
(* reads them one after the other, and if features are extracted,          *)
(* give_feature goes over every scan line four times, to find planes, the  *)
(* edges between them, small planes, and to collect what it found in       *)
(* pl_surf and pl_corn.                                                    *)
(*                                                                         *)
(* Of a point the model knows whether it is nearer than blind and whether  *)
(* the time the handler gives it is the one it was measured at; whether    *)
(* points lie on a plane, where they bend and how far apart they are is    *)
(* open at each test of the code.  A layer's points turn with the lidar,   *)
(* in steps of which a turn has Turn.                                      *)
(***************************************************************************)
EXTENDS Integers, Sequences, FiniteSets

CONSTANTS
  LidarTypes,  \* lidar_type: "AVIA", "VELO16", "OUST64", "MID360" or "other"
  N_SCANS,     \* scan lines
  group_size,  \* points a plane has at least
  point_filter_num,
  Turn,        \* steps of a turn
  MaxTurned,   \* bound: steps from the first to the last point of a layer
  MaxPoints    \* bound: points of a scan

\* From one point of a layer to the next are one or two steps, less than a turn.
ASSUME SizeAssumption ==
  /\ N_SCANS \in Nat \ {0} /\ group_size \in Nat \ {0} /\ point_filter_num \in Nat \ {0}
  /\ Turn \in Nat \ 0 .. 2 /\ MaxTurned \in 0 .. 2 * Turn - 1 /\ MaxPoints \in Nat

VARIABLES
  lidar_type, feature_enabled,
  given_offset_time,  \* the points of a velodyne have times
  pc,
  read,        \* points of the message read
  valid_num,
  prev_full,   \* the point before was put into pl_full
  layers,      \* is_first, yaw_fp and time_last, and how far the layer has turned
  pl_buff,     \* the points of each line, the first at index 0
  pl_surf, pl_corn, \* which kinds of points there are
  j,           \* the line give_feature works on
  i,           \* its index into the line
  ftype,       \* Feature of each point of the line, and of what is behind its end
  seen,        \* points of the line whose intersect was computed
  last_state, last_surface,
  groups       \* history: the points of the line each point of pl_surf stands for

msgVars == <<lidar_type, feature_enabled, given_offset_time>>
readVars == <<read, valid_num, prev_full, layers, pl_buff>>
lineVars == <<j, i, ftype, seen, last_state, last_surface, groups>>
cloudVars == <<msgVars, pc, readVars, pl_surf, pl_corn, lineVars>>

-----------------------------------------------------------------------------
Lines == 0 .. N_SCANS - 1
Point(near, ok) == [near |-> near, ok |-> ok]

\* Before its first point a layer has is_first set.
Unseen == [is_first |-> TRUE, yaw_fp |-> 0, time_last |-> 0, turned |-> 0]

CloudInit ==
  /\ lidar_type \in LidarTypes
  /\ feature_enabled \in BOOLEAN
  /\ given_offset_time \in BOOLEAN
  /\ pc = "read"
  /\ read = 0 /\ valid_num = 0 /\ prev_full = FALSE
  /\ layers = [l \in Lines |-> Unseen]
  /\ pl_buff = [l \in Lines |-> <<>>]
  /\ pl_surf = {} /\ pl_corn = {}
  /\ j = 0 /\ i = 0 /\ ftype = <<>> /\ seen = {}
  /\ last_state = 0 /\ last_surface = -1 /\ groups = <<>>

-----------------------------------------------------------------------------
(* Times *)

\* The yaw of a layer that has turned, clockwise, since its first point.
Yaw(fp, turned) == (fp - turned) % Turn

\* The time since the first point, in steps, from the yaw alone.
\* Mutation: what comes after a whole turn is taken for its start.
CurvatureOfOneTurn(layer, yaw) ==
  IF yaw <= layer.yaw_fp THEN layer.yaw_fp - yaw ELSE layer.yaw_fp - yaw + Turn
Curvature(layer, yaw) ==
  LET c == IF yaw <= layer.yaw_fp THEN layer.yaw_fp - yaw ELSE layer.yaw_fp - yaw + Turn
  IN  IF c < layer.time_last THEN c + Turn ELSE c

\* A first point sets the yaw to count from, and is dropped; of the others time
\* and place are known.
FirstOfLayer(l) ==
  /\ layers[l].is_first
  /\ \E yaw \in 0 .. Turn - 1 :
       layers' = [layers EXCEPT ![l] = [is_first |-> FALSE, yaw_fp |-> yaw,
                                        time_last |-> 0, turned |-> 0]]
NextOfLayer(l, d) ==
  LET turned == layers[l].turned + d
  IN  /\ ~layers[l].is_first
      /\ turned <= MaxTurned
      /\ layers' = [layers EXCEPT ![l].turned = turned,
                      ![l].time_last = Curvature(layers[l], Yaw(layers[l].yaw_fp, turned))]

\* Its time is right, once NextOfLayer has set it.
TimeRight(l) == layers'[l].time_last = layers'[l].turned

-----------------------------------------------------------------------------
(* The handlers, point by point *)

Reading(type) ==
  /\ pc = "read" /\ lidar_type = type /\ read < MaxPoints
  /\ read' = read + 1
  /\ UNCHANGED <<msgVars, pc, pl_corn, lineVars>>

Keep(p) == pl_surf' = pl_surf \cup {p} /\ UNCHANGED pl_buff
Buffer(l, p) == pl_buff' = [pl_buff EXCEPT ![l] = Append(@, p)] /\ UNCHANGED pl_surf
Drop == UNCHANGED <<pl_surf, pl_buff>>

\* avia_handler: the message's first point is not looked at; a point counts if
\* its line and its tag are good, and is dropped if it repeats the one before,
\* as far as that one is in pl_full.
AviaPoint ==
  /\ Reading("AVIA")
  /\ UNCHANGED layers
  /\ \E l \in 0 .. N_SCANS, near, tagged, same \in BOOLEAN :
       IF l = N_SCANS \/ ~tagged \/ read = 0
       THEN Drop /\ prev_full' = FALSE /\ UNCHANGED valid_num
       ELSE LET repeats == prev_full /\ same IN
            IF feature_enabled
            THEN /\ IF repeats THEN Drop ELSE Buffer(l, Point(near, TRUE))
                 /\ prev_full' = TRUE /\ UNCHANGED valid_num
            ELSE /\ valid_num' = (valid_num + 1) % point_filter_num
                 /\ prev_full' = (valid_num' = 0)
                 /\ IF valid_num' = 0 /\ ~repeats /\ ~near THEN Keep(Point(near, TRUE))
                    ELSE Drop

\* oust64_handler: times are in the message.
OusterPoint ==
  /\ Reading("OUST64")
  /\ UNCHANGED <<valid_num, prev_full, layers>>
  /\ \E l \in 0 .. N_SCANS, near \in BOOLEAN :
       IF near \/ (feature_enabled /\ l = N_SCANS)
               \/ (~feature_enabled /\ read % point_filter_num # 0)
       THEN Drop
       ELSE IF feature_enabled THEN Buffer(l, Point(near, TRUE)) ELSE Keep(Point(near, TRUE))

\* velodyne_handler: without features it does not look whether the layer is one
\* of the scan's lines.
VelodynePoint ==
  /\ Reading("VELO16")
  /\ UNCHANGED <<valid_num, prev_full>>
  /\ \/ feature_enabled /\ UNCHANGED layers /\ Drop   \* of a layer beyond the lines
     \/ \E l \in Lines, near \in BOOLEAN, d \in 1 .. 2 :
       IF ~given_offset_time /\ layers[l].is_first THEN FirstOfLayer(l) /\ Drop
       ELSE /\ IF given_offset_time THEN UNCHANGED layers ELSE NextOfLayer(l, d)
            /\ LET p == Point(near, given_offset_time \/ TimeRight(l)) IN
               IF feature_enabled THEN Buffer(l, p)
               ELSE IF read % point_filter_num = 0 /\ ~near THEN Keep(p)
               ELSE Drop

\* mid360_handler: no features, and times always from the yaw.
Mid360Point ==
  /\ Reading("MID360")
  /\ UNCHANGED <<valid_num, prev_full>>
  /\ \E l \in Lines, near \in BOOLEAN, d \in 1 .. 2 :
       IF layers[l].is_first THEN FirstOfLayer(l) /\ Drop
       ELSE /\ NextOfLayer(l, d)
            /\ IF near THEN Drop ELSE Keep(Point(near, TimeRight(l)))

\* default_handler: every point has the time of the first.
DefaultPoint ==
  /\ Reading("other")
  /\ UNCHANGED <<valid_num, prev_full, layers>>
  /\ \E near \in BOOLEAN : IF near THEN Drop ELSE Keep(Point(near, FALSE))

\* Lines shorter than this are passed over.
MinLine == CASE lidar_type = "AVIA" -> 6 [] lidar_type = "VELO16" -> 2 [] OTHER -> 1

\* The last point is read.  Every ring of an Ouster has points: of one without,
\* the handler would read what is in front of its buffer.
EndOfMessage ==
  /\ pc = "read" /\ read > 0
  /\ IF feature_enabled /\ lidar_type \in {"AVIA", "VELO16", "OUST64"}
     THEN /\ lidar_type = "OUST64" => \A l \in Lines : pl_buff[l] # <<>>
          /\ pc' = "line"
     ELSE pc' = "done" /\ UNCHANGED pl_buff
  /\ valid_num' = 0 /\ prev_full' = FALSE
  /\ layers' = [l \in Lines |-> Unseen]
  /\ UNCHANGED <<msgVars, read, pl_buff, pl_surf, pl_corn, lineVars>>

-----------------------------------------------------------------------------
(* give_feature *)

n == Len(pl_buff[j])
Near(k) == pl_buff[j][k + 1].near
Index == 0 .. n - 1
Planes == {"Poss_Plane", "Real_Plane"}
Edges == {"Edge_Jump", "Edge_Plane"}

\* The first point that is not too near; behind the end if all are.
head ==
  CHOOSE h \in 0 .. n : (\A k \in 0 .. h - 1 : Near(k)) /\ (h = n \/ ~Near(h))

\* To the next line, or the end.
NextLine ==
  /\ pc = "line"
  /\ IF n < MinLine
     THEN /\ IF j = N_SCANS - 1 THEN pc' = "done" /\ j' = 0 ELSE pc' = "line" /\ j' = j + 1
          /\ UNCHANGED <<i, ftype>>
     ELSE /\ pc' = "planes" /\ i' = head
          /\ ftype' = [k \in 0 .. n |-> "Nor"]
          /\ UNCHANGED j
  /\ UNCHANGED <<msgVars, readVars, pl_surf, pl_corn, seen, last_state, last_surface, groups>>

\* plane_judge: the kind of what begins at k, and where it ends.  A plane has
\* group_size points and those after them that are close enough; it ends at the
\* line's end or at the first that is not.  One too near in between makes it
\* another kind.
Clear(from, to) == \A m \in from .. to : ~Near(m)
\* Mutation: only the first group_size points are looked at.
PlaneJudgeStart(k) ==
  {r \in [type : {0, 1}, nex : k + group_size .. n] : Clear(k, k + group_size - 1)}
    \cup {r \in [type : {2}, nex : k .. n - 1] : Near(r.nex) /\ Clear(k, r.nex - 1)}
PlaneJudge(k) ==
  {r \in [type : {0, 1}, nex : k + group_size .. n] :
     Clear(k, IF r.nex = n THEN n - 1 ELSE r.nex)}
    \cup {r \in [type : {2}, nex : k .. n - 1] : Near(r.nex) /\ Clear(k, r.nex - 1)}

\* The first pass.  The label of the point a plane ends at is written even if
\* that is behind the line's end.
FindPlane ==
  /\ pc = "planes" /\ i < n - group_size
  /\ IF Near(i) THEN i' = i + 1 /\ UNCHANGED <<ftype, last_state>>
     ELSE \E r \in PlaneJudge(i) :
       IF r.type = 1
       THEN /\ \E first \in IF last_state = 1 THEN {"Edge_Plane", "Real_Plane"}
                            ELSE {"Poss_Plane"} :
                 ftype' = [k \in 0 .. n |->
                             CASE k = i                -> first
                               [] k > i /\ k < r.nex   -> "Real_Plane"
                               [] k = r.nex            -> "Poss_Plane"
                               [] k < i \/ k > r.nex   -> ftype[k]]
            /\ i' = r.nex /\ last_state' = 1
       ELSE i' = r.nex + 1 /\ last_state' = 0 /\ UNCHANGED ftype
  /\ UNCHANGED <<msgVars, pc, readVars, pl_surf, pl_corn, j, seen, last_surface, groups>>

EndPlanes ==
  /\ pc = "planes" /\ i >= n - group_size
  /\ pc' = "edges" /\ i' = head + 3 /\ last_state' = 0
  /\ UNCHANGED <<msgVars, readVars, pl_surf, pl_corn, j, ftype, seen, last_surface, groups>>

\* What a point sees next to it: a point too near, before the blind zone or from
\* afar, or one at an angle.
Sides(k, far) ==
  IF Near(k) THEN {IF far THEN "Nr_inf" ELSE "Nr_blind"} ELSE {"Nr_nor", "Nr_zero", "Nr_180"}

\* edge_jump_judge needs two points on the side that is normal.
EdgeJumpJudge(k, prev, next) ==
  \/ prev = "Nr_nor" /\ next \in {"Nr_zero", "Nr_inf"} /\ ~Near(k - 1) /\ ~Near(k - 2)
  \/ next = "Nr_nor" /\ prev \in {"Nr_zero", "Nr_inf"} /\ ~Near(k + 1) /\ ~Near(k + 2)

\* The second pass; equal points are passed over.
FindEdge ==
  /\ pc = "edges" /\ i < n - 3
  /\ i' = i + 1
  /\ IF Near(i) \/ ftype[i] \notin {"Nor", "Poss_Plane"} THEN UNCHANGED <<ftype, seen>>
     ELSE \/ UNCHANGED <<ftype, seen>>
          \/ /\ seen' = seen \cup {i}
             /\ \E far \in BOOLEAN :
                \E prev \in Sides(i - 1, far), next \in Sides(i + 1, far) :
                  ftype' = [ftype EXCEPT ![i] =
                    IF prev # "Nr_nor" /\ next # "Nr_nor" /\ @ = "Nor" THEN "Wire" ELSE @]
          \/ /\ seen' = seen \cup {i}
             /\ \E far \in BOOLEAN :
                \E prev \in Sides(i - 1, far), next \in Sides(i + 1, far) :
                  EdgeJumpJudge(i, prev, next)
             /\ ftype' = [ftype EXCEPT ![i] = "Edge_Jump"]
  /\ UNCHANGED <<msgVars, pc, readVars, pl_surf, pl_corn, j, last_state, last_surface, groups>>

EndEdges ==
  /\ pc = "edges" /\ i >= n - 3
  /\ pc' = "small" /\ i' = head + 1
  /\ UNCHANGED <<msgVars, readVars, pl_surf, pl_corn, j, ftype, seen, last_state,
                 last_surface, groups>>

\* The third pass: a point between two it is in line with, and they, if nothing
\* else is known of them.
FindSmallPlane ==
  /\ pc = "small" /\ i < n - 1
  /\ i' = i + 1
  /\ \/ UNCHANGED ftype
     \/ /\ ~Near(i) /\ ~Near(i - 1) /\ ~Near(i + 1)
        /\ ftype[i] = "Nor" /\ i \in seen
        /\ ftype' = [k \in 0 .. n |-> IF k \in i - 1 .. i + 1 /\ ftype[k] = "Nor"
                                      THEN "Real_Plane" ELSE ftype[k]]
  /\ UNCHANGED <<msgVars, pc, readVars, pl_surf, pl_corn, j, seen, last_state,
                 last_surface, groups>>

EndSmall ==
  /\ pc = "small" /\ i >= n - 1
  /\ pc' = "collect" /\ i' = head /\ seen' = {}
  /\ UNCHANGED <<msgVars, readVars, pl_surf, pl_corn, j, ftype, last_state, last_surface,
                 groups>>

\* The mean of points.
Mean(from, to) ==
  Point(\E k \in from .. to : Near(k), \A k \in from .. to : pl_buff[j][k + 1].ok)

\* The last pass: of the points of planes every point_filter_num-th is taken,
\* and of those left over where a plane ends the mean.
\* Mutation: a point taken does not start the count again.
StartedNever(from, k) == from
Started(from, k) == IF k = from + point_filter_num - 1 THEN -1 ELSE from

TakePlane ==
  /\ pc = "collect" /\ i < n /\ ftype[i] \in Planes
  /\ i' = i + 1
  /\ LET from == IF last_surface = -1 THEN i ELSE last_surface
         taken == i = from + point_filter_num - 1
     IN  /\ last_surface' = Started(from, i)
         /\ pl_surf' = IF taken THEN pl_surf \cup {pl_buff[j][i + 1]} ELSE pl_surf
         /\ groups' = IF taken THEN Append(groups, <<from, i>>) ELSE groups
  /\ UNCHANGED <<msgVars, pc, readVars, pl_corn, j, ftype, seen, last_state>>

TakeOther ==
  /\ pc = "collect" /\ i < n /\ ftype[i] \notin Planes
  /\ i' = i + 1
  /\ pl_corn' = IF ftype[i] \in Edges
                THEN pl_corn \cup {pl_buff[j][i + 1]} ELSE pl_corn
  /\ IF last_surface = -1 THEN UNCHANGED <<pl_surf, groups>>
     ELSE /\ pl_surf' = pl_surf \cup {Mean(last_surface, i - 1)}
          /\ groups' = Append(groups, <<last_surface, i - 1>>)
  /\ last_surface' = -1
  /\ UNCHANGED <<msgVars, pc, readVars, j, ftype, seen, last_state>>

\* What is left over at the line's end is dropped.
EndLine ==
  /\ pc = "collect" /\ i >= n
  /\ IF j = N_SCANS - 1 THEN pc' = "done" /\ j' = 0 ELSE pc' = "line" /\ j' = j + 1
  /\ i' = 0 /\ ftype' = <<>> /\ seen' = {}
  /\ last_state' = 0 /\ last_surface' = -1 /\ groups' = <<>>
  /\ UNCHANGED <<msgVars, readVars, pl_surf, pl_corn>>

\* process hands out pl_surf; for the next message the handler clears all.
process ==
  /\ pc = "done" /\ pc' = "read"
  /\ given_offset_time' \in BOOLEAN
  /\ read' = 0
  /\ pl_buff' = [l \in Lines |-> <<>>]
  /\ pl_surf' = {} /\ pl_corn' = {}
  /\ UNCHANGED <<lidar_type, feature_enabled, valid_num, prev_full, layers, lineVars>>

-----------------------------------------------------------------------------
CloudNext ==
  \/ AviaPoint \/ OusterPoint \/ VelodynePoint \/ Mid360Point \/ DefaultPoint
  \/ EndOfMessage \/ NextLine
  \/ FindPlane \/ EndPlanes \/ FindEdge \/ EndEdges \/ FindSmallPlane \/ EndSmall
  \/ TakePlane \/ TakeOther \/ EndLine
  \/ process

CloudSpec == CloudInit /\ [][CloudNext]_cloudVars

-----------------------------------------------------------------------------
(* Properties *)

Points == [near : BOOLEAN, ok : BOOLEAN]
Layer == [is_first : BOOLEAN, yaw_fp : 0 .. Turn - 1, time_last : Nat, turned : 0 .. MaxTurned]
Passes == {"planes", "edges", "small", "collect"}
Labels == {"Nor", "Wire"} \cup Planes \cup Edges

\* The variables have the types of the members and locals they model; only
\* while give_feature works on a line its points, and the one behind the last,
\* have labels.
CloudTypeOK ==
  /\ lidar_type \in LidarTypes
  /\ feature_enabled \in BOOLEAN /\ given_offset_time \in BOOLEAN
  /\ pc \in {"read", "line", "done"} \cup Passes
  /\ read \in Nat /\ valid_num \in Nat /\ prev_full \in BOOLEAN
  /\ layers \in [Lines -> Layer]
  /\ pl_buff \in [Lines -> Seq(Points)]
  /\ pl_surf \subseteq Points /\ pl_corn \subseteq Points
  /\ j \in Lines /\ i \in Nat
  /\ IF pc \in Passes THEN ftype \in [0 .. n -> Labels] ELSE ftype = <<>>
  /\ seen \subseteq Nat /\ last_state \in {0, 1} /\ last_surface \in Nat \cup {-1}
  /\ groups \in Seq(Nat \X Nat)

\* No point nearer than blind gets into the clouds, be it alone, in a mean, at
\* either end of a plane or at an edge next to the blind zone.
NoBlindPoint == \A p \in pl_surf \cup pl_corn : ~p.near

\* Every point of a plane is counted once: the points pl_surf stands for are
\* point_filter_num in a row, or what is left at the end of a run of planes, and
\* none is left out but the last few of the line.
PlaneOnce ==
  (pc = "collect" /\ i >= n) =>
    LET plane == {k \in head .. n - 1 : ftype[k] \in Planes}
        Of(g) == g[1] .. g[2]
        done == UNION {Of(groups[g]) : g \in DOMAIN groups}
    IN  /\ \A g, h \in DOMAIN groups : g # h => Of(groups[g]) \cap Of(groups[h]) = {}
        /\ done \subseteq plane
        /\ \A g \in DOMAIN groups :
             LET size == groups[g][2] - groups[g][1] + 1
             IN  size <= point_filter_num /\
                 (size < point_filter_num => groups[g][2] + 1 \in Index \ plane)
        /\ plane \ done = (n - Cardinality(plane \ done)) .. n - 1
        /\ Cardinality(plane \ done) < point_filter_num

\* A point has the time it was measured at, counted from its layer's first
\* point, be it given or computed from the yaw, even of a layer that goes over a
\* whole turn; the mean of points is as good as they are.
TimesRight == lidar_type # "other" => \A p \in pl_surf : p.ok
================================================================================
