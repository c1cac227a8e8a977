-------------------------------- MODULE LioMap --------------------------------
(***************************************************************************)
(* What the LIO node does with a synchronised scan (laserMapping.cpp): it  *)
(* moves the cube that bounds the map along with the sensor, builds the    *)
(* map or runs the iterated Kalman filter against it, and adds the scan to *)
(* the map (timer_callback, lasermap_fov_segment, h_share_model,           *)
(* map_incremental; update_iterated_dyn_share_modified of esekfom.hpp).    *)
(*                                                                         *)
(* Positions are whole numbers along each axis, fractions of a metre being *)
(* left out.  Of the map the module follows one voxel, mark, which may be  *)
(* any; the tree that holds it is IkdTree.  Of the filter it follows the   *)
(* loop, of the state and its covariance only where they come from.        *)
(***************************************************************************)
EXTENDS Integers

CONSTANTS
  Axes,
  Marks,          \* the voxels mark may be
  CubeLen,        \* cube_len, even
  DetRange,       \* DET_RANGE, even
  SensorRange,    \* how far off along an axis a point of a scan may be
  MaxStep,        \* how far the sensor gets along an axis between two scans
                  \* with points
  Correction,     \* how far the filter moves a prediction along an axis
  NUM_MAX_ITERATIONS,
  Bound           \* bound of the model: positions are in -Bound..Bound

VARIABLES
  place,                   \* where timer_callback is
  first_scan,
  pos_lid,
  Localmap_Initialized,
  LocalMap_Points,      \* the low corner of the cube
  feats_down_size,      \* of the scan: how many points are left of it
  root,                 \* Root_Node is not null
  mark,                 \* the voxel looked at
  mapped,               \* the map holds a point in it
  iteration, t, converge,       \* of the filter's loop
  valid,                \* all its iterations had effective points
  neighbours,           \* Nearest_Points are those of this scan's points
  searches,             \* history: iterations of this update with a search
  x_, P_                  \* where the filter's state and covariance come from

windowVars == <<Localmap_Initialized, LocalMap_Points>>
mapVars == <<root, mapped>>
loopVars == <<iteration, t, converge, valid, neighbours, searches>>
filterVars == <<x_, P_>>
lioMapVars == <<place, first_scan, pos_lid, windowVars,
          feats_down_size, mapVars, mark, loopVars, filterVars>>

Position == [Axes -> Int]

Magnitude(d) == IF d < 0 THEN -d ELSE d
Larger(a, b) == IF a < b THEN b ELSE a

\* MOV_THRESHOLD * DET_RANGE, and mov_dist.
Threshold == (3 * DetRange) \div 2
MovDist == Larger((9 * (CubeLen - 2 * Threshold)) \div 20, DetRange \div 2)

\* The detection range fits into the cube, and a move of the cube makes up for
\* what the sensor may have moved; a scan does not reach over the threshold.
ASSUME CubeAssumption ==
  /\ CubeLen \in Nat /\ DetRange \in Nat
  /\ CubeLen % 2 = 0 /\ DetRange % 2 = 0
  /\ 2 * Threshold + MovDist <= CubeLen
  /\ SensorRange \in Nat /\ MaxStep \in Nat /\ Correction \in Nat
  /\ MaxStep + Correction <= MovDist /\ MaxStep + Correction <= Threshold
  /\ SensorRange + Correction < Threshold
ASSUME LoopAssumption == NUM_MAX_ITERATIONS \in Nat \ {0}
ASSUME MarkAssumption == Marks \subseteq Position
ASSUME BoundAssumption == Bound \in Nat

MapInit ==
  /\ place = "wait"
  /\ first_scan = TRUE
  /\ pos_lid = [a \in Axes |-> 0]
  /\ Localmap_Initialized = FALSE /\ LocalMap_Points = [a \in Axes |-> 0]
  /\ feats_down_size = 0
  /\ root = FALSE /\ mark \in Marks /\ mapped = FALSE
  /\ iteration = -1 /\ t = 0 /\ converge = TRUE /\ valid = TRUE
  /\ neighbours = FALSE /\ searches = 0
  /\ x_ = "propagated" /\ P_ = "propagated"

\* Positions no farther than d from p along any axis.
Around(p, d) ==
  {q \in [Axes -> -Bound..Bound] : \A a \in Axes : Magnitude(q[a] - p[a]) <= d}

InRange(p) == \A a \in Axes : Magnitude(mark[a] - p[a]) <= SensorRange

-----------------------------------------------------------------------------
(* The cube *)

\* Mutation: the far end of an axis is looked at on the wrong side.
NearMaxFlipped(a) ==
  Magnitude(pos_lid[a] + LocalMap_Points[a] + CubeLen) <= Threshold
NearMin(a) == Magnitude(pos_lid[a] - LocalMap_Points[a]) <= Threshold
NearMax(a) == Magnitude(pos_lid[a] - (LocalMap_Points[a] + CubeLen)) <= Threshold

\* How far the cube moves along an axis.
Move(a) ==
  IF NearMin(a) THEN -MovDist ELSE IF NearMax(a) THEN MovDist ELSE 0

\* Mutation: the slab is measured from the wrong end.
SlabFromFarEnd(a, p) ==
  LET low == LocalMap_Points[a]
  IN \/ Move(a) > 0 /\ low <= p[a] /\ p[a] < low + CubeLen - MovDist
     \/ Move(a) < 0 /\ low + MovDist <= p[a] /\ p[a] < low + CubeLen

\* p is in what the cube leaves along an axis: from the old end to the new one,
\* the upper one left out, as Delete_by_range does.
Slab(a, p) ==
  LET low == LocalMap_Points[a]
  IN \/ Move(a) > 0 /\ low <= p[a] /\ p[a] < low + MovDist
     \/ Move(a) < 0 /\ low + CubeLen - MovDist <= p[a] /\ p[a] < low + CubeLen

\* cub_needrm: along the other axes a slab is as wide as the cube was.
Removed(p) ==
  \E a \in Axes :
    /\ Slab(a, p)
    /\ \A b \in Axes \ {a} :
         LocalMap_Points[b] <= p[b] /\ p[b] < LocalMap_Points[b] + CubeLen

\* The first cube is laid around the sensor; a later one moves away from
\* the ends the sensor is near, and the map loses what is no longer in it.
lasermap_fov_segment ==
  /\ Localmap_Initialized' = TRUE
  /\ IF ~Localmap_Initialized
       THEN /\ LocalMap_Points' = [a \in Axes |-> pos_lid[a] - CubeLen \div 2]
            /\ UNCHANGED mapped
       ELSE /\ LocalMap_Points' = [a \in Axes |-> LocalMap_Points[a] + Move(a)]
            /\ mapped' = (mapped /\ ~Removed(mark))

-----------------------------------------------------------------------------
(* The timer's callback *)

\* sync_packages has made up a measurement and Process predicts where the
\* sensor is; the first one gives its time only.  Nothing is done with a scan
\* without points, as all are while the IMU is not initialised: how far the
\* sensor gets meanwhile counts for the next one.
TakeMeasurement ==
  /\ place = "wait"
  /\ first_scan' = FALSE
  /\ \/ first_scan /\ UNCHANGED <<place, pos_lid, filterVars>>
     \/ /\ ~first_scan
        /\ x_' = "propagated" /\ P_' = "propagated"
        /\ \/ UNCHANGED <<place, pos_lid>>
           \/ place' = "segment" /\ pos_lid' \in Around(pos_lid, MaxStep)
  /\ UNCHANGED <<windowVars, feats_down_size, mapVars, mark, loopVars>>

\* How many points are left of the scan: fewer than five, five, or more.
DownSizes == {4, 5, 6}

Segment ==
  /\ place = "segment" /\ place' = "tree"
  /\ lasermap_fov_segment
  /\ feats_down_size' \in DownSizes
  /\ UNCHANGED <<first_scan, pos_lid, root, mark, loopVars, filterVars>>

\* The map is built of the first scan with more than five points.
Build ==
  /\ place = "tree" /\ ~root /\ place' = "wait"
  /\ IF feats_down_size > 5
       THEN root' = TRUE /\ mapped' \in {FALSE, InRange(pos_lid)}
       ELSE UNCHANGED mapVars
  /\ UNCHANGED <<first_scan, pos_lid, windowVars,
                 feats_down_size, mark, loopVars, filterVars>>

Skip ==
  /\ place = "tree" /\ root /\ feats_down_size < 5 /\ place' = "wait"
  /\ UNCHANGED <<first_scan, pos_lid, windowVars,
                 feats_down_size, mapVars, mark, loopVars, filterVars>>

\* Nearest_Points keeps what it held for the points before.
StartUpdate ==
  /\ place = "tree" /\ root /\ feats_down_size >= 5 /\ place' = "iterate"
  /\ iteration' = -1 /\ t' = 0 /\ converge' = TRUE /\ valid' = TRUE
  /\ neighbours' = FALSE /\ searches' = 0
  /\ UNCHANGED <<first_scan, pos_lid, windowVars,
                 feats_down_size, mapVars, mark, filterVars>>

-----------------------------------------------------------------------------
(* The iterated update *)

\* Mutation: the last iteration but one is taken for the last.
ForcedLate(n) == iteration = NUM_MAX_ITERATIONS - 1 /\ n = 0
\* The last iteration searches again even if none before it has converged.
Forced(n) == iteration = NUM_MAX_ITERATIONS - 2 /\ n = 0

\* The loop ends once it has converged twice.
LastIteration(n) == n > 1 \/ iteration = NUM_MAX_ITERATIONS - 1

\* h_share_model finds the planes the points lie on, among new neighbours if
\* the filter has converged, and whether there is any.  Once there is none
\* there is none again, as nothing an iteration depends on changes.
h_share_model ==
  /\ IF converge
       THEN neighbours' = TRUE /\ searches' = searches + 1
       ELSE UNCHANGED <<neighbours, searches>>
  /\ valid' \in {FALSE, valid}

NoEffectivePoints ==
  /\ place = "iterate" /\ iteration < NUM_MAX_ITERATIONS
  /\ h_share_model /\ ~valid'
  /\ iteration' = iteration + 1
  /\ UNCHANGED <<place, first_scan, pos_lid, windowVars,
                 feats_down_size, mapVars, mark, t, converge, filterVars>>

\* The last iteration corrects the covariance too, and the function returns.
CorrectCovariance == P_' = "corrected" /\ place' = "done" /\ UNCHANGED iteration

\* The state is corrected in every iteration.
Correct ==
  /\ place = "iterate" /\ iteration < NUM_MAX_ITERATIONS
  /\ h_share_model /\ valid'
  /\ \E small \in BOOLEAN :
       LET n == IF small THEN t + 1 ELSE t
       IN /\ t' = n
          /\ converge' = (small \/ Forced(n))
          /\ x_' = "corrected"
          /\ IF LastIteration(n)
               THEN CorrectCovariance
               ELSE iteration' = iteration + 1 /\ UNCHANGED <<place, P_>>
  /\ UNCHANGED <<first_scan, pos_lid, windowVars,
                 feats_down_size, mapVars, mark>>

EndUpdate ==
  /\ place = "iterate" /\ iteration = NUM_MAX_ITERATIONS /\ place' = "done"
  /\ UNCHANGED <<first_scan, pos_lid, windowVars,
                 feats_down_size, mapVars, mark, loopVars, filterVars>>

\* The corrected position is published ...
TakeState ==
  /\ place = "done" /\ place' = "increment"
  /\ IF x_ = "corrected" THEN pos_lid' \in Around(pos_lid, Correction) ELSE UNCHANGED pos_lid
  /\ UNCHANGED <<first_scan, windowVars, feats_down_size,
                 mapVars, mark, loopVars, filterVars>>

\* ... and the scan added to the map, at the corrected position.  Points with a
\* neighbour nearer to the middle of their voxel are left out, unless the node
\* has just started; the tree leaves one point in a voxel it thins out.
map_incremental ==
  /\ place = "increment" /\ place' = "wait"
  /\ mapped' \in {mapped, mapped \/ InRange(pos_lid)}
  /\ UNCHANGED <<first_scan, pos_lid, windowVars,
                 feats_down_size, root, mark, loopVars, filterVars>>

Update == NoEffectivePoints \/ Correct \/ EndUpdate

MapNext ==
  TakeMeasurement \/ Segment \/ Build \/ Skip \/ StartUpdate \/ Update \/ TakeState
    \/ map_incremental

MapSpec == MapInit /\ [][MapNext]_lioMapVars

-----------------------------------------------------------------------------
(* Properties *)

Places == {"wait", "segment", "tree", "iterate", "done", "increment"}

\* Types.
MapTypeOK ==
  /\ place \in Places
  /\ first_scan \in BOOLEAN
  /\ pos_lid \in Position
  /\ Localmap_Initialized \in BOOLEAN /\ LocalMap_Points \in Position
  /\ feats_down_size \in {0} \cup DownSizes
  /\ root \in BOOLEAN /\ mark \in Marks /\ mapped \in BOOLEAN
  /\ iteration \in -1..NUM_MAX_ITERATIONS /\ t \in 0..2
  /\ converge \in BOOLEAN /\ valid \in BOOLEAN
  /\ neighbours \in BOOLEAN /\ searches \in 0..NUM_MAX_ITERATIONS+1
  /\ x_ \in {"propagated", "corrected"} /\ P_ \in {"propagated", "corrected"}

\* How far the sensor is from the ends of the cube, at least: the cube moves on
\* a prediction, which the filter then corrects and the sensor leaves.
Clearance ==
  CASE place \in {"tree", "iterate", "done"} -> Threshold
    [] place \in {"increment", "wait"} -> Threshold - Correction
    [] place = "segment" -> Threshold - Correction - MaxStep

SensorInCube ==
  Localmap_Initialized =>
    \A a \in Axes :
      /\ LocalMap_Points[a] + Clearance <= pos_lid[a]
      /\ pos_lid[a] + Clearance <= LocalMap_Points[a] + CubeLen

MapInCube ==
  mapped =>
    \A a \in Axes :
      LocalMap_Points[a] <= mark[a] /\ mark[a] < LocalMap_Points[a] + CubeLen

\* The sensor stays in the cube, well away from its ends: the distances to the
\* ends, of which the code takes the absolute values, are never of a sensor
\* that has left the cube, which would not follow it any more.  And the map is
\* bounded: it holds nothing outside the cube, whichever axes the cube has
\* moved along, in one step or in several.
CubeKept == SensorInCube /\ MapInCube

\* What is in reach of the sensor stays in the map while the cube moves.
NearKept == [][mapped /\ InRange(pos_lid) => mapped']_lioMapVars

\* When the scan is added, the neighbours that decide about its points are
\* those of its own points; the covariance is the corrected one unless an
\* iteration had no effective points, and then was corrected with neighbours
\* searched for again since the first iteration.
UpdateComplete ==
  place \in {"done", "increment"} =>
    /\ neighbours
    /\ P_ = "corrected" <=> valid
    /\ P_ = "corrected" => x_ = "corrected" /\ searches >= 2

\* "Maximum range to use for mapping" (det_range, config/hesai.yaml:42): no
\* point farther off than that gets into the map.  This is false, see README.md.
MappedInRange ==
  [][~mapped /\ mapped' => \A a \in Axes : Magnitude(mark[a] - pos_lid[a]) <= DetRange]_lioMapVars
=============================================================================
