------------------------------- MODULE LioProofs -------------------------------
(***************************************************************************)
(* Proofs about the LIO node, module by module.                            *)
(*                                                                         *)
(* LioSync, for any stamps, durations and numbers of messages: the two     *)
(* lidar buffers stay in step, no scan is lost, and every scan comes with  *)
(* all the readings up to its end; and the filter's state is then the one  *)
(* at the end of the scan.  The former follows from one inductive          *)
(* invariant, IndInv, the latter from IndInv and ClockInStep, by induction *)
(* over the readings of a scan.                                            *)
(*                                                                         *)
(* LioMap, for cubes, ranges, axes and voxels of any size and number as    *)
(* far as its assumptions go.  The cube (CubeIsKept, NearIsKept) needs the *)
(* types only: how far the sensor is from the ends of the cube is known    *)
(* for every place of the callback.  The update (UpdatesComplete) needs    *)
(* what is known in the loop, LoopInv: once it has converged, it has       *)
(* searched again or is about to.                                          *)
(*                                                                         *)
(* Preprocess, for any numbers of lines, of points and of steps in a turn: *)
(* types, that points have the time they were measured at, that none       *)
(* nearer than blind gets into the clouds, and that every point of a plane *)
(* is counted once.                                                        *)
(***************************************************************************)
EXTENDS LioSync, LioMap, Preprocess, FiniteSetTheorems, WellFoundedInduction, TLAPS

-----------------------------------------------------------------------------
(* Numbers and sequences *)

\* Induction over a set of numbers, from the least one left out of it.
Smaller == {pair \in Nat \X Nat : pair[1] < pair[2]}

LEMMA Induction ==
  ASSUME NEW S \in SUBSET Nat, 0 \in S, \A k \in S : k + 1 \in S
  PROVE  S = Nat
<1> DEFINE T == Nat \ S
<1>1. SUFFICES ASSUME T # {} PROVE FALSE
  OBVIOUS
<1>2. IsWellFoundedOn(Smaller, Nat)
  BY NatLessThanWellFounded DEF OpToRel, Smaller
<1>3. PICK x \in T : \A y \in T : <<y, x>> \notin Smaller
  <2>1. T \subseteq Nat
    OBVIOUS
  <2> HIDE DEF T
  <2> QED BY <1>1, <1>2, <2>1, WFMin
<1>4. x # 0 /\ x - 1 \in Nat /\ x - 1 < x
  OBVIOUS
<1>5. x - 1 \in S
  <2> SUFFICES ASSUME x - 1 \in T PROVE FALSE
    BY <1>4
  <2>1. <<x - 1, x>> \in Nat \X Nat /\ <<x - 1, x>>[1] < <<x - 1, x>>[2]
    BY <1>4
  <2> QED BY <1>3, <2>1 DEF Smaller
<1> QED BY <1>4, <1>5

\* A sequence with one more.
LEMMA Appended ==
  ASSUME NEW S, NEW s \in Seq(S), NEW e \in S
  PROVE  /\ Append(s, e) \in Seq(S)
         /\ Len(s) \in Nat /\ DOMAIN s = 1..Len(s)
         /\ DOMAIN Append(s, e) = 1..Len(s) + 1
         /\ \A k \in 1..Len(s) : Append(s, e)[k] = s[k]
         /\ Append(s, e)[Len(s) + 1] = e
<1>1. Append(s, e) \in Seq(S) /\ Len(s) \in Nat /\ DOMAIN s = 1..Len(s)
  BY SMT
<1>2. DOMAIN Append(s, e) = 1..Len(s) + 1
  BY SMT
<1>3. \A k \in 1..Len(s) : Append(s, e)[k] = s[k]
  BY SMT
<1>4. Append(s, e)[Len(s) + 1] = e
  BY SMT
<1> QED BY <1>1, <1>2, <1>3, <1>4

-----------------------------------------------------------------------------
(* LioSync *)

\* The scan made ready for matching, and what it does to the mean duration.
LEMMA PushedType ==
  ASSUME TypeOK, lidar_buffer # <<>>, Len(time_buffer) > 0
  PROVE  /\ Pushed.meas \in [lidar : Scan, beg : Int, end : Int, imu : Seq(Int)]
         /\ Pushed.num \in Nat /\ Pushed.total \in Nat
<1> DEFINE scan == Head(lidar_buffer)
           beg == Head(time_buffer)
           dur == IF TooShort(scan) THEN MeanScanTime ELSE scan.offset
<1>1. scan \in Scan /\ beg \in Int
  BY DEF TypeOK
<1>2. scan.offset \in Nat
  BY <1>1 DEF Scan
<1>3. MeanScanTime \in Int
  BY DEF TypeOK, MeanScanTime
<1>4. dur \in Int
  BY <1>2, <1>3
<1>5. NewTotal(scan) \in Nat
  <2> HIDE DEF scan
  <2> QED BY <1>2 DEF NewTotal, TypeOK
<1>6. CASE lidar_pushed
  BY <1>6 DEF Pushed, TypeOK
<1>7. CASE ~lidar_pushed
  <2>1. Pushed.meas = [meas EXCEPT !.lidar = scan, !.beg = beg, !.end = beg + dur]
    BY <1>7 DEF Pushed
  <2>2. beg + dur \in Int
    BY <1>1, <1>4
  <2>3. Pushed.num \in Nat /\ Pushed.total \in Nat
    BY <1>5, <1>7 DEF Pushed, TypeOK
  <2> HIDE DEF scan, beg, dur
  <2>4. Pushed.meas \in [lidar : Scan, beg : Int, end : Int, imu : Seq(Int)]
    BY <1>1, <2>1, <2>2 DEF TypeOK
  <2> QED BY <2>3, <2>4
<1> QED BY <1>6, <1>7 DEF TypeOK

LEMMA InitInv == Init => IndInv
<1> SUFFICES ASSUME Init PROVE IndInv
  OBVIOUS
<1> USE DEF Init
<1>1. TypeOK
  <2>1. NoScan \in Scan
    BY DEF NoScan, Scan
  <2>2. meas \in [lidar : Scan, beg : Int, end : Int, imu : Seq(Int)]
    <3>1. <<>> \in Seq(Int)
      OBVIOUS
    <3> QED BY <2>1, <3>1
  <2>3. registered \in [cloud : Scan, scan : Scan]
    BY <2>1
  <2>4. lidar_buffer \in Seq(Scan) /\ time_buffer \in Seq(Int) /\ imu_buffer \in Seq(Int)
    OBVIOUS
  <2>5. accidents \in SUBSET {"lidarBack", "imuBack", "junk"}
    OBVIOUS
  <2>6. last_lidar_end_time_ \in Int
    BY JunkAssumption
  <2>7. /\ last_timestamp_lidar \in Int /\ last_timestamp_imu \in Int
        /\ scan_count \in Nat /\ imu_count \in Nat /\ timediff \in Int
        /\ scan_num \in Nat /\ scan_total \in Nat
        /\ init_iter_num \in Nat /\ last_imu_ \in Int /\ handed_end \in Int
        /\ clock \in Int
    OBVIOUS
  <2>8. /\ is_first_lidar \in BOOLEAN /\ timediff_set_flg \in BOOLEAN
        /\ lidar_pushed \in BOOLEAN /\ flg_first_scan \in BOOLEAN
        /\ imu_need_init_ \in BOOLEAN /\ map_built \in BOOLEAN
        /\ feats_undistort \in Scan
    BY <2>1
  <2> HIDE DEF Init
  <2> QED BY <2>2, <2>3, <2>4, <2>5, <2>6, <2>7, <2>8 DEF TypeOK
<1>2. TimesSuffice /\ BuffersInStep /\ ImuInOrder
  BY DEF TimesSuffice, BuffersInStep, ImuInOrder
<1>3. NoScanLost
  BY DEF NoScanLost, NoScan
<1>4. ImuPastEnd /\ ImuComplete /\ ImuUpToEnd
  BY DEF ImuPastEnd, ImuComplete, ImuUpToEnd
<1> QED BY <1>1, <1>2, <1>3, <1>4 DEF IndInv

\* A scan that comes in goes to the end of both buffers.
LEMMA ReceiveScanInv == IndInv /\ ReceiveScan => IndInv'
<1> SUFFICES ASSUME IndInv, ReceiveScan PROVE IndInv'
  OBVIOUS
<1> USE DEF IndInv
<1>1. PICK stamp \in ScanStamps, offset \in Offsets, size \in Sizes :
        PclCbk([id |-> scan_count', stamp |-> stamp, offset |-> offset,
                size |-> size])
  BY DEF ReceiveScan
<1> DEFINE scan == [id |-> scan_count', stamp |-> stamp, offset |-> offset,
                    size |-> size]
           back == ~is_first_lidar /\ stamp < last_timestamp_lidar
<1>2. scan \in Scan /\ scan.id = scan_count + 1 /\ scan.stamp = stamp /\ stamp \in Int
  BY StampsAssumption, OffsetsAssumption, SizesAssumption
     DEF ReceiveScan, Scan, TypeOK
<1>3. scan_count' = scan_count + 1 /\ scan_count \in Nat
  BY DEF ReceiveScan, TypeOK
<1>4. UNCHANGED <<imu_count, syncVars, procVars, handed_end, imu_buffer,
                  last_timestamp_imu>>
  BY <1>1 DEF ReceiveScan, PclCbk
<1>5. /\ lidar_buffer' = Append(IF back THEN <<>> ELSE lidar_buffer, scan)
      /\ time_buffer' = Append(time_buffer, stamp)
      /\ accidents' = IF back THEN accidents \cup {"lidarBack"} ELSE accidents
  BY <1>1, <1>2 DEF PclCbk, TimesWith
<1>6. TypeOK'
  <2>1. lidar_buffer' \in Seq(Scan) /\ time_buffer' \in Seq(Int)
    BY <1>2, <1>5 DEF TypeOK
  <2>2. /\ last_timestamp_lidar' \in Int /\ is_first_lidar' \in BOOLEAN
        /\ timediff_set_flg' \in BOOLEAN /\ timediff' \in Int
    <3>1. /\ last_timestamp_lidar' = stamp
          /\ is_first_lidar' = FALSE
          /\ timediff_set_flg' = (timediff_set_flg \/ SyncsNow(stamp))
          /\ timediff' = IF SyncsNow(stamp)
                           THEN stamp + 1 - last_timestamp_imu ELSE timediff
      BY <1>1 DEF PclCbk
    <3>2. SyncsNow(stamp) \in BOOLEAN
      BY DEF SyncsNow
    <3>3. last_timestamp_imu \in Int /\ timediff \in Int
      BY DEF TypeOK
    <3>4. timediff_set_flg \in BOOLEAN
      BY DEF TypeOK
    <3>5. timediff_set_flg' \in BOOLEAN
      BY <3>1, <3>2, <3>4
    <3>6. timediff' \in Int
      <4>1. CASE SyncsNow(stamp)
        BY <1>2, <3>1, <3>3, <4>1
      <4>2. CASE ~SyncsNow(stamp)
        BY <3>1, <3>3, <4>2
      <4> QED BY <4>1, <4>2
    <3> QED BY <1>2, <3>1, <3>5, <3>6
  <2>3. accidents' \in SUBSET {"lidarBack", "imuBack", "junk"}
    BY <1>5 DEF TypeOK
  <2> QED BY <1>3, <1>4, <2>1, <2>2, <2>3 DEF TypeOK, syncVars, procVars
<1> HIDE DEF scan, back
<1>7. TimesSuffice'
  BY <1>2, <1>5 DEF TimesSuffice, TypeOK
<1>8. BuffersInStep'
  <2>1. CASE "lidarBack" \in accidents'
    BY <2>1 DEF BuffersInStep
  <2>2. CASE "lidarBack" \notin accidents'
    <3>1. /\ ~back /\ "lidarBack" \notin accidents
          /\ lidar_buffer' = Append(lidar_buffer, scan)
      BY <1>5, <2>2
    <3>2. Len(time_buffer) = Len(lidar_buffer)
      BY <3>1 DEF BuffersInStep
    <3>3. Len(time_buffer') = Len(lidar_buffer')
      BY <1>2, <1>5, <3>1, <3>2 DEF TypeOK
    <3>4. ASSUME NEW p \in DOMAIN lidar_buffer'
          PROVE  time_buffer'[p] = lidar_buffer'[p].stamp
      <4>1. CASE p \in DOMAIN lidar_buffer
        BY <1>2, <1>5, <3>1, <3>2, <4>1 DEF BuffersInStep, TypeOK
      <4>2. CASE p = Len(lidar_buffer) + 1
        <5>1. lidar_buffer'[p] = scan
          BY <1>2, <3>1, <4>2 DEF TypeOK
        <5>2. time_buffer'[p] = stamp
          BY <1>2, <1>5, <3>2, <4>2 DEF TypeOK
        <5> QED BY <1>2, <5>1, <5>2
      <4> QED BY <1>2, <3>1, <4>1, <4>2 DEF TypeOK
    <3>5. lidar_pushed' => /\ lidar_buffer' # <<>>
                           /\ meas'.lidar = lidar_buffer'[1]
                           /\ meas'.beg = time_buffer'[1]
      <4> SUFFICES ASSUME lidar_pushed
                   PROVE  /\ lidar_buffer' # <<>>
                          /\ meas.lidar = lidar_buffer'[1]
                          /\ meas.beg = time_buffer'[1]
        BY <1>4 DEF syncVars
      <4>1. /\ lidar_buffer # <<>>
            /\ meas.lidar = lidar_buffer[1] /\ meas.beg = time_buffer[1]
        BY <3>1 DEF BuffersInStep
      <4>2. Len(lidar_buffer) > 0
        BY <4>1 DEF TypeOK
      <4>3. lidar_buffer'[1] = lidar_buffer[1]
        BY <1>2, <3>1, <4>2 DEF TypeOK
      <4>5. Len(lidar_buffer') > 0
        BY <1>2, <3>1 DEF TypeOK
      <4>4. time_buffer'[1] = time_buffer[1]
        BY <1>2, <1>5, <3>2, <4>2 DEF TypeOK
      <4> QED BY <4>1, <4>3, <4>4, <4>5
    <3> QED BY <3>3, <3>4, <3>5 DEF BuffersInStep
  <2> QED BY <2>1, <2>2
<1>9. NoScanLost'
  <2>1. CASE "lidarBack" \in accidents'
    BY <2>1 DEF NoScanLost
  <2>2. CASE "lidarBack" \notin accidents'
    <3>1. /\ ~back /\ "lidarBack" \notin accidents
          /\ lidar_buffer' = Append(lidar_buffer, scan)
      BY <1>5, <2>2
    <3>2. Len(lidar_buffer') = Len(lidar_buffer) + 1
      BY <1>2, <3>1 DEF TypeOK
    <3>3. ASSUME NEW p \in DOMAIN lidar_buffer'
          PROVE  lidar_buffer'[p].id = scan_count' - Len(lidar_buffer') + p
      <4>1. CASE p \in DOMAIN lidar_buffer
        <5>1. lidar_buffer'[p] = lidar_buffer[p]
          BY <1>2, <3>1, <4>1 DEF TypeOK
        <5> QED BY <1>3, <3>1, <3>2, <4>1, <5>1 DEF NoScanLost, TypeOK
      <4>2. CASE p = Len(lidar_buffer) + 1
        BY <1>2, <1>3, <3>1, <3>2, <4>2 DEF TypeOK
      <4> QED BY <1>2, <3>1, <4>1, <4>2 DEF TypeOK
    <3>4. ~lidar_pushed' => meas'.lidar.id = scan_count' - Len(lidar_buffer')
      BY <1>3, <1>4, <3>1, <3>2 DEF NoScanLost, TypeOK, syncVars
    <3> QED BY <3>3, <3>4 DEF NoScanLost
  <2> QED BY <2>1, <2>2
<1>10. ImuInOrder' /\ ImuUpToEnd'
  BY <1>4 DEF ImuInOrder, ImuUpToEnd, syncVars
<1>11. ImuPastEnd' /\ ImuComplete'
  BY <1>4, <1>5 DEF ImuPastEnd, ImuComplete, procVars
<1> QED BY <1>6, <1>7, <1>8, <1>9, <1>10, <1>11

\* A reading that comes in is the newest one buffered.
LEMMA ReceiveImuInv == IndInv /\ ReceiveImu => IndInv'
<1> SUFFICES ASSUME IndInv, ReceiveImu PROVE IndInv'
  OBVIOUS
<1> USE DEF IndInv
<1>1. PICK raw \in ImuStamps : ImuCbk(raw)
  BY DEF ReceiveImu
<1> DEFINE stamp == Restamped(raw)
           back == stamp < last_timestamp_imu
<1>2. stamp \in Int
  BY StampsAssumption, NumbersAssumption DEF Restamped, TypeOK
<1>3. UNCHANGED <<lidar_buffer, time_buffer, last_timestamp_lidar,
                  is_first_lidar, scan_count, timediff, timediff_set_flg,
                  syncVars, procVars, handed_end>>
  BY DEF ReceiveImu
<1>4. /\ imu_buffer' = Append(IF back THEN <<>> ELSE imu_buffer, stamp)
      /\ accidents' = IF back THEN accidents \cup {"imuBack"} ELSE accidents
      /\ last_timestamp_imu' = stamp
  BY <1>1 DEF ImuCbk, ImusKept
<1> HIDE DEF stamp
<1>5. TypeOK'
  <2>1. imu_buffer' \in Seq(Int) /\ last_timestamp_imu' \in Int
    BY <1>2, <1>4 DEF TypeOK
  <2>2. imu_count' \in Nat
    BY DEF ReceiveImu, TypeOK
  <2>3. accidents' \in SUBSET {"lidarBack", "imuBack", "junk"}
    BY <1>4 DEF TypeOK
  <2> QED BY <1>3, <2>1, <2>2, <2>3 DEF TypeOK, syncVars, procVars
<1>6. TimesSuffice' /\ BuffersInStep' /\ NoScanLost'
  BY <1>3, <1>4 DEF TimesSuffice, BuffersInStep, NoScanLost, syncVars
<1>7. ImuInOrder'
  <2>1. CASE back
    BY <1>2, <1>4, <2>1 DEF ImuInOrder
  <2>2. CASE ~back
    <3>1. imu_buffer' = Append(imu_buffer, stamp)
      BY <1>4, <2>2
    <3>2. stamp >= last_timestamp_imu
      BY <1>2, <2>2 DEF TypeOK
    <3>3. \A p \in DOMAIN imu_buffer : imu_buffer[p] <= stamp
      BY <1>2, <3>2 DEF ImuInOrder, TypeOK
    <3>4. /\ DOMAIN imu_buffer = 1..Len(imu_buffer)
          /\ DOMAIN imu_buffer' = 1..(Len(imu_buffer) + 1)
          /\ Len(imu_buffer) \in Nat
          /\ \A p \in DOMAIN imu_buffer : imu_buffer'[p] = imu_buffer[p]
          /\ imu_buffer'[Len(imu_buffer) + 1] = stamp
      BY <1>2, <3>1 DEF TypeOK
    <3>5. ASSUME NEW p \in DOMAIN imu_buffer'
          PROVE  imu_buffer'[p] <= stamp
      <4>1. CASE p \in DOMAIN imu_buffer
        BY <3>3, <3>4, <4>1
      <4>2. CASE p = Len(imu_buffer) + 1
        BY <1>2, <3>4, <4>2
      <4> QED BY <3>4, <4>1, <4>2
    <3>6. ASSUME NEW p \in DOMAIN imu_buffer', NEW q \in DOMAIN imu_buffer',
                 p <= q
          PROVE  imu_buffer'[p] <= imu_buffer'[q]
      <4>1. CASE q \in DOMAIN imu_buffer
        <5>1. p \in DOMAIN imu_buffer
          BY <3>4, <3>6, <4>1
        <5> QED BY <3>4, <3>6, <4>1, <5>1 DEF ImuInOrder
      <4>2. CASE q = Len(imu_buffer) + 1
        BY <3>4, <3>5, <4>2
      <4> QED BY <3>4, <4>1, <4>2
    <3> QED BY <1>4, <3>5, <3>6 DEF ImuInOrder
  <2> QED BY <2>1, <2>2
<1>8. ImuPastEnd'
  <2>1. CASE back
    BY <1>4, <2>1 DEF ImuPastEnd
  <2>2. CASE ~back
    BY <1>2, <1>3, <1>4, <2>2 DEF ImuPastEnd, procVars, TypeOK
  <2> QED BY <2>1, <2>2
<1>9. ImuComplete'
  <2>1. CASE back
    BY <1>4, <2>1 DEF ImuComplete
  <2>2. CASE ~back
    <3>1. imu_buffer' = Append(imu_buffer, stamp) /\ accidents' = accidents
      BY <1>4, <2>2
    <3>2. SUFFICES ASSUME "imuBack" \notin accidents, ~flg_first_scan,
                          NEW p \in DOMAIN imu_buffer'
                   PROVE  imu_buffer'[p] >= handed_end
      BY <1>3, <3>1 DEF ImuComplete, procVars
    <3>3. stamp >= handed_end
      BY <1>2, <2>2, <3>2 DEF ImuPastEnd, TypeOK
    <3>4. /\ imu_buffer \in Seq(Int)
          /\ DOMAIN imu_buffer' = DOMAIN imu_buffer \cup {Len(imu_buffer) + 1}
          /\ \A k \in DOMAIN imu_buffer : imu_buffer'[k] = imu_buffer[k]
          /\ imu_buffer'[Len(imu_buffer) + 1] = stamp
      BY <1>2, <3>1 DEF TypeOK
    <3>5. \A k \in DOMAIN imu_buffer : imu_buffer[k] >= handed_end
      BY <3>2 DEF ImuComplete
    <3> QED BY <3>2, <3>3, <3>4, <3>5
  <2> QED BY <2>1, <2>2
<1>10. ImuUpToEnd'
  BY <1>3 DEF ImuUpToEnd, syncVars
<1> QED BY <1>5, <1>6, <1>7, <1>8, <1>9, <1>10

\* The scan made ready is the one at the front, with its time.
LEMMA PushedFront ==
  ASSUME TypeOK, TimesSuffice, BuffersInStep, lidar_buffer # <<>>,
         "lidarBack" \notin accidents
  PROVE  /\ Pushed.meas.lidar = lidar_buffer[1]
         /\ Pushed.meas.beg = time_buffer[1]
<1>1. CASE lidar_pushed
  BY <1>1 DEF Pushed, BuffersInStep
<1>2. CASE ~lidar_pushed
  <2>1. Head(lidar_buffer) = lidar_buffer[1]
    BY DEF TypeOK
  <2>2. Len(lidar_buffer) > 0
    BY DEF TypeOK
  <2>3. Len(time_buffer) > 0
    BY <2>2 DEF TimesSuffice, TypeOK
  <2>4. Head(time_buffer) = time_buffer[1]
    BY <2>3 DEF TypeOK
  <2> QED BY <1>2, <2>1, <2>4 DEF Pushed, TypeOK
<1> QED BY <1>1, <1>2 DEF TypeOK

LEMMA WaitForImuInv == IndInv /\ WaitForImu => IndInv'
<1> SUFFICES ASSUME IndInv, WaitForImu PROVE IndInv'
  OBVIOUS
<1> USE DEF IndInv
<1>1. /\ lidar_buffer # <<>>
      /\ lidar_pushed' = TRUE /\ meas' = Pushed.meas
      /\ scan_num' = Pushed.num /\ scan_total' = Pushed.total
      /\ UNCHANGED <<inVars, procVars, handed_end, accidents>>
  BY DEF WaitForImu
<1>2. Len(lidar_buffer) > 0 /\ Len(time_buffer) > 0
  BY <1>1 DEF TimesSuffice, TypeOK
<1>3. TypeOK'
  BY <1>1, <1>2, PushedType DEF TypeOK, inVars, procVars
<1>4. TimesSuffice'
  BY <1>1 DEF TimesSuffice, inVars
<1>5. BuffersInStep'
  BY <1>1, PushedFront DEF BuffersInStep, inVars
<1>6. NoScanLost'
  BY <1>1 DEF NoScanLost, inVars
<1>7. ImuInOrder' /\ ImuPastEnd' /\ ImuComplete'
  BY <1>1 DEF ImuInOrder, ImuPastEnd, ImuComplete, inVars, procVars
<1>8. ImuUpToEnd'
  BY <1>1 DEF ImuUpToEnd
<1> QED BY <1>3, <1>4, <1>5, <1>6, <1>7, <1>8

\* The loop of the forward propagation goes through its readings one by one.
LEMMA ClockAfterSteps ==
  ASSUME TypeOK, NEW imu \in Seq(Int)
  PROVE  \E after \in [0..Len(imu) -> Int] :
           /\ after[0] = clock
           /\ \A k \in 1..Len(imu) : after[k] = after[k - 1] + Propagated(imu, k)
           /\ ClockAfter(imu) = after[Len(imu)]
<1> DEFINE total == Len(imu)
           moved(k) == Propagated(imu, k)
           Loop(g) == [k \in 0..total |-> IF k = 0 THEN clock ELSE g[k - 1] + moved(k)]
           after == CHOOSE g : g = Loop(g)
<1>1. total \in Nat /\ clock \in Int
  BY DEF TypeOK
<1>2. \A k \in 1..total : moved(k) \in Int
  BY DEF Propagated, TypeOK
<1>3. ClockAfter(imu) = after[total]
  BY DEF ClockAfter
<1> HIDE DEF total, moved
<1>4. \E g \in [0..total -> Int] : g = Loop(g)
  <2> DEFINE Reaches(k) == \E g \in [0..k -> Int] :
                          g[0] = clock /\ \A q \in 1..k : g[q] = g[q - 1] + moved(q)
             S == {k \in Nat : k <= total => Reaches(k)}
  <2>1. 0 \in S
    <3>1. [q \in 0..0 |-> clock] \in [0..0 -> Int]
      BY <1>1
    <3>2. Reaches(0)
      <4>1. [q \in 0..0 |-> clock][0] = clock /\ \A q \in 1..0 : FALSE
        OBVIOUS
      <4> QED BY <3>1, <4>1
    <3> QED BY <3>2
  <2>2. ASSUME NEW k \in S PROVE k + 1 \in S
    <3>1. k \in Nat /\ k + 1 \in Nat
      OBVIOUS
    <3>2. SUFFICES ASSUME k + 1 <= total PROVE Reaches(k + 1)
      BY <3>1
    <3>3. k <= total /\ k + 1 \in 1..total
      BY <1>1, <3>1, <3>2
    <3>4. PICK g \in [0..k -> Int] :
            g[0] = clock /\ \A q \in 1..k : g[q] = g[q - 1] + moved(q)
      BY <3>3
    <3> DEFINE h == [q \in 0..k + 1 |-> IF q = k + 1 THEN g[k] + moved(k + 1) ELSE g[q]]
    <3>5. h \in [0..k + 1 -> Int]
      BY <1>2, <3>1, <3>3
    <3>6. h[0] = clock
      BY <3>1, <3>4
    <3>7. ASSUME NEW q \in 1..k + 1 PROVE h[q] = h[q - 1] + moved(q)
      <4>1. CASE q = k + 1
        BY <3>1, <4>1
      <4>2. CASE q # k + 1
        BY <3>1, <3>4, <4>2
      <4> QED BY <4>1, <4>2
    <3> HIDE DEF h
    <3> QED BY <3>5, <3>6, <3>7
  <2>3. S = Nat
    <3>1. S \subseteq Nat
      OBVIOUS
    <3> HIDE DEF S
    <3> QED BY <2>1, <2>2, <3>1, Induction
  <2>4. PICK g \in [0..total -> Int] :
          g[0] = clock /\ \A q \in 1..total : g[q] = g[q - 1] + moved(q)
    <3>1. total \in S
      BY <1>1, <2>3
    <3>2. total <= total
      BY <1>1
    <3> QED BY <3>1, <3>2
  <2>5. g = Loop(g)
    <3>1. \A k \in 0..total : g[k] = IF k = 0 THEN clock ELSE g[k - 1] + moved(k)
      BY <1>1, <2>4
    <3> QED BY <3>1
  <2> QED BY <2>5
<1>5. after = Loop(after)
  BY <1>4
<1> HIDE DEF after
<1>6. DOMAIN after = 0..total /\ after[0] = clock
      /\ \A k \in 1..total : after[k] = after[k - 1] + moved(k)
  BY <1>1, <1>5
<1>7. after \in [0..total -> Int]
  <2> DEFINE S == {k \in Nat : k <= total => after[k] \in Int}
  <2>1. 0 \in S
    BY <1>1, <1>6
  <2>2. ASSUME NEW k \in S PROVE k + 1 \in S
    <3>1. SUFFICES ASSUME k + 1 <= total PROVE after[k + 1] \in Int
      OBVIOUS
    <3>2. k <= total /\ k + 1 \in 1..total /\ (k + 1) - 1 = k
      BY <1>1, <3>1
    <3> QED BY <1>2, <1>6, <3>2
  <2>3. S = Nat
    <3>1. S \subseteq Nat
      OBVIOUS
    <3> HIDE DEF S
    <3> QED BY <2>1, <2>2, <3>1, Induction
  <2>4. \A k \in 0..total : after[k] \in Int
    BY <1>1, <2>3
  <2> QED BY <1>5, <2>4
<1> QED BY <1>3, <1>6, <1>7 DEF total, moved

\* Whatever the node does with a scan and its readings, types are kept.
LEMMA HandleType ==
  ASSUME TypeOK,
         NEW m \in [lidar : Scan, beg : Int, end : Int, imu : Seq(Int)],
         Handle(m)
  PROVE  /\ flg_first_scan' = FALSE
         /\ imu_need_init_' \in BOOLEAN /\ init_iter_num' \in Nat
         /\ last_imu_' \in Int /\ last_lidar_end_time_' \in Int
         /\ feats_undistort' \in Scan
         /\ map_built' \in BOOLEAN /\ clock' \in Int
         /\ registered' \in [cloud : Scan, scan : Scan]
<1>1. CASE flg_first_scan
  BY <1>1 DEF Handle, TypeOK
<1>2. CASE ~flg_first_scan
  <2>1. Process(m) /\ Register(m) /\ flg_first_scan' = FALSE
    BY <1>2 DEF Handle, TypeOK
  <2>2. /\ imu_need_init_' \in BOOLEAN /\ init_iter_num' \in Nat
        /\ last_imu_' \in Int /\ last_lidar_end_time_' \in Int
        /\ feats_undistort' \in Scan /\ clock' \in Int
    <3>1. CASE m.imu = <<>> /\ UNCHANGED <<imu_need_init_, init_iter_num,
                 last_imu_, last_lidar_end_time_, feats_undistort, clock>>
      BY <3>1 DEF TypeOK
    <3>2. CASE m.imu # <<>> /\ imu_need_init_ /\ IMU_init(m)
      <4>1. Len(m.imu) \in Nat /\ m.imu[Len(m.imu)] \in Int
        BY <3>2
      <4>2. imu_need_init_' \in BOOLEAN
        BY <3>2 DEF IMU_init
      <4>3. init_iter_num' \in Nat /\ last_imu_' \in Int
        BY <3>2, <4>1 DEF IMU_init, TypeOK
      <4> QED BY <3>2, <4>2, <4>3 DEF IMU_init, TypeOK
    <3>3. CASE m.imu # <<>> /\ ~imu_need_init_ /\ UndistortPcl(m)
      <4>1. m.imu[Len(m.imu)] \in Int /\ m.end \in Int /\ m.lidar \in Scan
        BY <3>3
      <4>2. ClockAfter(m.imu) \in Int
        <5>1. m.imu \in Seq(Int) /\ Len(m.imu) \in Nat
          OBVIOUS
        <5> QED BY <5>1, ClockAfterSteps
      <4>3. clock' \in Int
        BY <3>3, <4>1, <4>2 DEF UndistortPcl, ToFrameEnd, Abs
      <4> QED BY <3>3, <4>1, <4>3 DEF UndistortPcl, TypeOK
    <3> QED BY <2>1, <3>1, <3>2, <3>3 DEF Process
  <2>3. map_built' \in BOOLEAN
    BY <2>1 DEF Register
  <2>4. registered' \in [cloud : Scan, scan : Scan]
    BY <2>1, <2>2 DEF Register, TypeOK
  <2> QED BY <2>1, <2>2, <2>3, <2>4
<1> QED BY <1>1, <1>2 DEF TypeOK

\* The readings taken are those up to the end of the scan, and only those.
LEMMA TakenReadings ==
  ASSUME imu_buffer \in Seq(Int), ImuInOrder, NEW end \in Int,
         NEW k \in 0..Len(imu_buffer), TakesExactly(k, end)
  PROVE  /\ \A p \in 1..k : imu_buffer[p] <= end
         /\ \A p \in (k + 1)..Len(imu_buffer) : imu_buffer[p] >= end
<1>1. \A p \in 1..k : imu_buffer[p] <= end
  BY DEF TakesExactly, Takes
<1>2. ASSUME NEW p \in (k + 1)..Len(imu_buffer)
      PROVE  imu_buffer[p] >= end
  <2>1. ~Takes(k + 1, end) /\ k + 1 \in DOMAIN imu_buffer
    BY DEF TakesExactly
  <2>2. imu_buffer[k + 1] >= end
    <3>1. CASE k = 0
      BY <2>1, <3>1 DEF Takes
    <3>2. CASE k # 0
      <4>1. k \in DOMAIN imu_buffer
        BY <3>2
      <4>2. imu_buffer[k] <= imu_buffer[k + 1]
        BY <2>1, <4>1 DEF ImuInOrder
      <4>3. imu_buffer[k] \in Int /\ imu_buffer[k + 1] \in Int
        BY <2>1, <4>1
      <4>4. imu_buffer[k + 1] > end \/ imu_buffer[k] >= end
        BY <2>1, <3>2, <4>3 DEF Takes
      <4> QED BY <4>2, <4>3, <4>4
    <3> QED BY <3>1, <3>2
  <2>3. imu_buffer[k + 1] <= imu_buffer[p]
    BY <2>1 DEF ImuInOrder
  <2> QED BY <2>1, <2>2, <2>3
<1> QED BY <1>1, <1>2

\* A scan is handed out with its readings.
LEMMA TimerInv == IndInv /\ Timer => IndInv'
<1> SUFFICES ASSUME IndInv, Timer PROVE IndInv'
  OBVIOUS
<1> USE DEF IndInv
<1>1. PICK k \in 0..Len(imu_buffer) :
        LET m == [Pushed.meas EXCEPT !.imu = SubSeq(imu_buffer, 1, k)]
        IN  /\ TakesExactly(k, m.end)
            /\ imu_buffer' = SubSeq(imu_buffer, k + 1, Len(imu_buffer))
            /\ meas' = m
            /\ handed_end' = m.end
            /\ Handle(m)
  BY DEF Timer
<1> DEFINE m == [Pushed.meas EXCEPT !.imu = SubSeq(imu_buffer, 1, k)]
<1>2. /\ lidar_buffer # <<>> /\ ImuReached
      /\ scan_num' = Pushed.num /\ scan_total' = Pushed.total
      /\ lidar_buffer' = Tail(lidar_buffer) /\ time_buffer' = Tail(time_buffer)
      /\ lidar_pushed' = FALSE
      /\ UNCHANGED <<last_timestamp_lidar, last_timestamp_imu, is_first_lidar,
                     scan_count, imu_count, timediff, timediff_set_flg,
                     accidents>>
  BY DEF Timer, PopFront
<1>3. Len(lidar_buffer) > 0 /\ Len(time_buffer) > 0
  BY <1>2 DEF TimesSuffice, TypeOK
<1>4. /\ Pushed.meas \in [lidar : Scan, beg : Int, end : Int, imu : Seq(Int)]
      /\ Pushed.num \in Nat /\ Pushed.total \in Nat
  BY <1>2, <1>3, PushedType
<1>5. /\ SubSeq(imu_buffer, 1, k) \in Seq(Int)
      /\ Len(SubSeq(imu_buffer, 1, k)) = k
      /\ \A p \in 1..k : SubSeq(imu_buffer, 1, k)[p] = imu_buffer[p]
  BY DEF TypeOK
<1>6. /\ m \in [lidar : Scan, beg : Int, end : Int, imu : Seq(Int)]
      /\ m.lidar = Pushed.meas.lidar /\ m.beg = Pushed.meas.beg
      /\ m.end = Pushed.meas.end /\ m.imu = SubSeq(imu_buffer, 1, k)
  BY <1>4, <1>5
<1>7. /\ TakesExactly(k, m.end) /\ meas' = m /\ handed_end' = m.end
      /\ imu_buffer' = SubSeq(imu_buffer, k + 1, Len(imu_buffer)) /\ Handle(m)
  BY <1>1
<1> HIDE DEF m
<1>8. flg_first_scan' = FALSE
  BY <1>6, <1>7, HandleType
<1>9. TypeOK'
  <2>1. lidar_buffer' \in Seq(Scan)
    BY <1>2, <1>3 DEF TypeOK
  <2>2. time_buffer' \in Seq(Int)
    BY <1>2, <1>3 DEF TypeOK
  <2>3. imu_buffer' \in Seq(Int)
    BY <1>7 DEF TypeOK
  <2>4. handed_end' \in Int /\ meas' \in [lidar : Scan, beg : Int, end : Int,
                                           imu : Seq(Int)]
    BY <1>6, <1>7
  <2>5. /\ flg_first_scan' \in BOOLEAN
        /\ imu_need_init_' \in BOOLEAN /\ init_iter_num' \in Nat
        /\ last_imu_' \in Int /\ last_lidar_end_time_' \in Int
        /\ feats_undistort' \in Scan
        /\ map_built' \in BOOLEAN /\ clock' \in Int
        /\ registered' \in [cloud : Scan, scan : Scan]
    BY <1>6, <1>7, HandleType
  <2> QED BY <1>2, <1>4, <2>1, <2>2, <2>3, <2>4, <2>5 DEF TypeOK
<1>10. /\ Len(lidar_buffer') = Len(lidar_buffer) - 1
       /\ \A p \in DOMAIN lidar_buffer' : lidar_buffer'[p] = lidar_buffer[p + 1]
       /\ \A p \in DOMAIN lidar_buffer' : p + 1 \in DOMAIN lidar_buffer
  BY <1>2, <1>3 DEF TypeOK
<1>11. /\ Len(time_buffer') = Len(time_buffer) - 1
       /\ \A p \in DOMAIN time_buffer' : time_buffer'[p] = time_buffer[p + 1]
       /\ \A p \in DOMAIN time_buffer' : p + 1 \in DOMAIN time_buffer
  BY <1>2, <1>3 DEF TypeOK
<1>12. TimesSuffice'
  BY <1>10, <1>11 DEF TimesSuffice, TypeOK
<1>13. BuffersInStep'
  <2>1. CASE "lidarBack" \notin accidents
    <3>1. Len(time_buffer') = Len(lidar_buffer')
      BY <1>10, <1>11, <2>1 DEF BuffersInStep, TypeOK
    <3>2. DOMAIN lidar_buffer' = DOMAIN time_buffer'
      BY <1>9, <3>1 DEF TypeOK
    <3>3. \A p \in DOMAIN lidar_buffer' :
            time_buffer'[p] = lidar_buffer'[p].stamp
      BY <1>10, <1>11, <2>1, <3>2 DEF BuffersInStep
    <3> QED BY <1>2, <3>1, <3>3 DEF BuffersInStep
  <2>2. CASE "lidarBack" \in accidents
    BY <1>2, <2>2 DEF BuffersInStep
  <2> QED BY <2>1, <2>2
<1>14. NoScanLost'
  <2>1. CASE "lidarBack" \notin accidents
    <3>1. lidar_buffer[1].id = scan_count - Len(lidar_buffer) + 1
      BY <1>3, <2>1 DEF NoScanLost, TypeOK
    <3>2. meas'.lidar = lidar_buffer[1]
      BY <1>2, <1>6, <1>7, <2>1, PushedFront
    <3>3. scan_count' = scan_count /\ scan_count \in Nat /\ Len(lidar_buffer) \in Nat
      BY <1>2 DEF TypeOK
    <3>4. meas'.lidar.id = scan_count' - Len(lidar_buffer')
      BY <1>10, <3>1, <3>2, <3>3
    <3>5. ASSUME NEW p \in DOMAIN lidar_buffer'
          PROVE  lidar_buffer'[p].id = scan_count' - Len(lidar_buffer') + p
      <4>1. p \in Int
        BY <1>2, <1>3 DEF TypeOK
      <4>2. lidar_buffer[p + 1].id = scan_count - Len(lidar_buffer) + (p + 1)
        BY <1>10, <2>1 DEF NoScanLost
      <4> QED BY <1>10, <3>3, <4>1, <4>2
    <3> QED BY <3>4, <3>5 DEF NoScanLost
  <2>2. CASE "lidarBack" \in accidents
    BY <1>2, <2>2 DEF NoScanLost
  <2> QED BY <2>1, <2>2
<1>15. /\ \A p \in 1..k : imu_buffer[p] <= m.end
       /\ \A p \in (k + 1)..Len(imu_buffer) : imu_buffer[p] >= m.end
  BY <1>6, <1>7, TakenReadings DEF TypeOK
<1>16. /\ Len(imu_buffer') = Len(imu_buffer) - k
       /\ DOMAIN imu_buffer' = 1..(Len(imu_buffer) - k)
       /\ \A p \in DOMAIN imu_buffer' : imu_buffer'[p] = imu_buffer[k + p]
  BY <1>7 DEF TypeOK
<1>17. ImuInOrder'
  <2>1. \A p \in DOMAIN imu_buffer' : k + p \in DOMAIN imu_buffer
    BY <1>16 DEF TypeOK
  <2>2. \A p, q \in DOMAIN imu_buffer' : p <= q => k + p <= k + q
    BY <1>16 DEF TypeOK
  <2> QED BY <1>2, <1>16, <2>1, <2>2 DEF ImuInOrder
<1>18. ImuPastEnd'
  BY <1>2, <1>6, <1>7 DEF ImuPastEnd, ImuReached
<1>19. ImuComplete'
  <2>1. \A p \in DOMAIN imu_buffer' : k + p \in (k + 1)..Len(imu_buffer)
    BY <1>16 DEF TypeOK
  <2> QED BY <1>7, <1>15, <1>16, <2>1 DEF ImuComplete
<1>20. ImuUpToEnd'
  <2>1. Len(meas'.imu) = k /\ DOMAIN meas'.imu = 1..k
    BY <1>5, <1>6, <1>7
  <2>2. \A p \in 1..k : meas'.imu[p] = imu_buffer[p] /\ p \in DOMAIN imu_buffer
    BY <1>5, <1>6, <1>7 DEF TypeOK
  <2> QED BY <1>7, <1>15, <2>1, <2>2 DEF ImuUpToEnd, ImuInOrder
<1> QED BY <1>9, <1>12, <1>13, <1>14, <1>17, <1>18, <1>19, <1>20

\* The invariant of the node's buffers.
THEOREM Invariance == Spec => []IndInv
<1>1. IndInv /\ UNCHANGED vars => IndInv'
  BY DEF IndInv, vars, inVars, syncVars, procVars, TypeOK, TimesSuffice,
         BuffersInStep, NoScanLost, ImuInOrder, ImuPastEnd, ImuComplete,
         ImuUpToEnd
<1>2. IndInv /\ [Next]_vars => IndInv'
  BY <1>1, ReceiveScanInv, ReceiveImuInv, WaitForImuInv, TimerInv
     DEF Next, TimerIdle
<1> QED BY <1>2, InitInv, PTL DEF Spec

\* The globals and members of the node keep their types.
THEOREM TypeCorrect == Spec => []TypeOK
<1>1. IndInv => TypeOK
  BY DEF IndInv
<1> QED BY <1>1, Invariance, PTL

\* Without a lidar stamp that goes back, every buffered scan has its own time
\* and the scan being matched is the one that will be popped.
THEOREM BuffersStayInStep == Spec => []BuffersInStep
<1>1. IndInv => BuffersInStep
  BY DEF IndInv
<1> QED BY <1>1, Invariance, PTL

\* Without a lidar stamp that goes back, scans are handed out one after the
\* other and each of them once.
THEOREM EveryScanOnce == Spec => []NoScanLost
<1>1. IndInv => NoScanLost
  BY DEF IndInv
<1> QED BY <1>1, Invariance, PTL

\* No reading older than the end of a scan handed out is still to come.
THEOREM ReadingsComplete == Spec => []ImuComplete
<1>1. IndInv => ImuComplete
  BY DEF IndInv
<1> QED BY <1>1, Invariance, PTL

\* The readings handed out are in order and not younger than the scan's end.
THEOREM ReadingsUpToEnd == Spec => []ImuUpToEnd
<1>1. IndInv => ImuUpToEnd
  BY DEF IndInv
<1> QED BY <1>1, Invariance, PTL

\* Scans and their times stay in step and no scan is left out.
THEOREM ScansStayInStep == Spec => []ScansInStep
BY BuffersStayInStep, EveryScanOnce, PTL DEF ScansInStep

\* The readings that come with a scan are those up to its end.
THEOREM ReadingsExact == Spec => []ImuExact
BY ReadingsComplete, ReadingsUpToEnd, PTL DEF ImuExact

-----------------------------------------------------------------------------
(* The filter's time *)

\* The forward propagation ends at the last reading, from a state at the end
\* of the last scan or, before the first one, at the last reading.
LEMMA ClockAtReading ==
  ASSUME TypeOK, NEW imu \in Seq(Int), imu # <<>>,
         \A p \in DOMAIN imu : imu[p] >= last_lidar_end_time_,
         \/ clock = last_lidar_end_time_ /\ last_imu_ <= last_lidar_end_time_
         \/ clock = last_imu_ /\ last_imu_ >= last_lidar_end_time_
  PROVE  ClockAfter(imu) = imu[Len(imu)]
<1> DEFINE total == Len(imu)
           E == last_lidar_end_time_
<1>1. PICK after \in [0..total -> Int] :
        /\ after[0] = clock
        /\ \A k \in 1..total : after[k] = after[k - 1] + Propagated(imu, k)
        /\ ClockAfter(imu) = after[total]
  BY ClockAfterSteps
<1>2. total \in Nat /\ total >= 1 /\ DOMAIN imu = 1..total /\ E \in Int /\ last_imu_ \in Int
  BY DEF TypeOK
<1>3. \A k \in 1..total : imu[k] \in Int /\ imu[k] >= E
  BY <1>2
<1> HIDE DEF total, E
<1> DEFINE S == {k \in Nat : k + 1 <= total => after[k + 1] = imu[k + 1]}
<1>4. 0 \in S
  <2>1. 1 \in 1..total /\ after[1] = after[0] + Propagated(imu, 1)
    BY <1>1, <1>2
  <2>2. Propagated(imu, 1) = IF last_imu_ < E THEN imu[1] - E ELSE imu[1] - last_imu_
    BY <1>2, <1>3, <2>1 DEF Propagated, E
  <2>3. \/ clock = E /\ last_imu_ <= E
        \/ clock = last_imu_ /\ last_imu_ >= E
    BY DEF E
  <2> QED BY <1>1, <1>2, <1>3, <2>1, <2>2, <2>3
<1>5. ASSUME NEW k \in S PROVE k + 1 \in S
  <2>1. k \in Nat /\ k + 1 \in Nat
    OBVIOUS
  <2>2. SUFFICES ASSUME k + 2 <= total PROVE after[k + 2] = imu[k + 2]
    BY <2>1
  <2>3. k + 1 \in 1..total /\ k + 2 \in 1..total /\ (k + 2) - 1 = k + 1 /\ k + 2 # 1
    BY <1>2, <2>1, <2>2
  <2>4. after[k + 1] = imu[k + 1]
    BY <2>3
  <2>5. Propagated(imu, k + 2) = imu[k + 2] - imu[k + 1]
    BY <1>2, <1>3, <2>3 DEF Propagated, E
  <2>6. after[k + 2] = after[k + 1] + Propagated(imu, k + 2)
    BY <1>1, <2>3
  <2> QED BY <1>3, <2>3, <2>4, <2>5, <2>6
<1>6. S = Nat
  <2>1. S \subseteq Nat
    OBVIOUS
  <2> HIDE DEF S
  <2> QED BY <1>4, <1>5, <2>1, Induction
<1>7. total - 1 \in S /\ (total - 1) + 1 = total
  BY <1>2, <1>6
<1> QED BY <1>1, <1>2, <1>7 DEF total

\* What a scan that is handed out does to the filter's time.
LEMMA TimerClock == IndInv /\ ClockInStep /\ Timer => ClockInStep'
<1> SUFFICES ASSUME IndInv, ClockInStep, Timer, accidents' = {} PROVE ClockInStep'
  BY DEF ClockInStep
<1>1. PICK k \in 0..Len(imu_buffer) :
        LET m == [Pushed.meas EXCEPT !.imu = SubSeq(imu_buffer, 1, k)]
        IN  /\ imu_buffer' = SubSeq(imu_buffer, k + 1, Len(imu_buffer))
            /\ meas' = m
            /\ handed_end' = m.end
            /\ Handle(m)
  BY DEF Timer
<1> DEFINE m == [Pushed.meas EXCEPT !.imu = SubSeq(imu_buffer, 1, k)]
           E == last_lidar_end_time_
<1>2. /\ lidar_buffer # <<>> /\ imu_buffer # <<>>
      /\ lidar_buffer' = Tail(lidar_buffer) /\ lidar_pushed' = FALSE
      /\ UNCHANGED <<last_timestamp_imu, imu_count, timediff, accidents>>
  BY DEF Timer, PopFront
<1>3. IndInv'
  BY TimerInv
<1>4. TypeOK /\ TypeOK' /\ accidents = {}
  BY <1>2, <1>3 DEF IndInv
<1>5. /\ \A p \in DOMAIN lidar_buffer : lidar_buffer[p].id >= 1
      /\ \A p \in DOMAIN imu_buffer : imu_buffer[p] >= E
      /\ imu_count # 0 /\ last_timestamp_imu >= E
  BY <1>2, <1>4 DEF ClockInStep
<1>6. /\ m.lidar = lidar_buffer[1] /\ m.imu = SubSeq(imu_buffer, 1, k)
      /\ m = meas' /\ m.end = handed_end' /\ Handle(m)
      /\ m \in [lidar : Scan, beg : Int, end : Int, imu : Seq(Int)]
  <2>1. m = meas' /\ meas' \in [lidar : Scan, beg : Int, end : Int, imu : Seq(Int)]
    BY <1>1, <1>4 DEF TypeOK
  <2>2. Pushed.meas \in [lidar : Scan, beg : Int, end : Int, imu : Seq(Int)]
    BY <1>2, PushedType DEF IndInv, TypeOK, TimesSuffice
  <2>3. Pushed.meas.lidar = lidar_buffer[1]
    BY <1>2, <1>4, PushedFront DEF IndInv
  <2> QED BY <1>1, <2>1, <2>2, <2>3
<1> HIDE DEF m
<1>7. m.lidar # NoScan
  <2>1. 1 \in DOMAIN lidar_buffer
    <3>1. lidar_buffer \in Seq(Scan) /\ lidar_buffer # <<>>
      BY <1>2, <1>4 DEF TypeOK
    <3> QED BY <3>1
  <2> QED BY <1>5, <1>6, <2>1 DEF NoScan
<1>8. \A p \in DOMAIN lidar_buffer' : lidar_buffer'[p].id >= 1
  <2>1. \A p \in DOMAIN lidar_buffer' :
           p + 1 \in DOMAIN lidar_buffer /\ lidar_buffer'[p] = lidar_buffer[p + 1]
    <3>1. /\ lidar_buffer \in Seq(Scan) /\ lidar_buffer # <<>>
          /\ lidar_buffer' = Tail(lidar_buffer)
      BY <1>2, <1>4 DEF TypeOK
    <3> QED BY <3>1
  <2> QED BY <1>5, <2>1
<1>9. \A p \in DOMAIN imu_buffer' : imu_buffer'[p] >= E
  <2>1. imu_buffer' = SubSeq(imu_buffer, k + 1, Len(imu_buffer)) /\ imu_buffer \in Seq(Int)
    BY <1>1, <1>4 DEF TypeOK
  <2>2. \A p \in DOMAIN imu_buffer' :
           k + p \in DOMAIN imu_buffer /\ imu_buffer'[p] = imu_buffer[k + p]
    BY <2>1
  <2> QED BY <1>5, <2>2
<1>10. m.imu \in Seq(Int) /\ \A p \in DOMAIN m.imu : m.imu[p] >= E
  <2>1. \A p \in DOMAIN m.imu : p \in DOMAIN imu_buffer /\ m.imu[p] = imu_buffer[p]
    <3>1. imu_buffer \in Seq(Int) /\ m.imu = SubSeq(imu_buffer, 1, k)
      BY <1>4, <1>6 DEF TypeOK
    <3> QED BY <3>1
  <2> QED BY <1>5, <1>6, <2>1
<1>11. \A p \in DOMAIN m.imu : m.imu[p] <= m.end
  BY <1>2, <1>3, <1>6 DEF IndInv, ImuUpToEnd
<1>12. imu_count' # 0 /\ last_timestamp_imu' >= E /\ imu_count' \in Nat /\ E \in Int
  BY <1>2, <1>4, <1>5 DEF TypeOK
<1> HIDE DEF E
<1>13. ASSUME UNCHANGED <<imu_need_init_, last_imu_, last_lidar_end_time_, feats_undistort,
                         clock>>
       PROVE  ClockInStep'
  BY <1>2, <1>4, <1>5, <1>8, <1>9, <1>12, <1>13 DEF ClockInStep, E
<1> DEFINE last == m.imu[Len(m.imu)]
<1>14. m.imu # <<>> => last \in Int /\ last >= E /\ last <= m.end /\ m.end \in Int
  <2>1. m.imu # <<>> => Len(m.imu) \in DOMAIN m.imu
    BY <1>10
  <2>2. m.end \in Int
    BY <1>6
  <2>3. m.imu # <<>> => last \in Int
    BY <1>10, <2>1
  <2>4. m.imu # <<>> => last >= E /\ last <= m.end
    BY <1>10, <1>11, <2>1
  <2> QED BY <2>2, <2>3, <2>4
<1>15. CASE ~flg_first_scan /\ m.imu # <<>> /\ imu_need_init_ /\ IMU_init(m)
  <2>1. last_imu_' = last /\ clock' = last
        /\ UNCHANGED <<last_lidar_end_time_, feats_undistort>>
    BY <1>15 DEF IMU_init
  <2>2. feats_undistort = NoScan /\ E = 0
    BY <1>4, <1>15 DEF ClockInStep, E
  <2> HIDE DEF last
  <2>3. clock' = last_imu_' /\ last_imu_' >= 0
    BY <1>14, <1>15, <2>1, <2>2
  <2> QED BY <1>8, <1>9, <1>12, <2>1, <2>2, <2>3 DEF ClockInStep, E
<1>16. CASE ~flg_first_scan /\ m.imu # <<>> /\ ~imu_need_init_ /\ UndistortPcl(m)
  <2>1. /\ clock' = ClockAfter(m.imu) + ToFrameEnd(m)
        /\ last_imu_' = last /\ last_lidar_end_time_' = m.end
        /\ feats_undistort' = m.lidar /\ imu_need_init_' = imu_need_init_
    BY <1>16 DEF UndistortPcl
  <2>2. ClockAfter(m.imu) = last
    <3>1. \/ clock = E /\ last_imu_ <= E
          \/ clock = last_imu_ /\ last_imu_ >= E
      BY <1>4, <1>16 DEF ClockInStep, E
    <3> QED BY <1>4, <1>10, <1>16, <3>1, ClockAtReading DEF E
  <2>3. ToFrameEnd(m) = IF m.end - last < 0 THEN -(m.end - last) ELSE m.end - last
    BY DEF ToFrameEnd, Abs
  <2> HIDE DEF last
  <2>4. clock' = m.end
    BY <1>14, <1>16, <2>1, <2>2, <2>3
  <2>5. flg_first_scan' = FALSE
    BY <1>4, <1>6, HandleType
  <2>6. /\ \A p \in DOMAIN imu_buffer' : imu_buffer'[p] >= m.end
        /\ last_timestamp_imu' >= m.end
    BY <1>2, <1>3, <1>4, <1>6, <2>5 DEF IndInv, ImuComplete, ImuPastEnd
  <2> QED BY <1>7, <1>8, <1>12, <1>14, <1>16, <2>1, <2>4, <2>6 DEF ClockInStep
<1>17. Process(m) \/ flg_first_scan
  BY <1>6 DEF Handle
<1>18. ~flg_first_scan => \/ m.imu = <<>>
                          \/ m.imu # <<>> /\ imu_need_init_ /\ IMU_init(m)
                          \/ m.imu # <<>> /\ ~imu_need_init_ /\ UndistortPcl(m)
  BY <1>17 DEF Process
<1>19. CASE ~flg_first_scan
  <2>1. Process(m)
    BY <1>17, <1>19
  <2>2. CASE m.imu = <<>>
    BY <1>13, <2>1, <2>2 DEF Process, IMU_init, UndistortPcl
  <2>3. CASE m.imu # <<>> /\ imu_need_init_ /\ IMU_init(m)
    BY <1>15, <1>19, <2>3
  <2>4. CASE m.imu # <<>> /\ ~imu_need_init_ /\ UndistortPcl(m)
    BY <1>16, <1>19, <2>4
  <2> QED BY <1>18, <1>19, <2>2, <2>3, <2>4
<1>20. CASE flg_first_scan
  BY <1>6, <1>13, <1>20 DEF Handle
<1> QED BY <1>19, <1>20

LEMMA AppendedOne ==
  ASSUME NEW S, NEW s \in Seq(S), NEW e \in S
  PROVE  \A p \in DOMAIN Append(s, e) :
           Append(s, e)[p] = e \/ (p \in DOMAIN s /\ Append(s, e)[p] = s[p])
<1> DEFINE z == Append(s, e)
           total == Len(s)
<1>1. DOMAIN z = 1..total + 1 /\ DOMAIN s = 1..total /\ total \in Nat
  OBVIOUS
<1>2. z[total + 1] = e
  OBVIOUS
<1>3. \A p \in 1..total : z[p] = s[p]
  OBVIOUS
<1> HIDE DEF z, total
<1>4. \A p \in 1..total + 1 : p \in 1..total \/ p = total + 1
  BY <1>1
<1>5. \A p \in DOMAIN z : z[p] = e \/ (p \in DOMAIN s /\ z[p] = s[p])
  BY <1>1, <1>2, <1>3, <1>4
<1> QED BY <1>5 DEF z

LEMMA ScanClock == IndInv /\ ClockInStep /\ ReceiveScan => ClockInStep'
<1> SUFFICES ASSUME IndInv, ClockInStep, ReceiveScan, accidents' = {} PROVE ClockInStep'
  BY DEF ClockInStep
<1>1. PICK stamp \in ScanStamps, offset \in Offsets, size \in Sizes :
        PclCbk([id |-> scan_count', stamp |-> stamp, offset |-> offset,
                size |-> size])
  BY DEF ReceiveScan
<1> DEFINE scan == [id |-> scan_count', stamp |-> stamp, offset |-> offset,
                    size |-> size]
<1>2. /\ TypeOK /\ scan_count' = scan_count + 1 /\ scan_count \in Nat
      /\ UNCHANGED <<imu_count, imu_buffer, last_timestamp_imu, procVars>>
  BY <1>1 DEF IndInv, TypeOK, ReceiveScan, PclCbk
<1>3. scan \in Scan /\ scan.id >= 1
  BY <1>2, StampsAssumption, OffsetsAssumption, SizesAssumption DEF Scan
<1>4. accidents = {} /\ lidar_buffer' = Append(lidar_buffer, scan)
  BY <1>1 DEF PclCbk
<1>5. timediff' = timediff \/ imu_buffer # <<>>
  BY <1>1 DEF PclCbk, SyncsNow
<1> HIDE DEF scan
<1>6. \A p \in DOMAIN lidar_buffer' : lidar_buffer'[p].id >= 1
  <2>1. lidar_buffer \in Seq(Scan) /\ \A p \in DOMAIN lidar_buffer : lidar_buffer[p].id >= 1
    BY <1>2, <1>4 DEF TypeOK, ClockInStep
  <2>2. \A p \in DOMAIN lidar_buffer' :
           lidar_buffer'[p] = scan \/ (p \in DOMAIN lidar_buffer /\ lidar_buffer'[p] = lidar_buffer[p])
    BY <1>3, <1>4, <2>1, AppendedOne
  <2> QED BY <1>3, <2>1, <2>2
<1> QED BY <1>2, <1>4, <1>5, <1>6 DEF ClockInStep, procVars

\* A reading that comes in is not older than the one before it, and the first
\* one carries a stamp that is not negative.
LEMMA ReadingClock ==
  ASSUME \A raw \in ImuStamps : raw >= TimeOffset
  PROVE  IndInv /\ ClockInStep /\ ReceiveImu => ClockInStep'
<1> SUFFICES ASSUME IndInv, ClockInStep, ReceiveImu, accidents' = {} PROVE ClockInStep'
  BY DEF ClockInStep
<1>1. PICK raw \in ImuStamps : ImuCbk(raw)
  BY DEF ReceiveImu
<1> DEFINE stamp == Restamped(raw)
           E == last_lidar_end_time_
<1>2. TypeOK /\ E \in Int /\ last_timestamp_imu \in Int /\ imu_count \in Nat /\ raw \in Int
  BY StampsAssumption DEF IndInv, TypeOK
<1>3. stamp \in Int
  BY <1>2, NumbersAssumption DEF Restamped, TypeOK
<1>4. timediff = 0 => stamp = raw - TimeOffset
  BY DEF Restamped, Abs
<1> HIDE DEF stamp
<1>5. /\ accidents = {} /\ stamp >= last_timestamp_imu
      /\ imu_buffer' = Append(imu_buffer, stamp) /\ last_timestamp_imu' = stamp
  BY <1>1, <1>2, <1>3 DEF ImuCbk, ImusKept, stamp
<1>6. /\ UNCHANGED <<lidar_buffer, timediff, procVars>> /\ imu_count' = imu_count + 1
  BY DEF ReceiveImu
<1>7. stamp >= E
  <2>1. CASE imu_count = 0
    <3>1. timediff = 0 /\ feats_undistort = NoScan /\ E = 0
      BY <1>5, <2>1 DEF ClockInStep
    <3> QED BY <1>2, <1>4, <3>1, NumbersAssumption
  <2>2. CASE imu_count # 0
    <3>1. last_timestamp_imu >= E
      BY <1>5, <2>2 DEF ClockInStep
    <3> QED BY <1>2, <1>3, <1>5, <3>1
  <2> QED BY <2>1, <2>2
<1>8. \A p \in DOMAIN imu_buffer' : imu_buffer'[p] >= E
  <2>1. imu_buffer \in Seq(Int) /\ \A p \in DOMAIN imu_buffer : imu_buffer[p] >= E
    BY <1>2, <1>5 DEF TypeOK, ClockInStep
  <2>2. \A p \in DOMAIN imu_buffer' :
           imu_buffer'[p] = stamp \/ (p \in DOMAIN imu_buffer /\ imu_buffer'[p] = imu_buffer[p])
    BY <1>3, <1>5, <2>1, AppendedOne
  <2> QED BY <1>7, <2>1, <2>2
<1>9. imu_count' # 0 /\ imu_count' > 0
  BY <1>2, <1>6
<1> QED BY <1>5, <1>6, <1>7, <1>8, <1>9 DEF ClockInStep, procVars, E

LEMMA ClockInit == Init => ClockInStep
<1> SUFFICES ASSUME Init, accidents = {} PROVE ClockInStep
  BY DEF ClockInStep
<1>1. last_lidar_end_time_ = 0 /\ imu_need_init_ = TRUE /\ feats_undistort = NoScan
  BY DEF Init
<1>2. /\ imu_buffer = <<>> /\ timediff = 0 /\ imu_count = 0
      /\ DOMAIN lidar_buffer = {} /\ DOMAIN imu_buffer = {}
  BY DEF Init
<1> QED BY <1>1, <1>2 DEF ClockInStep

LEMMA ClockStep ==
  ASSUME \A raw \in ImuStamps : raw >= TimeOffset
  PROVE  IndInv /\ ClockInStep /\ [Next]_vars => ClockInStep'
<1> SUFFICES ASSUME IndInv, ClockInStep, [Next]_vars PROVE ClockInStep'
  OBVIOUS
<1>1. CASE UNCHANGED vars
  BY <1>1 DEF ClockInStep, vars, inVars, procVars
<1>2. CASE WaitForImu
  BY <1>2 DEF ClockInStep, WaitForImu, inVars, procVars
<1> QED BY <1>1, <1>2, ScanClock, ReadingClock, TimerClock DEF Next, TimerIdle

\* As long as no stamp goes back, UndistortPcl leaves the state of the filter at
\* the end of the last scan, whatever scans were skipped or came without
\* readings before: for every time offset that makes no IMU stamp negative.
THEOREM ClockIsAtScanEnd ==
  ASSUME \A raw \in ImuStamps : raw >= TimeOffset
  PROVE  Spec => []ClockAtScanEnd
<1>1. IndInv /\ ClockInStep /\ [Next]_vars => ClockInStep'
  BY ClockStep
<1>2. ClockInStep => ClockAtScanEnd
  BY DEF ClockInStep, ClockAtScanEnd
<1> QED BY ClockInit, Invariance, <1>1, <1>2, PTL DEF Spec

-----------------------------------------------------------------------------
(* LioMap *)

\* The sizes are whole numbers.
LEMMA SizesFit ==
  /\ Threshold \in Int /\ MovDist \in Int
  /\ CubeLen \in Int /\ CubeLen \div 2 \in Int
  /\ CubeLen = 2 * (CubeLen \div 2)
  /\ SensorRange \in Nat /\ MaxStep \in Nat /\ Correction \in Nat
  /\ 2 * Threshold + MovDist <= CubeLen
  /\ MaxStep + Correction <= MovDist /\ MaxStep + Correction <= Threshold
  /\ SensorRange + Correction < Threshold
<1>1. Threshold \in Int
  BY CubeAssumption DEF Threshold
<1>2. MovDist \in Int
  BY <1>1, CubeAssumption DEF MovDist, Larger
<1>3. QED
  BY <1>1, <1>2, CubeAssumption

-----------------------------------------------------------------------------
(* Types *)

\* What is known of the loop's counters, as far as the types need it.
CountInv ==
  place = "iterate" => t <= 1 /\ iteration <= NUM_MAX_ITERATIONS /\ searches <= iteration + 1

\* Initially the types hold.
LEMMA InitTypes == MapInit => MapTypeOK /\ CountInv
<1> SUFFICES ASSUME MapInit PROVE MapTypeOK /\ CountInv
  OBVIOUS
<1>1. CountInv
  BY DEF MapInit, CountInv
<1>2. iteration \in -1..NUM_MAX_ITERATIONS /\ t \in 0..2 /\ searches \in 0..NUM_MAX_ITERATIONS+1
  BY LoopAssumption DEF MapInit
<1>3. pos_lid \in Position /\ LocalMap_Points \in Position
  BY DEF MapInit, Position
<1>4. QED
  BY <1>1, <1>2, <1>3 DEF MapInit, MapTypeOK, DownSizes, Places

\* Every step keeps them.
LEMMA NextTypes == MapTypeOK /\ CountInv /\ [MapNext]_lioMapVars => MapTypeOK' /\ CountInv'
<1> SUFFICES ASSUME MapTypeOK, CountInv, [MapNext]_lioMapVars
             PROVE  MapTypeOK' /\ CountInv'
  OBVIOUS
<1> USE LoopAssumption DEF DownSizes
<1>0. ASSUME NEW d \in Nat, NEW p \in Around(pos_lid, d)
      PROVE  p \in Position
  <2>1. p \in [Axes -> -Bound..Bound]
    BY <1>0 DEF Around
  <2>2. QED
    BY <2>1, BoundAssumption DEF Position
<1>1. CASE TakeMeasurement
  <2>1. pos_lid' \in Position
    BY <1>0, <1>1, SizesFit DEF TakeMeasurement, MapTypeOK
  <2>2. QED
    BY <1>1, <2>1 DEF TakeMeasurement, MapTypeOK, CountInv, Places, windowVars, mapVars,
      loopVars, filterVars
<1>2. CASE Segment
  <2>1. LocalMap_Points' \in Position
    <3>1. ASSUME NEW a \in Axes PROVE Move(a) \in Int
      BY SizesFit DEF Move
    <3>2. QED
      BY <1>2, <3>1, SizesFit DEF Segment, lasermap_fov_segment, MapTypeOK, Position
  <2>2. mapped' \in BOOLEAN
    BY <1>2 DEF Segment, lasermap_fov_segment, MapTypeOK
  <2>3. QED
    BY <1>2, <2>1, <2>2 DEF Segment, lasermap_fov_segment, MapTypeOK, CountInv, Places,
      loopVars, filterVars
<1>3. CASE Build
  <2>1. InRange(pos_lid) \in BOOLEAN
    BY DEF InRange
  <2>2. QED
    BY <1>3, <2>1 DEF Build, MapTypeOK, CountInv, Places, windowVars, mapVars,
      loopVars, filterVars
<1>4. CASE Skip
  BY <1>4 DEF Skip, MapTypeOK, CountInv, Places, windowVars, mapVars, loopVars,
    filterVars
<1>5. CASE StartUpdate
  <2>1. iteration' \in -1..NUM_MAX_ITERATIONS /\ t' \in 0..2
        /\ searches' \in 0..NUM_MAX_ITERATIONS+1 /\ CountInv'
    BY <1>5 DEF StartUpdate, CountInv
  <2>2. QED
    BY <1>5, <2>1 DEF StartUpdate, MapTypeOK, Places, windowVars,
      mapVars, filterVars
<1>6. CASE NoEffectivePoints
  <2>1. iteration' \in -1..NUM_MAX_ITERATIONS /\ searches' \in 0..NUM_MAX_ITERATIONS+1
    BY <1>6 DEF NoEffectivePoints, h_share_model, MapTypeOK, CountInv
  <2>2. CountInv'
    BY <1>6 DEF NoEffectivePoints, h_share_model, MapTypeOK, CountInv
  <2>3. neighbours' \in BOOLEAN /\ valid' \in BOOLEAN
    BY <1>6 DEF NoEffectivePoints, h_share_model, MapTypeOK
  <2>4. QED
    BY <1>6, <2>1, <2>2, <2>3 DEF NoEffectivePoints, MapTypeOK, windowVars, mapVars,
      filterVars
<1>7. CASE Correct
  <2>1. PICK small \in BOOLEAN :
          LET m == IF small THEN t + 1 ELSE t
          IN /\ t' = m
             /\ converge' = (small \/ Forced(m))
             /\ x_' = "corrected"
             /\ IF LastIteration(m)
                  THEN P_' = "corrected" /\ place' = "done" /\ UNCHANGED iteration
                  ELSE iteration' = iteration + 1 /\ UNCHANGED <<place, P_>>
    BY <1>7 DEF Correct, CorrectCovariance
  <2>2. converge' \in BOOLEAN
    BY <2>1 DEF Forced
  <2>3. valid' \in BOOLEAN /\ neighbours' \in BOOLEAN
    BY <1>7 DEF Correct, CorrectCovariance, h_share_model, MapTypeOK
  <2>4. t' \in 0..2 /\ iteration' \in -1..NUM_MAX_ITERATIONS
    BY <1>7, <2>1 DEF Correct, CorrectCovariance, MapTypeOK, CountInv, LastIteration
  <2>5. searches' \in 0..NUM_MAX_ITERATIONS+1 /\ searches' <= iteration + 2
    BY <1>7 DEF Correct, CorrectCovariance, h_share_model, MapTypeOK, CountInv
  <2>6. place' \in Places
    BY <1>7, <2>1 DEF Correct, CorrectCovariance, Places
  <2>7. ASSUME LastIteration(IF small THEN t + 1 ELSE t)
        PROVE  CountInv'
    BY <2>1, <2>7 DEF CountInv
  <2>8. ASSUME ~LastIteration(IF small THEN t + 1 ELSE t)
         PROVE  CountInv'
    <3>1. t' <= 1 /\ iteration' = iteration + 1
      BY <2>1, <2>4, <2>8 DEF LastIteration
    <3>2. QED
      BY <1>7, <2>4, <2>5, <3>1 DEF Correct, CorrectCovariance, CountInv, MapTypeOK
  <2>9. x_' \in {"propagated", "corrected"} /\ P_' \in {"propagated", "corrected"}
    BY <2>1 DEF MapTypeOK
  <2>10. QED
    BY <1>7, <2>2, <2>3, <2>4, <2>5, <2>6, <2>7, <2>8, <2>9
    DEF Correct, CorrectCovariance, MapTypeOK, windowVars, mapVars
<1>8. CASE EndUpdate
  BY <1>8 DEF EndUpdate, MapTypeOK, CountInv, Places, windowVars, mapVars, loopVars,
    filterVars
<1>9. CASE TakeState
  <2>1. pos_lid' \in Position
    BY <1>0, <1>9, SizesFit DEF TakeState, MapTypeOK
  <2>2. QED
    BY <1>9, <2>1 DEF TakeState, MapTypeOK, CountInv, Places, windowVars, mapVars,
      loopVars, filterVars
<1>10. CASE map_incremental
  <2>1. mapped' \in BOOLEAN
    BY <1>10 DEF map_incremental, InRange, MapTypeOK
  <2>2. QED
    BY <1>10, <2>1 DEF map_incremental, MapTypeOK, CountInv, Places, windowVars,
      loopVars, filterVars
<1>11. CASE UNCHANGED lioMapVars
  BY <1>11 DEF lioMapVars, windowVars, mapVars, loopVars, filterVars, MapTypeOK, CountInv
<1>12. QED
  BY <1>1, <1>2, <1>3, <1>4, <1>5, <1>6, <1>7, <1>8, <1>9, <1>10, <1>11
  DEF MapNext, Update

\* The variables keep their types, for cubes and ranges of any size and any
\* number of iterations: the loop's counters stay in their bounds.
THEOREM MapTypeCorrect == MapSpec => []MapTypeOK
<1>1. MapSpec => [](MapTypeOK /\ CountInv)
  BY InitTypes, NextTypes, PTL DEF MapSpec
<1>2. QED
  BY <1>1, PTL

-----------------------------------------------------------------------------
(* The cube *)

\* What the cube leaves lies more than the threshold from the sensor, and the
\* cube moves so that the sensor is at least that far from its ends again.
LEMMA CubeMoves ==
  ASSUME MapTypeOK, NEW a \in Axes,
         LocalMap_Points[a] + (Threshold - Correction - MaxStep) <= pos_lid[a],
         pos_lid[a] + (Threshold - Correction - MaxStep)
           <= LocalMap_Points[a] + CubeLen
  PROVE  /\ LocalMap_Points[a] + Move(a) + Threshold <= pos_lid[a]
         /\ pos_lid[a] + Threshold <= LocalMap_Points[a] + Move(a) + CubeLen
<1> DEFINE low == LocalMap_Points[a]
           p == pos_lid[a]
<1>1. low \in Int /\ p \in Int
  BY DEF MapTypeOK, Position
<1>2. low <= p /\ p <= low + CubeLen
  BY <1>1, SizesFit
<1>3. Magnitude(p - low) = p - low /\ Magnitude(p - (low + CubeLen)) = low + CubeLen - p
  BY <1>1, <1>2, SizesFit DEF Magnitude
<1>4. QED
  BY <1>1, <1>3, SizesFit DEF Move, NearMin, NearMax

\* A voxel of the old cube that is not removed is in the new one.
LEMMA SlabsSuffice ==
  ASSUME MapTypeOK, ~Removed(mark),
         \A a \in Axes :
           LocalMap_Points[a] <= mark[a] /\ mark[a] < LocalMap_Points[a] + CubeLen
  PROVE  \A a \in Axes :
           /\ LocalMap_Points[a] + Move(a) <= mark[a]
           /\ mark[a] < LocalMap_Points[a] + Move(a) + CubeLen
<1> SUFFICES ASSUME NEW a \in Axes
             PROVE  /\ LocalMap_Points[a] + Move(a) <= mark[a]
                    /\ mark[a] < LocalMap_Points[a] + Move(a) + CubeLen
  OBVIOUS
<1>1. ~Slab(a, mark)
  BY DEF Removed
<1>2. LocalMap_Points[a] \in Int /\ mark[a] \in Int
  BY MarkAssumption DEF MapTypeOK, Position
<1>3. MovDist >= 0
  BY SizesFit
<1>4. Move(a) \in {-MovDist, 0, MovDist}
  BY DEF Move
<1>5. QED
  BY <1>1, <1>2, <1>3, <1>4, SizesFit DEF Slab

\* A voxel within the range of the sensor is in the cube that is well around it.
LEMMA InRangeInCube ==
  ASSUME MapTypeOK, InRange(pos_lid),
         \A a \in Axes :
           /\ LocalMap_Points[a] + (Threshold - Correction) <= pos_lid[a]
           /\ pos_lid[a] + (Threshold - Correction) <= LocalMap_Points[a] + CubeLen
  PROVE  \A a \in Axes :
           LocalMap_Points[a] <= mark[a] /\ mark[a] < LocalMap_Points[a] + CubeLen
<1> SUFFICES ASSUME NEW a \in Axes
             PROVE  /\ LocalMap_Points[a] <= mark[a]
                    /\ mark[a] < LocalMap_Points[a] + CubeLen
  OBVIOUS
<1>1. LocalMap_Points[a] \in Int /\ mark[a] \in Int /\ pos_lid[a] \in Int
  BY MarkAssumption DEF MapTypeOK, Position
<1>2. mark[a] - pos_lid[a] <= SensorRange /\ pos_lid[a] - mark[a] <= SensorRange
  BY <1>1, SizesFit DEF InRange, Magnitude
<1>3. QED
  BY <1>1, <1>2, SizesFit

\* A voxel within the range of the sensor is not in a slab that is removed.
LEMMA InRangeKept ==
  ASSUME MapTypeOK, SensorInCube, Localmap_Initialized, place = "segment",
         InRange(pos_lid)
  PROVE  ~Removed(mark)
<1> SUFFICES ASSUME NEW a \in Axes, Slab(a, mark)
             PROVE  FALSE
  BY DEF Removed
<1>1. LocalMap_Points[a] \in Int /\ mark[a] \in Int /\ pos_lid[a] \in Int
  BY MarkAssumption DEF MapTypeOK, Position
<1>2. mark[a] - pos_lid[a] <= SensorRange /\ pos_lid[a] - mark[a] <= SensorRange
  BY <1>1, SizesFit DEF InRange, Magnitude
<1>3. /\ LocalMap_Points[a] + Move(a) + Threshold <= pos_lid[a]
      /\ pos_lid[a] + Threshold <= LocalMap_Points[a] + Move(a) + CubeLen
  BY CubeMoves DEF SensorInCube, Clearance
<1>4. Move(a) \in {-MovDist, 0, MovDist} /\ MovDist >= 0
  BY SizesFit DEF Move
<1>5. CASE Move(a) > 0
  BY <1>1, <1>2, <1>3, <1>4, <1>5, SizesFit DEF Slab
<1>6. CASE Move(a) < 0
  BY <1>1, <1>2, <1>3, <1>4, <1>6, SizesFit DEF Slab
<1>7. QED
  BY <1>5, <1>6 DEF Slab

\* The cube is laid before the map is built, and the map built before it holds
\* anything.
CubeInv ==
  /\ CubeKept
  /\ place \in {"tree", "iterate", "done", "increment"} => Localmap_Initialized
  /\ mapped => Localmap_Initialized /\ root
  /\ place \in {"iterate", "done", "increment"} => root

LEMMA InitCube == MapInit => CubeInv
BY DEF MapInit, CubeInv, CubeKept, SensorInCube, MapInCube

\* Every step keeps the cube around the sensor and the map in the cube.
LEMMA NextCube == MapTypeOK /\ MapTypeOK' /\ CubeInv /\ [MapNext]_lioMapVars => CubeInv'
<1> SUFFICES ASSUME MapTypeOK, MapTypeOK', CubeInv, [MapNext]_lioMapVars
             PROVE  CubeInv'
  OBVIOUS
<1> USE DEF CubeInv, CubeKept
<1>0. ASSUME NEW d \in Nat, NEW p \in Around(pos_lid, d), NEW a \in Axes
      PROVE  p[a] \in Int /\ p[a] <= pos_lid[a] + d /\ pos_lid[a] <= p[a] + d
  <2>1. p[a] \in Int /\ Magnitude(p[a] - pos_lid[a]) <= d
    BY <1>0, BoundAssumption DEF Around
  <2>2. QED
    BY <2>1 DEF Magnitude, MapTypeOK, Position
<1>1. CASE TakeMeasurement
  <2>1. MapInCube'
    BY <1>1 DEF TakeMeasurement, MapInCube, windowVars, mapVars
  <2>2. CASE UNCHANGED <<place, pos_lid>>
    BY <1>1, <2>1, <2>2 DEF TakeMeasurement, SensorInCube, Clearance, windowVars, mapVars
  <2>3. CASE place' = "segment" /\ pos_lid' \in Around(pos_lid, MaxStep)
    <3>1. ASSUME Localmap_Initialized, NEW a \in Axes
          PROVE  /\ LocalMap_Points[a] + (Threshold - Correction - MaxStep)
                      <= pos_lid'[a]
                 /\ pos_lid'[a] + (Threshold - Correction - MaxStep)
                      <= LocalMap_Points[a] + CubeLen
      <4>1. /\ LocalMap_Points[a] + (Threshold - Correction) <= pos_lid[a]
            /\ pos_lid[a] + (Threshold - Correction) <= LocalMap_Points[a] + CubeLen
        BY <1>1, <3>1 DEF TakeMeasurement, SensorInCube, Clearance
      <4>2. LocalMap_Points[a] \in Int /\ pos_lid[a] \in Int
        BY DEF MapTypeOK, Position
      <4>3. /\ pos_lid'[a] \in Int
            /\ pos_lid'[a] <= pos_lid[a] + MaxStep
            /\ pos_lid[a] <= pos_lid'[a] + MaxStep
        BY <1>0, <2>3, SizesFit
      <4>4. QED
        BY <4>1, <4>2, <4>3, SizesFit
    <3>2. QED
      BY <1>1, <2>1, <2>3, <3>1 DEF TakeMeasurement, SensorInCube, Clearance, windowVars, mapVars
  <2>4. QED
    BY <1>1, <2>2, <2>3 DEF TakeMeasurement
<1>2. CASE Segment
  <2>1. CASE ~Localmap_Initialized
    <3>1. ASSUME NEW a \in Axes
          PROVE  /\ LocalMap_Points'[a] + Threshold <= pos_lid'[a]
                 /\ pos_lid'[a] + Threshold <= LocalMap_Points'[a] + CubeLen
      <4>1. LocalMap_Points'[a] = pos_lid[a] - CubeLen \div 2 /\ pos_lid' = pos_lid
        BY <1>2, <2>1 DEF Segment, lasermap_fov_segment
      <4>2. pos_lid[a] \in Int
        BY DEF MapTypeOK, Position
      <4>3. QED
        BY <4>1, <4>2, SizesFit
    <3>2. QED
      BY <1>2, <2>1, <3>1 DEF Segment, lasermap_fov_segment, SensorInCube,
        MapInCube, Clearance
  <2>2. CASE Localmap_Initialized
    <3>1. /\ place' = "tree" /\ pos_lid' = pos_lid /\ mark' = mark
          /\ LocalMap_Points' = [a \in Axes |-> LocalMap_Points[a] + Move(a)]
          /\ mapped' = (mapped /\ ~Removed(mark)) /\ Localmap_Initialized' /\ root' = root
      BY <1>2, <2>2 DEF Segment, lasermap_fov_segment
    <3>2. SensorInCube'
      <4>1. ASSUME NEW a \in Axes
            PROVE  /\ LocalMap_Points[a] + Move(a) + Threshold <= pos_lid[a]
                   /\ pos_lid[a] + Threshold <= LocalMap_Points[a] + Move(a) + CubeLen
        BY <1>2, <2>2, CubeMoves DEF SensorInCube, Clearance, Segment
      <4>2. QED
        BY <3>1, <4>1 DEF SensorInCube, Clearance
    <3>3. MapInCube'
      <4> SUFFICES ASSUME mapped, ~Removed(mark)
                   PROVE  MapInCube'
        BY <3>1 DEF MapInCube
      <4>1. \A a \in Axes :
              /\ LocalMap_Points[a] + Move(a) <= mark[a]
              /\ mark[a] < LocalMap_Points[a] + Move(a) + CubeLen
        BY SlabsSuffice DEF MapInCube
      <4>2. QED
        BY <3>1, <4>1 DEF MapInCube
    <3>4. QED
      BY <3>1, <3>2, <3>3
  <2>3. QED
    BY <2>1, <2>2
<1>3. CASE Build \/ Skip
  <2>1. /\ place = "tree" /\ place' = "wait" /\ Localmap_Initialized
        /\ UNCHANGED <<pos_lid, Localmap_Initialized, LocalMap_Points, mark>>
        /\ mapped' => (mapped \/ InRange(pos_lid)) /\ root'
    <3>1. CASE Build
      <4>1. InRange(pos_lid) \in BOOLEAN
        BY DEF InRange
      <4>2. QED
        BY <3>1, <4>1 DEF Build, windowVars, mapVars
    <3>2. CASE Skip
      BY <3>2 DEF Skip, windowVars, mapVars
    <3>3. QED
      BY <1>3, <3>1, <3>2
  <2>2. \A a \in Axes :
          /\ LocalMap_Points[a] + (Threshold - Correction) <= pos_lid[a]
          /\ pos_lid[a] + (Threshold - Correction) <= LocalMap_Points[a] + CubeLen
    <3> SUFFICES ASSUME NEW a \in Axes
                 PROVE  /\ LocalMap_Points[a] + (Threshold - Correction) <= pos_lid[a]
                        /\ pos_lid[a] + (Threshold - Correction)
                             <= LocalMap_Points[a] + CubeLen
      OBVIOUS
    <3>1. /\ LocalMap_Points[a] + Threshold <= pos_lid[a]
          /\ pos_lid[a] + Threshold <= LocalMap_Points[a] + CubeLen
      BY <2>1 DEF SensorInCube, Clearance
    <3>2. LocalMap_Points[a] \in Int /\ pos_lid[a] \in Int
      BY DEF MapTypeOK, Position
    <3>3. QED
      BY <3>1, <3>2, SizesFit
  <2>3. SensorInCube'
    BY <2>1, <2>2 DEF SensorInCube, Clearance
  <2>4. MapInCube'
    BY <2>1, <2>2, InRangeInCube DEF MapInCube
  <2>5. QED
    BY <2>1, <2>3, <2>4
<1>4. CASE StartUpdate \/ Update
  <2>1. /\ place \in {"tree", "iterate"} /\ place' \in {"iterate", "done"} /\ root
        /\ UNCHANGED <<pos_lid, Localmap_Initialized, LocalMap_Points, mark, mapped, root>>
    BY <1>4 DEF StartUpdate, Update, NoEffectivePoints, Correct, CorrectCovariance, EndUpdate,
      windowVars, mapVars
  <2>2. QED
    BY <2>1 DEF SensorInCube, MapInCube, Clearance
<1>5. CASE TakeState
  <2>1. /\ place = "done" /\ place' = "increment"
        /\ UNCHANGED <<Localmap_Initialized, LocalMap_Points, mark, mapped, root>>
        /\ pos_lid' \in Around(pos_lid, Correction) \/ pos_lid' = pos_lid
    BY <1>5 DEF TakeState, windowVars, mapVars
  <2>2. ASSUME NEW a \in Axes
        PROVE  /\ LocalMap_Points[a] + (Threshold - Correction) <= pos_lid'[a]
               /\ pos_lid'[a] + (Threshold - Correction) <= LocalMap_Points[a] + CubeLen
    <3>1. /\ LocalMap_Points[a] + Threshold <= pos_lid[a]
          /\ pos_lid[a] + Threshold <= LocalMap_Points[a] + CubeLen
      BY <2>1 DEF SensorInCube, Clearance
    <3>2. LocalMap_Points[a] \in Int /\ pos_lid[a] \in Int
      BY DEF MapTypeOK, Position
    <3>3. /\ pos_lid'[a] \in Int
          /\ pos_lid'[a] <= pos_lid[a] + Correction
          /\ pos_lid[a] <= pos_lid'[a] + Correction
      BY <1>0, <2>1, <3>2, SizesFit
    <3>4. QED
      BY <3>1, <3>2, <3>3, SizesFit
  <2>3. QED
    BY <2>1, <2>2 DEF SensorInCube, MapInCube, Clearance
<1>6. CASE map_incremental
  <2>1. /\ place = "increment" /\ place' = "wait" /\ Localmap_Initialized
        /\ UNCHANGED <<pos_lid, Localmap_Initialized, LocalMap_Points, mark, root>>
        /\ mapped' => (mapped \/ InRange(pos_lid)) /\ root'
    BY <1>6 DEF map_incremental, InRange, windowVars
  <2>2. \A a \in Axes :
          /\ LocalMap_Points[a] + (Threshold - Correction) <= pos_lid[a]
          /\ pos_lid[a] + (Threshold - Correction) <= LocalMap_Points[a] + CubeLen
    BY <2>1 DEF SensorInCube, Clearance
  <2>3. SensorInCube'
    BY <2>1, <2>2 DEF SensorInCube, Clearance
  <2>4. MapInCube'
    BY <2>1, <2>2, InRangeInCube DEF MapInCube
  <2>5. QED
    BY <2>1, <2>3, <2>4
<1>7. CASE UNCHANGED lioMapVars
  BY <1>7 DEF lioMapVars, windowVars, mapVars, SensorInCube, MapInCube, Clearance
<1>8. QED
  BY <1>1, <1>2, <1>3, <1>4, <1>5, <1>6, <1>7 DEF MapNext

\* The sensor never leaves the cube and nothing outside the cube is in the map,
\* for every cube the detection range fits into, any number of axes and any
\* voxel.
THEOREM CubeIsKept == MapSpec => []CubeKept
<1>1. MapSpec => [](MapTypeOK /\ CubeInv)
  BY InitTypes, NextTypes, InitCube, NextCube, MapTypeCorrect, PTL DEF MapSpec
<1>2. CubeInv => CubeKept
  BY DEF CubeInv
<1>3. QED
  BY <1>1, <1>2, PTL

\* No step takes a voxel from the map that is in reach of the sensor.
THEOREM NearIsKept == MapSpec => NearKept
<1>1. ASSUME MapTypeOK, CubeInv, [MapNext]_lioMapVars
      PROVE  [mapped /\ InRange(pos_lid) => mapped']_lioMapVars
  <2> SUFFICES ASSUME mapped, InRange(pos_lid), MapNext
               PROVE  mapped'
    BY <1>1 DEF lioMapVars
  <2>1. CASE Segment
    <3>1. ~Removed(mark)
      BY <1>1, <2>1, InRangeKept DEF CubeInv, CubeKept, Segment
    <3>2. QED
      BY <2>1, <3>1 DEF Segment, lasermap_fov_segment
  <2>2. CASE TakeMeasurement \/ Skip \/ StartUpdate \/ Update \/ TakeState
    BY <2>2 DEF TakeMeasurement, Skip, StartUpdate, Update, NoEffectivePoints, Correct, CorrectCovariance,
      EndUpdate, TakeState, mapVars
  <2>3. CASE Build
    BY <1>1, <2>3 DEF Build, CubeInv
  <2>4. CASE map_incremental
    BY <2>4 DEF map_incremental
  <2>5. QED
    BY <2>1, <2>2, <2>3, <2>4 DEF MapNext
<1>2. MapSpec => [](MapTypeOK /\ CubeInv)
  BY InitTypes, NextTypes, InitCube, NextCube, MapTypeCorrect, PTL DEF MapSpec
<1>3. QED
  BY <1>1, <1>2, PTL DEF MapSpec, NearKept

-----------------------------------------------------------------------------
(* The update *)

\* Until the update ends, the covariance is the predicted one.  In the loop the
\* first iteration is about to search; after it neighbours have been searched
\* for, and once the filter has converged it has searched again or is about to,
\* as it is before the last iteration.
LoopInv ==
  /\ place \in {"segment", "tree", "iterate"} => P_ = "propagated"
  /\ place = "iterate" =>
       /\ iteration = -1 => converge /\ valid /\ t = 0
       /\ iteration > -1 => neighbours /\ searches >= 1
       /\ valid /\ iteration > -1 => converge \/ t = 0 \/ searches >= 2
       /\ valid /\ iteration = NUM_MAX_ITERATIONS - 1 => converge \/ searches >= 2
       /\ iteration = NUM_MAX_ITERATIONS => ~valid
       /\ t <= 1
  /\ UpdateComplete

LEMMA InitLoop == MapInit => LoopInv
BY DEF MapInit, LoopInv, UpdateComplete

\* Every step keeps what is known of the update.
LEMMA NextLoop == MapTypeOK /\ MapTypeOK' /\ LoopInv /\ [MapNext]_lioMapVars => LoopInv'
<1> SUFFICES ASSUME MapTypeOK, MapTypeOK', LoopInv, [MapNext]_lioMapVars
             PROVE  LoopInv'
  OBVIOUS
<1>1. CASE TakeMeasurement
  BY <1>1 DEF TakeMeasurement, LoopInv, UpdateComplete, loopVars, filterVars
<1>2. CASE Segment \/ Build \/ Skip \/ map_incremental
  BY <1>2 DEF Segment, Build, Skip, map_incremental, LoopInv, UpdateComplete,
    loopVars, filterVars
<1>3. CASE StartUpdate
  BY <1>3, LoopAssumption DEF StartUpdate, LoopInv, UpdateComplete,
    filterVars
<1>4. CASE NoEffectivePoints
  <2>1. /\ place = "iterate" /\ place' = "iterate" /\ iteration' = iteration + 1 /\ ~valid'
        /\ UNCHANGED <<t, converge, P_>>
        /\ IF converge THEN neighbours' = TRUE /\ searches' = searches + 1
                       ELSE UNCHANGED <<neighbours, searches>>
    BY <1>4 DEF NoEffectivePoints, h_share_model, filterVars
  <2>2. neighbours' /\ searches' >= 1
    BY <2>1 DEF LoopInv, MapTypeOK
  <2>3. QED
    BY <2>1, <2>2 DEF LoopInv, UpdateComplete, MapTypeOK
<1>5. CASE Correct
  <2>1. PICK small \in BOOLEAN :
          LET m == IF small THEN t + 1 ELSE t
          IN /\ t' = m
             /\ converge' = (small \/ Forced(m))
             /\ x_' = "corrected"
             /\ IF LastIteration(m)
                  THEN P_' = "corrected" /\ place' = "done" /\ UNCHANGED iteration
                  ELSE iteration' = iteration + 1 /\ UNCHANGED <<place, P_>>
    BY <1>5 DEF Correct, CorrectCovariance
  <2>2. /\ place = "iterate" /\ valid' /\ valid
        /\ IF converge THEN neighbours' = TRUE /\ searches' = searches + 1
                       ELSE UNCHANGED <<neighbours, searches>>
    BY <1>5 DEF Correct, CorrectCovariance, h_share_model
  <2>3. neighbours' /\ searches' >= 1 /\ searches' \in Int
    BY <2>2 DEF LoopInv, MapTypeOK
  <2>4. t > 0 => searches' >= 2
    BY <2>2 DEF LoopInv, MapTypeOK
  <2>5. iteration = NUM_MAX_ITERATIONS - 1 => searches' >= 2
    <3>1. iteration # -1 \/ NUM_MAX_ITERATIONS # 0
      BY LoopAssumption
    <3>2. QED
      BY <2>2, LoopAssumption DEF LoopInv, MapTypeOK
  <2>6. CASE LastIteration(t')
    <3>1. P_' = "corrected" /\ place' = "done" /\ x_' = "corrected"
      BY <2>1, <2>6
    <3>2. searches' >= 2
      BY <2>1, <2>4, <2>5, <2>6 DEF LastIteration, MapTypeOK
    <3>3. QED
      BY <2>2, <2>3, <3>1, <3>2 DEF LoopInv, UpdateComplete
  <2>7. CASE ~LastIteration(t')
    <3>1. P_' = P_ /\ place' = "iterate" /\ iteration' = iteration + 1
      BY <2>1, <2>2, <2>7
    <3>2. t' <= 1 /\ iteration # NUM_MAX_ITERATIONS - 1
      BY <2>7 DEF LastIteration, MapTypeOK
    <3>3. converge' \/ t' = 0 \/ searches' >= 2
      BY <2>1, <2>4 DEF MapTypeOK
    <3>4. iteration = NUM_MAX_ITERATIONS - 2 => converge' \/ searches' >= 2
      BY <2>1, <2>4, <3>3 DEF Forced, MapTypeOK
    <3>5. iteration' > -1 /\ iteration' # NUM_MAX_ITERATIONS
      BY <3>1, <3>2, LoopAssumption DEF MapTypeOK
    <3>6. iteration' = NUM_MAX_ITERATIONS - 1 => converge' \/ searches' >= 2
      BY <3>1, <3>4, LoopAssumption DEF MapTypeOK
    <3>7. QED
      BY <2>2, <2>3, <3>1, <3>2, <3>3, <3>5, <3>6 DEF LoopInv, UpdateComplete
  <2>8. QED
    BY <2>6, <2>7
<1>6. CASE EndUpdate
  BY <1>6, LoopAssumption DEF EndUpdate, LoopInv, UpdateComplete, MapTypeOK, loopVars,
    filterVars
<1>7. CASE TakeState
  BY <1>7 DEF TakeState, LoopInv, UpdateComplete, loopVars, filterVars
<1>8. CASE UNCHANGED lioMapVars
  BY <1>8 DEF lioMapVars, loopVars, filterVars, LoopInv, UpdateComplete
<1>9. QED
  BY <1>1, <1>2, <1>3, <1>4, <1>5, <1>6, <1>7, <1>8 DEF MapNext, Update

\* An update ends with neighbours of its own scan, and with a corrected
\* covariance exactly if all its iterations had effective points, whatever the
\* number of iterations.
THEOREM UpdatesComplete == MapSpec => []UpdateComplete
<1>1. MapSpec => [](MapTypeOK /\ LoopInv)
  BY InitTypes, NextTypes, InitLoop, NextLoop, MapTypeCorrect, PTL DEF MapSpec
<1>2. LoopInv => UpdateComplete
  BY DEF LoopInv
<1>3. QED
  BY <1>1, <1>2, PTL

-----------------------------------------------------------------------------
(* Preprocess *)

-----------------------------------------------------------------------------
(* The inductive invariant *)

\* The time of a layer's last point is how far the layer has turned.
LayersRight ==
  \A l \in Lines : ~layers[l].is_first => layers[l].time_last = layers[l].turned

ReadInv == CloudTypeOK /\ LayersRight

IsPlane(k) == ftype[k] \in Planes

\* In the last pass the points from last_surface on are of planes, and fewer
\* than are counted.
InRun ==
  IF pc = "collect"
  THEN /\ i \in head .. n
       /\ last_surface # -1 =>
            /\ last_surface \in head .. i - 1
            /\ i - last_surface < point_filter_num
            /\ \A k \in last_surface .. i - 1 : IsPlane(k)
  ELSE last_surface = -1 /\ groups = <<>>

ScanInv == ReadInv /\ InRun

\* Of a lidar with times every point has the right one.
CloudsRight ==
  lidar_type # "other" =>
    /\ \A l \in Lines : \A k \in 1 .. Len(pl_buff[l]) : pl_buff[l][k].ok
    /\ \A p \in pl_surf : p.ok

\* What has the label of a plane or of an edge is not too near.
LabelsClear ==
  pc \in Passes =>
    \A k \in 0 .. n - 1 : ftype[k] \in Planes \cup Edges => ~Near(k)

BlindInv == NoBlindPoint /\ LabelsClear

\* The points of planes are counted up to here.
Upto == IF last_surface = -1 THEN i ELSE last_surface

\* A group is of planes, and full unless the run of planes ends after it.
Group(a, b) ==
  /\ head <= a /\ a <= b /\ b < Upto
  /\ \A k \in a .. b : IsPlane(k)
  /\ b - a < point_filter_num
  /\ b - a + 1 < point_filter_num => b + 1 < i /\ ~IsPlane(b + 1)

\* The groups follow one another, and leave no point of a plane out.
Counted ==
  pc = "collect" =>
    /\ \A g \in DOMAIN groups : Group(groups[g][1], groups[g][2])
    /\ \A g, h \in DOMAIN groups : g < h => groups[g][2] < groups[h][1]
    /\ \A k \in head .. Upto - 1 :
         IsPlane(k) => \E g \in DOMAIN groups : k \in groups[g][1] .. groups[g][2]

-----------------------------------------------------------------------------
(* Numbers, sequences and lines *)

\* The line give_feature works on stays as it is.
LEMMA LineKept ==
  ASSUME pl_buff' = pl_buff, j' = j
  PROVE  n' = n /\ head' = head /\ \A k : Near(k)' = Near(k)
<1> DEFINE Of(line) ==
      CHOOSE h \in 0 .. Len(line) :
        (\A k \in 0 .. h - 1 : line[k + 1].near) /\ (h = Len(line) \/ ~line[h + 1].near)
<1>1. head = Of(pl_buff[j]) /\ head' = Of(pl_buff'[j'])
  BY DEF head, n, Near
<1> HIDE DEF Of
<1> QED BY <1>1 DEF n, Near

LEMMA LineType ==
  ASSUME CloudTypeOK
  PROVE  /\ n \in Nat /\ pl_buff[j] \in Seq(Points)
         /\ \A k \in 0 .. n - 1 : pl_buff[j][k + 1] \in Points /\ Near(k) \in BOOLEAN
<1>1. n \in Nat /\ pl_buff[j] \in Seq(Points)
  BY DEF CloudTypeOK, n
<1>2. \A k \in 0 .. n - 1 : pl_buff[j][k + 1] \in Points
  <2> DEFINE s == pl_buff[j]
  <2>1. s \in Seq(Points) /\ n = Len(s)
    BY <1>1 DEF n
  <2> HIDE DEF s
  <2>2. \A k \in 0 .. Len(s) - 1 : s[k + 1] \in Points
    BY <2>1
  <2> QED BY <2>1, <2>2 DEF s
<1> QED BY <1>1, <1>2 DEF Near, Points

LEMMA HeadIs ==
  ASSUME CloudTypeOK
  PROVE  head \in 0 .. n /\ (\A k \in 0 .. head - 1 : Near(k)) /\ (head = n \/ ~Near(head))
<1>1. n \in Nat
  BY LineType
<1> DEFINE First(h, m) == (\A k \in 0 .. h - 1 : Near(k)) /\ (h = m \/ ~Near(h))
           S == {m \in Nat : \E h \in 0 .. m : First(h, m)}
<1>2. 0 \in S
  OBVIOUS
<1>3. ASSUME NEW m \in S PROVE m + 1 \in S
  <2>1. PICK h \in 0 .. m : First(h, m)
    OBVIOUS
  <2>2. CASE ~Near(h)
    <3>1. h \in 0 .. m + 1 /\ First(h, m + 1)
      BY <2>1, <2>2
    <3> QED BY <3>1
  <2>3. CASE Near(h)
    <3>1. h = m /\ First(m + 1, m + 1)
      BY <2>1, <2>3
    <3> QED BY <3>1
  <2> QED BY <2>2, <2>3
<1>4. S = Nat
  <2>1. S \subseteq Nat
    OBVIOUS
  <2> HIDE DEF S
  <2> QED BY <1>2, <1>3, <2>1, Induction
<1>5. \E h \in 0 .. n : First(h, n)
  BY <1>1, <1>4
<1>6. head = CHOOSE h \in 0 .. n : First(h, n)
  BY DEF head
<1> HIDE DEF First
<1>7. head \in 0 .. n /\ First(head, n)
  BY <1>5, <1>6
<1> QED BY <1>7 DEF First

-----------------------------------------------------------------------------
(* Reading a message *)

LEMMA FirstLayer ==
  ASSUME ReadInv, NEW l \in Lines, FirstOfLayer(l)
  PROVE  layers' \in [Lines -> Layer] /\ LayersRight'
<1>1. PICK yaw \in 0 .. Turn - 1 :
        layers' = [layers EXCEPT ![l] = [is_first |-> FALSE, yaw_fp |-> yaw,
                                         time_last |-> 0, turned |-> 0]]
  BY DEF FirstOfLayer
<1> DEFINE new == [is_first |-> FALSE, yaw_fp |-> yaw, time_last |-> 0, turned |-> 0]
<1>2. 0 \in 0 .. MaxTurned
  BY SizeAssumption
<1>3. new \in Layer /\ new.time_last = new.turned
  BY <1>2 DEF Layer
<1> HIDE DEF new
<1>4. layers' = [layers EXCEPT ![l] = new] /\ layers \in [Lines -> Layer]
  BY <1>1 DEF ReadInv, CloudTypeOK, new
<1> QED BY <1>3, <1>4 DEF ReadInv, LayersRight

\* A point after the first has the time it was measured at, also after a turn.
LEMMA NextLayer ==
  ASSUME ReadInv, NEW l \in Lines, NEW d \in 1 .. 2, NextOfLayer(l, d)
  PROVE  layers' \in [Lines -> Layer] /\ LayersRight' /\ TimeRight(l)
<1> DEFINE old == layers[l]
           turned == old.turned + d
           yaw == Yaw(old.yaw_fp, turned)
           time == Curvature(old, yaw)
<1>1. /\ ~old.is_first /\ turned <= MaxTurned
      /\ layers' = [layers EXCEPT ![l].turned = turned, ![l].time_last = time]
  BY DEF NextOfLayer
<1>2. layers \in [Lines -> Layer] /\ old \in Layer /\ old.time_last = old.turned
  BY <1>1 DEF ReadInv, CloudTypeOK, LayersRight
<1>3. /\ Turn \in Nat /\ Turn > 2 /\ MaxTurned \in Nat /\ MaxTurned < 2 * Turn
      /\ old.yaw_fp \in 0 .. Turn - 1 /\ old.turned \in 0 .. MaxTurned
  BY <1>2, SizeAssumption DEF Layer
<1>4. turned \in 0 .. MaxTurned
  BY <1>1, <1>3
<1> DEFINE fp == old.yaw_fp
           before == old.turned
           c == IF yaw <= fp THEN fp - yaw ELSE fp - yaw + Turn
<1>5. yaw = (fp - turned) % Turn /\ turned = before + d
      /\ time = IF c < old.time_last THEN c + Turn ELSE c
  BY DEF Yaw, Curvature
<1> HIDE DEF old, turned, yaw, time, fp, before
<1>6. fp \in 0 .. Turn - 1 /\ before \in 0 .. MaxTurned /\ old.time_last = before
  BY <1>2, <1>3 DEF fp, before
<1>7. c = IF turned < Turn THEN turned ELSE turned - Turn
  <2>1. fp - turned \in Int
    BY <1>3, <1>4, <1>6
  <2>2. CASE fp - turned >= 0
    <3>1. yaw = fp - turned
      BY <1>3, <1>4, <1>5, <1>6, <2>1, <2>2
    <3> QED BY <1>3, <1>4, <1>6, <2>2, <3>1
  <2>3. CASE fp - turned < 0 /\ fp - turned >= -Turn
    <3>1. yaw = fp - turned + Turn
      BY <1>3, <1>5, <2>1, <2>3
    <3> QED BY <1>3, <1>4, <1>6, <2>3, <3>1
  <2>4. CASE fp - turned < -Turn
    <3>1. yaw = fp - turned + 2 * Turn
      BY <1>3, <1>4, <1>5, <1>6, <2>1, <2>4
    <3> QED BY <1>3, <1>4, <1>6, <2>4, <3>1
  <2> QED BY <1>3, <2>1, <2>2, <2>3, <2>4
<1> HIDE DEF c
<1>8. time = turned
  BY <1>3, <1>4, <1>5, <1>6, <1>7
<1>9. [old EXCEPT !.turned = turned, !.time_last = time] \in Layer
  <2>1. turned \in 0 .. MaxTurned /\ time \in Nat
    BY <1>3, <1>4, <1>8
  <2>2. \A o \in Layer, x \in 0 .. MaxTurned, y \in Nat :
          [o EXCEPT !.turned = x, !.time_last = y] \in Layer
    BY DEF Layer
  <2> QED BY <1>2, <2>1, <2>2
<1>10. layers' = [layers EXCEPT ![l] = [old EXCEPT !.turned = turned, !.time_last = time]]
  BY <1>1, <1>2 DEF old
<1>11. layers'[l].time_last = turned /\ layers'[l].turned = turned
  BY <1>2, <1>8, <1>10 DEF Layer
<1> QED BY <1>2, <1>9, <1>10, <1>11 DEF ReadInv, LayersRight, TimeRight

\* What a handler does with a point: it drops it, keeps it, if it is not too
\* near, or buffers it for its line; it keeps or buffers none of which it does
\* not know the time, except the handler of other lidars.
PointTaken ==
  \/ Drop
  \/ \E p \in Points : Keep(p) /\ ~p.near /\ (lidar_type # "other" => p.ok)
  \/ \E l \in Lines, p \in Points : Buffer(l, p) /\ p.ok

HandlerDone ==
  /\ read' \in Nat /\ valid_num' \in Nat /\ prev_full' \in BOOLEAN
  /\ layers' \in [Lines -> Layer] /\ LayersRight'
  /\ PointTaken

LEMMA LayersKept ==
  ASSUME ReadInv, layers' = layers
  PROVE  layers' \in [Lines -> Layer] /\ LayersRight'
BY DEF ReadInv, CloudTypeOK, LayersRight

LEMMA PointType ==
  ASSUME NEW near \in BOOLEAN, NEW ok \in BOOLEAN
  PROVE  /\ Point(near, ok) \in Points
         /\ Point(near, ok).near = near /\ Point(near, ok).ok = ok
BY DEF Point, Points

LEMMA AviaDone ==
  ASSUME ReadInv, AviaPoint
  PROVE  HandlerDone
<1>1. read \in Nat /\ valid_num \in Nat /\ read' = read + 1 /\ layers' = layers
  BY DEF ReadInv, CloudTypeOK, AviaPoint, Reading
<1>2. PICK l \in 0 .. N_SCANS, near \in BOOLEAN, tagged \in BOOLEAN, same \in BOOLEAN :
        IF l = N_SCANS \/ ~tagged \/ read = 0
        THEN Drop /\ prev_full' = FALSE /\ UNCHANGED valid_num
        ELSE LET repeats == prev_full /\ same IN
             IF feature_enabled
             THEN /\ IF repeats THEN Drop ELSE Buffer(l, Point(near, TRUE))
                  /\ prev_full' = TRUE /\ UNCHANGED valid_num
             ELSE /\ valid_num' = (valid_num + 1) % point_filter_num
                  /\ prev_full' = (valid_num' = 0)
                  /\ IF valid_num' = 0 /\ ~repeats /\ ~near THEN Keep(Point(near, TRUE))
                     ELSE Drop
  BY Zenon DEF AviaPoint
<1>3. l # N_SCANS => l \in Lines
  BY SizeAssumption DEF Lines
<1>4. Point(near, TRUE) \in Points /\ Point(near, TRUE).near = near /\ Point(near, TRUE).ok
  BY PointType
<1>5. valid_num' \in Nat
  <2>1. (valid_num + 1) % point_filter_num \in Nat
    BY <1>1, SizeAssumption
  <2> QED BY <1>1, <1>2, <2>1
<1>6. prev_full' \in BOOLEAN
  BY <1>2
<1>7. PointTaken
  <2>1. \/ Drop \/ (Keep(Point(near, TRUE)) /\ ~near)
        \/ (l # N_SCANS /\ Buffer(l, Point(near, TRUE)))
    BY <1>2
  <2> QED BY <1>3, <1>4, <2>1 DEF PointTaken
<1> QED BY <1>1, <1>5, <1>6, <1>7, LayersKept DEF HandlerDone

LEMMA OusterDone ==
  ASSUME ReadInv, OusterPoint
  PROVE  HandlerDone
<1>1. read' \in Nat /\ valid_num' \in Nat /\ prev_full' \in BOOLEAN /\ layers' = layers
  BY DEF ReadInv, CloudTypeOK, OusterPoint, Reading
<1>2. PICK l \in 0 .. N_SCANS, near \in BOOLEAN :
        \/ Drop \/ (Keep(Point(near, TRUE)) /\ ~near)
        \/ (l # N_SCANS /\ Buffer(l, Point(near, TRUE)))
  BY DEF OusterPoint
<1>3. l # N_SCANS => l \in Lines
  BY SizeAssumption DEF Lines
<1>4. Point(near, TRUE) \in Points /\ Point(near, TRUE).near = near /\ Point(near, TRUE).ok
  BY PointType
<1>5. PointTaken
  BY <1>2, <1>3, <1>4 DEF PointTaken
<1> QED BY <1>1, <1>5, LayersKept DEF HandlerDone

LEMMA VelodyneDone ==
  ASSUME ReadInv, VelodynePoint
  PROVE  HandlerDone
<1>1. read' \in Nat /\ valid_num' \in Nat /\ prev_full' \in BOOLEAN
  BY DEF ReadInv, CloudTypeOK, VelodynePoint, Reading
<1>2. CASE UNCHANGED layers /\ Drop
  BY <1>1, <1>2, LayersKept DEF HandlerDone, PointTaken
<1>3. ASSUME NEW l \in Lines, NEW near \in BOOLEAN, NEW d \in 1 .. 2,
             IF ~given_offset_time /\ layers[l].is_first THEN FirstOfLayer(l) /\ Drop
             ELSE /\ IF given_offset_time THEN UNCHANGED layers ELSE NextOfLayer(l, d)
                  /\ LET p == Point(near, given_offset_time \/ TimeRight(l)) IN
                     IF feature_enabled THEN Buffer(l, p)
                     ELSE IF read % point_filter_num = 0 /\ ~near THEN Keep(p)
                     ELSE Drop
      PROVE  HandlerDone
  <2>1. CASE FirstOfLayer(l) /\ Drop
    BY <1>1, <2>1, FirstLayer DEF HandlerDone, PointTaken
  <2>2. CASE ~(FirstOfLayer(l) /\ Drop)
    <3> DEFINE right == given_offset_time \/ TimeRight(l)
               p == Point(near, right)
    <3>1. layers' \in [Lines -> Layer] /\ LayersRight' /\ right = TRUE
      <4>1. CASE given_offset_time
        BY <1>3, <2>2, <4>1, LayersKept
      <4>2. CASE ~given_offset_time
        <5>1. NextOfLayer(l, d)
          BY <1>3, <2>2, <4>2
        <5> QED BY <5>1, NextLayer DEF TimeRight
      <4> QED BY <4>1, <4>2
    <3>2. Drop \/ Buffer(l, p) \/ (Keep(p) /\ ~near)
      BY <1>3, <2>2
    <3> HIDE DEF right
    <3>3. p \in Points /\ p.near = near /\ p.ok
      BY <3>1, PointType
    <3> HIDE DEF p
    <3>4. PointTaken
      BY <3>2, <3>3 DEF PointTaken
    <3> QED BY <1>1, <3>1, <3>4 DEF HandlerDone
  <2> QED BY <2>1, <2>2
<1> QED BY <1>2, <1>3 DEF VelodynePoint

LEMMA Mid360Done ==
  ASSUME ReadInv, Mid360Point
  PROVE  HandlerDone
<1>1. read' \in Nat /\ valid_num' \in Nat /\ prev_full' \in BOOLEAN
  BY DEF ReadInv, CloudTypeOK, Mid360Point, Reading
<1>2. PICK l \in Lines, near \in BOOLEAN, d \in 1 .. 2 :
        IF layers[l].is_first THEN FirstOfLayer(l) /\ Drop
        ELSE /\ NextOfLayer(l, d)
             /\ IF near THEN Drop ELSE Keep(Point(near, TimeRight(l)))
  BY DEF Mid360Point
<1>3. CASE FirstOfLayer(l) /\ Drop
  BY <1>1, <1>3, FirstLayer DEF HandlerDone, PointTaken
<1>4. CASE NextOfLayer(l, d) /\ (Drop \/ (Keep(Point(near, TimeRight(l))) /\ ~near))
  <2> DEFINE right == TimeRight(l)
             p == Point(near, right)
  <2>1. layers' \in [Lines -> Layer] /\ LayersRight' /\ right = TRUE
    BY <1>4, NextLayer DEF TimeRight
  <2> HIDE DEF right
  <2>2. p \in Points /\ p.near = near /\ p.ok
    BY <2>1, PointType
  <2>3. Drop \/ (Keep(p) /\ ~near)
    BY <1>4 DEF right
  <2> HIDE DEF p
  <2>4. PointTaken
    BY <2>2, <2>3 DEF PointTaken
  <2> QED BY <1>1, <2>1, <2>4 DEF HandlerDone
<1> QED BY <1>2, <1>3, <1>4

LEMMA DefaultDone ==
  ASSUME ReadInv, DefaultPoint
  PROVE  HandlerDone
<1>1. /\ read' \in Nat /\ valid_num' \in Nat /\ prev_full' \in BOOLEAN /\ layers' = layers
      /\ lidar_type = "other"
  BY DEF ReadInv, CloudTypeOK, DefaultPoint, Reading
<1>2. PICK near \in BOOLEAN : Drop \/ (Keep(Point(near, FALSE)) /\ ~near)
  BY DEF DefaultPoint
<1>3. Point(near, FALSE) \in Points /\ Point(near, FALSE).near = near
  BY PointType
<1>4. PointTaken
  BY <1>1, <1>2, <1>3 DEF PointTaken
<1> QED BY <1>1, <1>4, LayersKept DEF HandlerDone

\* A handler's step.
Handler == AviaPoint \/ OusterPoint \/ VelodynePoint \/ Mid360Point \/ DefaultPoint

LEMMA HandlerDoes ==
  ASSUME ReadInv, Handler
  PROVE  /\ pc = "read" /\ UNCHANGED <<msgVars, pc, pl_corn, lineVars>>
         /\ HandlerDone
<1>1. pc = "read" /\ UNCHANGED <<msgVars, pc, pl_corn, lineVars>>
  BY DEF Handler, AviaPoint, OusterPoint, VelodynePoint, Mid360Point, DefaultPoint, Reading
<1> QED BY <1>1, AviaDone, OusterDone, VelodyneDone, Mid360Done, DefaultDone DEF Handler

LEMMA TakenType ==
  ASSUME CloudTypeOK, PointTaken
  PROVE  pl_buff' \in [Lines -> Seq(Points)] /\ pl_surf' \subseteq Points
<1>1. pl_buff \in [Lines -> Seq(Points)] /\ pl_surf \subseteq Points
  BY DEF CloudTypeOK
<1>2. ASSUME NEW l \in Lines, NEW p \in Points, Buffer(l, p)
      PROVE  pl_buff' \in [Lines -> Seq(Points)] /\ pl_surf' \subseteq Points
  <2>1. pl_buff[l] \in Seq(Points)
    BY <1>1
  <2>2. Append(pl_buff[l], p) \in Seq(Points)
    BY <2>1, Appended
  <2>3. pl_buff' = [pl_buff EXCEPT ![l] = Append(pl_buff[l], p)] /\ pl_surf' = pl_surf
    BY <1>2 DEF Buffer
  <2> QED BY <1>1, <2>2, <2>3
<1> QED BY <1>1, <1>2 DEF PointTaken, Drop, Keep

LEMMA HandlerType ==
  ASSUME ReadInv, Handler
  PROVE  ReadInv'
<1>1. /\ pc = "read" /\ UNCHANGED <<msgVars, pc, pl_corn, lineVars>> /\ HandlerDone
  BY HandlerDoes
<1>2. pl_buff' \in [Lines -> Seq(Points)] /\ pl_surf' \subseteq Points
  BY <1>1, TakenType DEF ReadInv, HandlerDone
<1> QED BY <1>1, <1>2 DEF ReadInv, CloudTypeOK, HandlerDone, msgVars, lineVars, Passes

LEMMA MessageType ==
  ASSUME ReadInv, EndOfMessage \/ process
  PROVE  ReadInv'
<1>1. Unseen \in Layer /\ Unseen.is_first
  <2>1. 0 \in 0 .. MaxTurned /\ 0 \in 0 .. Turn - 1
    BY SizeAssumption
  <2> QED BY <2>1 DEF Unseen, Layer
<1>2. CASE EndOfMessage
  <2>1. layers' \in [Lines -> Layer] /\ LayersRight'
    BY <1>1, <1>2 DEF EndOfMessage, LayersRight
  <2>2. valid_num' \in Nat /\ prev_full' \in BOOLEAN /\ pc' \in {"line", "done"}
        /\ UNCHANGED <<msgVars, read, pl_buff, pl_surf, pl_corn, lineVars>> /\ pc = "read"
    BY <1>2 DEF EndOfMessage
  <2> QED BY <2>1, <2>2 DEF ReadInv, CloudTypeOK, msgVars, lineVars, Passes
<1>3. CASE process
  <2>1. <<>> \in Seq(Points)
    OBVIOUS
  <2>2. pl_buff' \in [Lines -> Seq(Points)]
    BY <1>3, <2>1 DEF process
  <2> QED BY <1>3, <2>2 DEF process, ReadInv, CloudTypeOK, LayersRight, lineVars, Passes
<1> QED BY <1>2, <1>3

\* What of the types give_feature can change.
LEMMA PassType ==
  ASSUME ReadInv, UNCHANGED <<msgVars, readVars, j>>, pc' \in Passes,
         pl_surf' \subseteq Points, pl_corn' \subseteq Points, i' \in Nat,
         ftype' \in [0 .. n -> Labels], seen' \subseteq Nat, last_state' \in {0, 1},
         last_surface' \in Nat \cup {-1}, groups' \in Seq(Nat \X Nat)
  PROVE  ReadInv'
<1>1. n' = n
  BY LineKept DEF readVars
<1> QED BY <1>1 DEF ReadInv, CloudTypeOK, LayersRight, msgVars, readVars

\* The numbers a line is worked on with.
LEMMA PassNumbers ==
  ASSUME CloudTypeOK, pc \in Passes
  PROVE  /\ n \in Nat /\ i \in Nat /\ group_size \in Nat \ {0} /\ point_filter_num \in Nat \ {0}
         /\ ftype \in [0 .. n -> Labels] /\ last_surface \in Nat \cup {-1}
         /\ groups \in Seq(Nat \X Nat)
BY LineType, SizeAssumption DEF CloudTypeOK

LEMMA NextLineType ==
  ASSUME ReadInv, NextLine
  PROVE  ReadInv'
<1>1. /\ pc = "line"
      /\ UNCHANGED <<msgVars, readVars, pl_surf, pl_corn, seen, last_state, last_surface, groups>>
  BY DEF NextLine
<1>2. CASE n < MinLine
  <2>1. pc' \in {"line", "done"} /\ j' \in Lines /\ UNCHANGED <<i, ftype>>
    BY <1>2, SizeAssumption DEF NextLine, ReadInv, CloudTypeOK, Lines
  <2> QED BY <1>1, <2>1 DEF ReadInv, CloudTypeOK, LayersRight, msgVars, readVars, Passes
<1>3. CASE ~(n < MinLine)
  <2>1. pc' = "planes" /\ i' = head /\ ftype' = [k \in 0 .. n |-> "Nor"] /\ UNCHANGED j
    BY <1>3 DEF NextLine
  <2>2. i' \in Nat
    BY <2>1, HeadIs, LineType DEF ReadInv
  <2>3. ftype' \in [0 .. n -> Labels] /\ pc' \in Passes
    BY <2>1 DEF Labels, Passes
  <2> QED BY <1>1, <2>1, <2>2, <2>3, PassType DEF ReadInv, CloudTypeOK
<1> QED BY <1>2, <1>3

LEMMA PlaneJudgeIs ==
  ASSUME NEW k \in Nat, NEW r \in PlaneJudge(k), n \in Nat, k < n - group_size
  PROVE  /\ r.nex \in k .. n /\ r.type \in 0 .. 2
         /\ r.type = 1 => /\ r.nex \in k + group_size .. n
                          /\ Clear(k, IF r.nex = n THEN n - 1 ELSE r.nex)
<1>1. group_size \in Nat \ {0}
  BY SizeAssumption
<1>2. CASE /\ r \in [type : {0, 1}, nex : k + group_size .. n]
           /\ Clear(k, IF r.nex = n THEN n - 1 ELSE r.nex)
  BY <1>1, <1>2
<1>3. CASE r \in [type : {2}, nex : k .. n - 1]
  BY <1>1, <1>3
<1> QED BY <1>2, <1>3 DEF PlaneJudge

\* What the first pass does to the labels.
LEMMA FindPlaneDoes ==
  ASSUME CloudTypeOK, FindPlane
  PROVE  /\ pc = "planes" /\ i' \in Nat /\ last_state' \in {0, 1}
         /\ UNCHANGED <<msgVars, pc, readVars, pl_surf, pl_corn, j, seen, last_surface, groups>>
         /\ \/ UNCHANGED ftype
            \/ \E nex \in i + 1 .. n, first \in {"Edge_Plane", "Real_Plane", "Poss_Plane"} :
                 /\ Clear(i, IF nex = n THEN n - 1 ELSE nex)
                 /\ ftype' = [k \in 0 .. n |->
                                CASE k = i              -> first
                                  [] k > i /\ k < nex   -> "Real_Plane"
                                  [] k = nex            -> "Poss_Plane"
                                  [] k < i \/ k > nex   -> ftype[k]]
<1>1. /\ pc = "planes" /\ i < n - group_size
      /\ UNCHANGED <<msgVars, pc, readVars, pl_surf, pl_corn, j, seen, last_surface, groups>>
  BY DEF FindPlane
<1>2. n \in Nat /\ i \in Nat /\ group_size \in Nat \ {0} /\ last_state \in {0, 1}
  BY <1>1, PassNumbers DEF Passes, CloudTypeOK
<1>3. CASE Near(i)
  BY <1>1, <1>2, <1>3 DEF FindPlane
<1>4. CASE ~Near(i)
  <2>1. PICK r \in PlaneJudge(i) :
       IF r.type = 1
       THEN /\ \E first \in IF last_state = 1 THEN {"Edge_Plane", "Real_Plane"}
                            ELSE {"Poss_Plane"} :
                 ftype' = [k \in 0 .. n |->
                             CASE k = i                -> first
                               [] k > i /\ k < r.nex   -> "Real_Plane"
                               [] k = r.nex            -> "Poss_Plane"
                               [] k < i \/ k > r.nex   -> ftype[k]]
            /\ i' = r.nex /\ last_state' = 1
       ELSE i' = r.nex + 1 /\ last_state' = 0 /\ UNCHANGED ftype
    BY <1>4 DEF FindPlane
  <2>2. /\ r.nex \in i .. n
        /\ r.type = 1 => /\ r.nex \in i + group_size .. n
                         /\ Clear(i, IF r.nex = n THEN n - 1 ELSE r.nex)
    BY <1>1, <1>2, PlaneJudgeIs
  <2>3. CASE r.type = 1
    <3>1. PICK first \in {"Edge_Plane", "Real_Plane", "Poss_Plane"} :
                 ftype' = [k \in 0 .. n |->
                             CASE k = i                -> first
                               [] k > i /\ k < r.nex   -> "Real_Plane"
                               [] k = r.nex            -> "Poss_Plane"
                               [] k < i \/ k > r.nex   -> ftype[k]]
      BY <2>1, <2>3
    <3>2. i' = r.nex /\ last_state' = 1
      BY <2>1, <2>3
    <3>3. r.nex \in i + 1 .. n /\ Clear(i, IF r.nex = n THEN n - 1 ELSE r.nex)
      BY <1>2, <2>2, <2>3
    <3>4. i' \in Nat
      BY <1>2, <3>2, <3>3
    <3> QED BY <1>1, <3>1, <3>2, <3>3, <3>4
  <2>4. CASE r.type # 1
    <3>1. i' = r.nex + 1 /\ last_state' = 0 /\ UNCHANGED ftype
      BY <2>1, <2>4
    <3>2. i' \in Nat
      BY <1>2, <2>2, <3>1
    <3> QED BY <1>1, <3>1, <3>2
  <2> QED BY <2>3, <2>4
<1> QED BY <1>3, <1>4

LEMMA FindPlaneType ==
  ASSUME ReadInv, FindPlane
  PROVE  ReadInv'
<1>1. CloudTypeOK /\ pc \in Passes /\ pl_surf \subseteq Points /\ pl_corn \subseteq Points
      /\ seen \subseteq Nat
  BY FindPlaneDoes DEF ReadInv, CloudTypeOK, Passes
<1>2. n \in Nat /\ i \in Nat /\ ftype \in [0 .. n -> Labels]
      /\ last_surface \in Nat \cup {-1} /\ groups \in Seq(Nat \X Nat)
  BY <1>1, PassNumbers
<1>3. ftype' \in [0 .. n -> Labels]
  <2>1. ASSUME NEW nex \in i + 1 .. n,
               NEW first \in {"Edge_Plane", "Real_Plane", "Poss_Plane"}, NEW k \in 0 .. n
        PROVE  (CASE k = i              -> first
                  [] k > i /\ k < nex   -> "Real_Plane"
                  [] k = nex            -> "Poss_Plane"
                  [] k < i \/ k > nex   -> ftype[k]) \in Labels
    BY <1>2 DEF Labels, Planes, Edges
  <2>2. ASSUME NEW nex \in i + 1 .. n,
               NEW first \in {"Edge_Plane", "Real_Plane", "Poss_Plane"},
               ftype' = [k \in 0 .. n |->
                           CASE k = i              -> first
                             [] k > i /\ k < nex   -> "Real_Plane"
                             [] k = nex            -> "Poss_Plane"
                             [] k < i \/ k > nex   -> ftype[k]]
        PROVE  ftype' \in [0 .. n -> Labels]
    <3> DEFINE label(k) == CASE k = i              -> first
                             [] k > i /\ k < nex   -> "Real_Plane"
                             [] k = nex            -> "Poss_Plane"
                             [] k < i \/ k > nex   -> ftype[k]
    <3>1. \A k \in 0 .. n : label(k) \in Labels
      BY <2>1
    <3>2. ftype' = [k \in 0 .. n |-> label(k)]
      BY <2>2
    <3> HIDE DEF label
    <3> QED BY <3>1, <3>2
  <2>3. CASE UNCHANGED ftype
    BY <1>2, <2>3
  <2> QED BY <1>1, <2>2, <2>3, FindPlaneDoes
<1> QED BY <1>1, <1>2, <1>3, FindPlaneDoes, PassType

\* What the second pass does to the labels.
LEMMA FindEdgeDoes ==
  ASSUME CloudTypeOK, FindEdge
  PROVE  /\ pc = "edges" /\ i' \in Nat /\ i \in 0 .. n - 1 /\ seen' \subseteq seen \cup {i}
         /\ UNCHANGED <<msgVars, pc, readVars, pl_surf, pl_corn, j, last_state, last_surface, groups>>
         /\ \/ UNCHANGED ftype
            \/ ftype' = [ftype EXCEPT ![i] = "Wire"]
            \/ ftype' = [ftype EXCEPT ![i] = "Edge_Jump"] /\ ~Near(i)
<1>1. /\ pc = "edges" /\ i < n - 3 /\ i' = i + 1
      /\ UNCHANGED <<msgVars, pc, readVars, pl_surf, pl_corn, j, last_state, last_surface, groups>>
  BY DEF FindEdge
<1>2. n \in Nat /\ i \in Nat /\ ftype \in [0 .. n -> Labels]
  BY <1>1, PassNumbers DEF Passes
<1>3. i' \in Nat /\ i \in 0 .. n - 1
  BY <1>1, <1>2
<1>4. seen' \subseteq seen \cup {i}
  BY DEF FindEdge
<1>5. ftype = [ftype EXCEPT ![i] = ftype[i]]
  BY <1>2
<1>6. \/ UNCHANGED ftype
      \/ \E label \in {"Wire", ftype[i]} : ftype' = [ftype EXCEPT ![i] = label]
      \/ ftype' = [ftype EXCEPT ![i] = "Edge_Jump"] /\ ~Near(i)
  BY DEF FindEdge
<1> QED BY <1>1, <1>3, <1>4, <1>5, <1>6

LEMMA FindEdgeType ==
  ASSUME ReadInv, FindEdge
  PROVE  ReadInv'
<1>1. /\ CloudTypeOK /\ pc \in Passes /\ pl_surf \subseteq Points /\ pl_corn \subseteq Points
      /\ seen \subseteq Nat /\ last_state \in {0, 1}
  BY FindEdgeDoes DEF ReadInv, CloudTypeOK, Passes
<1>2. n \in Nat /\ i \in Nat /\ ftype \in [0 .. n -> Labels]
      /\ last_surface \in Nat \cup {-1} /\ groups \in Seq(Nat \X Nat)
  BY <1>1, PassNumbers
<1>3. ftype' \in [0 .. n -> Labels]
  BY <1>1, <1>2, FindEdgeDoes DEF Labels, Edges
<1>4. seen' \subseteq Nat
  BY <1>1, <1>2, FindEdgeDoes
<1> QED BY <1>1, <1>2, <1>3, <1>4, FindEdgeDoes, PassType

\* What the third pass does to the labels.
LEMMA FindSmallPlaneDoes ==
  ASSUME CloudTypeOK, FindSmallPlane
  PROVE  /\ pc = "small" /\ i' \in Nat
         /\ UNCHANGED <<msgVars, pc, readVars, pl_surf, pl_corn, j, seen, last_state,
                        last_surface, groups>>
         /\ \/ UNCHANGED ftype
            \/ /\ \A k \in i - 1 .. i + 1 : ~Near(k)
               /\ ftype' = [k \in 0 .. n |-> IF k \in i - 1 .. i + 1 /\ ftype[k] = "Nor"
                                             THEN "Real_Plane" ELSE ftype[k]]
<1>1. /\ pc = "small" /\ i < n - 1 /\ i' = i + 1
      /\ UNCHANGED <<msgVars, pc, readVars, pl_surf, pl_corn, j, seen, last_state,
                     last_surface, groups>>
  BY DEF FindSmallPlane
<1>2. i \in Nat
  BY <1>1, PassNumbers DEF Passes
<1>3. \A k \in i - 1 .. i + 1 : k = i - 1 \/ k = i \/ k = i + 1
  BY <1>2
<1> QED BY <1>1, <1>2, <1>3 DEF FindSmallPlane

LEMMA FindSmallPlaneType ==
  ASSUME ReadInv, FindSmallPlane
  PROVE  ReadInv'
<1>1. /\ CloudTypeOK /\ pc \in Passes /\ pl_surf \subseteq Points /\ pl_corn \subseteq Points
      /\ seen \subseteq Nat /\ last_state \in {0, 1}
  BY FindSmallPlaneDoes DEF ReadInv, CloudTypeOK, Passes
<1>2. n \in Nat /\ i \in Nat /\ ftype \in [0 .. n -> Labels]
      /\ last_surface \in Nat \cup {-1} /\ groups \in Seq(Nat \X Nat)
  BY <1>1, PassNumbers
<1>3. ftype' \in [0 .. n -> Labels]
  BY <1>1, <1>2, FindSmallPlaneDoes DEF Labels, Planes
<1> QED BY <1>1, <1>2, <1>3, FindSmallPlaneDoes, PassType

LEMMA EndPassType ==
  ASSUME ReadInv, EndPlanes \/ EndEdges \/ EndSmall
  PROVE  ReadInv'
<1>1. /\ CloudTypeOK /\ pc \in Passes /\ pl_surf \subseteq Points /\ pl_corn \subseteq Points
      /\ seen \subseteq Nat /\ last_state \in {0, 1}
  BY DEF ReadInv, CloudTypeOK, Passes, EndPlanes, EndEdges, EndSmall
<1>2. n \in Nat /\ i \in Nat /\ ftype \in [0 .. n -> Labels]
      /\ last_surface \in Nat \cup {-1} /\ groups \in Seq(Nat \X Nat) /\ head \in Nat
  BY <1>1, PassNumbers, HeadIs
<1>3. head + 3 \in Nat /\ head + 1 \in Nat
  BY <1>2
<1>4. CASE EndPlanes
  BY <1>1, <1>2, <1>3, <1>4, PassType DEF EndPlanes, Passes
<1>5. CASE EndEdges
  BY <1>1, <1>2, <1>3, <1>5, PassType DEF EndEdges, Passes
<1>6. CASE EndSmall
  BY <1>1, <1>2, <1>3, <1>6, PassType DEF EndSmall, Passes
<1> QED BY <1>4, <1>5, <1>6

\* A point of a line is one of its buffer.
LEMMA PointOfLine ==
  ASSUME CloudTypeOK, NEW k \in 0 .. n - 1
  PROVE  pl_buff[j][k + 1] \in Points
BY LineType

LEMMA MeanType ==
  ASSUME NEW a, NEW b
  PROVE  Mean(a, b) \in Points
<1>1. (\E k \in a .. b : Near(k)) \in BOOLEAN
  OBVIOUS
<1>2. (\A k \in a .. b : pl_buff[j][k + 1].ok) \in BOOLEAN
  OBVIOUS
<1> QED BY <1>1, <1>2, PointType DEF Mean

LEMMA TakePlaneType ==
  ASSUME ScanInv, TakePlane
  PROVE  ReadInv'
<1>1. /\ CloudTypeOK /\ pc \in Passes /\ pl_surf \subseteq Points /\ pl_corn \subseteq Points
      /\ seen \subseteq Nat /\ last_state \in {0, 1}
  BY DEF ScanInv, ReadInv, CloudTypeOK, Passes, TakePlane
<1>2. n \in Nat /\ i \in Nat /\ ftype \in [0 .. n -> Labels] /\ i < n
      /\ last_surface \in Nat \cup {-1} /\ groups \in Seq(Nat \X Nat)
  BY <1>1, PassNumbers DEF TakePlane
<1> DEFINE from == IF last_surface = -1 THEN i ELSE last_surface
           taken == i = from + point_filter_num - 1
<1>3. /\ last_surface' = Started(from, i) /\ i' = i + 1
      /\ pl_surf' = IF taken THEN pl_surf \cup {pl_buff[j][i + 1]} ELSE pl_surf
      /\ groups' = IF taken THEN Append(groups, <<from, i>>) ELSE groups
      /\ UNCHANGED <<msgVars, pc, readVars, pl_corn, j, ftype, seen, last_state>>
  BY DEF TakePlane
<1>4. from \in Nat
  BY <1>2
<1> HIDE DEF from, taken
<1>5. last_surface' \in Nat \cup {-1} /\ i' \in Nat
  BY <1>2, <1>3, <1>4 DEF Started
<1>6. pl_surf' \subseteq Points
  BY <1>1, <1>2, <1>3, PointOfLine
<1>7. groups' \in Seq(Nat \X Nat)
  <2>1. <<from, i>> \in Nat \X Nat
    BY <1>2, <1>4
  <2> QED BY <1>2, <1>3, <2>1, Appended
<1> QED BY <1>1, <1>2, <1>3, <1>5, <1>6, <1>7, PassType DEF ScanInv

LEMMA TakeOtherType ==
  ASSUME ScanInv, TakeOther
  PROVE  ReadInv'
<1>1. /\ CloudTypeOK /\ pc = "collect" /\ pc \in Passes /\ pl_surf \subseteq Points
      /\ pl_corn \subseteq Points /\ seen \subseteq Nat /\ last_state \in {0, 1}
  BY DEF ScanInv, ReadInv, CloudTypeOK, Passes, TakeOther
<1>2. n \in Nat /\ i \in Nat /\ ftype \in [0 .. n -> Labels] /\ i < n
      /\ last_surface \in Nat \cup {-1} /\ groups \in Seq(Nat \X Nat)
  BY <1>1, PassNumbers DEF TakeOther
<1>3. /\ last_surface' = -1 /\ i' = i + 1
      /\ UNCHANGED <<msgVars, pc, readVars, j, ftype, seen, last_state>>
  BY DEF TakeOther
<1>4. i' \in Nat
  BY <1>2, <1>3
<1>5. pl_corn' \subseteq Points
  BY <1>1, <1>2, PointOfLine DEF TakeOther
<1>6. pl_surf' \subseteq Points
  BY <1>1, MeanType DEF TakeOther
<1>7. groups' \in Seq(Nat \X Nat)
  <2>1. CASE last_surface = -1
    BY <1>2, <2>1 DEF TakeOther
  <2>2. CASE last_surface # -1
    <3>1. last_surface \in head .. i - 1 /\ head \in Nat
      BY <1>1, <2>2, HeadIs, LineType DEF ScanInv, InRun
    <3>2. <<last_surface, i - 1>> \in Nat \X Nat
      BY <1>2, <3>1
    <3>3. groups' = Append(groups, <<last_surface, i - 1>>)
      BY <2>2 DEF TakeOther
    <3> QED BY <1>2, <3>2, <3>3, Appended
  <2> QED BY <2>1, <2>2
<1> QED BY <1>1, <1>2, <1>3, <1>4, <1>5, <1>6, <1>7, PassType DEF ScanInv

LEMMA EndLineType ==
  ASSUME ReadInv, EndLine
  PROVE  ReadInv'
<1>1. pc' \in {"done", "line"} /\ j' \in Lines
  BY SizeAssumption DEF EndLine, ReadInv, CloudTypeOK, Lines
<1>2. <<>> \in Seq(Nat \X Nat)
  OBVIOUS
<1> QED BY <1>1, <1>2 DEF EndLine, ReadInv, CloudTypeOK, LayersRight, msgVars, readVars, Passes

-----------------------------------------------------------------------------
(* The run of plane points, and types *)

LEMMA TakePlaneRun ==
  ASSUME ScanInv, TakePlane
  PROVE  InRun'
<1>1. CloudTypeOK /\ pc = "collect" /\ pc \in Passes
  BY DEF ScanInv, ReadInv, Passes, TakePlane
<1>2. /\ n \in Nat /\ i \in Nat /\ i < n /\ last_surface \in Nat \cup {-1} /\ head \in 0 .. n
      /\ point_filter_num \in Nat \ {0}
  BY <1>1, PassNumbers, HeadIs DEF TakePlane
<1> DEFINE from == IF last_surface = -1 THEN i ELSE last_surface
<1>3. /\ last_surface' = Started(from, i) /\ i' = i + 1 /\ pc' = pc /\ IsPlane(i)
      /\ ftype' = ftype /\ n' = n /\ head' = head
  BY LineKept DEF TakePlane, readVars, IsPlane
<1>4. i \in head .. n /\ from \in head .. i /\ i - from < point_filter_num
      /\ \A k \in from .. i - 1 : IsPlane(k)
  BY <1>1, <1>2 DEF ScanInv, InRun
<1> HIDE DEF from
<1>5. i' \in head' .. n'
  BY <1>2, <1>3, <1>4
<1>6. ASSUME last_surface' # -1
      PROVE  /\ last_surface' \in head' .. i' - 1
             /\ i' - last_surface' < point_filter_num
             /\ \A k \in last_surface' .. i' - 1 : IsPlane(k)'
  <2>1. last_surface' = from /\ i # from + point_filter_num - 1
    BY <1>3, <1>6 DEF Started
  <2>2. \A k \in from .. i : IsPlane(k)
    BY <1>2, <1>3, <1>4
  <2> QED BY <1>2, <1>3, <1>4, <2>1, <2>2 DEF IsPlane
<1> QED BY <1>1, <1>3, <1>5, <1>6 DEF InRun

LEMMA TakeOtherRun ==
  ASSUME ScanInv, TakeOther
  PROVE  InRun'
<1>1. CloudTypeOK /\ pc = "collect" /\ pc \in Passes
  BY DEF ScanInv, ReadInv, Passes, TakeOther
<1>2. n \in Nat /\ i \in Nat /\ i < n /\ head \in 0 .. n /\ i \in head .. n
  BY <1>1, PassNumbers, HeadIs DEF TakeOther, ScanInv, InRun
<1>3. last_surface' = -1 /\ i' = i + 1 /\ pc' = pc /\ n' = n /\ head' = head
  BY LineKept DEF TakeOther, readVars
<1> QED BY <1>1, <1>2, <1>3 DEF InRun

LEMMA RunStep ==
  ASSUME ScanInv, [CloudNext]_cloudVars
  PROVE  InRun'
<1> USE DEF ScanInv
<1>1. CASE Handler
  BY <1>1, HandlerDoes DEF InRun, lineVars
<1>2. CASE EndOfMessage \/ NextLine \/ EndLine \/ process
  BY <1>2 DEF EndOfMessage, NextLine, EndLine, process, InRun, lineVars
<1>3. CASE FindPlane \/ EndPlanes \/ FindEdge \/ EndEdges \/ FindSmallPlane
  BY <1>3 DEF FindPlane, EndPlanes, FindEdge, EndEdges, FindSmallPlane, InRun
<1>4. CASE EndSmall
  <2>1. CloudTypeOK /\ pc = "small" /\ pc' = "collect" /\ i' = head /\ last_surface' = last_surface
        /\ n' = n /\ head' = head
    BY <1>4, LineKept DEF ReadInv, EndSmall, readVars
  <2>2. head \in 0 .. n /\ n \in Nat /\ last_surface = -1
    BY <2>1, HeadIs, LineType DEF InRun
  <2> QED BY <2>1, <2>2 DEF InRun
<1>5. CASE UNCHANGED cloudVars
  <2>1. UNCHANGED <<pc, pl_buff, j, i, ftype, last_surface, groups>>
    BY <1>5 DEF cloudVars, readVars, lineVars
  <2> QED BY <2>1, LineKept DEF InRun, IsPlane
<1> QED BY <1>1, <1>2, <1>3, <1>4, <1>5, TakePlaneRun, TakeOtherRun DEF CloudNext, Handler

LEMMA ReadStep ==
  ASSUME ScanInv, [CloudNext]_cloudVars
  PROVE  ReadInv'
<1> USE DEF ScanInv
<1>1. CASE UNCHANGED cloudVars
  BY <1>1 DEF cloudVars, msgVars, readVars, lineVars, ReadInv, CloudTypeOK, LayersRight, n
<1> QED BY <1>1, HandlerType, MessageType, NextLineType, FindPlaneType, FindEdgeType,
           FindSmallPlaneType, EndPassType, TakePlaneType, TakeOtherType, EndLineType
        DEF CloudNext, Handler

LEMMA ScanInit ==
  ASSUME CloudInit
  PROVE  ScanInv
<1>1. Unseen \in Layer /\ Unseen.is_first
  <2>1. 0 \in 0 .. MaxTurned /\ 0 \in 0 .. Turn - 1
    BY SizeAssumption
  <2> QED BY <2>1 DEF Unseen, Layer
<1>2. <<>> \in Seq(Points) /\ <<>> \in Seq(Nat \X Nat) /\ 0 \in Lines
  BY SizeAssumption DEF Lines
<1>3. layers \in [Lines -> Layer] /\ LayersRight /\ pl_buff \in [Lines -> Seq(Points)]
  BY <1>1, <1>2 DEF CloudInit, LayersRight
<1> QED BY <1>2, <1>3 DEF CloudInit, ScanInv, ReadInv, CloudTypeOK, InRun, Passes

LEMMA ScanAlways == CloudSpec => []ScanInv
<1>1. ScanInv /\ [CloudNext]_cloudVars => ScanInv'
  BY RunStep, ReadStep DEF ScanInv
<1> QED BY <1>1, ScanInit, PTL DEF CloudSpec

\* Whatever the lidar, the number of its lines, of the points of a scan and of
\* the steps of a turn, the buffers, labels and counters of preprocess.cpp have
\* the types of the members and locals they model: give_feature labels the
\* points of the line it works on, and the one behind them, and no others.
THEOREM CloudTypeCorrect == CloudSpec => []CloudTypeOK
BY ScanAlways, PTL DEF ScanInv, ReadInv

-----------------------------------------------------------------------------
(* The times of the points *)

LEMMA TakenRight ==
  ASSUME CloudTypeOK, CloudsRight, PointTaken, lidar_type' = lidar_type
  PROVE  CloudsRight'
<1> SUFFICES ASSUME lidar_type # "other" PROVE CloudsRight'
  BY DEF CloudsRight
<1>1. CASE Drop
  BY <1>1 DEF Drop, CloudsRight
<1>2. ASSUME NEW p \in Points, Keep(p), p.ok
      PROVE  CloudsRight'
  BY <1>2 DEF Keep, CloudsRight
<1>3. ASSUME NEW l \in Lines, NEW p \in Points, Buffer(l, p), p.ok
      PROVE  CloudsRight'
  <2> DEFINE s == pl_buff[l]
             longer == Append(s, p)
  <2>1. s \in Seq(Points) /\ pl_buff \in [Lines -> Seq(Points)]
    BY DEF CloudTypeOK
  <2>2. pl_buff' = [pl_buff EXCEPT ![l] = longer] /\ pl_surf' = pl_surf
    BY <1>3 DEF Buffer
  <2>3. \A k \in 1 .. Len(s) : s[k].ok
    BY DEF CloudsRight
  <2> HIDE DEF s
  <2>4. \A k \in 1 .. Len(longer) : longer[k].ok
    <3>1. Len(longer) = Len(s) + 1 /\ Len(s) \in Nat
      BY <2>1
    <3>2. (\A k \in 1 .. Len(s) : longer[k] = s[k]) /\ longer[Len(s) + 1] = p
      BY <2>1, Appended
    <3> HIDE DEF longer
    <3> QED BY <1>3, <2>3, <3>1, <3>2
  <2> HIDE DEF longer
  <2>5. \A m \in Lines : \A k \in 1 .. Len(pl_buff'[m]) : pl_buff'[m][k].ok
    BY <2>1, <2>2, <2>4 DEF CloudsRight
  <2> QED BY <2>2, <2>5 DEF CloudsRight
<1> QED BY <1>1, <1>2, <1>3 DEF PointTaken

LEMMA CloudsStep ==
  ASSUME ScanInv, CloudsRight, [CloudNext]_cloudVars
  PROVE  CloudsRight'
<1>1. CloudTypeOK
  BY DEF ScanInv, ReadInv
<1>2. CASE Handler
  BY <1>1, <1>2, HandlerDoes, TakenRight DEF ScanInv, HandlerDone, msgVars
<1>3. CASE \/ EndOfMessage \/ NextLine \/ FindPlane \/ EndPlanes \/ FindEdge \/ EndEdges
           \/ FindSmallPlane \/ EndSmall \/ EndLine \/ UNCHANGED cloudVars
  <2>1. UNCHANGED <<lidar_type, pl_buff, pl_surf>>
    BY <1>3 DEF EndOfMessage, NextLine, FindPlane, EndPlanes, FindEdge, EndEdges,
                FindSmallPlane, EndSmall, EndLine, cloudVars, msgVars, readVars
  <2> QED BY <2>1 DEF CloudsRight
<1>4. CASE process
  <2>1. pl_surf' = {} /\ \A l \in Lines : Len(pl_buff'[l]) = 0
    BY <1>4 DEF process
  <2> QED BY <2>1 DEF CloudsRight
<1>5. CASE lidar_type = "other" /\ (TakePlane \/ TakeOther)
  BY <1>5 DEF CloudsRight, TakePlane, TakeOther, msgVars
<1>6. ASSUME lidar_type # "other", NEW k \in 0 .. n - 1
      PROVE  pl_buff[j][k + 1].ok
  <2>1. j \in Lines /\ n = Len(pl_buff[j]) /\ n \in Nat
    BY <1>1, LineType DEF CloudTypeOK, n
  <2> QED BY <1>6, <2>1 DEF CloudsRight
<1>7. CASE lidar_type # "other" /\ TakePlane
  <2>1. i \in 0 .. n - 1
    BY <1>1, <1>7, PassNumbers DEF TakePlane, Passes
  <2>2. \A p \in pl_surf' : p \in pl_surf \/ p = pl_buff[j][i + 1]
    BY <1>7 DEF TakePlane
  <2>3. \A p \in pl_surf' : p.ok
    BY <1>6, <1>7, <2>1, <2>2 DEF CloudsRight
  <2> QED BY <1>7, <2>3 DEF CloudsRight, TakePlane, msgVars, readVars
<1>8. CASE lidar_type # "other" /\ TakeOther
  <2>1. n \in Nat /\ i \in Nat /\ i < n /\ head \in 0 .. n
    BY <1>1, <1>8, PassNumbers, HeadIs DEF TakeOther, Passes
  <2>2. ASSUME last_surface # -1
        PROVE  Mean(last_surface, i - 1).ok
    <3>1. last_surface \in head .. i - 1
      BY <1>8, <2>2 DEF ScanInv, InRun, TakeOther
    <3>2. \A k \in last_surface .. i - 1 : k \in 0 .. n - 1
      BY <2>1, <3>1
    <3>3. \A k \in last_surface .. i - 1 : pl_buff[j][k + 1].ok
      BY <1>6, <1>8, <3>2
    <3> QED BY <3>3, PointType DEF Mean, Point
  <2>3. pl_surf' \subseteq pl_surf \cup (IF last_surface = -1 THEN {} ELSE {Mean(last_surface, i - 1)})
    BY <1>8 DEF TakeOther
  <2>4. \A p \in pl_surf' : p.ok
    BY <1>8, <2>2, <2>3 DEF CloudsRight
  <2> QED BY <1>8, <2>4 DEF CloudsRight, TakeOther, msgVars, readVars
<1> QED BY <1>2, <1>3, <1>4, <1>5, <1>7, <1>8 DEF CloudNext, Handler

\* Every point of the cloud handed out has the time it was measured at, counted
\* from the first of its layer, also when the layer has gone over a whole turn
\* and the handler knows no more of it than its yaw; so have the means
\* give_feature takes.  That holds for any number of lines, and of steps in a
\* turn if there are more than two; a layer may go over less than two turns.
\* Lidars of other types are not claimed: default_handler knows no times.
THEOREM TimesAreRight == CloudSpec => []TimesRight
<1>1. CloudInit => CloudsRight
  BY DEF CloudInit, CloudsRight
<1>2. ScanInv /\ CloudsRight /\ [CloudNext]_cloudVars => CloudsRight'
  BY CloudsStep
<1>3. CloudsRight => TimesRight
  BY DEF CloudsRight, TimesRight
<1> QED BY <1>1, <1>2, <1>3, ScanAlways, PTL DEF CloudSpec

-----------------------------------------------------------------------------
(* No point too near *)

\* A label found keeps clear of points too near, whatever the line.
LEMMA LabelsStep ==
  ASSUME ScanInv, LabelsClear, [CloudNext]_cloudVars
  PROVE  LabelsClear'
<1>1. CloudTypeOK
  BY DEF ScanInv, ReadInv
<1>2. CASE \/ Handler \/ EndOfMessage \/ EndLine \/ process
  <2>1. pc' \notin Passes
    BY <1>2, HandlerDoes DEF ScanInv, EndOfMessage, EndLine, process, Passes
  <2> QED BY <2>1 DEF LabelsClear
<1>3. CASE NextLine
  <2>1. CASE n < MinLine
    BY <1>3, <2>1 DEF NextLine, LabelsClear, Passes
  <2>2. CASE ~(n < MinLine)
    <3>1. ftype' = [k \in 0 .. n |-> "Nor"] /\ n' = n /\ n \in Nat
      BY <1>1, <1>3, <2>2, LineKept, LineType DEF NextLine, readVars
    <3>2. \A k \in 0 .. n - 1 : ftype'[k] \notin Planes \cup Edges
      BY <3>1 DEF Planes, Edges
    <3> QED BY <3>1, <3>2 DEF LabelsClear
  <2> QED BY <2>1, <2>2
<1>4. CASE EndPlanes \/ EndEdges \/ EndSmall \/ TakePlane \/ TakeOther
  <2>1. pc \in Passes /\ ftype' = ftype /\ pl_buff' = pl_buff /\ j' = j
    BY <1>4 DEF EndPlanes, EndEdges, EndSmall, TakePlane, TakeOther, Passes, readVars
  <2> QED BY <2>1, LineKept DEF LabelsClear
<1>5. CASE FindPlane
  <2>1. pc \in Passes /\ pl_buff' = pl_buff /\ j' = j
    BY <1>1, <1>5, FindPlaneDoes DEF readVars, Passes
  <2>2. n \in Nat /\ i \in Nat /\ ftype \in [0 .. n -> Labels] /\ n' = n
        /\ \A k : Near(k)' = Near(k)
    BY <1>1, <2>1, PassNumbers, LineKept
  <2>3. CASE UNCHANGED ftype
    BY <2>1, <2>2, <2>3 DEF LabelsClear
  <2>4. ASSUME NEW nex \in i + 1 .. n,
               NEW first \in {"Edge_Plane", "Real_Plane", "Poss_Plane"},
               Clear(i, IF nex = n THEN n - 1 ELSE nex),
               ftype' = [k \in 0 .. n |->
                           CASE k = i              -> first
                             [] k > i /\ k < nex   -> "Real_Plane"
                             [] k = nex            -> "Poss_Plane"
                             [] k < i \/ k > nex   -> ftype[k]]
        PROVE  \A k \in 0 .. n - 1 : ftype'[k] \in Planes \cup Edges => ~Near(k)
    <3> TAKE k \in 0 .. n - 1
    <3>1. CASE k \in i .. nex
      <4>1. k \in i .. (IF nex = n THEN n - 1 ELSE nex)
        BY <2>2, <3>1
      <4> QED BY <2>4, <4>1 DEF Clear
    <3>2. CASE k \notin i .. nex
      <4>1. ftype'[k] = ftype[k]
        BY <2>2, <2>4, <3>2
      <4> QED BY <2>1, <4>1 DEF LabelsClear
    <3> QED BY <3>1, <3>2
  <2>5. \A k \in 0 .. n - 1 : ftype'[k] \in Planes \cup Edges => ~Near(k)
    BY <1>1, <1>5, <2>1, <2>3, <2>4, FindPlaneDoes DEF LabelsClear
  <2> QED BY <2>2, <2>5 DEF LabelsClear
<1>6. CASE FindEdge
  <2>1. /\ pc \in Passes /\ pl_buff' = pl_buff /\ j' = j
        /\ \/ UNCHANGED ftype
           \/ ftype' = [ftype EXCEPT ![i] = "Wire"]
           \/ ftype' = [ftype EXCEPT ![i] = "Edge_Jump"] /\ ~Near(i)
    BY <1>1, <1>6, FindEdgeDoes DEF readVars, Passes
  <2>2. n \in Nat /\ i \in Nat /\ ftype \in [0 .. n -> Labels] /\ n' = n
        /\ \A k : Near(k)' = Near(k)
    BY <1>1, <2>1, PassNumbers, LineKept
  <2>3. ASSUME NEW k \in 0 .. n - 1, ftype'[k] \in Planes \cup Edges
        PROVE  ~Near(k)
    <3>1. k \in 0 .. n /\ "Wire" \notin Planes \cup Edges
      BY <2>2 DEF Planes, Edges
    <3>2. (ftype'[k] = ftype[k]) \/ (k = i /\ ~Near(i))
      BY <2>1, <2>2, <2>3, <3>1
    <3> QED BY <2>1, <2>3, <3>2 DEF LabelsClear
  <2> QED BY <2>2, <2>3 DEF LabelsClear
<1>7. CASE FindSmallPlane
  <2>1. /\ pc \in Passes /\ pl_buff' = pl_buff /\ j' = j
        /\ \/ UNCHANGED ftype
           \/ /\ \A k \in i - 1 .. i + 1 : ~Near(k)
              /\ ftype' = [k \in 0 .. n |-> IF k \in i - 1 .. i + 1 /\ ftype[k] = "Nor"
                                            THEN "Real_Plane" ELSE ftype[k]]
    BY <1>1, <1>7, FindSmallPlaneDoes DEF readVars, Passes
  <2>2. n \in Nat /\ i \in Nat /\ n' = n /\ \A k : Near(k)' = Near(k)
    BY <1>1, <2>1, PassNumbers, LineKept
  <2>3. ASSUME NEW k \in 0 .. n - 1, ftype'[k] \in Planes \cup Edges
        PROVE  ~Near(k)
    <3>1. k \in 0 .. n
      BY <2>2
    <3>2. (ftype'[k] = ftype[k]) \/ ~Near(k)
      BY <2>1, <3>1
    <3> QED BY <2>1, <2>3, <3>2 DEF LabelsClear
  <2> QED BY <2>2, <2>3 DEF LabelsClear
<1>8. CASE UNCHANGED cloudVars
  <2>1. UNCHANGED <<pc, ftype, pl_buff, j>>
    BY <1>8 DEF cloudVars, readVars, lineVars
  <2> QED BY <2>1, LineKept DEF LabelsClear
<1> QED BY <1>2, <1>3, <1>4, <1>5, <1>6, <1>7, <1>8 DEF CloudNext, Handler

LEMMA BlindStep ==
  ASSUME ScanInv, BlindInv, [CloudNext]_cloudVars
  PROVE  NoBlindPoint'
<1>1. CloudTypeOK /\ NoBlindPoint /\ LabelsClear
  BY DEF ScanInv, ReadInv, BlindInv
<1>2. CASE Handler
  <2>1. PointTaken /\ pl_corn' = pl_corn
    BY <1>2, HandlerDoes DEF ScanInv, HandlerDone
  <2> QED BY <1>1, <2>1 DEF PointTaken, Drop, Keep, Buffer, NoBlindPoint
<1>3. CASE \/ EndOfMessage \/ NextLine \/ FindPlane \/ EndPlanes \/ FindEdge \/ EndEdges
           \/ FindSmallPlane \/ EndSmall \/ EndLine \/ UNCHANGED cloudVars
  <2>1. UNCHANGED <<pl_surf, pl_corn>>
    BY <1>3 DEF EndOfMessage, NextLine, FindPlane, EndPlanes, FindEdge, EndEdges,
                FindSmallPlane, EndSmall, EndLine, cloudVars
  <2> QED BY <1>1, <2>1 DEF NoBlindPoint
<1>4. CASE process
  BY <1>4 DEF process, NoBlindPoint
<1>5. CASE TakePlane
  <2>1. i \in 0 .. n - 1 /\ ftype[i] \in Planes /\ pc \in Passes
    BY <1>1, <1>5, PassNumbers DEF TakePlane, Passes
  <2>2. ~pl_buff[j][i + 1].near
    BY <1>1, <2>1 DEF LabelsClear, Near
  <2>3. pl_surf' \subseteq pl_surf \cup {pl_buff[j][i + 1]} /\ pl_corn' = pl_corn
    BY <1>5 DEF TakePlane
  <2> QED BY <1>1, <2>2, <2>3 DEF NoBlindPoint
<1>6. CASE TakeOther
  <2>1. /\ n \in Nat /\ i \in Nat /\ i \in 0 .. n - 1 /\ head \in 0 .. n
        /\ pc = "collect" /\ pc \in Passes
    BY <1>1, <1>6, PassNumbers, HeadIs DEF TakeOther, Passes
  <2>2. ASSUME ftype[i] \in Edges
        PROVE  ~pl_buff[j][i + 1].near
    BY <1>1, <2>1, <2>2 DEF LabelsClear, Near
  <2>3. ASSUME last_surface # -1
        PROVE  ~Mean(last_surface, i - 1).near
    <3>1. last_surface \in head .. i - 1 /\ \A k \in last_surface .. i - 1 : IsPlane(k)
      BY <2>1, <2>3 DEF ScanInv, InRun
    <3>2. \A k \in last_surface .. i - 1 : k \in 0 .. n - 1
      BY <2>1, <3>1
    <3>3. \A k \in last_surface .. i - 1 : ~Near(k)
      BY <1>1, <2>1, <3>1, <3>2 DEF LabelsClear, IsPlane
    <3> QED BY <3>3 DEF Mean, Point
  <2>4. pl_surf' \subseteq pl_surf \cup (IF last_surface = -1 THEN {} ELSE {Mean(last_surface, i - 1)})
    BY <1>6 DEF TakeOther
  <2>5. pl_corn' \subseteq pl_corn \cup (IF ftype[i] \in Edges THEN {pl_buff[j][i + 1]} ELSE {})
    BY <1>6 DEF TakeOther
  <2> QED BY <1>1, <2>2, <2>3, <2>4, <2>5 DEF NoBlindPoint
<1> QED BY <1>2, <1>3, <1>4, <1>5, <1>6 DEF CloudNext, Handler

\* No point nearer than blind gets into pl_surf or pl_corn, on any line: not
\* alone, nor in the mean of a run, nor where a plane ends at the blind zone.
\* What give_feature labels as a plane or an edge has no such point in it, be it
\* labelled by the search for planes, for edges or for small planes.
THEOREM NoPointIsBlind == CloudSpec => []NoBlindPoint
<1>1. CloudInit => BlindInv
  BY DEF CloudInit, BlindInv, NoBlindPoint, LabelsClear, Passes
<1>2. ScanInv /\ BlindInv /\ [CloudNext]_cloudVars => BlindInv'
  BY LabelsStep, BlindStep DEF BlindInv
<1> QED BY <1>1, <1>2, ScanAlways, PTL DEF CloudSpec, BlindInv

-----------------------------------------------------------------------------
(* Every point of a plane is counted once *)

LEMMA GroupType ==
  ASSUME CloudTypeOK, pc = "collect"
  PROVE  /\ Len(groups) \in Nat /\ DOMAIN groups = 1 .. Len(groups)
         /\ \A g \in DOMAIN groups : /\ groups[g] \in Nat \X Nat
                                     /\ groups[g][1] \in Nat /\ groups[g][2] \in Nat
<1>1. groups \in Seq(Nat \X Nat)
  BY DEF CloudTypeOK
<1>2. Len(groups) \in Nat /\ DOMAIN groups = 1 .. Len(groups)
  BY <1>1
<1>3. \A g \in DOMAIN groups : groups[g] \in Nat \X Nat
  BY <1>1
<1> QED BY <1>2, <1>3

LEMMA UptoType ==
  ASSUME ScanInv, pc = "collect"
  PROVE  /\ n \in Nat /\ i \in Nat /\ head \in Nat /\ point_filter_num \in Nat \ {0}
         /\ Upto \in head .. i /\ i - Upto < point_filter_num /\ i \in head .. n
         /\ \A k \in Upto .. i - 1 : IsPlane(k)
<1>1. CloudTypeOK /\ pc \in Passes
  BY DEF ScanInv, ReadInv, Passes
<1>2. /\ n \in Nat /\ i \in Nat /\ head \in 0 .. n /\ point_filter_num \in Nat \ {0}
      /\ i \in head .. n
  BY <1>1, PassNumbers, HeadIs DEF ScanInv, InRun
<1>3. CASE last_surface = -1
  BY <1>2, <1>3 DEF Upto
<1>4. CASE last_surface # -1
  <2>1. /\ last_surface \in head .. i - 1 /\ i - last_surface < point_filter_num
        /\ \A k \in last_surface .. i - 1 : IsPlane(k)
    BY <1>4 DEF ScanInv, InRun
  <2> QED BY <1>2, <1>4, <2>1 DEF Upto
<1> QED BY <1>2, <1>3, <1>4

\* A group stays one when more points are looked at.
LEMMA GroupKept ==
  ASSUME ScanInv, pc = "collect", NEW a \in Nat, NEW b \in Nat, Group(a, b),
         head' = head, i' = i + 1, ftype' = ftype, Upto' \in Upto .. i + 1
  PROVE  Group(a, b)'
<1>1. Upto \in Nat /\ i \in Nat /\ head \in Nat /\ point_filter_num \in Nat
  BY UptoType
<1>2. Upto' \in Nat /\ b < Upto'
  BY <1>1 DEF Group
<1>3. \A k : IsPlane(k)' = IsPlane(k)
  BY DEF IsPlane
<1> QED BY <1>1, <1>2, <1>3 DEF Group

\* No group is added while the points looked at leave the run open, or are of no
\* plane.
LEMMA CountedSame ==
  ASSUME ScanInv, Counted, pc = "collect", groups' = groups,
         head' = head, i' = i + 1, ftype' = ftype, Upto' \in Upto .. i + 1,
         \A k \in Upto .. Upto' - 1 : ~IsPlane(k)
  PROVE  Counted'
<1>1. /\ \A g \in DOMAIN groups : groups[g][1] \in Nat /\ groups[g][2] \in Nat
      /\ Upto \in Nat /\ i \in Nat /\ head \in Nat
  BY GroupType, UptoType DEF ScanInv, ReadInv
<1>2. \A g \in DOMAIN groups' : Group(groups[g][1], groups[g][2])'
  BY <1>1, GroupKept DEF Counted
<1>3. \A g, h \in DOMAIN groups' : g < h => groups'[g][2] < groups'[h][1]
  BY DEF Counted
<1>4. ASSUME NEW k \in head' .. Upto' - 1, IsPlane(k)'
      PROVE  \E g \in DOMAIN groups' : k \in groups'[g][1] .. groups'[g][2]
  <2>1. IsPlane(k)
    BY <1>4 DEF IsPlane
  <2>2. \A u \in Upto .. i + 1 : \A m \in head .. u - 1 :
          m \in head .. Upto - 1 \/ m \in Upto .. u - 1
    BY <1>1
  <2>3. k \in head .. Upto - 1 \/ k \in Upto .. Upto' - 1
    BY <1>4, <2>2
  <2> QED BY <2>1, <2>3 DEF Counted
<1> QED BY <1>2, <1>3, <1>4 DEF Counted

\* A group is added behind the others.
LEMMA CountedMore ==
  ASSUME ScanInv, Counted, pc = "collect", NEW b \in Nat,
         groups' = Append(groups, <<Upto, b>>),
         head' = head, i' = i + 1, ftype' = ftype, Upto' = i + 1,
         b \in Upto .. i, b - Upto < point_filter_num,
         \A k \in Upto .. b : IsPlane(k),
         b - Upto + 1 < point_filter_num => b + 1 < i + 1 /\ ~IsPlane(b + 1),
         \A k \in b + 1 .. i : ~IsPlane(k)
  PROVE  Counted'
<1> DEFINE len == Len(groups)
           new == <<Upto, b>>
<1>1. /\ Upto \in Nat /\ i \in Nat /\ head \in Nat /\ head <= Upto
      /\ point_filter_num \in Nat
  BY UptoType
<1>2. /\ len \in Nat /\ DOMAIN groups = 1 .. len
      /\ \A g \in 1 .. len : groups[g][1] \in Nat /\ groups[g][2] \in Nat
  BY GroupType DEF ScanInv, ReadInv
<1>3. new \in Nat \X Nat /\ new[1] = Upto /\ new[2] = b
  BY <1>1
<1>4. /\ DOMAIN groups' = 1 .. len + 1
      /\ \A g \in 1 .. len : groups'[g] = groups[g]
      /\ groups'[len + 1] = new
  <2>1. groups \in Seq(Nat \X Nat)
    BY DEF ScanInv, ReadInv, CloudTypeOK
  <2> HIDE DEF new
  <2>2. groups' = Append(groups, new)
    BY DEF new
  <2> QED BY <1>3, <2>1, <2>2, Appended
<1> HIDE DEF len, new
<1>5. \A g \in 1 .. len : Group(groups[g][1], groups[g][2])
  BY <1>2 DEF Counted
<1>6. \A g \in 1 .. len : Group(groups[g][1], groups[g][2])'
  BY <1>1, <1>2, <1>5, GroupKept
<1>8. \A k : IsPlane(k)' = IsPlane(k)
  BY DEF IsPlane
<1>9. ASSUME NEW g \in DOMAIN groups'
      PROVE  Group(groups[g][1], groups[g][2])'
  <2>1. CASE g \in 1 .. len
    BY <1>6, <2>1
  <2>2. CASE g = len + 1
    <3>1. groups'[g][1] = Upto /\ groups'[g][2] = b
      BY <1>3, <1>4, <2>2
    <3>2. /\ head' <= Upto /\ Upto <= b /\ b < Upto'
          /\ b - Upto < point_filter_num
          /\ b - Upto + 1 < point_filter_num => b + 1 < i'
      BY <1>1
    <3>3. \A k \in groups'[g][1] .. groups'[g][2] : IsPlane(k)'
      BY <1>8, <3>1
    <3>4. b - Upto + 1 < point_filter_num => ~IsPlane(b + 1)'
      BY <1>8
    <3> QED BY <3>1, <3>2, <3>3, <3>4 DEF Group
  <2> QED BY <1>2, <1>4, <2>1, <2>2
<1>10. ASSUME NEW g \in DOMAIN groups', NEW h \in DOMAIN groups', g < h
       PROVE  groups'[g][2] < groups'[h][1]
  <2>1. g \in 1 .. len
    BY <1>2, <1>4, <1>10
  <2>2. CASE h \in 1 .. len
    BY <1>2, <1>4, <1>10, <2>1, <2>2 DEF Counted
  <2>3. CASE h = len + 1
    <3>1. groups[g][2] < Upto
      BY <1>5, <2>1 DEF Group
    <3> QED BY <1>3, <1>4, <2>1, <2>3, <3>1
  <2> QED BY <1>2, <1>4, <2>2, <2>3
<1>11. ASSUME NEW k \in head' .. Upto' - 1, IsPlane(k)'
       PROVE  \E g \in DOMAIN groups' : k \in groups'[g][1] .. groups'[g][2]
  <2>1. IsPlane(k)
    BY <1>8, <1>11
  <2>2. k \in head .. b
    BY <1>1, <2>1
  <2>3. CASE k \in head .. Upto - 1
    <3>1. PICK g \in 1 .. len : k \in groups[g][1] .. groups[g][2]
      BY <1>2, <2>1, <2>3 DEF Counted
    <3>2. g \in DOMAIN groups' /\ groups'[g] = groups[g]
      BY <1>2, <1>4
    <3> QED BY <3>1, <3>2
  <2>4. CASE k \in Upto .. b
    <3>1. len + 1 \in DOMAIN groups'
      BY <1>2, <1>4
    <3> QED BY <1>3, <1>4, <2>4, <3>1
  <2> QED BY <1>1, <2>2, <2>3, <2>4
<1> QED BY <1>9, <1>10, <1>11 DEF Counted

LEMMA CountedStep ==
  ASSUME ScanInv, Counted, [CloudNext]_cloudVars
  PROVE  Counted'
<1>1. CloudTypeOK
  BY DEF ScanInv, ReadInv
<1>2. CASE \/ Handler \/ EndOfMessage \/ NextLine \/ FindPlane \/ EndPlanes \/ FindEdge
           \/ EndEdges \/ FindSmallPlane \/ EndLine \/ process
  <2>1. pc' # "collect"
    BY <1>2, HandlerDoes DEF ScanInv, EndOfMessage, NextLine, FindPlane, EndPlanes,
          FindEdge, EndEdges, FindSmallPlane, EndLine, process
  <2> QED BY <2>1 DEF Counted
<1>3. CASE EndSmall
  <2>1. /\ pc = "small" /\ i' = head /\ last_surface' = last_surface /\ groups' = groups
        /\ n' = n /\ head' = head
    BY <1>3, LineKept DEF EndSmall, readVars
  <2>2. groups' = <<>> /\ Upto' = head /\ head \in 0 .. n /\ n \in Nat
    BY <1>1, <2>1, HeadIs, LineType DEF ScanInv, InRun, Upto
  <2>3. DOMAIN groups' = {}
    BY <2>2
  <2>4. head' .. Upto' - 1 = {}
    BY <2>1, <2>2
  <2> QED BY <2>3, <2>4 DEF Counted
<1>4. CASE TakePlane
  <2> DEFINE taken == i = Upto + point_filter_num - 1
  <2>1. /\ pc = "collect" /\ i < n /\ IsPlane(i) /\ i' = i + 1 /\ ftype' = ftype
        /\ last_surface' = Started(Upto, i)
        /\ groups' = IF taken THEN Append(groups, <<Upto, i>>) ELSE groups
        /\ head' = head
    BY <1>4, LineKept DEF TakePlane, Upto, IsPlane, readVars
  <2>2. /\ i \in Nat /\ point_filter_num \in Nat \ {0} /\ Upto \in Nat /\ Upto \in head .. i
        /\ i - Upto < point_filter_num /\ \A k \in Upto .. i - 1 : IsPlane(k)
    BY <2>1, UptoType
  <2>3. \A k \in Upto .. i : IsPlane(k)
    BY <2>1, <2>2
  <2>4. CASE taken
    <3>1. Upto' = i + 1
      BY <2>1, <2>2, <2>4 DEF Started, Upto
    <3>2. groups' = Append(groups, <<Upto, i>>)
      BY <2>1, <2>4
    <3>3. i \in Upto .. i /\ i - Upto + 1 = point_filter_num /\ i + 1 .. i = {}
      BY <2>2, <2>4
    <3> QED BY <2>1, <2>2, <2>3, <3>1, <3>2, <3>3, CountedMore
  <2>5. CASE ~taken
    <3>1. last_surface' = Upto /\ groups' = groups
      BY <2>1, <2>5 DEF Started
    <3>2. Upto' = Upto
      BY <2>2, <3>1 DEF Upto
    <3>3. Upto' \in Upto .. i + 1 /\ Upto .. Upto' - 1 = {}
      BY <2>2, <3>2
    <3> QED BY <2>1, <3>1, <3>3, CountedSame
  <2> QED BY <2>4, <2>5
<1>5. CASE TakeOther
  <2>1. /\ pc = "collect" /\ i < n /\ ~IsPlane(i) /\ i' = i + 1 /\ ftype' = ftype
        /\ last_surface' = -1 /\ head' = head
    BY <1>5, LineKept DEF TakeOther, IsPlane, readVars
  <2>2. /\ i \in Nat /\ point_filter_num \in Nat \ {0} /\ Upto \in Nat /\ Upto \in head .. i
        /\ i - Upto < point_filter_num /\ \A k \in Upto .. i - 1 : IsPlane(k)
    BY <2>1, UptoType
  <2>3. Upto' = i + 1
    BY <2>1 DEF Upto
  <2>4. CASE last_surface = -1
    <3>1. groups' = groups /\ Upto = i
      BY <1>5, <2>4 DEF TakeOther, Upto
    <3>2. Upto' \in Upto .. i + 1 /\ \A k \in Upto .. Upto' - 1 : ~IsPlane(k)
      BY <2>1, <2>2, <2>3, <3>1
    <3> QED BY <2>1, <3>1, <3>2, CountedSame
  <2>5. CASE last_surface # -1
    <3>1. groups' = Append(groups, <<Upto, i - 1>>) /\ Upto \in head .. i - 1
      BY <1>5, <2>1, <2>5 DEF TakeOther, Upto, ScanInv, InRun
    <3>2. i - 1 \in Nat /\ i - 1 \in Upto .. i /\ i - 1 - Upto < point_filter_num
      BY <2>2, <3>1
    <3>3. i - 1 + 1 = i /\ i < i + 1 /\ \A k \in i - 1 + 1 .. i : k = i
      BY <2>2
    <3> QED BY <2>1, <2>2, <2>3, <3>1, <3>2, <3>3, CountedMore
  <2> QED BY <2>4, <2>5
<1>6. CASE UNCHANGED cloudVars
  <2>1. UNCHANGED <<pc, ftype, pl_buff, j, i, last_surface, groups>>
    BY <1>6 DEF cloudVars, readVars, lineVars
  <2> QED BY <2>1, LineKept DEF Counted, Group, Upto, IsPlane
<1> QED BY <1>2, <1>3, <1>4, <1>5, <1>6 DEF CloudNext, Handler

LEMMA CountedOnce ==
  ASSUME ScanInv, Counted
  PROVE  PlaneOnce
<1> SUFFICES ASSUME pc = "collect", i >= n PROVE PlaneOnce
  BY DEF PlaneOnce
<1> DEFINE plane == {k \in head .. n - 1 : ftype[k] \in Planes}
           Of(g) == g[1] .. g[2]
           done == UNION {Of(groups[g]) : g \in DOMAIN groups}
           left == Upto .. n - 1
<1>1. /\ n \in Nat /\ head \in Nat /\ point_filter_num \in Nat \ {0} /\ i = n
      /\ Upto \in head .. n /\ n - Upto < point_filter_num
      /\ \A k \in Upto .. n - 1 : IsPlane(k)
  BY UptoType
<1>2. /\ Len(groups) \in Nat /\ DOMAIN groups = 1 .. Len(groups)
      /\ \A g \in DOMAIN groups : groups[g][1] \in Nat /\ groups[g][2] \in Nat
  BY GroupType DEF ScanInv, ReadInv
<1>3. \A g \in DOMAIN groups : Group(groups[g][1], groups[g][2])
  BY DEF Counted
<1>4. ASSUME NEW g \in DOMAIN groups, NEW h \in DOMAIN groups, g # h
      PROVE  Of(groups[g]) \cap Of(groups[h]) = {}
  <2>1. groups[g][2] < groups[h][1] \/ groups[h][2] < groups[g][1]
    BY <1>2, <1>4 DEF Counted
  <2> QED BY <1>2, <2>1
<1>5. ASSUME NEW g \in DOMAIN groups, NEW k \in Of(groups[g])
      PROVE  k \in plane /\ k < Upto
  <2>1. /\ k \in Nat /\ head <= k /\ k < Upto /\ IsPlane(k)
    BY <1>1, <1>2, <1>3 DEF Group
  <2> QED BY <1>1, <2>1 DEF IsPlane
<1>6. done \subseteq plane
  BY <1>5
<1>7. ASSUME NEW g \in DOMAIN groups
      PROVE  LET size == groups[g][2] - groups[g][1] + 1
             IN  size <= point_filter_num /\
                 (size < point_filter_num => groups[g][2] + 1 \in Index \ plane)
  <2>1. Group(groups[g][1], groups[g][2]) /\ groups[g][1] \in Nat /\ groups[g][2] \in Nat
    BY <1>2, <1>3
  <2>2. groups[g][2] - groups[g][1] + 1 <= point_filter_num
    BY <1>1, <2>1 DEF Group
  <2>3. ASSUME groups[g][2] - groups[g][1] + 1 < point_filter_num
        PROVE  groups[g][2] + 1 \in Index \ plane
    BY <1>1, <2>1, <2>3 DEF Group, IsPlane, Index
  <2> QED BY <2>2, <2>3
<1>8. plane \ done = left
  <2>1. ASSUME NEW k \in plane, k \notin done PROVE k \in left
    <3>1. k \in head .. n - 1 /\ IsPlane(k)
      BY DEF IsPlane
    <3>2. k \notin head .. Upto - 1
      BY <2>1, <3>1 DEF Counted
    <3> QED BY <1>1, <3>1, <3>2
  <2>2. ASSUME NEW k \in left PROVE k \in plane /\ k \notin done
    <3>1. k \in plane
      BY <1>1 DEF IsPlane
    <3>2. ~(k < Upto)
      BY <1>1
    <3> QED BY <1>5, <3>1, <3>2
  <2> QED BY <2>1, <2>2
<1>9. Cardinality(left) = n - Upto
  <2>1. Upto \in Int /\ n - 1 \in Int
    BY <1>1
  <2>2. Cardinality(left) = IF Upto > n - 1 THEN 0 ELSE (n - 1) - Upto + 1
    BY <2>1, FS_Interval
  <2> QED BY <1>1, <2>2
<1>10. /\ left = (n - Cardinality(left)) .. n - 1
       /\ Cardinality(left) < point_filter_num
  BY <1>1, <1>9
<1> HIDE DEF left
<1> QED BY <1>4, <1>6, <1>7, <1>8, <1>10 DEF PlaneOnce

\* When a line is done, each point that was labelled part of a plane is in one
\* of the groups pl_surf has a point for, and in one only, but for the last of
\* the line, fewer than point_filter_num; and a group of fewer is one at whose
\* end the planes end.  That holds for every point_filter_num and for lines of
\* any length, with any labels.
THEOREM PlaneCountedOnce == CloudSpec => []PlaneOnce
<1>1. CloudInit => Counted
  BY DEF CloudInit, Counted
<1>2. ScanInv /\ Counted /\ [CloudNext]_cloudVars => Counted'
  BY CountedStep
<1>3. ScanInv /\ Counted => PlaneOnce
  BY CountedOnce
<1> QED BY <1>1, <1>2, <1>3, ScanAlways, PTL DEF CloudSpec
===============================================================================
