-------------------------------- MODULE LioSync --------------------------------
(***************************************************************************)
(* The LIO node between its subscriptions and its map (FAST_LIO_ROS2/src): *)
(* the lidar and IMU callbacks, sync_packages, the control flow of         *)
(* ImuProcess::Process and of timer_callback.                              *)
(*                                                                         *)
(* rclcpp::spin runs every callback to its end on one thread, so a         *)
(* callback is one action; what is interleaved is their order.  The        *)
(* subscriptions keep the last few messages only, so any reading or scan   *)
(* may be missing, and a restarted source may send old stamps again.       *)
(*                                                                         *)
(* Time is counted in ticks (0.1 s).  A scan is its stamp, the time offset *)
(* of its last point and the number of its points; an IMU reading is its   *)
(* stamp.  The filter is seen through the time its state is valid for.     *)
(***************************************************************************)
EXTENDS Integers, Sequences

CONSTANTS
  ScanStamps, ImuStamps, \* the stamps scans and readings may carry
  Offsets,        \* the offsets of a scan's last point
  Sizes,          \* the numbers of points of a scan
  Livox,          \* whether livox_pcl_cbk is subscribed, or standard_pcl_cbk
  TimeSync,       \* time_sync_en
  TimeOffset,     \* time_diff_lidar_to_imu
  SyncGap,        \* 1 s in livox_pcl_cbk, in ticks
  MAX_INI_COUNT,
  JunkEnds,       \* what last_lidar_end_time_ may hold uninitialised
  MaxScans, MaxImus \* bounds of the model: messages that arrive

ASSUME StampsAssumption == ScanStamps \subseteq Nat /\ ImuStamps \subseteq Nat
ASSUME OffsetsAssumption == Offsets \subseteq Nat
ASSUME SizesAssumption == Sizes \subseteq Nat
ASSUME FlagsAssumption == Livox \in BOOLEAN /\ TimeSync \in BOOLEAN
ASSUME NumbersAssumption ==
  TimeOffset \in Int /\ SyncGap \in Nat /\ MAX_INI_COUNT \in Nat
ASSUME JunkAssumption == JunkEnds \subseteq Int
ASSUME BoundsAssumption == MaxScans \in Nat /\ MaxImus \in Nat

VARIABLES
  lidar_buffer, time_buffer, imu_buffer,
  last_timestamp_lidar, last_timestamp_imu,
  is_first_lidar,
  scan_count,           \* scans received
  imu_count,            \* IMU readings received
  timediff,             \* timediff_lidar_wrt_imu
  timediff_set_flg,
  lidar_pushed,
  meas,                 \* Measures; lidar_end_time is meas.end
  scan_num,             \* scans lidar_mean_scantime is the mean of
  scan_total,           \* the sum it is the mean of
  flg_first_scan,
  imu_need_init_, init_iter_num,
  last_imu_,            \* stamp of the last reading of the last scan
  last_lidar_end_time_,
  feats_undistort,      \* the scan it was filled from
  map_built,            \* ikdtree.Root_Node # nullptr
  clock,                \* the time the filter's state is valid for
  registered,           \* the cloud last put into the map and published
  handed_end,           \* history: the end of the scan last handed out
  accidents             \* history: what the run has met

inVars == <<lidar_buffer, time_buffer, imu_buffer, last_timestamp_lidar,
            last_timestamp_imu, is_first_lidar, scan_count, imu_count,
            timediff, timediff_set_flg>>
syncVars == <<lidar_pushed, meas, scan_num, scan_total>>
procVars == <<flg_first_scan, imu_need_init_, init_iter_num, last_imu_,
              last_lidar_end_time_, feats_undistort, map_built, clock,
              registered>>
vars == <<inVars, syncVars, procVars, handed_end, accidents>>

Scan == [id : Nat, stamp : Int, offset : Nat, size : Nat]
NoScan == [id |-> 0, stamp |-> 0, offset |-> 0, size |-> 0]

Init ==
  /\ lidar_buffer = <<>> /\ time_buffer = <<>> /\ imu_buffer = <<>>
  /\ last_timestamp_lidar = 0 /\ last_timestamp_imu = -10
  /\ is_first_lidar = TRUE
  /\ scan_count = 0 /\ imu_count = 0
  /\ timediff = 0 /\ timediff_set_flg = FALSE
  /\ lidar_pushed = FALSE
  /\ meas = [lidar |-> NoScan, beg |-> 0, end |-> 0, imu |-> <<>>]
  /\ scan_num = 0 /\ scan_total = 0
  /\ flg_first_scan = TRUE
  /\ imu_need_init_ = TRUE /\ init_iter_num = 1
  /\ last_imu_ = 0
  /\ last_lidar_end_time_ \in JunkEnds
  /\ feats_undistort = NoScan
  /\ map_built = FALSE
  /\ clock = 0
  /\ registered = [cloud |-> NoScan, scan |-> NoScan]
  /\ handed_end = 0
  /\ accidents = IF last_lidar_end_time_ = 0 THEN {} ELSE {"junk"}

-----------------------------------------------------------------------------
(* The subscriber callbacks *)

Abs(x) == IF x < 0 THEN -x ELSE x

\* Self sync IMU and LiDAR: once, when their clocks turn out to differ.
SyncsNow(stamp) ==
  /\ Livox /\ TimeSync /\ ~timediff_set_flg
  /\ Abs(stamp - last_timestamp_imu) > SyncGap
  /\ imu_buffer # <<>>

\* Mutation: the time of a scan is put at the wrong end.
TimesWithFront(stamp) == <<stamp>> \o time_buffer
TimesWith(stamp) == Append(time_buffer, stamp)

\* A scan older than the last one clears lidar_buffer ("lidar loop back, clear
\* buffer"), and is buffered like any other.
PclCbk(scan) ==
  LET back == ~is_first_lidar /\ scan.stamp < last_timestamp_lidar
  IN  /\ lidar_buffer' = Append(IF back THEN <<>> ELSE lidar_buffer, scan)
      /\ time_buffer' = TimesWith(scan.stamp)
      /\ accidents' = IF back THEN accidents \cup {"lidarBack"} ELSE accidents
      /\ last_timestamp_lidar' = scan.stamp
      /\ is_first_lidar' = FALSE
      /\ timediff_set_flg' = (timediff_set_flg \/ SyncsNow(scan.stamp))
      /\ timediff' = IF SyncsNow(scan.stamp)
                       THEN scan.stamp + 1 - last_timestamp_imu ELSE timediff
      /\ UNCHANGED <<imu_buffer, last_timestamp_imu>>

ReceiveScan ==
  /\ scan_count < MaxScans
  /\ scan_count' = scan_count + 1
  /\ \E stamp \in ScanStamps, offset \in Offsets, size \in Sizes :
       PclCbk([id |-> scan_count', stamp |-> stamp, offset |-> offset,
               size |-> size])
  /\ UNCHANGED <<imu_count, syncVars, procVars, handed_end>>

\* The stamp the node gives a reading (0.1 s is one tick).
Restamped(raw) ==
  IF Abs(timediff) > 1 /\ TimeSync THEN timediff + raw ELSE raw - TimeOffset

ImusKept(back) == IF back THEN <<>> ELSE imu_buffer

\* A reading older than the last one clears imu_buffer.
ImuCbk(raw) ==
  LET stamp == Restamped(raw)
      back == stamp < last_timestamp_imu
  IN  /\ imu_buffer' = Append(ImusKept(back), stamp)
      /\ accidents' = IF back THEN accidents \cup {"imuBack"} ELSE accidents
      /\ last_timestamp_imu' = stamp

ReceiveImu ==
  /\ imu_count < MaxImus
  /\ imu_count' = imu_count + 1
  /\ \E raw \in ImuStamps : ImuCbk(raw)
  /\ UNCHANGED <<lidar_buffer, time_buffer, last_timestamp_lidar,
                 is_first_lidar, scan_count, timediff, timediff_set_flg,
                 syncVars, procVars, handed_end>>

-----------------------------------------------------------------------------
(* sync_packages *)

\* lidar_mean_scantime, rounded down to the tick.
MeanScanTime == IF scan_num = 0 THEN 0 ELSE scan_total \div scan_num

\* A scan with hardly any points, or far shorter than the mean, is given the
\* mean duration and left out of it.
TooShort(scan) == scan.size <= 1 \/ 2 * scan.offset * scan_num < scan_total

NewTotal(scan) ==
  IF TooShort(scan) THEN scan_total ELSE scan_total + scan.offset

\* The scan at the front becomes the one to be matched with IMU readings,
\* unless one already is.
Pushed ==
  LET scan == Head(lidar_buffer)
      beg == Head(time_buffer)
      short == TooShort(scan)
  IN  IF lidar_pushed
        THEN [meas |-> meas, num |-> scan_num, total |-> scan_total]
        ELSE [meas |-> [meas EXCEPT !.lidar = scan, !.beg = beg,
                          !.end = beg + IF short THEN MeanScanTime
                                                 ELSE scan.offset],
              num |-> IF short THEN scan_num ELSE scan_num + 1,
              total |-> NewTotal(scan)]

\* The loop of sync_packages looks at a reading only if the one before it (for
\* the first: itself) is older than the end of the scan.
Takes(i, end) ==
  /\ imu_buffer[i] <= end
  /\ imu_buffer[IF i = 1 THEN 1 ELSE i - 1] < end

\* Mutation: a reading at the end of the scan does not count.
ImuReachedAfter == last_timestamp_imu > Pushed.meas.end
\* Mutation: the scan does not wait for the IMU.
ImuReachedAnyway == TRUE
ImuReached == last_timestamp_imu >= Pushed.meas.end

PopFront(buffer) == Tail(buffer)

\* The loop takes the first k readings and no more.
TakesExactly(k, end) ==
  /\ k \in 0..Len(imu_buffer)
  /\ \A i \in 1..k : Takes(i, end)
  /\ k < Len(imu_buffer) => ~Takes(k + 1, end)

-----------------------------------------------------------------------------
(* ImuProcess::Process *)

\* One step of the forward propagation: how far reading i moves the filter.
\* A reading older than the end of the last scan moves it nowhere.
Propagated(imu, i) ==
  LET head == IF i = 1 THEN last_imu_ ELSE imu[i - 1]
      tail == imu[i]
  IN  IF tail < last_lidar_end_time_ THEN 0
      ELSE IF head < last_lidar_end_time_ THEN tail - last_lidar_end_time_
      ELSE tail - head

\* The loop over the readings: the filter's time after each of them.
ClockAfter(imu) ==
  LET after[k \in 0..Len(imu)] ==
        IF k = 0 THEN clock ELSE after[k - 1] + Propagated(imu, k)
  IN  after[Len(imu)]

\* Mutation: the step from the last reading to the end of the scan is left out.
ToFrameEndNot(m) == 0
ToFrameEnd(m) == Abs(m.end - m.imu[Len(m.imu)])

\* The filter is moved reading by reading, then to the end of the scan, and
\* the output cloud is the scan.
UndistortPcl(m) ==
  /\ clock' = ClockAfter(m.imu) + ToFrameEnd(m)
  /\ last_imu_' = m.imu[Len(m.imu)]
  /\ last_lidar_end_time_' = m.end
  /\ feats_undistort' = m.lidar
  /\ UNCHANGED <<imu_need_init_, init_iter_num>>

\* IMU_init averages the readings; the filter starts from the last of them.
IMU_init(m) ==
  /\ init_iter_num' = init_iter_num + Len(m.imu)
  /\ imu_need_init_' = (init_iter_num' <= MAX_INI_COUNT)
  /\ last_imu_' = m.imu[Len(m.imu)]
  /\ clock' = m.imu[Len(m.imu)]
  /\ UNCHANGED <<last_lidar_end_time_, feats_undistort>>

Process(m) ==
  \/ /\ m.imu = <<>>
     /\ UNCHANGED <<imu_need_init_, init_iter_num, last_imu_,
                    last_lidar_end_time_, feats_undistort, clock>>
  \/ m.imu # <<>> /\ imu_need_init_ /\ IMU_init(m)
  \/ m.imu # <<>> /\ ~imu_need_init_ /\ UndistortPcl(m)

-----------------------------------------------------------------------------
(* timer_callback *)

\* What is left in feats_undistort builds the map or is registered in it.
Register(m) ==
  LET size == feats_undistort'.size
      builds == ~map_built /\ size > 5
      adds == map_built /\ size >= 5
  IN  /\ map_built' = (map_built \/ builds)
      /\ registered' = IF builds \/ adds
                         THEN [cloud |-> feats_undistort', scan |-> m.lidar]
                         ELSE registered

\* The first scan only gives the node its start time.
Handle(m) ==
  IF flg_first_scan
    THEN /\ flg_first_scan' = FALSE
         /\ UNCHANGED <<imu_need_init_, init_iter_num, last_imu_,
                        last_lidar_end_time_, feats_undistort, map_built,
                        clock, registered>>
    ELSE /\ Process(m)
         /\ Register(m)
         /\ UNCHANGED flg_first_scan

\* The IMU has not reached the end of the scan yet: sync_packages returns
\* false, having made the scan the one to be matched.
WaitForImu ==
  /\ lidar_buffer # <<>> /\ imu_buffer # <<>>
  /\ ~ImuReached
  /\ lidar_pushed' = TRUE
  /\ meas' = Pushed.meas
  /\ scan_num' = Pushed.num /\ scan_total' = Pushed.total
  /\ UNCHANGED <<inVars, procVars, handed_end, accidents>>

\* sync_packages hands out a scan with its readings and the node handles it.
Timer ==
  /\ lidar_buffer # <<>> /\ imu_buffer # <<>>
  /\ ImuReached
  /\ \E k \in 0..Len(imu_buffer) :
       LET m == [Pushed.meas EXCEPT !.imu = SubSeq(imu_buffer, 1, k)]
       IN  /\ TakesExactly(k, m.end)
           /\ imu_buffer' = SubSeq(imu_buffer, k + 1, Len(imu_buffer))
           /\ meas' = m
           /\ handed_end' = m.end
           /\ Handle(m)
  /\ scan_num' = Pushed.num /\ scan_total' = Pushed.total
  /\ lidar_buffer' = PopFront(lidar_buffer)
  /\ time_buffer' = PopFront(time_buffer)
  /\ lidar_pushed' = FALSE
  /\ UNCHANGED <<last_timestamp_lidar, last_timestamp_imu, is_first_lidar,
                 scan_count, imu_count, timediff, timediff_set_flg, accidents>>

\* A buffer is empty: sync_packages returns false at once.
TimerIdle ==
  /\ lidar_buffer = <<>> \/ imu_buffer = <<>>
  /\ UNCHANGED vars

Next == ReceiveScan \/ ReceiveImu \/ WaitForImu \/ Timer \/ TimerIdle

\* The timer fires every 10 ms.
Fairness == WF_vars(WaitForImu \/ Timer)

Spec == Init /\ [][Next]_vars
FairSpec == Spec /\ Fairness

-----------------------------------------------------------------------------
(* Properties *)

\* The variables have the types of the globals and members they model.
TypeOK ==
  /\ lidar_buffer \in Seq(Scan)
  /\ time_buffer \in Seq(Int)
  /\ imu_buffer \in Seq(Int)
  /\ last_timestamp_lidar \in Int /\ last_timestamp_imu \in Int
  /\ is_first_lidar \in BOOLEAN
  /\ scan_count \in Nat /\ imu_count \in Nat
  /\ timediff \in Int /\ timediff_set_flg \in BOOLEAN
  /\ lidar_pushed \in BOOLEAN
  /\ meas \in [lidar : Scan, beg : Int, end : Int, imu : Seq(Int)]
  /\ scan_num \in Nat /\ scan_total \in Nat
  /\ flg_first_scan \in BOOLEAN
  /\ imu_need_init_ \in BOOLEAN /\ init_iter_num \in Nat
  /\ last_imu_ \in Int /\ last_lidar_end_time_ \in Int
  /\ feats_undistort \in Scan
  /\ map_built \in BOOLEAN
  /\ clock \in Int
  /\ registered \in [cloud : Scan, scan : Scan]
  /\ handed_end \in Int
  /\ accidents \in SUBSET {"lidarBack", "imuBack", "junk"}

\* As long as no lidar stamp has gone back, the two lidar buffers stay in step:
\* every buffered scan has its own time, and the scan being matched is still
\* the one pop_front will remove, however the callbacks come in between.
BuffersInStep ==
  "lidarBack" \notin accidents =>
    /\ Len(time_buffer) = Len(lidar_buffer)
    /\ \A i \in DOMAIN lidar_buffer : time_buffer[i] = lidar_buffer[i].stamp
    /\ lidar_pushed => /\ lidar_buffer # <<>>
                       /\ meas.lidar = lidar_buffer[1]
                       /\ meas.beg = time_buffer[1]

\* No scan is skipped or handed out twice: those not yet handed out are the
\* ones buffered, numbered on from the last one handed out.
NoScanLost ==
  "lidarBack" \notin accidents =>
    /\ \A i \in DOMAIN lidar_buffer :
         lidar_buffer[i].id = scan_count - Len(lidar_buffer) + i
    /\ ~lidar_pushed => meas.lidar.id = scan_count - Len(lidar_buffer)

\* The scans in the buffers are those still to be handed out, each with its time.
ScansInStep == BuffersInStep /\ NoScanLost

\* A scan is handed out with every reading up to its end that will ever be
\* there: whatever is left, or still comes in, is not older than that end
\* (as long as no IMU stamp goes back).
ImuComplete ==
  "imuBack" \notin accidents /\ ~flg_first_scan =>
    \A i \in DOMAIN imu_buffer : imu_buffer[i] >= handed_end

\* The readings handed out with a scan are in order and none is younger than
\* its end, which UndistortPcl's last step relies on; this holds even when
\* stamps go back.
ImuUpToEnd ==
  ~lidar_pushed =>
    /\ \A i \in DOMAIN meas.imu : meas.imu[i] <= meas.end
    /\ \A i, j \in DOMAIN meas.imu : i <= j => meas.imu[i] <= meas.imu[j]

\* A scan comes with the readings up to its end, all of them and no others.
ImuExact == ImuComplete /\ ImuUpToEnd

\* Once the filter is initialised and has seen a scan, its state is the one at
\* the end of the last scan it has seen: skipped scans, scans without
\* readings, late readings and the mean duration of short scans included.
ClockAtScanEnd ==
  accidents = {} /\ feats_undistort # NoScan => clock = last_lidar_end_time_

(* What makes BuffersInStep, NoScanLost, ImuComplete and ImuUpToEnd inductive *)

\* The buffered readings are in order and the newest one is the last received.
ImuInOrder ==
  /\ \A i, j \in DOMAIN imu_buffer : i <= j => imu_buffer[i] <= imu_buffer[j]
  /\ \A i \in DOMAIN imu_buffer : imu_buffer[i] <= last_timestamp_imu

\* There is a time for every buffered scan, and more after a loop back.
TimesSuffice == Len(time_buffer) >= Len(lidar_buffer)

ImuPastEnd ==
  "imuBack" \notin accidents /\ ~flg_first_scan =>
    last_timestamp_imu >= handed_end

IndInv ==
  /\ TypeOK
  /\ TimesSuffice
  /\ BuffersInStep
  /\ NoScanLost
  /\ ImuInOrder
  /\ ImuPastEnd
  /\ ImuComplete
  /\ ImuUpToEnd

(* What makes ClockAtScanEnd inductive *)

\* No reading is older than the last scan the filter has seen, the last one of
\* that scan is not younger than its end, and a filter that is initialised but
\* has seen no scan is where the last reading it has seen is.
ClockInStep ==
  accidents = {} =>
    /\ \A i \in DOMAIN lidar_buffer : lidar_buffer[i].id >= 1
    /\ \A i \in DOMAIN imu_buffer : imu_buffer[i] >= last_lidar_end_time_
    /\ IF imu_count = 0 THEN imu_buffer = <<>> /\ timediff = 0
                        ELSE last_timestamp_imu >= last_lidar_end_time_
    /\ IF feats_undistort = NoScan
         THEN /\ last_lidar_end_time_ = 0
              /\ ~imu_need_init_ => clock = last_imu_ /\ last_imu_ >= 0
         ELSE /\ clock = last_lidar_end_time_ /\ last_imu_ <= last_lidar_end_time_
              /\ ~imu_need_init_ /\ imu_count > 0

\* While the IMU is ahead of the scan at the front, buffered scans are
\* processed until none is left.
BacklogDrains ==
  lidar_buffer # <<>> ~>
    lidar_buffer = <<>> \/ imu_buffer = <<>> \/ last_timestamp_imu < meas.end

\* "No point, skip this scan!": a scan is registered with its own points, at
\* least as long as no stamp goes back.  This is false, see README.md.
RegisteredItself == accidents = {} => registered.cloud = registered.scan
===============================================================================
