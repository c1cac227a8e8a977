------------------------------ MODULE DriverPipe -------------------------------
(***************************************************************************)
(* The Livox driver between the SDK's data thread and its packet queues    *)
(* (livox_ros_driver/src): the observer that PubHandler registers, the     *)
(* thread that puts packets together to frames, the table of device        *)
(* indices, and the whole path of the IMU readings to the thread that      *)
(* publishes them.  The rings the frames go to are those of LidarQueue.    *)
(*                                                                         *)
(* A packet is the number it has among those of its lidar and one stamp,   *)
(* in ticks of a millisecond; a reading is its number.  What a critical    *)
(* section does is one step; the semaphore's count is read without a lock. *)
(***************************************************************************)
EXTENDS Integers, Sequences, SequencesExt

CONSTANTS
  Lidars,        \* the handles of the lidars
  Configured,    \* those the user configuration names
  KMaxSourceLidar,
  Interval,      \* publish_interval_ms_
  Tolerance,     \* publish_interval_tolerance_, in ms
  MaxTime, MaxMessages \* bounds of the model

ASSUME LidarsAssumption == Configured \subseteq Lidars
ASSUME NumbersAssumption ==
  /\ KMaxSourceLidar \in Nat /\ Interval \in Nat \ {0} /\ Tolerance \in Nat
  /\ MaxTime \in Nat \ {0} /\ MaxMessages \in Nat

VARIABLES
  now,           \* the clock of the host and of synchronised lidars
  setup,         \* how far InitLdsLidar has come
  index_cache_,  \* the index of a handle, 0 for none (map_index_)
  is_timestamp_sync_,
  raw_packet_queue_,
  points_clouds_, \* what each lidar's handler has collected
  last_pub_time_, \* 0 before the first look at the timer
  is_quit_,
  ppc,           \* where the thread RawDataProcess is
  dpc, device,   \* where the data thread is with a reading, and of which lidar
  imu_data,      \* the queue of readings of each lidar
  imu_semaphore_,
  sampling,      \* connect_state = kConnectStateSampling
  ipc, i,        \* where the thread ImuDataPollThread is, the index it looks at
  owner,         \* the thread that ends the driver
  received,      \* history: packets received, per lidar
  handed,        \* history: the last one handed on in a frame
  read,          \* history: readings received, per lidar
  published,     \* history: the last one published, 0 before
  late           \* history: had readings when it started sampling, none since

packetVars == <<is_timestamp_sync_, raw_packet_queue_, received>>
frameVars == <<points_clouds_, last_pub_time_, ppc, handed>>
storeVars == <<dpc, device, read>>
imuVars == <<imu_data, late>>
pollVars == <<ipc, i, published>>
ownVars == <<setup, index_cache_, is_quit_, sampling, owner>>
vars == <<now, packetVars, frameVars, storeVars, imuVars,
          imu_semaphore_, pollVars, ownVars>>

\* InitLivoxLidar has given the configured lidars the first indices.
Init ==
  /\ now = 1
  /\ setup = "sdk"
  /\ index_cache_ \in [Lidars -> 0..KMaxSourceLidar]
  /\ \A l \in Lidars : index_cache_[l] > 0 <=> l \in Configured
  /\ \A k, l \in Configured : k # l => index_cache_[k] # index_cache_[l]
  /\ \A l \in Configured : \A n \in 1..index_cache_[l] :
       \E k \in Configured : index_cache_[k] = n
  /\ is_timestamp_sync_ = FALSE
  /\ raw_packet_queue_ = <<>>
  /\ points_clouds_ = [l \in Lidars |-> <<>>]
  /\ last_pub_time_ = 0
  /\ is_quit_ = FALSE
  /\ ppc = "top"
  /\ dpc = "idle" /\ device = 0
  /\ imu_data = [l \in Lidars |-> <<>>]
  /\ imu_semaphore_ = 0
  /\ sampling = [l \in Lidars |-> FALSE]
  /\ ipc = "top" /\ i = 0
  /\ owner = "alive"
  /\ received = [l \in Lidars |-> 0] /\ handed = [l \in Lidars |-> 0]
  /\ read = [l \in Lidars |-> 0] /\ published = [l \in Lidars |-> 0]
  /\ late = [l \in Lidars |-> FALSE]

-----------------------------------------------------------------------------
(* The data thread: OnLivoxLidarPointCloudCallback *)

\* The observer is called while it is registered, one message after another.
Observing ==
  dpc = "idle" /\ setup \in {"observer", "imu", "thread"} /\ ~is_quit_

Stored == FoldFunction(+, 0, received) + FoldFunction(+, 0, read)

\* Time passes, as far as the model goes, before a step that looks at the clock.
Later == now..MaxTime

\* Every packet tells whether clocks are synchronised, for all lidars.
ReceivePoints(l) ==
  /\ Observing /\ Stored < MaxMessages
  /\ received' = [received EXCEPT ![l] = @ + 1]
  /\ is_timestamp_sync_' \in BOOLEAN
  /\ now' \in Later
  /\ raw_packet_queue_' = Append(raw_packet_queue_,
       [lidar |-> l, number |-> received'[l], stamp |-> now'])
  /\ UNCHANGED <<frameVars, storeVars, imuVars, imu_semaphore_, pollVars, ownVars>>

\* A reading of a lidar without an index is dropped, and every one that comes
\* before the driver has set imu_callback_.
ReceiveImu(l) ==
  /\ Observing
  /\ is_timestamp_sync_' \in BOOLEAN
  /\ IF setup # "observer" /\ index_cache_[l] > 0
       THEN /\ Stored < MaxMessages
            /\ read' = [read EXCEPT ![l] = @ + 1]
            /\ imu_data' = [imu_data EXCEPT ![l] = Append(@, read'[l])]
            /\ late' = [late EXCEPT ![l] = FALSE]
            /\ dpc' = "pushed" /\ device' = l
       ELSE UNCHANGED <<storeVars, imuVars>>
  /\ UNCHANGED <<now, raw_packet_queue_, received, frameVars, imu_semaphore_,
                 pollVars, ownVars>>

\* StorageImuData: nobody is woken for a reading that has been taken already ...
CheckPushed ==
  /\ dpc = "pushed"
  /\ dpc' = IF imu_data[device] = <<>> THEN "idle" ELSE "count"
  /\ device' = 0
  /\ UNCHANGED <<now, packetVars, frameVars, read, imuVars,
                 imu_semaphore_, pollVars, ownVars>>

\* Mutation: a count of zero is taken for somebody awake.
ImuPollAwakeAtZero == imu_semaphore_ >= 0

ImuPollAwake == imu_semaphore_ > 0

\* ... nor while the count says that somebody is awake, ...
ReadCount ==
  /\ dpc = "count"
  /\ dpc' = IF ImuPollAwake THEN "idle" ELSE "signal"
  /\ UNCHANGED <<now, packetVars, frameVars, device, read, imuVars,
                 imu_semaphore_, pollVars, ownVars>>

\* ... and else the publishing thread is.
Signal ==
  /\ dpc = "signal" /\ dpc' = "idle"
  /\ imu_semaphore_' = imu_semaphore_ + 1
  /\ UNCHANGED <<now, packetVars, frameVars, device, read, imuVars,
                 pollVars, ownVars>>

StorageImuData == CheckPushed \/ ReadCount \/ Signal

DataThread ==
  \/ \E l \in Lidars : ReceivePoints(l) \/ ReceiveImu(l)
  \/ StorageImuData

-----------------------------------------------------------------------------
(* The thread that puts frames together: RawDataProcess *)

\* What PointCloudProcess makes of a packet: its points go behind the others.
PointCloudProcess(p) == [points_clouds_ EXCEPT ![p.lidar] = Append(@, p)]

GetLidarBaseTime(points) == Head(points).stamp
GetRecentTimeStamp(points) == Last(points).stamp

\* A frame is complete when a packet falls on a multiple of the interval and
\* the frame is long enough.
FrameEnds(points) ==
  /\ GetRecentTimeStamp(points) % Interval = 0
  /\ GetRecentTimeStamp(points) - GetLidarBaseTime(points) >= Tolerance

\* Mutation: the collected points are copied and not taken out.
TakenOutNot(collected, frame) == collected
TakenOut(collected, frame) ==
  [l \in Lidars |-> IF l \in frame THEN <<>> ELSE collected[l]]

\* The points of the lidars of a frame are taken out and handed to
\* StoragePointData, which drops those of a lidar without an index.
PublishPointCloud(collected, frame) ==
  /\ points_clouds_' = TakenOut(collected, frame)
  /\ handed' = [l \in Lidars |->
       IF l \in frame /\ collected[l] # <<>>
         THEN Last(collected[l]).number ELSE handed[l]]

\* CheckTimer while the clocks are synchronised looks at the lidar of the
\* packet only.
CheckTimerSynced(collected, l) ==
  /\ is_timestamp_sync_
  /\ PublishPointCloud(collected, IF FrameEnds(collected[l]) THEN {l} ELSE {})
  /\ UNCHANGED <<now, last_pub_time_>>

\* While they are not, all lidars are published, an interval after the last
\* time, which the first look at the timer sets.
CheckTimerUnsynced(collected) ==
  /\ ~is_timestamp_sync_
  /\ now' \in Later
  /\ \/ /\ last_pub_time_ = 0
        /\ last_pub_time_' = now'
        /\ PublishPointCloud(collected, {})
     \/ /\ last_pub_time_ > 0 /\ now' - last_pub_time_ < Interval
        /\ PublishPointCloud(collected, {})
        /\ UNCHANGED last_pub_time_
     \/ /\ last_pub_time_ > 0 /\ now' - last_pub_time_ >= Interval
        /\ last_pub_time_' = last_pub_time_ + Interval
        /\ PublishPointCloud(collected, Lidars)

\* One round of the loop is one step: between taking the packet and looking at
\* the timer the thread reads nothing that another one writes but the clock
\* and the flag for synchronised clocks, which packets behind this one may
\* have set.
ProcessPacket ==
  /\ ppc = "top" /\ setup = "thread" /\ ~is_quit_
  /\ raw_packet_queue_ # <<>>
  /\ raw_packet_queue_' = Tail(raw_packet_queue_)
  /\ LET packet == Head(raw_packet_queue_)
         collected == PointCloudProcess(packet)
     IN CheckTimerSynced(collected, packet.lidar) \/ CheckTimerUnsynced(collected)
  /\ UNCHANGED <<is_timestamp_sync_, received, ppc, storeVars, imuVars,
                 imu_semaphore_, pollVars, ownVars>>

\* The wait for a packet ends after half a second at the latest.
EndProcess ==
  /\ ppc = "top" /\ setup = "thread" /\ is_quit_
  /\ ppc' = "done"
  /\ UNCHANGED <<now, packetVars, points_clouds_, last_pub_time_, handed, storeVars,
                 imuVars, imu_semaphore_, pollVars, ownVars>>

RawDataProcess == ProcessPacket \/ EndProcess

-----------------------------------------------------------------------------
(* The thread that publishes readings: ImuDataPollThread *)

IsRequestExit == owner # "alive"

\* The lidar that has index i.
Device == CHOOSE l \in Lidars : index_cache_[l] = i
HasDevice == \E l \in Lidars : index_cache_[l] = i

\* The thread ends once exit_signal_ is set, and waits no more once
\* request_exit_ is, which is set before.
DistributeImuData ==
  /\ ipc = "top"
  /\ \/ owner = "alive" /\ ipc' = "wait"
     \/ owner \in {"joining", "joined"} /\ ipc' = "done"
  /\ UNCHANGED <<now, packetVars, frameVars, storeVars, imuVars,
                 imu_semaphore_, i, published, ownVars>>

Wait ==
  /\ ipc = "wait" /\ imu_semaphore_ > 0
  /\ imu_semaphore_' = imu_semaphore_ - 1
  /\ ipc' = "scan" /\ i' = 1
  /\ UNCHANGED <<now, packetVars, frameVars, storeVars, imuVars,
                 published, ownVars>>

IndexLeft == i <= KMaxSourceLidar

Scan ==
  /\ ipc = "scan"
  /\ \/ ~IndexLeft /\ ipc' = "top" /\ UNCHANGED i
     \/ IndexLeft /\ HasDevice /\ sampling[Device] /\ ipc' = "poll" /\ UNCHANGED i
     \/ IndexLeft /\ ~(HasDevice /\ sampling[Device]) /\ i' = i + 1 /\ UNCHANGED ipc
  /\ UNCHANGED <<now, packetVars, frameVars, storeVars, imuVars,
                 imu_semaphore_, published, ownVars>>

\* PollingLidarImuData, with PublishImuData: this thread alone takes readings.
ReadingLeft == ~IsRequestExit /\ imu_data[Device] # <<>>

Poll ==
  /\ ipc = "poll"
  /\ IF ReadingLeft
       THEN /\ published' = [published EXCEPT ![Device] = Head(imu_data[Device])]
            /\ imu_data' = [imu_data EXCEPT ![Device] = Tail(@)]
            /\ UNCHANGED <<ipc, i>>
       ELSE ipc' = "scan" /\ i' = i + 1 /\ UNCHANGED <<published, imu_data>>
  /\ UNCHANGED <<now, packetVars, frameVars, storeVars, late,
                 imu_semaphore_, ownVars>>

ImuThread ==
  \/ DistributeImuData \/ Wait \/ Scan \/ Poll

-----------------------------------------------------------------------------
(* The other threads *)

\* SetLidarPubHandle registers the observer, sets the callback for readings and
\* starts the thread that makes frames.
SetLidarPubHandle ==
  /\ setup' = CASE setup = "sdk" -> "observer"
                [] setup = "observer" -> "imu"
                [] setup = "imu" -> "thread"
                [] OTHER -> "none"
  /\ setup \in {"sdk", "observer", "imu"}
  /\ UNCHANGED <<now, packetVars, frameVars, storeVars, imuVars,
                 imu_semaphore_, pollVars, index_cache_, is_quit_, sampling, owner>>

\* A lidar nobody has configured is found: it gets the first free index, or
\* none if there is none.
GetFreeIndex(l) ==
  /\ index_cache_[l] = 0
  /\ \E n \in 1..KMaxSourceLidar :
       /\ \A k \in Lidars : index_cache_[k] # n
       /\ \A m \in 1..n-1 : \E k \in Lidars : index_cache_[k] = m
       /\ index_cache_' = [index_cache_ EXCEPT ![l] = n]
  /\ UNCHANGED <<now, packetVars, frameVars, storeVars, imuVars,
                 imu_semaphore_, pollVars, setup, is_quit_, sampling, owner>>

\* The last setting of a configured lidar is acknowledged.
StartSampling(l) ==
  /\ l \in Configured /\ ~sampling[l]
  /\ sampling' = [sampling EXCEPT ![l] = TRUE]
  /\ late' = [late EXCEPT ![l] = imu_data[l] # <<>>]
  /\ UNCHANGED <<now, packetVars, frameVars, storeVars, imu_data,
                 imu_semaphore_, pollVars, setup, index_cache_, is_quit_, owner>>

\* ~DriverNode sets request_exit_, then exit_signal_, and joins the thread.
EndNode ==
  /\ \/ owner = "alive" /\ setup = "thread" /\ owner' = "exiting"
     \/ owner = "exiting" /\ owner' = "joining"
     \/ owner = "joining" /\ ipc = "done" /\ owner' = "joined"
  /\ UNCHANGED <<now, packetVars, frameVars, storeVars, imuVars,
                 imu_semaphore_, pollVars, setup, index_cache_, is_quit_, sampling>>

\* PubHandler::Uninit, as the process ends: the observer is removed, which
\* waits for a callback that is running, and the frame thread told to quit.
Uninit ==
  /\ owner = "joined" /\ ~is_quit_
  /\ dpc = "idle"
  /\ is_quit_' = TRUE
  /\ UNCHANGED <<now, packetVars, frameVars, storeVars, imuVars,
                 imu_semaphore_, pollVars, setup, index_cache_, sampling, owner>>

Owner == SetLidarPubHandle \/ EndNode \/ Uninit

Next ==
  \/ DataThread \/ RawDataProcess \/ ImuThread \/ Owner
  \/ \E l \in Lidars : GetFreeIndex(l) \/ StartSampling(l)

Spec == Init /\ [][Next]_vars

\* Every thread goes on; messages need not come, lidars need not be found or
\* set up, and nobody need end the node, but who has begun to end it goes on.
Fairness ==
  /\ WF_vars(StorageImuData) /\ WF_vars(RawDataProcess) /\ WF_vars(ImuThread)
  /\ WF_vars(SetLidarPubHandle) /\ WF_vars(Uninit)
  /\ WF_vars(IsRequestExit /\ EndNode)

FairSpec == Spec /\ Fairness

-----------------------------------------------------------------------------
(* Properties *)

Packet == [lidar : Lidars, number : Nat, stamp : Nat]

\* Types.  The semaphore never counts more than one, and no two lidars have the
\* same index.
TypeOK ==
  /\ now \in 1..MaxTime
  /\ setup \in {"sdk", "observer", "imu", "thread"}
  /\ index_cache_ \in [Lidars -> 0..KMaxSourceLidar]
  /\ \A k, l \in Lidars : index_cache_[k] = index_cache_[l] =>
       k = l \/ index_cache_[k] = 0
  /\ is_timestamp_sync_ \in BOOLEAN /\ is_quit_ \in BOOLEAN
  /\ raw_packet_queue_ \in Seq(Packet)
  /\ points_clouds_ \in [Lidars -> Seq(Packet)]
  /\ last_pub_time_ \in 0..MaxTime
  /\ ppc \in {"top", "done"}
  /\ dpc \in {"idle", "pushed", "count", "signal"}
  /\ device \in Lidars \cup {0}
  /\ imu_data \in [Lidars -> Seq(Nat)]
  /\ imu_semaphore_ \in 0..1
  /\ sampling \in [Lidars -> BOOLEAN]
  /\ ipc \in {"top", "wait", "scan", "poll", "done"}
  /\ i \in 0..KMaxSourceLidar+1
  /\ owner \in {"alive", "exiting", "joining", "joined"}
  /\ received \in [Lidars -> Nat] /\ handed \in [Lidars -> Nat]
  /\ read \in [Lidars -> Nat] /\ published \in [Lidars -> Nat]
  /\ late \in [Lidars -> BOOLEAN]

\* Where the packets of a lidar are in the queue.
Queued(l) == {k \in DOMAIN raw_packet_queue_ : raw_packet_queue_[k].lidar = l}

\* Every packet and every reading stored is handed on once and in its order, by
\* frames of one lidar and of all, whichever packet has last switched between
\* synchronised and unsynchronised clocks: what a lidar has collected are the
\* numbers after the last one handed on, and its packets in the queue go on from
\* there, in their order, to the last one received.
NothingLost ==
  \A l \in Lidars :
    /\ \A n \in DOMAIN points_clouds_[l] : points_clouds_[l][n].number = handed[l] + n
    /\ handed[l] + Len(points_clouds_[l]) <= received[l]
    /\ {raw_packet_queue_[k].number : k \in Queued(l)} =
         handed[l] + Len(points_clouds_[l]) + 1..received[l]
    /\ \A j, k \in Queued(l) : j < k => raw_packet_queue_[j].number < raw_packet_queue_[k].number
    /\ imu_data[l] = [n \in 1..read[l] - published[l] |-> published[l] + n]

\* Frames are made as long as nobody quits, readings of a lidar that is
\* sampling are published without another one coming (unless it got them
\* before it was sampling), and the frame thread ends when it is told to.
PipeServed ==
  /\ raw_packet_queue_ # <<>> ~> raw_packet_queue_ = <<>> \/ is_quit_
  /\ \A l \in Lidars :
       imu_data[l] # <<>> /\ sampling[l] /\ ~late[l] ~>
         imu_data[l] = <<>> \/ IsRequestExit
  /\ is_quit_ ~> ppc = "done"
================================================================================
