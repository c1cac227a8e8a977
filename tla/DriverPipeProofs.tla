--------------------------- MODULE DriverPipeProofs ---------------------------
(***************************************************************************)
(* Proofs about DriverPipe, for any lidars, indices, interval, tolerance   *)
(* and bounds: types, among them that the semaphore counts to one and that *)
(* no two lidars have an index, and that every packet and every reading is *)
(* handed on once and in its order.                                        *)
(***************************************************************************)
EXTENDS DriverPipe, SequenceTheorems, TLAPS

-----------------------------------------------------------------------------
(* The inductive invariant *)

\* What the threads rely on between two of their steps: the data thread has a
\* lidar to look at, and signals while nobody is awake; the publishing thread
\* polls a lidar that has the index it looks at.
BetweenSteps ==
  /\ dpc = "pushed" => device \in Lidars
  /\ dpc = "signal" => imu_semaphore_ = 0
  /\ ipc \in {"scan", "poll"} => i >= 1
  /\ ipc = "poll" => i <= KMaxSourceLidar /\ HasDevice

PipeInv == TypeOK /\ BetweenSteps

-----------------------------------------------------------------------------
(* Queues *)

\* A queue with one more, and a queue with one less.
LEMMA Appended ==
  ASSUME NEW S, NEW s \in Seq(S), NEW e \in S
  PROVE  /\ Append(s, e) \in Seq(S)
         /\ Len(s) \in Nat /\ DOMAIN s = 1..Len(s)
         /\ Len(Append(s, e)) = Len(s) + 1
         /\ DOMAIN Append(s, e) = 1..Len(s) + 1
         /\ \A k \in 1..Len(s) : Append(s, e)[k] = s[k]
         /\ Append(s, e)[Len(s) + 1] = e
<1>1. Append(s, e) \in Seq(S) /\ Len(s) \in Nat /\ DOMAIN s = 1..Len(s)
  BY LenProperties, SMT
<1>2. Len(Append(s, e)) = Len(s) + 1 /\ DOMAIN Append(s, e) = 1..Len(s) + 1
  BY SMT
<1>3. \A k \in 1..Len(s) : Append(s, e)[k] = s[k]
  BY SMT
<1>4. Append(s, e)[Len(s) + 1] = e
  BY SMT
<1> QED BY <1>1, <1>2, <1>3, <1>4

LEMMA Tailed ==
  ASSUME NEW S, NEW s \in Seq(S), s # <<>>
  PROVE  /\ Tail(s) \in Seq(S)
         /\ Len(s) \in Nat \ {0} /\ DOMAIN s = 1..Len(s)
         /\ Head(s) = s[1] /\ Head(s) \in S
         /\ Len(Tail(s)) = Len(s) - 1
         /\ DOMAIN Tail(s) = 1..Len(s) - 1
         /\ \A k \in 1..Len(s) - 1 : Tail(s)[k] = s[k + 1]
<1>1. Tail(s) \in Seq(S) /\ Len(s) \in Nat \ {0} /\ DOMAIN s = 1..Len(s)
  BY LenProperties, SMT
<1>2. Head(s) = s[1] /\ Head(s) \in S
  BY SMT
<1>3. Len(Tail(s)) = Len(s) - 1 /\ DOMAIN Tail(s) = 1..Len(s) - 1
  BY SMT
<1>4. \A k \in 1..Len(s) - 1 : Tail(s)[k] = s[k + 1]
  BY SMT
<1> QED BY <1>1, <1>2, <1>3, <1>4

\* The last of a queue is one of its packets.
LEMMA LastOf ==
  ASSUME NEW S, NEW s \in Seq(S), s # <<>>
  PROVE  Last(s) = s[Len(s)] /\ Len(s) \in DOMAIN s /\ Last(s) \in S
BY LenProperties, SMT DEF Last

-----------------------------------------------------------------------------
(* Types *)

LEMMA PipeInit == Init => PipeInv
<1> SUFFICES ASSUME Init PROVE PipeInv
  OBVIOUS
<1>1. /\ 1 \in 1..MaxTime /\ 0 \in 0..MaxTime /\ 0 \in 0..1
      /\ 0 \in 0..KMaxSourceLidar + 1 /\ 0 \in Nat
  BY NumbersAssumption, SMT
<1>2. ASSUME NEW k \in Lidars, NEW l \in Lidars, index_cache_[k] = index_cache_[l],
             index_cache_[k] # 0
      PROVE  k = l
  <2>1. index_cache_[k] > 0 /\ index_cache_[l] > 0
    BY <1>2, NumbersAssumption, SMT DEF Init
  <2> QED BY <1>2, <2>1 DEF Init
<1>3. TypeOK
  <2>1. <<>> \in Seq(Packet) /\ <<>> \in Seq(Nat)
    OBVIOUS
  <2>2. /\ points_clouds_ \in [Lidars -> Seq(Packet)]
        /\ imu_data \in [Lidars -> Seq(Nat)]
        /\ sampling \in [Lidars -> BOOLEAN] /\ late \in [Lidars -> BOOLEAN]
        /\ received \in [Lidars -> Nat] /\ handed \in [Lidars -> Nat]
        /\ read \in [Lidars -> Nat] /\ published \in [Lidars -> Nat]
    BY <1>1, <2>1 DEF Init
  <2>3. \A k, l \in Lidars : index_cache_[k] = index_cache_[l] =>
           k = l \/ index_cache_[k] = 0
    BY <1>2
  <2> QED BY <1>1, <2>1, <2>2, <2>3 DEF Init, TypeOK
<1>4. BetweenSteps
  BY DEF Init, BetweenSteps
<1> QED BY <1>3, <1>4 DEF PipeInv

\* The device of the index the publishing thread looks at.
LEMMA DeviceOf ==
  ASSUME HasDevice
  PROVE  Device \in Lidars /\ index_cache_[Device] = i
BY DEF HasDevice, Device

LEMMA ReceivePointsTypes ==
  ASSUME PipeInv, NEW l \in Lidars, ReceivePoints(l)
  PROVE  PipeInv'
<1> DEFINE p == [lidar |-> l, number |-> received'[l], stamp |-> now']
<1>1. TypeOK /\ BetweenSteps
  BY DEF PipeInv
<1>2. received' \in [Lidars -> Nat] /\ now' \in 1..MaxTime /\ is_timestamp_sync_' \in BOOLEAN
  <2>1. received' \in [Lidars -> Nat]
    <3>1. received' = [received EXCEPT ![l] = @ + 1] /\ received \in [Lidars -> Nat]
      BY <1>1 DEF ReceivePoints, TypeOK
    <3> QED BY <3>1, SMT
  <2>2. now' \in 1..MaxTime
    BY <1>1, NumbersAssumption, SMT DEF ReceivePoints, TypeOK, Later
  <2> QED BY <2>1, <2>2 DEF ReceivePoints
<1>3. p \in Packet
  BY <1>2, SMT DEF Packet
<1>4. raw_packet_queue_' = Append(raw_packet_queue_, p)
  BY DEF ReceivePoints
<1> HIDE DEF p
<1>5. raw_packet_queue_' \in Seq(Packet)
  BY <1>1, <1>3, <1>4, Appended DEF TypeOK
<1>6. UNCHANGED <<frameVars, storeVars, imuVars, imu_semaphore_, pollVars, ownVars>>
  BY DEF ReceivePoints
<1>7. TypeOK'
  BY <1>1, <1>2, <1>5, <1>6 DEF TypeOK, frameVars, storeVars, imuVars, pollVars, ownVars
<1>8. BetweenSteps'
  BY <1>1, <1>6 DEF BetweenSteps, HasDevice, storeVars, pollVars, ownVars
<1> QED BY <1>7, <1>8 DEF PipeInv

LEMMA ReceiveImuTypes ==
  ASSUME PipeInv, NEW l \in Lidars, ReceiveImu(l)
  PROVE  PipeInv'
<1>1. TypeOK /\ BetweenSteps
  BY DEF PipeInv
<1>2. /\ UNCHANGED <<now, raw_packet_queue_, received, frameVars, imu_semaphore_,
                     pollVars, ownVars>>
      /\ is_timestamp_sync_' \in BOOLEAN
  BY DEF ReceiveImu
<1>3. /\ read' \in [Lidars -> Nat] /\ imu_data' \in [Lidars -> Seq(Nat)]
      /\ late' \in [Lidars -> BOOLEAN]
      /\ \/ dpc' = "pushed" /\ device' = l
         \/ dpc' = dpc /\ device' = device
  <2>1. CASE setup # "observer" /\ index_cache_[l] > 0
    <3>1. /\ read' = [read EXCEPT ![l] = @ + 1]
          /\ imu_data' = [imu_data EXCEPT ![l] = Append(@, read'[l])]
          /\ late' = [late EXCEPT ![l] = FALSE]
          /\ dpc' = "pushed" /\ device' = l
      BY <2>1 DEF ReceiveImu
    <3>2. read' \in [Lidars -> Nat] /\ late' \in [Lidars -> BOOLEAN]
      BY <1>1, <3>1, SMT DEF TypeOK
    <3>3. Append(imu_data[l], read'[l]) \in Seq(Nat)
      BY <1>1, <3>2, Appended DEF TypeOK
    <3> QED BY <1>1, <3>1, <3>2, <3>3 DEF TypeOK
  <2>2. CASE ~(setup # "observer" /\ index_cache_[l] > 0)
    BY <1>1, <2>2 DEF ReceiveImu, storeVars, imuVars, TypeOK
  <2> QED BY <2>1, <2>2
<1>4. TypeOK'
  BY <1>1, <1>2, <1>3 DEF TypeOK, frameVars, pollVars, ownVars
<1>5. BetweenSteps'
  BY <1>1, <1>2, <1>3 DEF BetweenSteps, HasDevice, pollVars, ownVars
<1> QED BY <1>4, <1>5 DEF PipeInv

LEMMA StorageTypes ==
  ASSUME PipeInv, StorageImuData
  PROVE  PipeInv'
<1>1. TypeOK /\ BetweenSteps
  BY DEF PipeInv
<1>2. /\ UNCHANGED <<now, packetVars, frameVars, read, imuVars, pollVars, ownVars>>
      /\ dpc' \in {"idle", "count", "signal"}
      /\ device' \in {device, 0}
      /\ dpc' = "signal" => imu_semaphore_' = 0
      /\ imu_semaphore_' \in 0..1
  <2>1. CASE CheckPushed
    BY <1>1, <2>1 DEF CheckPushed, TypeOK
  <2>2. CASE ReadCount
    <3>1. ~ImuPollAwake => imu_semaphore_ = 0
      BY <1>1, SMT DEF ImuPollAwake, TypeOK
    <3> QED BY <1>1, <2>2, <3>1 DEF ReadCount, TypeOK
  <2>3. CASE Signal
    <3>1. imu_semaphore_ = 0
      BY <1>1, <2>3 DEF Signal, BetweenSteps
    <3>2. imu_semaphore_' \in 0..1
      BY <2>3, <3>1, SMT DEF Signal
    <3> QED BY <2>3, <3>2 DEF Signal
  <2> QED BY <2>1, <2>2, <2>3 DEF StorageImuData
<1>3. TypeOK'
  BY <1>1, <1>2 DEF TypeOK, packetVars, frameVars, imuVars, pollVars, ownVars
<1>4. BetweenSteps'
  BY <1>1, <1>2 DEF BetweenSteps, HasDevice, pollVars, ownVars
<1> QED BY <1>3, <1>4 DEF PipeInv

\* What a round of the thread that makes frames does: it takes the first packet
\* of the queue to those collected, and some lidars are published.
LEMMA Round ==
  ASSUME PipeInv, ProcessPacket
  PROVE  LET packet == Head(raw_packet_queue_)
             collected == PointCloudProcess(packet)
         IN  /\ raw_packet_queue_ \in Seq(Packet) /\ raw_packet_queue_ # <<>>
             /\ raw_packet_queue_' = Tail(raw_packet_queue_)
             /\ packet = raw_packet_queue_[1] /\ packet \in Packet
             /\ packet.lidar \in Lidars
             /\ collected = [points_clouds_ EXCEPT
                               ![packet.lidar] = Append(points_clouds_[packet.lidar], packet)]
             /\ collected \in [Lidars -> Seq(Packet)]
             /\ \E frame \in SUBSET Lidars : PublishPointCloud(collected, frame)
             /\ now' \in 1..MaxTime /\ last_pub_time_' \in 0..MaxTime
<1> DEFINE packet == Head(raw_packet_queue_)
           collected == PointCloudProcess(packet)
<1>1. /\ raw_packet_queue_ \in Seq(Packet) /\ raw_packet_queue_ # <<>>
      /\ raw_packet_queue_' = Tail(raw_packet_queue_)
      /\ points_clouds_ \in [Lidars -> Seq(Packet)]
      /\ now \in 1..MaxTime /\ last_pub_time_ \in 0..MaxTime
  BY DEF PipeInv, TypeOK, ProcessPacket
<1>2. packet = raw_packet_queue_[1] /\ packet \in Packet
  BY <1>1, Tailed
<1>3. packet.lidar \in Lidars
  BY <1>2 DEF Packet
<1>4. collected = [points_clouds_ EXCEPT
                     ![packet.lidar] = Append(points_clouds_[packet.lidar], packet)]
  BY DEF PointCloudProcess
<1>5. CheckTimerSynced(collected, packet.lidar) \/ CheckTimerUnsynced(collected)
  BY DEF ProcessPacket
<1> HIDE DEF packet, collected
<1>6. collected \in [Lidars -> Seq(Packet)]
  <2>1. Append(points_clouds_[packet.lidar], packet) \in Seq(Packet)
    BY <1>1, <1>2, <1>3, Appended
  <2> QED BY <1>1, <1>3, <1>4, <2>1
<1>7. /\ \E frame \in SUBSET Lidars : PublishPointCloud(collected, frame)
      /\ now' \in 1..MaxTime /\ last_pub_time_' \in 0..MaxTime
  <2>1. CASE CheckTimerSynced(collected, packet.lidar)
    <3>1. PublishPointCloud(collected, IF FrameEnds(collected[packet.lidar])
                                         THEN {packet.lidar} ELSE {})
      BY <2>1 DEF CheckTimerSynced
    <3>2. \E frame \in SUBSET Lidars : PublishPointCloud(collected, frame)
      BY <1>3, <3>1
    <3> QED BY <1>1, <2>1, <3>2 DEF CheckTimerSynced
  <2>2. CASE CheckTimerUnsynced(collected)
    <3>1. now' \in 1..MaxTime
      BY <1>1, <2>2, NumbersAssumption, SMT DEF CheckTimerUnsynced, Later
    <3>2. \/ last_pub_time_' = now'
          \/ last_pub_time_' = last_pub_time_
          \/ now' - last_pub_time_ >= Interval /\ last_pub_time_' = last_pub_time_ + Interval
      BY <2>2 DEF CheckTimerUnsynced
    <3>3. last_pub_time_' \in 0..MaxTime
      <4>1. CASE last_pub_time_' = now'
        BY <3>1, <4>1, NumbersAssumption, SMT
      <4>2. CASE last_pub_time_' = last_pub_time_
        BY <1>1, <4>2
      <4>3. CASE now' - last_pub_time_ >= Interval /\ last_pub_time_' = last_pub_time_ + Interval
        <5>1. /\ now' \in Nat /\ now' <= MaxTime /\ MaxTime \in Nat
              /\ last_pub_time_ \in Nat /\ Interval \in Nat
          BY <1>1, <3>1, NumbersAssumption, SMT
        <5>2. last_pub_time_ + Interval <= now' /\ last_pub_time_ + Interval \in Nat
          <6>1. ASSUME NEW a \in Nat, NEW b \in Nat, NEW c \in Nat, a - b >= c
                PROVE  b + c <= a /\ b + c \in Nat
            BY <6>1, SMT
          <6>2. now' - last_pub_time_ >= Interval
            BY <4>3
          <6> QED BY <5>1, <6>1, <6>2
        <5>3. last_pub_time_ + Interval \in 0..MaxTime
          BY <5>1, <5>2, SMT
        <5> QED BY <4>3, <5>3
      <4> QED BY <3>2, <4>1, <4>2, <4>3
    <3>4. \E frame \in SUBSET Lidars : PublishPointCloud(collected, frame)
      BY <2>2 DEF CheckTimerUnsynced
    <3> QED BY <3>1, <3>3, <3>4
  <2> QED BY <1>5, <2>1, <2>2
<1> QED BY <1>1, <1>2, <1>3, <1>4, <1>6, <1>7 DEF packet, collected

LEMMA FrameTypes ==
  ASSUME PipeInv, RawDataProcess
  PROVE  PipeInv'
<1>1. TypeOK /\ BetweenSteps
  BY DEF PipeInv
<1>2. CASE ProcessPacket
  <2> DEFINE packet == Head(raw_packet_queue_)
             collected == PointCloudProcess(packet)
  <2>1. PICK frame \in SUBSET Lidars : PublishPointCloud(collected, frame)
    BY <1>2, Round
  <2>2. /\ raw_packet_queue_ \in Seq(Packet) /\ raw_packet_queue_ # <<>>
        /\ raw_packet_queue_' = Tail(raw_packet_queue_)
        /\ collected \in [Lidars -> Seq(Packet)]
        /\ now' \in 1..MaxTime /\ last_pub_time_' \in 0..MaxTime
    BY <1>2, Round
  <2> HIDE DEF packet, collected
  <2>3. raw_packet_queue_' \in Seq(Packet)
    BY <2>2, Tailed
  <2>4. points_clouds_' \in [Lidars -> Seq(Packet)]
    <3>1. <<>> \in Seq(Packet)
      OBVIOUS
    <3> QED BY <2>1, <2>2, <3>1 DEF PublishPointCloud, TakenOut
  <2>5. handed' \in [Lidars -> Nat]
    <3>1. handed' = [l \in Lidars |-> IF l \in frame /\ collected[l] # <<>>
                       THEN Last(collected[l]).number ELSE handed[l]]
      BY <2>1 DEF PublishPointCloud
    <3>2. ASSUME NEW l \in Lidars, collected[l] # <<>>
          PROVE  Last(collected[l]).number \in Nat
      <4>1. Last(collected[l]) \in Packet
        BY <2>2, <3>2, LastOf
      <4> QED BY <4>1 DEF Packet
    <3> QED BY <1>1, <3>1, <3>2 DEF TypeOK
  <2>6. UNCHANGED <<is_timestamp_sync_, received, ppc, storeVars, imuVars,
                    imu_semaphore_, pollVars, ownVars>>
    BY <1>2 DEF ProcessPacket
  <2>7. TypeOK'
    <3> USE <1>1, <2>6 DEF TypeOK, storeVars, imuVars, pollVars, ownVars
    <3>1. /\ setup' \in {"sdk", "observer", "imu", "thread"}
          /\ index_cache_' \in [Lidars -> 0..KMaxSourceLidar]
          /\ \A k, l \in Lidars : index_cache_'[k] = index_cache_'[l] =>
               k = l \/ index_cache_'[k] = 0
          /\ is_timestamp_sync_' \in BOOLEAN /\ is_quit_' \in BOOLEAN
          /\ sampling' \in [Lidars -> BOOLEAN]
          /\ owner' \in {"alive", "exiting", "joining", "joined"}
      OBVIOUS
    <3>2. /\ ppc' \in {"top", "done"}
          /\ dpc' \in {"idle", "pushed", "count", "signal"}
          /\ device' \in Lidars \cup {0}
          /\ ipc' \in {"top", "wait", "scan", "poll", "done"}
          /\ i' \in 0..KMaxSourceLidar + 1
          /\ imu_semaphore_' \in 0..1
      OBVIOUS
    <3>3. /\ imu_data' \in [Lidars -> Seq(Nat)] /\ late' \in [Lidars -> BOOLEAN]
          /\ received' \in [Lidars -> Nat]
          /\ read' \in [Lidars -> Nat] /\ published' \in [Lidars -> Nat]
      OBVIOUS
    <3> QED BY ONLY <2>2, <2>3, <2>4, <2>5, <3>1, <3>2, <3>3 DEF TypeOK
  <2>8. BetweenSteps'
    BY <1>1, <2>6 DEF BetweenSteps, HasDevice, storeVars, pollVars, ownVars
  <2> QED BY <2>7, <2>8 DEF PipeInv
<1>3. CASE EndProcess
  <2>1. /\ ppc' = "done"
        /\ UNCHANGED <<now, packetVars, points_clouds_, last_pub_time_, handed, storeVars,
                       imuVars, imu_semaphore_, pollVars, ownVars>>
    BY <1>3 DEF EndProcess
  <2>2. TypeOK'
    BY <1>1, <2>1 DEF TypeOK, packetVars, storeVars, imuVars, pollVars, ownVars
  <2>3. BetweenSteps'
    BY <1>1, <2>1 DEF BetweenSteps, HasDevice, storeVars, pollVars, ownVars
  <2> QED BY <2>2, <2>3 DEF PipeInv
<1> QED BY <1>2, <1>3 DEF RawDataProcess

LEMMA ImuTypes ==
  ASSUME PipeInv, ImuThread
  PROVE  PipeInv'
<1>1. TypeOK /\ BetweenSteps
  BY DEF PipeInv
<1>2. UNCHANGED <<now, packetVars, frameVars, storeVars, late, ownVars>>
  BY DEF ImuThread, DistributeImuData, Wait, Scan, Poll, imuVars
<1>3. i \in 0..KMaxSourceLidar + 1 /\ KMaxSourceLidar \in Nat
  BY <1>1, NumbersAssumption DEF TypeOK
<1>4. /\ imu_data' \in [Lidars -> Seq(Nat)] /\ published' \in [Lidars -> Nat]
      /\ imu_semaphore_' \in 0..1
      /\ imu_semaphore_' = 0 \/ imu_semaphore_' = imu_semaphore_
      /\ i' \in 0..KMaxSourceLidar + 1
      /\ ipc' \in {"top", "wait", "scan", "poll", "done"}
      /\ ipc' \in {"scan", "poll"} => i' >= 1
      /\ ipc' = "poll" => i' <= KMaxSourceLidar /\ i' = i /\ HasDevice
  <2>1. CASE DistributeImuData
    BY <1>1, <1>3, <2>1 DEF DistributeImuData, imuVars, TypeOK
  <2>2. CASE Wait
    <3>1. /\ ipc' = "scan" /\ i' = 1
          /\ imu_semaphore_' = imu_semaphore_ - 1 /\ imu_semaphore_ > 0
          /\ imu_data' = imu_data /\ published' = published
      BY <2>2 DEF Wait, imuVars
    <3>2. imu_semaphore_' = 0 /\ i' \in 0..KMaxSourceLidar + 1
      BY <1>1, <1>3, <3>1, SMT DEF TypeOK
    <3> QED BY <1>1, <3>1, <3>2, SMT DEF TypeOK
  <2>3. CASE Scan
    <3>1. imu_data' = imu_data /\ published' = published /\ imu_semaphore_' = imu_semaphore_
      BY <2>3 DEF Scan, imuVars
    <3>2. i >= 1
      BY <1>1, <2>3 DEF Scan, BetweenSteps
    <3>3. \/ ipc' = "top" /\ i' = i
          \/ ipc' = "poll" /\ i' = i /\ i <= KMaxSourceLidar /\ HasDevice
          \/ ipc' = "scan" /\ i' = i + 1 /\ i <= KMaxSourceLidar
      BY <2>3 DEF Scan, IndexLeft
    <3>4. i + 1 >= 1 /\ (i <= KMaxSourceLidar => i + 1 \in 0..KMaxSourceLidar + 1)
      BY <1>3, <3>2, SMT
    <3> QED BY <1>1, <1>3, <3>1, <3>2, <3>3, <3>4 DEF TypeOK
  <2>4. CASE Poll
    <3>1. HasDevice /\ i >= 1 /\ i <= KMaxSourceLidar /\ ipc = "poll"
          /\ imu_semaphore_' = imu_semaphore_
      BY <1>1, <2>4 DEF Poll, BetweenSteps
    <3>2. Device \in Lidars
      BY <3>1, DeviceOf
    <3>3. CASE ReadingLeft
      <4>1. /\ published' = [published EXCEPT ![Device] = Head(imu_data[Device])]
            /\ imu_data' = [imu_data EXCEPT ![Device] = Tail(imu_data[Device])]
            /\ ipc' = ipc /\ i' = i /\ imu_data[Device] # <<>>
        BY <2>4, <3>3 DEF Poll, ReadingLeft
      <4>2. Tail(imu_data[Device]) \in Seq(Nat) /\ Head(imu_data[Device]) \in Nat
        BY <1>1, <3>2, <4>1, Tailed DEF TypeOK
      <4>3. imu_data' \in [Lidars -> Seq(Nat)] /\ published' \in [Lidars -> Nat]
        BY <1>1, <3>2, <4>1, <4>2 DEF TypeOK
      <4> QED BY <1>1, <1>3, <3>1, <4>1, <4>3 DEF TypeOK
    <3>4. CASE ~ReadingLeft
      <4>1. ipc' = "scan" /\ i' = i + 1 /\ published' = published /\ imu_data' = imu_data
        BY <2>4, <3>4 DEF Poll
      <4>2. i + 1 >= 1 /\ i + 1 \in 0..KMaxSourceLidar + 1
        BY <1>3, <3>1, SMT
      <4> QED BY <1>1, <3>1, <4>1, <4>2 DEF TypeOK
    <3> QED BY <3>3, <3>4
  <2> QED BY <2>1, <2>2, <2>3, <2>4 DEF ImuThread
<1>5. TypeOK'
  BY <1>1, <1>2, <1>4 DEF TypeOK, packetVars, frameVars, storeVars, ownVars
<1>6. BetweenSteps'
  BY <1>1, <1>2, <1>4 DEF BetweenSteps, HasDevice, storeVars, ownVars
<1> QED BY <1>5, <1>6 DEF PipeInv

\* The part of the state that only the pipe itself changes.
StoreTypes ==
  /\ now \in 1..MaxTime
  /\ is_timestamp_sync_ \in BOOLEAN
  /\ raw_packet_queue_ \in Seq(Packet)
  /\ points_clouds_ \in [Lidars -> Seq(Packet)]
  /\ last_pub_time_ \in 0..MaxTime
  /\ ppc \in {"top", "done"}
  /\ dpc \in {"idle", "pushed", "count", "signal"}
  /\ device \in Lidars \cup {0}
  /\ imu_data \in [Lidars -> Seq(Nat)]
  /\ imu_semaphore_ \in 0..1
  /\ ipc \in {"top", "wait", "scan", "poll", "done"}
  /\ i \in 0..KMaxSourceLidar + 1
  /\ received \in [Lidars -> Nat] /\ handed \in [Lidars -> Nat]
  /\ read \in [Lidars -> Nat] /\ published \in [Lidars -> Nat]

LEMMA StoreTypesKept ==
  ASSUME StoreTypes,
         UNCHANGED <<now, packetVars, frameVars, storeVars, imu_data, imu_semaphore_,
                     pollVars>>
  PROVE  StoreTypes'
BY DEF StoreTypes, packetVars, frameVars, storeVars, pollVars

LEMMA OwnerTypes ==
  ASSUME PipeInv, Owner \/ \E l \in Lidars : GetFreeIndex(l) \/ StartSampling(l)
  PROVE  PipeInv'
<1>1. TypeOK /\ BetweenSteps
  BY DEF PipeInv
<1>2. UNCHANGED <<now, packetVars, frameVars, storeVars, imu_data, imu_semaphore_, pollVars>>
  BY DEF Owner, SetLidarPubHandle, EndNode, Uninit, GetFreeIndex, StartSampling, imuVars
<1>3. CASE Owner
  <2>1. /\ index_cache_' = index_cache_ /\ sampling' = sampling /\ late' = late
        /\ setup' \in {"sdk", "observer", "imu", "thread"}
        /\ is_quit_' \in BOOLEAN
        /\ owner' \in {"alive", "exiting", "joining", "joined"}
    <3>1. CASE SetLidarPubHandle
      <4>1. setup' \in {"observer", "imu", "thread"}
        BY <3>1 DEF SetLidarPubHandle
      <4> QED BY <1>1, <3>1, <4>1 DEF SetLidarPubHandle, TypeOK, imuVars
    <3>2. CASE EndNode
      BY <1>1, <3>2 DEF EndNode, TypeOK, imuVars
    <3>3. CASE Uninit
      BY <1>1, <3>3 DEF Uninit, TypeOK, imuVars
    <3> QED BY <1>3, <3>1, <3>2, <3>3 DEF Owner
  <2>2. TypeOK'
    BY <1>1, <1>2, <2>1 DEF TypeOK, packetVars, frameVars, storeVars, pollVars
  <2>3. BetweenSteps'
    BY <1>1, <1>2, <2>1 DEF BetweenSteps, HasDevice, storeVars, pollVars
  <2> QED BY <2>2, <2>3 DEF PipeInv
<1>4. ASSUME NEW l \in Lidars, GetFreeIndex(l) PROVE PipeInv'
  <2>1. PICK n \in 1..KMaxSourceLidar :
          /\ \A k \in Lidars : index_cache_[k] # n
          /\ index_cache_' = [index_cache_ EXCEPT ![l] = n]
    BY <1>4 DEF GetFreeIndex
  <2>2. index_cache_[l] = 0 /\ index_cache_ \in [Lidars -> 0..KMaxSourceLidar]
    BY <1>1, <1>4 DEF GetFreeIndex, TypeOK
  <2>3. n \in 0..KMaxSourceLidar /\ n # 0
    BY NumbersAssumption, SMT
  <2>4. index_cache_' \in [Lidars -> 0..KMaxSourceLidar]
    BY <2>1, <2>2, <2>3
  <2>5. \A k, m \in Lidars : index_cache_'[k] = index_cache_'[m] =>
           k = m \/ index_cache_'[k] = 0
    BY <1>1, <2>1, <2>2 DEF TypeOK
  <2>6. /\ UNCHANGED <<setup, is_quit_, sampling, owner, late>>
    BY <1>4 DEF GetFreeIndex, imuVars
  <2>7. TypeOK'
    <3>1. StoreTypes'
      BY <1>1, <1>2, StoreTypesKept DEF TypeOK, StoreTypes
    <3> QED BY <1>1, <2>4, <2>5, <2>6, <3>1 DEF TypeOK, StoreTypes
  <2>8. HasDevice /\ i >= 1 => HasDevice'
    <3>1. SUFFICES ASSUME HasDevice, i >= 1 PROVE HasDevice'
      OBVIOUS
    <3>2. PICK k \in Lidars : index_cache_[k] = i
      BY <3>1 DEF HasDevice
    <3>3. i # 0
      BY <1>1, <3>1, SMT DEF TypeOK
    <3>4. k # l /\ index_cache_'[k] = i /\ i' = i
      BY <1>2, <2>1, <2>2, <3>2, <3>3 DEF pollVars
    <3> QED BY <3>4 DEF HasDevice
  <2>9. BetweenSteps'
    BY <1>1, <1>2, <2>8 DEF BetweenSteps, storeVars, pollVars
  <2> QED BY <2>7, <2>9 DEF PipeInv
<1>5. ASSUME NEW l \in Lidars, StartSampling(l) PROVE PipeInv'
  <2>1. /\ UNCHANGED <<setup, index_cache_, is_quit_, owner>>
        /\ sampling' \in [Lidars -> BOOLEAN] /\ late' \in [Lidars -> BOOLEAN]
    BY <1>1, <1>5 DEF StartSampling, TypeOK
  <2>2. TypeOK'
    <3>1. StoreTypes'
      BY <1>1, <1>2, StoreTypesKept DEF TypeOK, StoreTypes
    <3> QED BY <1>1, <2>1, <3>1 DEF TypeOK, StoreTypes
  <2>3. BetweenSteps'
    BY <1>1, <1>2, <2>1 DEF BetweenSteps, HasDevice, storeVars, pollVars
  <2> QED BY <2>2, <2>3 DEF PipeInv
<1> QED BY <1>3, <1>4, <1>5

LEMMA PipeStep == PipeInv /\ [Next]_vars => PipeInv'
<1> SUFFICES ASSUME PipeInv, [Next]_vars PROVE PipeInv'
  OBVIOUS
<1>1. CASE DataThread
  BY <1>1, ReceivePointsTypes, ReceiveImuTypes, StorageTypes DEF DataThread
<1>2. CASE RawDataProcess
  BY <1>2, FrameTypes
<1>3. CASE ImuThread
  BY <1>3, ImuTypes
<1>4. CASE Owner \/ \E l \in Lidars : GetFreeIndex(l) \/ StartSampling(l)
  BY <1>4, OwnerTypes
<1>5. CASE UNCHANGED vars
  BY <1>5 DEF vars, packetVars, frameVars, storeVars, imuVars, pollVars, ownVars, PipeInv,
     TypeOK, BetweenSteps, HasDevice
<1> QED BY <1>1, <1>2, <1>3, <1>4, <1>5 DEF Next

LEMMA PipeKept == Spec => []PipeInv
<1>1. PipeInv /\ [Next]_vars => PipeInv'
  BY PipeStep
<1> QED BY PipeInit, <1>1, PTL DEF Spec

\* The state of the driver between the SDK and the queues stays in its types:
\* the semaphore counts to one, no two lidars have an index, the thread that
\* publishes readings never looks past the last index.
THEOREM TypeCorrect == Spec => []TypeOK
<1>1. PipeInv => TypeOK
  BY DEF PipeInv
<1> QED BY PipeKept, <1>1, PTL

-----------------------------------------------------------------------------
(* Nothing is lost *)

\* A lidar's part of NothingLost: what it has collected goes on from the last
\* packet handed on, ...
CollectedOf(l) ==
  /\ \A n \in DOMAIN points_clouds_[l] : points_clouds_[l][n].number = handed[l] + n
  /\ handed[l] + Len(points_clouds_[l]) <= received[l]

\* ... its packets in the queue go on from there, and its readings from the last
\* one published.
QueueOf(l) ==
  /\ {raw_packet_queue_[k].number : k \in Queued(l)} =
       handed[l] + Len(points_clouds_[l]) + 1..received[l]
  /\ \A j, k \in Queued(l) : j < k => raw_packet_queue_[j].number < raw_packet_queue_[k].number

ReadingsOf(l) ==
  /\ published[l] <= read[l]
  /\ imu_data[l] = [n \in 1..read[l] - published[l] |-> published[l] + n]

\* NothingLost leaves open where published stands when there are no readings;
\* a step needs that it is never past the last one read.
LostInv ==
  /\ PipeInv
  /\ \A l \in Lidars : CollectedOf(l) /\ QueueOf(l) /\ ReadingsOf(l)

\* A step that keeps what a lidar's part is about keeps that part.
LEMMA PartsKept ==
  ASSUME NEW l \in Lidars
  PROVE  /\ /\ points_clouds_'[l] = points_clouds_[l] /\ handed'[l] = handed[l]
            /\ received'[l] = received[l] /\ CollectedOf(l)
            => CollectedOf(l)'
         /\ /\ points_clouds_'[l] = points_clouds_[l] /\ handed'[l] = handed[l]
            /\ received'[l] = received[l] /\ raw_packet_queue_' = raw_packet_queue_
            /\ QueueOf(l)
            => QueueOf(l)'
         /\ /\ imu_data'[l] = imu_data[l] /\ read'[l] = read[l]
            /\ published'[l] = published[l] /\ ReadingsOf(l)
            => ReadingsOf(l)'
BY DEF CollectedOf, QueueOf, ReadingsOf, Queued

\* A packet more: the queue goes on with the next number of its lidar.
LEMMA ReceiveKeeps ==
  ASSUME LostInv, NEW m \in Lidars, ReceivePoints(m), NEW l \in Lidars
  PROVE  CollectedOf(l)' /\ QueueOf(l)' /\ ReadingsOf(l)'
<1> DEFINE p == [lidar |-> m, number |-> received'[m], stamp |-> now']
           q == raw_packet_queue_
           from == handed[l] + Len(points_clouds_[l]) + 1
<1>1. /\ q \in Seq(Packet) /\ received \in [Lidars -> Nat] /\ handed[l] \in Nat
      /\ points_clouds_[l] \in Seq(Packet)
  BY DEF LostInv, PipeInv, TypeOK
<1>2. /\ received' = [received EXCEPT ![m] = received[m] + 1]
      /\ q' = Append(q, p)
      /\ points_clouds_' = points_clouds_ /\ handed' = handed
      /\ imu_data' = imu_data /\ read' = read /\ published' = published
  BY DEF ReceivePoints, frameVars, storeVars, imuVars, pollVars
<1>3. CollectedOf(l) /\ QueueOf(l) /\ ReadingsOf(l)
  BY DEF LostInv
<1>4. p \in Packet /\ p.lidar = m /\ p.number = received[m] + 1
  <2>1. p \in Packet
    <3>1. PipeInv'
      BY ReceivePointsTypes DEF LostInv
    <3>2. received'[m] \in Nat /\ now' \in 1..MaxTime
      BY <3>1 DEF LostInv, PipeInv, TypeOK
    <3>3. now' \in Nat
      BY <3>2, SMT
    <3> QED BY <3>2, <3>3 DEF Packet
  <2> QED BY <1>1, <1>2, <2>1
<1>5. Len(points_clouds_[l]) \in Nat /\ from \in Nat /\ from <= received[l] + 1
  BY <1>1, <1>3, LenProperties, SMT DEF CollectedOf
<1> HIDE DEF p
<1>6. /\ DOMAIN q = 1..Len(q) /\ DOMAIN q' = 1..Len(q) + 1 /\ Len(q) \in Nat
      /\ \A k \in 1..Len(q) : q'[k] = q[k]
      /\ q'[Len(q) + 1] = p
  BY <1>1, <1>2, <1>4, Appended
<1>7. ReadingsOf(l)'
  BY <1>2, <1>3, PartsKept
<1>8. CollectedOf(l)'
  BY <1>1, <1>2, <1>3, <1>5, SMT DEF CollectedOf
<1>9. CASE l # m
  <2>1. Queued(l)' = Queued(l)
    BY <1>4, <1>6, <1>9, SMT DEF Queued
  <2>2. \A k \in Queued(l) : q'[k] = q[k]
    BY <1>6 DEF Queued
  <2>3. received'[l] = received[l]
    BY <1>1, <1>2, <1>9
  <2>4. QueueOf(l)'
    BY <1>2, <1>3, <2>1, <2>2, <2>3 DEF QueueOf
  <2> QED BY <1>7, <1>8, <2>4
<1>10. CASE l = m
  <2>1. Queued(l)' = Queued(l) \cup {Len(q) + 1}
    BY <1>4, <1>6, <1>10, SMT DEF Queued
  <2>2. \A k \in Queued(l) : q'[k] = q[k] /\ k \in 1..Len(q)
    BY <1>6 DEF Queued
  <2>3. received'[l] = received[l] + 1 /\ received[l] \in Nat
    BY <1>1, <1>2, <1>10
  <2>4. {q'[k].number : k \in Queued(l)'} = {q[k].number : k \in Queued(l)} \cup {received[l] + 1}
    BY <1>4, <1>6, <1>10, <2>1, <2>2
  <2>5. {q[k].number : k \in Queued(l)} = from..received[l]
    BY <1>3 DEF QueueOf
  <2>6. (from..received[l]) \cup {received[l] + 1} = from..received[l] + 1
    BY <1>5, <2>3, SMT
  <2>7. \A k \in Queued(l) : q[k].number \in from..received[l]
    BY <2>5
  <2>8. ASSUME NEW j \in Queued(l)', NEW k \in Queued(l)', j < k
        PROVE  q'[j].number < q'[k].number
    <3>1. CASE k \in Queued(l)
      <4>1. j \in Queued(l)
        BY <1>6, <2>1, <2>2, <2>8, <3>1, SMT
      <4> QED BY <1>3, <2>2, <2>8, <3>1, <4>1 DEF QueueOf
    <3>2. CASE k = Len(q) + 1
      <4>1. j \in Queued(l)
        BY <1>6, <2>1, <2>2, <2>8, <3>2, SMT
      <4>2. q'[j].number \in from..received[l] /\ q'[k].number = received[l] + 1
        BY <1>4, <1>6, <1>10, <2>2, <2>7, <3>2, <4>1
      <4> QED BY <1>5, <2>3, <4>2, SMT
    <3> QED BY <2>1, <3>1, <3>2
  <2> HIDE DEF from
  <2>9. {q'[k].number : k \in Queued(l)'} = from..received'[l]
    BY <2>3, <2>4, <2>5, <2>6
  <2>10. QueueOf(l)'
    BY <1>2, <2>8, <2>9 DEF QueueOf, from
  <2> QED BY <1>7, <1>8, <2>10
<1> QED BY <1>9, <1>10

\* A reading more.
LEMMA ReadingKeeps ==
  ASSUME LostInv, NEW m \in Lidars, ReceiveImu(m), NEW l \in Lidars
  PROVE  CollectedOf(l)' /\ QueueOf(l)' /\ ReadingsOf(l)'
<1>1. UNCHANGED <<raw_packet_queue_, received, points_clouds_, handed, published>>
  BY DEF ReceiveImu, frameVars, pollVars
<1>2. CollectedOf(l) /\ QueueOf(l) /\ ReadingsOf(l)
  BY DEF LostInv
<1>3. CollectedOf(l)' /\ QueueOf(l)'
  BY <1>1, <1>2, PartsKept
<1>4. CASE l # m \/ UNCHANGED <<imu_data, read>>
  <2>1. imu_data'[l] = imu_data[l] /\ read'[l] = read[l]
    BY <1>4 DEF ReceiveImu, LostInv, PipeInv, TypeOK, storeVars, imuVars
  <2> QED BY <1>1, <1>2, <1>3, <2>1, PartsKept
<1>5. CASE /\ l = m
           /\ read' = [read EXCEPT ![m] = @ + 1]
           /\ imu_data' = [imu_data EXCEPT ![m] = Append(@, read'[m])]
  <2> DEFINE s == imu_data[l]
             r == read[l]
             b == published[l]
  <2>1. s \in Seq(Nat) /\ r \in Nat /\ b \in Nat
    BY DEF LostInv, PipeInv, TypeOK
  <2>2. read'[l] = r + 1 /\ published'[l] = b /\ imu_data'[l] = Append(s, r + 1)
    BY <1>1, <1>5 DEF LostInv, PipeInv, TypeOK
  <2>3. s = [n \in 1..r - b |-> b + n]
    BY <1>2 DEF ReadingsOf
  <2> HIDE DEF s, r, b
  <2>4. Len(s) \in Nat /\ DOMAIN s = 1..Len(s) /\ 1..Len(s) = 1..r - b
    BY <2>1, <2>3, LenProperties
  <2>5. b <= r
    BY <1>2 DEF ReadingsOf, r, b
  <2>6. Len(s) = r - b
    BY <2>1, <2>4, <2>5, SMT
  <2> DEFINE z == Append(s, r + 1)
  <2>7. /\ z \in Seq(Nat) /\ DOMAIN z = 1..Len(s) + 1
        /\ \A k \in 1..Len(s) : z[k] = s[k]
        /\ z[Len(s) + 1] = r + 1
    BY <2>1, Appended, SMT
  <2> HIDE DEF z
  <2>8. \A k \in 1..Len(s) + 1 : z[k] = b + k
    <3> SUFFICES ASSUME NEW k \in 1..Len(s) + 1 PROVE z[k] = b + k
      OBVIOUS
    <3>1. CASE k \in 1..Len(s)
      BY <2>3, <2>6, <2>7, <3>1
    <3>2. CASE k = Len(s) + 1
      BY <2>1, <2>6, <2>7, <3>2, SMT
    <3> QED BY <2>4, <3>1, <3>2, SMT
  <2>9. (r + 1) - b = Len(s) + 1
    BY <2>1, <2>6, SMT
  <2>10. z = [n \in 1..(r + 1) - b |-> b + n]
    <3>1. z = [n \in DOMAIN z |-> z[n]]
      BY <2>7, SeqDef, SMT
    <3> QED BY <2>7, <2>8, <2>9, <3>1
  <2>11. b <= r + 1
    BY <2>1, <2>5, SMT
  <2>12. ReadingsOf(l)'
    BY <2>2, <2>10, <2>11 DEF ReadingsOf, z, r, b
  <2> QED BY <1>3, <2>12
<1> QED BY <1>4, <1>5 DEF ReceiveImu, storeVars, imuVars

\* A reading published: the next one of its lidar.
LEMMA PollKeeps ==
  ASSUME LostInv, Poll, NEW l \in Lidars
  PROVE  CollectedOf(l)' /\ QueueOf(l)' /\ ReadingsOf(l)'
<1>1. UNCHANGED <<raw_packet_queue_, received, points_clouds_, handed, read>>
  BY DEF Poll, packetVars, frameVars, storeVars
<1>2. CollectedOf(l) /\ QueueOf(l) /\ ReadingsOf(l)
  BY DEF LostInv
<1>3. CollectedOf(l)' /\ QueueOf(l)'
  BY <1>1, <1>2, PartsKept
<1>4. Device \in Lidars
  BY DeviceOf DEF LostInv, PipeInv, BetweenSteps, Poll
<1>5. CASE l # Device \/ ~ReadingLeft
  <2>1. imu_data'[l] = imu_data[l] /\ published'[l] = published[l]
    BY <1>4, <1>5 DEF Poll, LostInv, PipeInv, TypeOK
  <2> QED BY <1>1, <1>2, <1>3, <2>1, PartsKept
<1>6. CASE l = Device /\ ReadingLeft
  <2> DEFINE s == imu_data[l]
             r == read[l]
             b == published[l]
             z == Tail(s)
  <2>1. s \in Seq(Nat) /\ s # <<>> /\ r \in Nat /\ b \in Nat
    BY <1>6 DEF LostInv, PipeInv, TypeOK, ReadingLeft
  <2>2. read'[l] = r /\ published'[l] = Head(s) /\ imu_data'[l] = z
    BY <1>1, <1>6 DEF LostInv, PipeInv, TypeOK, Poll
  <2>3. s = [n \in 1..r - b |-> b + n] /\ b <= r
    BY <1>2 DEF ReadingsOf
  <2> HIDE DEF s, r, b
  <2>4. /\ z \in Seq(Nat) /\ Len(s) \in Nat \ {0} /\ DOMAIN s = 1..Len(s)
        /\ Head(s) = s[1] /\ DOMAIN z = 1..Len(s) - 1
        /\ \A k \in 1..Len(s) - 1 : z[k] = s[k + 1]
    BY <2>1, Tailed
  <2> HIDE DEF z
  <2>5. Len(s) = r - b
    <3>1. 1..Len(s) = 1..r - b
      BY <2>3, <2>4
    <3> QED BY <2>1, <2>3, <2>4, <3>1, SMT
  <2>6. Head(s) = b + 1 /\ b + 1 <= r
    BY <2>1, <2>3, <2>4, <2>5, SMT
  <2>7. \A k \in 1..Len(s) - 1 : z[k] = (b + 1) + k
    BY <2>1, <2>3, <2>4, <2>5, SMT
  <2>8. r - (b + 1) = Len(s) - 1
    BY <2>1, <2>5, SMT
  <2>9. z = [n \in 1..r - (b + 1) |-> (b + 1) + n]
    <3>1. z = [n \in DOMAIN z |-> z[n]]
      BY <2>4, SeqDef, SMT
    <3> QED BY <2>4, <2>7, <2>8, <3>1
  <2>10. ReadingsOf(l)'
    BY <2>2, <2>6, <2>9 DEF ReadingsOf, z, r, b
  <2> QED BY <1>3, <2>10
<1> QED BY <1>5, <1>6

\* The first packet of the queue goes behind what its lidar has collected: its
\* number is the next one, and the others of the lidar go on from there.
LEMMA PacketTaken ==
  ASSUME LostInv, ProcessPacket, NEW l \in Lidars
  PROVE  LET c == PointCloudProcess(Head(raw_packet_queue_))[l]
         IN  /\ c \in Seq(Packet)
             /\ \A n \in DOMAIN c : c[n].number = handed[l] + n
             /\ handed[l] + Len(c) <= received[l]
             /\ {raw_packet_queue_'[k].number : k \in Queued(l)'} =
                  handed[l] + Len(c) + 1..received[l]
             /\ \A j, k \in Queued(l)' : j < k =>
                  raw_packet_queue_'[j].number < raw_packet_queue_'[k].number
<1> DEFINE q == raw_packet_queue_
           z == raw_packet_queue_'
           p == Head(q)
           d == points_clouds_[l]
           c == PointCloudProcess(p)[l]
           h == handed[l]
           r == received[l]
           from == h + Len(d) + 1
<1>1. /\ q \in Seq(Packet) /\ q # <<>> /\ z = Tail(q)
      /\ p = q[1] /\ p \in Packet /\ p.lidar \in Lidars
      /\ PointCloudProcess(p) = [points_clouds_ EXCEPT
                                  ![p.lidar] = Append(points_clouds_[p.lidar], p)]
  BY Round DEF LostInv
<1>2. /\ d \in Seq(Packet) /\ h \in Nat /\ r \in Nat
      /\ points_clouds_ \in [Lidars -> Seq(Packet)]
  BY DEF LostInv, PipeInv, TypeOK
<1>3. CollectedOf(l) /\ QueueOf(l)
  BY DEF LostInv
<1>4. c = IF l = p.lidar THEN Append(d, p) ELSE d
  BY <1>1, <1>2
<1>5. /\ \A n \in DOMAIN d : d[n].number = h + n
      /\ h + Len(d) <= r
      /\ {q[k].number : k \in Queued(l)} = from..r
      /\ \A j, k \in Queued(l) : j < k => q[j].number < q[k].number
  BY <1>3 DEF CollectedOf, QueueOf
<1>6. /\ Queued(l) = {k \in DOMAIN q : q[k].lidar = l}
      /\ Queued(l)' = {k \in DOMAIN z : z[k].lidar = l}
  BY DEF Queued
<1>7. Len(d) \in Nat /\ from \in Nat /\ DOMAIN d = 1..Len(d)
  BY <1>2, LenProperties, SMT
<1> HIDE DEF q, z, d, h, r
<1>8. /\ Len(q) \in Nat \ {0} /\ DOMAIN q = 1..Len(q) /\ DOMAIN z = 1..Len(q) - 1
      /\ \A k \in 1..Len(q) - 1 : z[k] = q[k + 1]
  BY <1>1, Tailed
<1> HIDE DEF p, c
<1>9. \A k \in Queued(l)' : k \in Nat /\ k + 1 \in Queued(l) /\ z[k] = q[k + 1]
  BY <1>6, <1>8, SMT
<1>10. \A k \in Queued(l) : k = 1 \/ (k - 1 \in Queued(l)' /\ z[k - 1] = q[k])
  <2> SUFFICES ASSUME NEW k \in Queued(l), k # 1
               PROVE  k - 1 \in Queued(l)' /\ z[k - 1] = q[k]
    OBVIOUS
  <2>1. k \in 1..Len(q) /\ q[k].lidar = l
    BY <1>6, <1>8
  <2>2. k - 1 \in 1..Len(q) - 1 /\ (k - 1) + 1 = k
    BY <1>8, <2>1, SMT
  <2>3. z[k - 1] = q[k]
    BY <1>8, <2>2
  <2> QED BY <1>6, <1>8, <2>1, <2>2, <2>3
<1>11. \A j, k \in Queued(l)' : j < k => z[j].number < z[k].number
  <2> SUFFICES ASSUME NEW j \in Queued(l)', NEW k \in Queued(l)', j < k
               PROVE  z[j].number < z[k].number
    OBVIOUS
  <2>1. j + 1 < k + 1 /\ j + 1 \in Queued(l) /\ k + 1 \in Queued(l)
    BY <1>9, SMT
  <2> QED BY <1>5, <1>9, <2>1
<1>12. CASE l # p.lidar
  <2>1. 1 \notin Queued(l)
    BY <1>1, <1>6, <1>12
  <2>2. {z[k].number : k \in Queued(l)'} = {q[k].number : k \in Queued(l)}
    <3>1. ASSUME NEW k \in Queued(l)'
          PROVE  \E j \in Queued(l) : q[j].number = z[k].number
      BY <1>9
    <3>2. ASSUME NEW j \in Queued(l)
          PROVE  \E k \in Queued(l)' : z[k].number = q[j].number
      BY <1>10, <2>1
    <3> QED BY <3>1, <3>2
  <2>3. c = d
    BY <1>4, <1>12
  <2> QED BY <1>2, <1>5, <1>11, <2>2, <2>3 DEF q, z, d, h, r, c, p
<1>13. CASE l = p.lidar
  <2>1. 1 \in Queued(l)
    BY <1>1, <1>6, <1>8, <1>13, SMT
  <2>2. \A k \in Queued(l) : k \in Nat /\ k >= 1
    BY <1>6, <1>8, SMT
  <2>3. p.number = from /\ from <= r
    <3>1. p.number \in from..r
      BY <1>1, <1>5, <2>1
    <3>2. from <= r /\ from \in from..r
      BY <1>2, <1>7, <3>1, SMT
    <3>3. PICK k \in Queued(l) : q[k].number = from
      BY <1>5, <3>2
    <3>4. CASE k = 1
      BY <1>1, <3>2, <3>3, <3>4
    <3>5. CASE k # 1
      <4>1. 1 < k
        BY <2>2, <3>5, SMT
      <4>2. p.number < from
        BY <1>1, <1>5, <2>1, <3>3, <4>1
      <4> QED BY <1>2, <1>7, <3>1, <4>2, SMT
    <3> QED BY <3>4, <3>5
  <2>4. c = Append(d, p)
    BY <1>4, <1>13
  <2>5. /\ c \in Seq(Packet) /\ DOMAIN c = 1..Len(d) + 1 /\ Len(c) = Len(d) + 1
        /\ \A n \in 1..Len(d) : c[n] = d[n]
        /\ c[Len(d) + 1] = p
    BY <1>1, <1>2, <2>4, Appended
  <2>6. \A n \in DOMAIN c : c[n].number = h + n
    <3> SUFFICES ASSUME NEW n \in 1..Len(d) + 1 PROVE c[n].number = h + n
      BY <2>5
    <3>1. CASE n \in 1..Len(d)
      BY <1>5, <1>7, <2>5, <3>1
    <3>2. CASE n = Len(d) + 1
      BY <1>2, <1>7, <2>3, <2>5, <3>2, SMT
    <3> QED BY <1>7, <3>1, <3>2, SMT
  <2>7. h + Len(c) <= r /\ h + Len(c) + 1 = from + 1
    BY <1>2, <1>7, <2>3, <2>5, SMT
  <2> HIDE DEF from
  <2>8. {z[k].number : k \in Queued(l)'} = from + 1..r
    <3>1. ASSUME NEW k \in Queued(l)'
          PROVE  z[k].number \in from + 1..r
      <4>1. k + 1 \in Queued(l) /\ z[k] = q[k + 1] /\ 1 < k + 1
        BY <1>6, <1>8, <1>9, SMT
      <4>2. z[k].number \in from..r
        BY <1>5, <4>1
      <4>3. from < z[k].number
        BY <1>1, <1>5, <2>1, <2>3, <4>1
      <4> QED BY <1>2, <1>7, <4>2, <4>3, SMT
    <3>2. ASSUME NEW n \in from + 1..r
          PROVE  \E k \in Queued(l)' : z[k].number = n
      <4>1. n \in from..r /\ n # from
        BY <1>2, <1>7, SMT
      <4>2. PICK j \in Queued(l) : q[j].number = n
        BY <1>5, <4>1
      <4>3. j # 1
        BY <1>1, <2>3, <4>1, <4>2
      <4> QED BY <1>10, <4>2, <4>3
    <3> QED BY <3>1, <3>2
  <2> QED BY <1>11, <2>5, <2>6, <2>7, <2>8 DEF q, z, d, h, r, c, p
<1> QED BY <1>12, <1>13

\* What is collected goes to the frames as it is: the last packet handed on is
\* the last one collected.
LEMMA RoundKeeps ==
  ASSUME LostInv, ProcessPacket, NEW l \in Lidars
  PROVE  CollectedOf(l)' /\ QueueOf(l)' /\ ReadingsOf(l)'
<1> DEFINE collected == PointCloudProcess(Head(raw_packet_queue_))
           c == collected[l]
<1>1. PICK frame \in SUBSET Lidars : PublishPointCloud(collected, frame)
  BY Round DEF LostInv
<1>2. /\ c \in Seq(Packet)
      /\ \A n \in DOMAIN c : c[n].number = handed[l] + n
      /\ handed[l] + Len(c) <= received[l]
      /\ {raw_packet_queue_'[k].number : k \in Queued(l)'} =
           handed[l] + Len(c) + 1..received[l]
      /\ \A j, k \in Queued(l)' : j < k =>
           raw_packet_queue_'[j].number < raw_packet_queue_'[k].number
  BY PacketTaken
<1>3. handed[l] \in Nat /\ received[l] \in Nat
  BY DEF LostInv, PipeInv, TypeOK
<1>4. UNCHANGED <<received, imu_data, read, published>>
  BY DEF ProcessPacket, storeVars, imuVars, pollVars
<1> HIDE DEF collected, c
<1>5. ReadingsOf(l)'
  BY <1>4, PartsKept DEF LostInv
<1>6. CASE l \in frame /\ c # <<>>
  <2>1. points_clouds_'[l] = <<>> /\ handed'[l] = Last(c).number
    BY <1>1, <1>6 DEF PublishPointCloud, TakenOut, c
  <2>2. Last(c) = c[Len(c)] /\ Len(c) \in DOMAIN c /\ Len(c) \in Nat
    BY <1>2, <1>6, LastOf, LenProperties
  <2>3. handed'[l] = handed[l] + Len(c)
    BY <1>2, <2>1, <2>2
  <2>4. Len(points_clouds_'[l]) = 0 /\ DOMAIN points_clouds_'[l] = {}
    BY <2>1
  <2>5. handed'[l] + Len(points_clouds_'[l]) = handed[l] + Len(c)
    BY <1>3, <2>2, <2>3, <2>4, SMT
  <2> QED BY <1>2, <1>4, <1>5, <2>4, <2>5 DEF CollectedOf, QueueOf
<1>7. CASE ~(l \in frame /\ c # <<>>)
  <2>1. points_clouds_'[l] = c /\ handed'[l] = handed[l]
    BY <1>1, <1>7 DEF PublishPointCloud, TakenOut, c
  <2> QED BY <1>2, <1>4, <1>5, <2>1 DEF CollectedOf, QueueOf
<1> QED BY <1>6, <1>7

LEMMA LostInit == Init => LostInv
<1> SUFFICES ASSUME Init, NEW l \in Lidars
             PROVE  CollectedOf(l) /\ QueueOf(l) /\ ReadingsOf(l)
  BY PipeInit DEF LostInv
<1>1. /\ points_clouds_[l] = <<>> /\ raw_packet_queue_ = <<>> /\ imu_data[l] = <<>>
      /\ handed[l] = 0 /\ received[l] = 0 /\ read[l] = 0 /\ published[l] = 0
  BY DEF Init
<1>2. CollectedOf(l)
  BY <1>1, SMT DEF CollectedOf
<1>3. QueueOf(l)
  <2>1. Queued(l) = {}
    BY <1>1 DEF Queued
  <2>2. 0 + Len(<<>>) + 1..0 = {}
    BY SMT
  <2> QED BY <1>1, <2>1, <2>2 DEF QueueOf
<1>4. ReadingsOf(l)
  <2>1. <<>> = [n \in 1..0 - 0 |-> 0 + n]
    BY SMT
  <2> QED BY <1>1, <2>1, SMT DEF ReadingsOf
<1> QED BY <1>2, <1>3, <1>4

LEMMA LostStep == LostInv /\ [Next]_vars => LostInv'
<1> SUFFICES ASSUME LostInv, [Next]_vars, NEW l \in Lidars
             PROVE  CollectedOf(l)' /\ QueueOf(l)' /\ ReadingsOf(l)'
  BY PipeStep DEF LostInv
<1>1. CollectedOf(l) /\ QueueOf(l) /\ ReadingsOf(l)
  BY DEF LostInv
<1>2. ASSUME UNCHANGED <<raw_packet_queue_, points_clouds_, handed, received,
                         imu_data, read, published>>
      PROVE  CollectedOf(l)' /\ QueueOf(l)' /\ ReadingsOf(l)'
  BY <1>1, <1>2, PartsKept
<1>3. CASE DataThread
  <2>1. CASE StorageImuData
    BY <1>2, <2>1 DEF StorageImuData, CheckPushed, ReadCount, Signal, packetVars, frameVars,
       imuVars, pollVars
  <2> QED BY <1>3, <2>1, ReceiveKeeps, ReadingKeeps DEF DataThread
<1>4. CASE RawDataProcess
  <2>1. CASE EndProcess
    BY <1>2, <2>1 DEF EndProcess, packetVars, storeVars, imuVars, pollVars
  <2> QED BY <1>4, <2>1, RoundKeeps DEF RawDataProcess
<1>5. CASE ImuThread
  <2>1. CASE DistributeImuData \/ Wait \/ Scan
    BY <1>2, <2>1 DEF DistributeImuData, Wait, Scan, packetVars, frameVars, storeVars, imuVars
  <2> QED BY <1>5, <2>1, PollKeeps DEF ImuThread
<1>6. CASE Owner \/ \E m \in Lidars : GetFreeIndex(m) \/ StartSampling(m)
  BY <1>2, <1>6 DEF Owner, SetLidarPubHandle, EndNode, Uninit, GetFreeIndex, StartSampling,
     packetVars, frameVars, storeVars, imuVars, pollVars
<1>7. CASE UNCHANGED vars
  BY <1>2, <1>7 DEF vars, packetVars, frameVars, storeVars, imuVars, pollVars
<1> QED BY <1>3, <1>4, <1>5, <1>6, <1>7 DEF Next

\* Every packet the observer has stored and every reading is handed on once and
\* in its order, by the frames RawDataProcess makes and by PollingLidarImuData.
THEOREM NothingIsLost == Spec => []NothingLost
<1>1. LostInv => NothingLost
  BY DEF LostInv, NothingLost, CollectedOf, QueueOf, ReadingsOf
<1>2. LostInv /\ [Next]_vars => LostInv'
  BY LostStep
<1> QED BY LostInit, <1>1, <1>2, PTL DEF Spec

==============================================================================
