------------------------------ MODULE LidarQueue -------------------------------
(***************************************************************************)
(* The point cloud path of the Livox driver (livox_ros_driver/src): the    *)
(* ring buffers of comm/ldq.cpp, one per lidar, the thread of PubHandler   *)
(* that stores frames in them (Lds::StoragePointData), the thread that     *)
(* publishes them (Lddc::DistributePointCloudData), the semaphore that     *)
(* wakes it, and the shutdown of the driver node.                          *)
(*                                                                         *)
(* Neither the ring nor GetCount takes a lock, so every read or write of   *)
(* rd_idx, wr_idx, a slot or the semaphore's count is a step of its own.   *)
(* The indices are volatile and each has one writer.                       *)
(***************************************************************************)
EXTENDS Integers, Sequences

CONSTANTS
  NLidars,        \* lidar_count_: the lidars have the indices 1..NLidars
  Packets,        \* the contents of the frames
  NoPacket,       \* what a slot holds before and while it is filled
  Size,           \* queue->size
  IndexRange,     \* 2^32: rd_idx and wr_idx are uint32_t
  TransferFormat  \* transfer_format_

ASSUME LidarAssumption == NLidars \in Nat
ASSUME PacketAssumption == NoPacket \notin Packets
\* InitQueue rounds the size up to a power of two below 2^32.
ASSUME RingAssumption ==
  /\ Size \in Nat \ {0} /\ IndexRange \in Nat
  /\ \E k \in 2..IndexRange : IndexRange = k * Size
ASSUME FormatAssumption == TransferFormat \in {"PointCloud2", "Custom", "PclPxyzi"}

Lidars == 1..NLidars

VARIABLES
  rd_idx, wr_idx, slots, \* the ring of each lidar
  allocated,     \* storage_packet # nullptr
  sampling,      \* connect_state = kConnectStateSampling
  pcd_semaphore_,
  owner,         \* the thread that destroys the DriverNode
  ppc,           \* where the storing thread is
  todo,          \* the lidars of the frame it has not stored yet
  cur,           \* the lidar it is storing
  qpc,           \* where the publishing thread is
  i,             \* the lidar it is looking at
  pkg,           \* the frame it has copied out
  taken,         \* history: the frame it last took, per lidar
  late           \* history: had frames when it started sampling, and none since

ringVars == <<rd_idx, wr_idx, slots, allocated>>
storeVars == <<ppc, todo, cur>>
pollVars == <<qpc, i, pkg, taken>>
vars == <<ringVars, sampling, pcd_semaphore_, owner, storeVars, pollVars, late>>

Init ==
  /\ rd_idx = [l \in Lidars |-> 0] /\ wr_idx = [l \in Lidars |-> 0]
  /\ slots = [l \in Lidars |-> [s \in 0..Size-1 |-> NoPacket]]
  /\ allocated = [l \in Lidars |-> FALSE]
  /\ sampling = [l \in Lidars |-> FALSE]
  /\ pcd_semaphore_ = 0
  /\ owner = "alive"
  /\ ppc = "idle" /\ todo = {} /\ cur = 0
  /\ qpc = "top" /\ i = 0 /\ pkg = NoPacket
  /\ taken = [l \in Lidars |-> NoPacket]
  /\ late = [l \in Lidars |-> FALSE]

-----------------------------------------------------------------------------
(* The ring (comm/ldq.cpp) *)

QueueUsedSize(l) == (wr_idx[l] - rd_idx[l]) % IndexRange

\* Mutation: one frame too many fits.
QueueIsFullLate(l) == QueueUsedSize(l) > Size
QueueIsFull(l) == QueueUsedSize(l) > Size - 1

QueueIsEmpty(l) == rd_idx[l] = wr_idx[l]

\* queue->mask keeps the low bits of an index.
Slot(idx) == idx % Size

\* Mutation: the indices wrap at the size of the queue.
NextWrapped(idx) == (idx + 1) % Size
Next32(idx) == (idx + 1) % IndexRange

-----------------------------------------------------------------------------
(* The storing thread: StoragePointData and PushLidarData *)

\* The next lidar of the frame, or the end of it.
NextLidarOf(rest) ==
  IF rest = {}
    THEN ppc' = "idle" /\ todo' = {} /\ UNCHANGED cur
    ELSE /\ ppc' = "push"
         /\ cur' \in rest
         /\ todo' = rest \ {cur'}

PushDone == NextLidarOf(todo) /\ late' = [late EXCEPT ![cur] = FALSE]

\* PubHandler hands over the frames of one or more lidars.
StoragePointData ==
  /\ ppc = "idle"
  /\ \E frame \in SUBSET Lidars : frame # {} /\ NextLidarOf(frame)
  /\ UNCHANGED <<ringVars, sampling, pcd_semaphore_, owner, pollVars, late>>

\* Mutation: nobody is woken when the queue is full.
PushLidarDataQuiet ==
  /\ ppc = "push"
  /\ allocated' = [allocated EXCEPT ![cur] = TRUE]
  /\ IF QueueIsFull(cur)
       THEN PushDone
       ELSE ppc' = "pushSlot" /\ UNCHANGED <<todo, cur, late>>
  /\ UNCHANGED <<rd_idx, wr_idx, slots, sampling, pcd_semaphore_, owner, pollVars>>

\* The queue is made when its first frame comes.  A full one keeps its frames
\* and the new one is dropped.
PushLidarData ==
  /\ ppc = "push"
  /\ allocated' = [allocated EXCEPT ![cur] = TRUE]
  /\ ppc' = IF QueueIsFull(cur) THEN "count" ELSE "pushSlot"
  /\ UNCHANGED <<rd_idx, wr_idx, slots, todo, cur, sampling, pcd_semaphore_,
                 owner, pollVars, late>>

\* QueuePushAny starts overwriting the slot ...
PushSlot ==
  /\ ppc = "pushSlot" /\ ppc' = "fillSlot"
  /\ slots' = [slots EXCEPT ![cur][Slot(wr_idx[cur])] = NoPacket]
  /\ UNCHANGED <<rd_idx, wr_idx, allocated, todo, cur, sampling,
                 pcd_semaphore_, owner, pollVars, late>>

\* ... has filled it ...
FillSlot ==
  /\ ppc = "fillSlot" /\ ppc' = "pushUpdate"
  /\ \E p \in Packets : slots' = [slots EXCEPT ![cur][Slot(wr_idx[cur])] = p]
  /\ UNCHANGED <<rd_idx, wr_idx, allocated, todo, cur, sampling,
                 pcd_semaphore_, owner, pollVars, late>>

\* ... and publishes it to the reader.
PushUpdate ==
  /\ ppc = "pushUpdate" /\ ppc' = "pushed"
  /\ wr_idx' = [wr_idx EXCEPT ![cur] = Next32(@)]
  /\ UNCHANGED <<rd_idx, slots, allocated, todo, cur, sampling,
                 pcd_semaphore_, owner, pollVars, late>>

\* Nobody is woken for a frame that has been taken already.
CheckPushed ==
  /\ ppc = "pushed"
  /\ IF QueueIsEmpty(cur) THEN PushDone
                          ELSE ppc' = "count" /\ UNCHANGED <<todo, cur, late>>
  /\ UNCHANGED <<ringVars, sampling, pcd_semaphore_, owner, pollVars>>

PollIsAwake == pcd_semaphore_ > 0

\* GetCount is read without the semaphore's lock.
ReadCount ==
  /\ ppc = "count"
  /\ IF PollIsAwake THEN PushDone
                    ELSE ppc' = "signal" /\ UNCHANGED <<todo, cur, late>>
  /\ UNCHANGED <<ringVars, sampling, pcd_semaphore_, owner, pollVars>>

Signal ==
  /\ ppc = "signal"
  /\ pcd_semaphore_' = pcd_semaphore_ + 1
  /\ PushDone
  /\ UNCHANGED <<ringVars, sampling, owner, pollVars>>

Store ==
  \/ StoragePointData \/ PushLidarData \/ PushSlot \/ FillSlot
  \/ PushUpdate \/ CheckPushed \/ ReadCount \/ Signal

-----------------------------------------------------------------------------
(* The publishing thread: PointCloudDataPollThread *)

IsRequestExit == owner # "alive"

Distribute ==
  /\ qpc = "top"
  /\ qpc' = IF IsRequestExit THEN "future" ELSE "wait"
  /\ UNCHANGED <<ringVars, sampling, pcd_semaphore_, owner, storeVars, i, pkg,
                 taken, late>>

Wait ==
  /\ qpc = "wait" /\ pcd_semaphore_ > 0
  /\ pcd_semaphore_' = pcd_semaphore_ - 1
  /\ qpc' = "scan" /\ i' = 1
  /\ UNCHANGED <<ringVars, sampling, owner, storeVars, pkg, taken, late>>

\* Mutation: the last lidar is never looked at.
LidarLeftShort == i < NLidars
LidarLeft == i <= NLidars

\* The loop over the lidars; those that are not sampling are skipped.
Scan ==
  /\ qpc = "scan"
  /\ \/ ~LidarLeft /\ qpc' = "future" /\ UNCHANGED i
     \/ LidarLeft /\ sampling[i] /\ allocated[i] /\ qpc' = "poll" /\ UNCHANGED i
     \/ LidarLeft /\ ~(sampling[i] /\ allocated[i]) /\ i' = i + 1 /\ UNCHANGED qpc
  /\ UNCHANGED <<ringVars, sampling, pcd_semaphore_, owner, storeVars, pkg,
                 taken, late>>

PollingEnds == IsRequestExit

\* PollingLidarPointCloudData
Poll ==
  /\ qpc = "poll"
  /\ IF ~PollingEnds /\ ~QueueIsEmpty(i)
       THEN qpc' = "drain" /\ UNCHANGED i
       ELSE qpc' = "scan" /\ i' = i + 1
  /\ UNCHANGED <<ringVars, sampling, pcd_semaphore_, owner, storeVars, pkg,
                 taken, late>>

\* PublishPointcloud2 and PublishCustomPointcloud empty the queue;
\* PublishPclMsg returns at once in ROS 2.
Drain ==
  /\ qpc = "drain"
  /\ qpc' = IF TransferFormat # "PclPxyzi" /\ ~QueueIsEmpty(i)
              THEN "pop" ELSE "poll"
  /\ UNCHANGED <<ringVars, sampling, pcd_semaphore_, owner, storeVars, i, pkg,
                 taken, late>>

\* QueuePrePop copies the slot ...
PrePop ==
  /\ qpc = "pop" /\ qpc' = "popUpdate"
  /\ pkg' = slots[i][Slot(rd_idx[i])]
  /\ UNCHANGED <<ringVars, sampling, pcd_semaphore_, owner, storeVars, i,
                 taken, late>>

\* ... and QueuePopUpdate frees it; the frame is published.
PopUpdate ==
  /\ qpc = "popUpdate" /\ qpc' = "drain"
  /\ rd_idx' = [rd_idx EXCEPT ![i] = Next32(@)]
  /\ taken' = [taken EXCEPT ![i] = pkg]
  /\ UNCHANGED <<wr_idx, slots, allocated, sampling, pcd_semaphore_, owner,
                 storeVars, i, pkg, late>>

\* The thread ends once exit_signal_ is set.
CheckFuture ==
  /\ qpc = "future"
  /\ qpc' = IF owner = "joining" THEN "done" ELSE "top"
  /\ UNCHANGED <<ringVars, sampling, pcd_semaphore_, owner, storeVars, i, pkg,
                 taken, late>>

Publish ==
  \/ Distribute \/ Wait \/ Scan \/ Poll \/ Drain \/ PrePop \/ PopUpdate
  \/ CheckFuture

-----------------------------------------------------------------------------
(* The other threads *)

\* The last outstanding setting of a device is acknowledged
\* (LivoxLidarCallback).  Nobody is woken.
StartSampling ==
  \E l \in Lidars :
    /\ ~sampling[l]
    /\ sampling' = [sampling EXCEPT ![l] = TRUE]
    /\ late' = [late EXCEPT ![l] = ~QueueIsEmpty(l)]
    /\ UNCHANGED <<ringVars, pcd_semaphore_, owner, storeVars, pollVars>>

\* ~DriverNode sets request_exit_, then exit_signal_, and joins the thread.
RequestExit ==
  /\ owner = "alive" /\ owner' = "exiting"
  /\ UNCHANGED <<ringVars, sampling, pcd_semaphore_, storeVars, pollVars, late>>

SetExitSignal ==
  /\ owner = "exiting" /\ owner' = "joining"
  /\ UNCHANGED <<ringVars, sampling, pcd_semaphore_, storeVars, pollVars, late>>

Next == Store \/ Publish \/ StartSampling \/ RequestExit \/ SetExitSignal

Spec == Init /\ [][Next]_vars

\* A thread that can take its next step takes it; frames need not come, and
\* nobody need end the node.
Fairness ==
  /\ WF_vars(Publish) /\ WF_vars(SetExitSignal)
  /\ WF_vars(Store /\ ppc # "idle")

FairSpec == Spec /\ Fairness

-----------------------------------------------------------------------------
(* Properties *)

StorePlaces == {"idle", "push", "pushSlot", "fillSlot", "pushUpdate",
                "pushed", "count", "signal"}
PublishPlaces == {"top", "wait", "scan", "poll", "drain", "pop", "popUpdate",
                  "future", "done"}

\* Types.  The semaphore never counts more than one, so that a wakeup stands
\* for new frames.
TypeOK ==
  /\ rd_idx \in [Lidars -> 0..IndexRange-1]
  /\ wr_idx \in [Lidars -> 0..IndexRange-1]
  /\ slots \in [Lidars -> [0..Size-1 -> Packets \cup {NoPacket}]]
  /\ allocated \in [Lidars -> BOOLEAN]
  /\ sampling \in [Lidars -> BOOLEAN]
  /\ pcd_semaphore_ \in 0..1
  /\ owner \in {"alive", "exiting", "joining"}
  /\ ppc \in StorePlaces
  /\ todo \subseteq Lidars
  /\ cur \in 0..NLidars
  /\ qpc \in PublishPlaces
  /\ i \in 0..NLidars+1
  /\ pkg \in Packets \cup {NoPacket}
  /\ taken \in [Lidars -> Packets \cup {NoPacket}]
  /\ late \in [Lidars -> BOOLEAN]

\* The publishing thread never copies a frame out of a slot that the storing
\* thread is filling, although no lock guards the slots.
SlotExclusive ==
  ppc \in {"pushSlot", "fillSlot"} /\ qpc \in {"pop", "popUpdate"} /\ cur = i =>
    Slot(wr_idx[i]) # Slot(rd_idx[i])

\* A frame of lidar l will reach the publishing thread: it still looks at l in
\* this round, or it is awake or about to be woken for another round.
WillBeSeen(l) ==
  \/ pcd_semaphore_ > 0
  \/ ppc \in {"count", "signal"} \/ (ppc = "pushed" /\ cur = l)
  \/ qpc \in {"scan", "poll", "drain", "pop", "popUpdate"} /\ i <= l
  \/ IsRequestExit

\* No lost wakeup: a frame of a lidar that is sampling never waits for another
\* frame to come, although the semaphore's count is read without its lock.
\* Frames stored before the lidar was sampling wait for its next frame, and are
\* published then even if the queue is full.
NoLostWakeup ==
  \A l \in Lidars :
    sampling[l] /\ ~late[l] /\ ~QueueIsEmpty(l) => WillBeSeen(l)

\* What the ring of a lidar holds, oldest first.
Content(l) ==
  [k \in 1..QueueUsedSize(l) |-> slots[l][Slot(rd_idx[l] + k - 1)]]

Fifo == INSTANCE BoundedFifo WITH queue <- [l \in Lidars |-> Content(l)]

\* The rings are bounded queues: frames leave in the order they came, whole,
\* each once, and none is lost that found a place, also when the 32-bit
\* indices wrap.
IsFifo == Fifo!Spec

(* What makes NoLostWakeup, SlotExclusive and IsFifo inductive *)

\* Each thread works on a lidar, and signals only when the count is zero.
AtLidars ==
  /\ ppc # "idle" => cur \in Lidars
  /\ qpc \in {"poll", "drain", "pop", "popUpdate"} => i \in Lidars
  /\ qpc = "scan" => i >= 1
  /\ ppc = "signal" => pcd_semaphore_ = 0

\* No ring holds more than it has slots for.
RingsFit == \A l \in Lidars : QueueUsedSize(l) <= Size

\* A frame that is being stored has a free slot, and is whole once stored.
PushHasRoom ==
  /\ ppc \in {"pushSlot", "fillSlot", "pushUpdate"} => QueueUsedSize(cur) < Size
  /\ ppc = "pushUpdate" => slots[cur][Slot(wr_idx[cur])] \in Packets

\* A ring is made before a frame is put in it.
AllocatedFirst ==
  /\ \A l \in Lidars : allocated[l] \/ QueueIsEmpty(l)
  /\ ppc \in {"pushSlot", "fillSlot", "pushUpdate"} => allocated[cur]

\* A frame that is being taken is there until it is taken.
PopHasFrame ==
  /\ qpc \in {"pop", "popUpdate"} => ~QueueIsEmpty(i)
  /\ qpc = "popUpdate" => pkg = slots[i][Slot(rd_idx[i])]

IndInv ==
  /\ TypeOK
  /\ AtLidars
  /\ RingsFit
  /\ PushHasRoom
  /\ AllocatedFirst
  /\ PopHasFrame
  /\ NoLostWakeup

Quiet == <>[](ppc = "idle")

\* When no more frames come, the queues of the lidars that are sampling are
\* emptied, unless the node is ended; and if the node is ended the publishing
\* thread ends, unless it is waiting for a frame: nothing wakes it then, and
\* join blocks.  (While frames come faster than they are published, the inner
\* loop may stay with one lidar for ever.)
QuietServed ==
  Quiet =>
    /\ <>[](\/ IsRequestExit
            \/ \A l \in Lidars : sampling[l] /\ ~late[l] => QueueIsEmpty(l))
    /\ IsRequestExit ~> qpc = "done" \/ (qpc = "wait" /\ pcd_semaphore_ = 0)
===============================================================================
