--------------------------- MODULE LidarQueueProofs ----------------------------
(***************************************************************************)
(* For any number of lidars, any size of the rings and any width of the    *)
(* indices that is a multiple of it: the rings are bounded queues, no slot *)
(* is read while it is filled, and no wakeup is lost.                      *)
(***************************************************************************)
EXTENDS LidarQueue, SequenceTheorems, TLAPS

USE RingAssumption, LidarAssumption

-----------------------------------------------------------------------------
(* Arithmetic of the indices *)

LEMMA DivMod ==
  ASSUME NEW x \in Int
  PROVE  /\ x = (x \div Size) * Size + (x % Size)
         /\ x \div Size \in Int /\ x % Size \in 0..Size-1
OBVIOUS

LEMMA ModUnique ==
  ASSUME NEW x \in Int, NEW q \in Int, NEW r \in 0..Size-1, x = q * Size + r
  PROVE  x % Size = r
OBVIOUS

LEMMA SlotRange == ASSUME NEW x \in Int PROVE Slot(x) \in 0..Size-1
BY DEF Slot

\* The width of the indices is a multiple of the size, so a slot does not
\* change when its index wraps.
LEMMA SlotWraps ==
  ASSUME NEW x \in Int
  PROVE  Slot(x - IndexRange) = Slot(x)
<1>1. PICK k \in 2..IndexRange : IndexRange = k * Size
  BY RingAssumption
<1> DEFINE q == x \div Size
           r == x % Size
<1>2. x = q * Size + r /\ q \in Int /\ r \in 0..Size-1
  BY DivMod
<1> HIDE DEF q, r
<1>3. x - k * Size = (q - k) * Size + r /\ q - k \in Int /\ x - k * Size \in Int
  BY <1>1, <1>2
<1>4. (x - k * Size) % Size = r
  BY <1>2, <1>3, ModUnique
<1> QED BY <1>1, <1>4 DEF r, Slot

\* Indices less than the size apart have different slots.
LEMMA SlotsDiffer ==
  ASSUME NEW x \in Int, NEW d \in 1..Size-1
  PROVE  Slot(x + d) # Slot(x)
<1> DEFINE q == x \div Size
           r == x % Size
<1>1. x = q * Size + r /\ q \in Int /\ r \in 0..Size-1
  BY DivMod
<1> HIDE DEF q, r
<1>2. CASE r + d < Size
  <2>1. x + d = q * Size + (r + d) /\ r + d \in 0..Size-1 /\ x + d \in Int
    BY <1>1, <1>2
  <2>2. (x + d) % Size = r + d
    BY <2>1, <1>1, ModUnique
  <2>3. r + d # r
    BY <1>1
  <2> QED BY <2>2, <2>3 DEF r, Slot
<1>3. CASE r + d >= Size
  <2>1. /\ x + d = (q + 1) * Size + (r + d - Size)
        /\ r + d - Size \in 0..Size-1 /\ x + d \in Int /\ q + 1 \in Int
    BY <1>1, <1>3
  <2>2. (x + d) % Size = r + d - Size
    BY <2>1, ModUnique
  <2>3. r + d - Size # r
    BY <1>1
  <2> QED BY <2>2, <2>3 DEF r, Slot
<1> QED BY <1>1, <1>2, <1>3

Index == 0..IndexRange-1
Used(r, w) == (w - r) % IndexRange

LEMMA NextIndex ==
  ASSUME NEW x \in Index
  PROVE  Next32(x) = IF x = IndexRange - 1 THEN 0 ELSE x + 1
BY DEF Index, Next32

LEMMA UsedValue ==
  ASSUME NEW r \in Index, NEW w \in Index
  PROVE  Used(r, w) = IF w >= r THEN w - r ELSE w - r + IndexRange
BY DEF Index, Used

LEMMA SizeBelowRange == Size \in Nat \ {0} /\ IndexRange \in Nat /\ Size < IndexRange
BY RingAssumption

\* The slot that is filled next is the one after the last frame.
LEMMA SlotOfWriter ==
  ASSUME NEW r \in Index, NEW w \in Index
  PROVE  Slot(r + Used(r, w)) = Slot(w)
<1>1. CASE w >= r
  BY <1>1, UsedValue DEF Index
<1>2. CASE ~(w >= r)
  <2>1. r + Used(r, w) = w + IndexRange
    BY <1>2, UsedValue DEF Index
  <2>2. Slot((w + IndexRange) - IndexRange) = Slot(w + IndexRange)
    BY SlotWraps DEF Index
  <2>3. (w + IndexRange) - IndexRange = w
    BY DEF Index
  <2> QED BY <2>1, <2>2, <2>3
<1> QED BY <1>1, <1>2

LEMMA SlotOfNext ==
  ASSUME NEW r \in Index, NEW k \in Nat
  PROVE  Slot(Next32(r) + k) = Slot(r + (k + 1))
<1>1. CASE r = IndexRange - 1
  <2>1. Next32(r) + k = (r + (k + 1)) - IndexRange
    BY <1>1, NextIndex DEF Index
  <2>2. r + (k + 1) \in Int
    BY DEF Index
  <2> QED BY <2>1, <2>2, SlotWraps
<1>2. CASE r # IndexRange - 1
  <2>1. Next32(r) + k = r + (k + 1)
    BY <1>2, NextIndex DEF Index
  <2> QED BY <2>1
<1> QED BY <1>1, <1>2

\* What is stored is not in the slot that is filled next, unless the ring is
\* full.
LEMMA SlotFree ==
  ASSUME NEW r \in Index, NEW w \in Index, Used(r, w) < Size,
         NEW k \in Nat, k < Used(r, w)
  PROVE  Slot(r + k) # Slot(w)
<1>1. Used(r, w) \in Nat /\ Used(r, w) - k \in 1..Size-1 /\ r + k \in Int
  BY UsedValue DEF Index
<1>2. Slot((r + k) + (Used(r, w) - k)) # Slot(r + k)
  BY <1>1, SlotsDiffer
<1>3. (r + k) + (Used(r, w) - k) = r + Used(r, w)
  BY <1>1 DEF Index
<1> QED BY <1>2, <1>3, SlotOfWriter

LEMMA UsedZero ==
  ASSUME NEW r \in Index, NEW w \in Index
  PROVE  Used(r, w) \in Nat /\ (Used(r, w) = 0 <=> r = w)
BY UsedValue DEF Index

LEMMA UsedPushed ==
  ASSUME NEW r \in Index, NEW w \in Index, Used(r, w) < Size
  PROVE  Next32(w) \in Index /\ Used(r, Next32(w)) = Used(r, w) + 1
<1>1. Next32(w) \in Index
  BY NextIndex DEF Index
<1>2. Used(r, Next32(w)) = IF Next32(w) >= r THEN Next32(w) - r
                                             ELSE Next32(w) - r + IndexRange
  BY <1>1, UsedValue
<1>3. Used(r, w) = IF w >= r THEN w - r ELSE w - r + IndexRange
  BY UsedValue
<1>4. Next32(w) = IF w = IndexRange - 1 THEN 0 ELSE w + 1
  BY NextIndex
<1>5. Size < IndexRange /\ Size \in Nat /\ IndexRange \in Nat
  BY SizeBelowRange
<1> HIDE RingAssumption
<1> QED BY <1>1, <1>2, <1>3, <1>4, <1>5 DEF Index

LEMMA UsedPopped ==
  ASSUME NEW r \in Index, NEW w \in Index, r # w
  PROVE  Next32(r) \in Index /\ Used(Next32(r), w) = Used(r, w) - 1
<1>1. Next32(r) \in Index
  BY NextIndex DEF Index
<1>2. Used(Next32(r), w) = IF w >= Next32(r) THEN w - Next32(r)
                                             ELSE w - Next32(r) + IndexRange
  BY <1>1, UsedValue
<1> QED BY <1>1, <1>2, NextIndex, UsedValue DEF Index

-----------------------------------------------------------------------------
(* The invariant *)

LEMMA InitInv == Init => IndInv
<1> SUFFICES ASSUME Init PROVE IndInv
  OBVIOUS
<1> USE DEF Init
<1>1. 0 \in Index /\ Used(0, 0) = 0 /\ IndexRange \in Nat
  BY UsedValue DEF Index
<1>2. TypeOK
  BY <1>1 DEF TypeOK, Index, StorePlaces, PublishPlaces
<1>3. \A l \in Lidars : QueueIsEmpty(l) /\ QueueUsedSize(l) = 0
  BY <1>1 DEF QueueIsEmpty, QueueUsedSize, Used
<1>4. RingsFit
  BY <1>3 DEF RingsFit
<1>5. AtLidars /\ PushHasRoom /\ AllocatedFirst /\ PopHasFrame /\ NoLostWakeup
  BY <1>3 DEF AtLidars, PushHasRoom, AllocatedFirst, PopHasFrame, NoLostWakeup
<1> QED BY <1>2, <1>4, <1>5 DEF IndInv

HIDE RingAssumption

\* A ring in terms of its two indices.
LEMMA RingUsed ==
  ASSUME TypeOK, NEW l \in Lidars
  PROVE  /\ rd_idx[l] \in Index /\ wr_idx[l] \in Index
         /\ QueueUsedSize(l) = Used(rd_idx[l], wr_idx[l])
         /\ QueueUsedSize(l) \in Nat
         /\ rd_idx[l] = wr_idx[l] <=> QueueUsedSize(l) = 0
         /\ Slot(rd_idx[l]) \in 0..Size-1 /\ Slot(wr_idx[l]) \in 0..Size-1
<1>1. rd_idx[l] \in Index /\ wr_idx[l] \in Index
  BY DEF TypeOK, Index
<1>2. QueueUsedSize(l) = Used(rd_idx[l], wr_idx[l])
  BY DEF QueueUsedSize, Used
<1>3. QueueUsedSize(l) \in Nat /\ (rd_idx[l] = wr_idx[l] <=> QueueUsedSize(l) = 0)
  BY <1>1, <1>2, UsedZero
<1>4. rd_idx[l] \in Int /\ wr_idx[l] \in Int
  BY <1>1 DEF Index
<1> QED BY <1>1, <1>2, <1>3, <1>4, SlotRange

LEMMA RoomLeft ==
  ASSUME TypeOK, NEW l \in Lidars, ~QueueIsFull(l)
  PROVE  QueueUsedSize(l) < Size
<1>1. QueueUsedSize(l) \in Nat
  BY RingUsed
<1>2. Size \in Nat
  BY SizeBelowRange
<1> QED BY <1>1, <1>2 DEF QueueIsFull

\* What the end of a push leaves behind.
LEMMA PushDoneEffect ==
  ASSUME TypeOK, cur \in Lidars, PushDone
  PROVE  /\ ppc' \in {"idle", "push"}
         /\ todo' \subseteq Lidars /\ cur' \in Lidars
         /\ late' \in [Lidars -> BOOLEAN]
         /\ \A l \in Lidars : ~late'[l] => ~late[l] \/ l = cur
BY DEF PushDone, NextLidarOf, TypeOK

\* Steps that leave the rings, the slots and both threads' work on them alone.
RingsSame == UNCHANGED <<rd_idx, wr_idx, slots>>

LEMMA RingsKept ==
  ASSUME IndInv, RingsSame
  PROVE  /\ RingsFit'
         /\ \A l : QueueIsEmpty(l)' = QueueIsEmpty(l)
         /\ \A l : QueueUsedSize(l)' = QueueUsedSize(l)
BY DEF IndInv, RingsSame, RingsFit, QueueIsEmpty, QueueUsedSize

LEMMA StoragePointDataInv == IndInv /\ StoragePointData => IndInv'
<1> SUFFICES ASSUME IndInv, StoragePointData PROVE IndInv'
  OBVIOUS
<1> USE DEF StoragePointData
<1>1. RingsFit' /\ \A l : QueueIsEmpty(l)' = QueueIsEmpty(l)
  BY RingsKept DEF RingsSame, ringVars
<1>2. ppc' = "push" /\ cur' \in Lidars /\ todo' \subseteq Lidars
  BY DEF NextLidarOf
<1>3. TypeOK'
  BY <1>2 DEF IndInv, TypeOK, ringVars, pollVars, StorePlaces, Lidars
<1>4. AtLidars'
  BY <1>2 DEF IndInv, AtLidars, pollVars
<1>5. PushHasRoom'
  BY <1>2 DEF PushHasRoom
<1>6. PopHasFrame'
  BY <1>1 DEF IndInv, PopHasFrame, ringVars, pollVars
<1>7. NoLostWakeup'
  BY <1>1, <1>2 DEF IndInv, NoLostWakeup, WillBeSeen, IsRequestExit, pollVars
<1>20. AllocatedFirst'
  BY <1>1, <1>2 DEF IndInv, AllocatedFirst, ringVars
<1> QED BY <1>1, <1>3, <1>4, <1>5, <1>6, <1>7, <1>20 DEF IndInv

LEMMA PushLidarDataInv == IndInv /\ PushLidarData => IndInv'
<1> SUFFICES ASSUME IndInv, PushLidarData PROVE IndInv'
  OBVIOUS
<1> USE DEF PushLidarData
<1>0. cur \in Lidars
  BY DEF IndInv, AtLidars
<1>1. /\ RingsFit' /\ \A l : QueueIsEmpty(l)' = QueueIsEmpty(l)
      /\ \A l : QueueUsedSize(l)' = QueueUsedSize(l)
  BY RingsKept DEF RingsSame
<1>2. ppc' = "count" \/ (ppc' = "pushSlot" /\ ~QueueIsFull(cur))
  OBVIOUS
<1>3. TypeOK'
  BY <1>0, <1>2 DEF IndInv, TypeOK, pollVars, StorePlaces
<1>4. AtLidars'
  BY <1>0, <1>2 DEF IndInv, AtLidars, pollVars
<1>5. PushHasRoom'
  <2>1. ~QueueIsFull(cur) => QueueUsedSize(cur) < Size
    BY <1>0, RoomLeft DEF IndInv
  <2> QED BY <1>1, <1>2, <2>1 DEF PushHasRoom
<1>6. PopHasFrame'
  BY <1>1 DEF IndInv, PopHasFrame, pollVars
<1>7. NoLostWakeup'
  BY <1>1, <1>2 DEF IndInv, NoLostWakeup, WillBeSeen, IsRequestExit, pollVars
<1>20. AllocatedFirst'
  BY <1>0, <1>1 DEF IndInv, TypeOK, AllocatedFirst
<1> QED BY <1>1, <1>3, <1>4, <1>5, <1>6, <1>7, <1>20 DEF IndInv

\* Filling the free slot does not touch the frame that is being taken.
LEMMA FillKeepsPop ==
  ASSUME IndInv, cur \in Lidars, QueueUsedSize(cur) < Size,
         UNCHANGED <<rd_idx, wr_idx, qpc, i, pkg>>,
         NEW p, slots' = [slots EXCEPT ![cur][Slot(wr_idx[cur])] = p]
  PROVE  PopHasFrame'
<1> SUFFICES ASSUME qpc \in {"pop", "popUpdate"}
             PROVE  /\ ~QueueIsEmpty(i)'
                    /\ qpc = "popUpdate" => pkg = slots'[i][Slot(rd_idx[i])]
  BY DEF PopHasFrame
<1>1. i \in Lidars /\ ~QueueIsEmpty(i)
  BY DEF IndInv, AtLidars, PopHasFrame
<1>2. ~QueueIsEmpty(i)'
  BY <1>1 DEF QueueIsEmpty
<1>3. TypeOK
  BY DEF IndInv
<1>4. Slot(wr_idx[i]) # Slot(rd_idx[i]) \/ i # cur
  <2> SUFFICES ASSUME i = cur PROVE Slot(rd_idx[i]) # Slot(wr_idx[i])
    OBVIOUS
  <2>1. /\ rd_idx[i] \in Index /\ wr_idx[i] \in Index
        /\ Used(rd_idx[i], wr_idx[i]) < Size /\ 0 < Used(rd_idx[i], wr_idx[i])
    <3>1. /\ rd_idx[i] \in Index /\ wr_idx[i] \in Index
          /\ QueueUsedSize(i) = Used(rd_idx[i], wr_idx[i])
          /\ QueueUsedSize(i) \in Nat /\ QueueUsedSize(i) # 0
      BY <1>1, <1>3, RingUsed DEF QueueIsEmpty
    <3>2. QueueUsedSize(i) < Size
      OBVIOUS
    <3> QED BY <3>1, <3>2
  <2>2. Slot(rd_idx[i] + 0) # Slot(wr_idx[i])
    BY <2>1, SlotFree
  <2>3. rd_idx[i] + 0 = rd_idx[i]
    BY <2>1, SizeBelowRange DEF Index
  <2> QED BY <2>2, <2>3
<1>5. slots'[i][Slot(rd_idx[i])] = slots[i][Slot(rd_idx[i])]
  <2>1. Slot(rd_idx[i]) \in 0..Size-1
    BY <1>1, <1>3, RingUsed
  <2>2. CASE i # cur
    BY <1>1, <1>3, <2>2 DEF TypeOK
  <2>3. CASE i = cur
    <3>1. slots'[i] = [slots[i] EXCEPT ![Slot(wr_idx[i])] = p]
      BY <1>1, <1>3, <2>3 DEF TypeOK
    <3>2. slots[i] \in [0..Size-1 -> Packets \cup {NoPacket}]
      BY <1>1, <1>3 DEF TypeOK
    <3> QED BY <1>4, <2>1, <2>3, <3>1, <3>2
  <2> QED BY <2>2, <2>3
<1> QED BY <1>2, <1>5 DEF IndInv, PopHasFrame

LEMMA PushSlotInv == IndInv /\ PushSlot => IndInv'
<1> SUFFICES ASSUME IndInv, PushSlot PROVE IndInv'
  OBVIOUS
<1> USE DEF PushSlot
<1>0. cur \in Lidars /\ QueueUsedSize(cur) < Size /\ TypeOK
  BY DEF IndInv, AtLidars, PushHasRoom
<1>1. /\ \A l : QueueIsEmpty(l)' = QueueIsEmpty(l)
      /\ \A l : QueueUsedSize(l)' = QueueUsedSize(l)
  BY DEF QueueIsEmpty, QueueUsedSize
<1>2. TypeOK'
  <2>1. slots' \in [Lidars -> [0..Size-1 -> Packets \cup {NoPacket}]]
    BY <1>0, RingUsed DEF TypeOK
  <2> QED BY <1>0, <2>1 DEF TypeOK, pollVars, StorePlaces
<1>3. AtLidars' /\ RingsFit' /\ PushHasRoom'
  BY <1>0, <1>1 DEF IndInv, AtLidars, RingsFit, PushHasRoom, pollVars
<1>4. PopHasFrame'
  BY <1>0, FillKeepsPop DEF pollVars
<1>5. NoLostWakeup'
  BY <1>1 DEF IndInv, NoLostWakeup, WillBeSeen, IsRequestExit, pollVars
<1>20. AllocatedFirst'
  BY <1>1 DEF IndInv, AllocatedFirst
<1> QED BY <1>2, <1>3, <1>4, <1>5, <1>20 DEF IndInv

LEMMA FillSlotInv == IndInv /\ FillSlot => IndInv'
<1> SUFFICES ASSUME IndInv, FillSlot PROVE IndInv'
  OBVIOUS
<1> USE DEF FillSlot
<1>0. cur \in Lidars /\ QueueUsedSize(cur) < Size /\ TypeOK
  BY DEF IndInv, AtLidars, PushHasRoom
<1>1. /\ \A l : QueueIsEmpty(l)' = QueueIsEmpty(l)
      /\ \A l : QueueUsedSize(l)' = QueueUsedSize(l)
  BY DEF QueueIsEmpty, QueueUsedSize
<1>2. PICK p \in Packets : slots' = [slots EXCEPT ![cur][Slot(wr_idx[cur])] = p]
  OBVIOUS
<1>3. TypeOK'
  <2>1. slots' \in [Lidars -> [0..Size-1 -> Packets \cup {NoPacket}]]
    BY <1>0, <1>2, RingUsed DEF TypeOK
  <2> QED BY <1>0, <2>1 DEF TypeOK, pollVars, StorePlaces
<1>4. AtLidars' /\ RingsFit'
  BY <1>0, <1>1 DEF IndInv, AtLidars, RingsFit, pollVars
<1>5. PushHasRoom'
  <2>1. slots'[cur][Slot(wr_idx[cur])] = p
    BY <1>0, <1>2, RingUsed DEF TypeOK
  <2> QED BY <1>0, <1>1, <2>1 DEF PushHasRoom
<1>6. PopHasFrame'
  BY <1>0, <1>2, FillKeepsPop DEF pollVars
<1>7. NoLostWakeup'
  BY <1>1 DEF IndInv, NoLostWakeup, WillBeSeen, IsRequestExit, pollVars
<1>20. AllocatedFirst'
  BY <1>1 DEF IndInv, AllocatedFirst
<1> QED BY <1>3, <1>4, <1>5, <1>6, <1>7, <1>20 DEF IndInv

LEMMA PushUpdateInv == IndInv /\ PushUpdate => IndInv'
<1> SUFFICES ASSUME IndInv, PushUpdate PROVE IndInv'
  OBVIOUS
<1> USE DEF PushUpdate
<1>0. cur \in Lidars /\ QueueUsedSize(cur) < Size /\ TypeOK
  BY DEF IndInv, AtLidars, PushHasRoom
<1>1. /\ rd_idx[cur] \in Index /\ wr_idx[cur] \in Index
      /\ QueueUsedSize(cur) = Used(rd_idx[cur], wr_idx[cur])
      /\ QueueUsedSize(cur) \in Nat
  BY <1>0, RingUsed
<1>2. Next32(wr_idx[cur]) \in Index
  BY <1>0, <1>1, UsedPushed
<1>3. TypeOK'
  BY <1>0, <1>2 DEF TypeOK, pollVars, StorePlaces, Index
<1>4. QueueUsedSize(cur)' = QueueUsedSize(cur) + 1
  <2>1. wr_idx'[cur] = Next32(wr_idx[cur]) /\ cur' = cur /\ rd_idx' = rd_idx
    BY <1>0 DEF TypeOK
  <2>2. QueueUsedSize(cur)' = Used(rd_idx[cur], Next32(wr_idx[cur]))
    BY <2>1 DEF QueueUsedSize, Used
  <2> QED BY <1>0, <1>1, <2>2, UsedPushed
<1>5. \A l \in Lidars \ {cur} : /\ QueueUsedSize(l)' = QueueUsedSize(l)
                                /\ QueueIsEmpty(l)' = QueueIsEmpty(l)
  BY <1>0 DEF QueueUsedSize, QueueIsEmpty, TypeOK
<1>6. RingsFit'
  <2>1. QueueUsedSize(cur)' <= Size
    <3> DEFINE u == QueueUsedSize(cur)
    <3>1. u \in Nat /\ u < Size /\ Size \in Nat
      BY <1>0, <1>1, SizeBelowRange
    <3> HIDE DEF u
    <3>2. u + 1 <= Size
      BY <3>1
    <3> QED BY <1>4, <3>2 DEF u
  <2> QED BY <1>0, <1>5, <2>1 DEF IndInv, RingsFit
<1>7. ~QueueIsEmpty(cur)'
  <2>1. wr_idx'[cur] = Next32(wr_idx[cur]) /\ cur' = cur /\ rd_idx' = rd_idx
    BY <1>0 DEF TypeOK
  <2>2. Used(rd_idx[cur], Next32(wr_idx[cur])) # 0
    <3>1. /\ Used(rd_idx[cur], wr_idx[cur]) \in Nat
          /\ Used(rd_idx[cur], wr_idx[cur]) < Size
      BY <1>0, <1>1
    <3>2. Used(rd_idx[cur], Next32(wr_idx[cur])) = Used(rd_idx[cur], wr_idx[cur]) + 1
      BY <1>1, <3>1, UsedPushed
    <3> QED BY <3>1, <3>2
  <2>3. rd_idx[cur] # Next32(wr_idx[cur])
    BY <1>1, <1>2, <2>2, UsedZero
  <2> QED BY <2>1, <2>3 DEF QueueIsEmpty
<1>8. AtLidars' /\ PushHasRoom'
  BY <1>0 DEF IndInv, AtLidars, PushHasRoom, pollVars
<1>9. PopHasFrame'
  BY <1>5, <1>7 DEF IndInv, PopHasFrame, AtLidars, pollVars
<1>10. NoLostWakeup'
  BY <1>5 DEF IndInv, NoLostWakeup, WillBeSeen, IsRequestExit, pollVars
<1>20. AllocatedFirst'
  BY <1>5 DEF IndInv, AllocatedFirst
<1> QED BY <1>3, <1>6, <1>8, <1>9, <1>10, <1>20 DEF IndInv

LEMMA CheckPushedInv == IndInv /\ CheckPushed => IndInv'
<1> SUFFICES ASSUME IndInv, CheckPushed PROVE IndInv'
  OBVIOUS
<1> USE DEF CheckPushed
<1>0. cur \in Lidars /\ TypeOK
  BY DEF IndInv, AtLidars
<1>1. RingsFit' /\ \A l : QueueIsEmpty(l)' = QueueIsEmpty(l)
  BY RingsKept DEF RingsSame, ringVars
<1>2. CASE QueueIsEmpty(cur)
  <2>1. /\ ppc' \in {"idle", "push"} /\ todo' \subseteq Lidars /\ cur' \in Lidars
        /\ late' \in [Lidars -> BOOLEAN]
        /\ \A l \in Lidars : ~late'[l] => ~late[l] \/ l = cur
    BY <1>0, <1>2, PushDoneEffect
  <2>2. TypeOK'
    <3>1. ppc' \in StorePlaces /\ cur' \in 0..NLidars
      BY <2>1, LidarAssumption DEF StorePlaces, Lidars
    <3> QED BY <1>0, <2>1, <3>1 DEF TypeOK, ringVars, pollVars
  <2>3. AtLidars' /\ PushHasRoom' /\ AllocatedFirst'
    BY <1>1, <2>1 DEF IndInv, AtLidars, PushHasRoom, AllocatedFirst, ringVars,
        pollVars
  <2>4. PopHasFrame'
    BY <1>1 DEF IndInv, PopHasFrame, ringVars, pollVars
  <2>5. NoLostWakeup'
    BY <1>1, <1>2, <2>1 DEF IndInv, NoLostWakeup, WillBeSeen, IsRequestExit, pollVars
  <2> QED BY <1>1, <2>2, <2>3, <2>4, <2>5 DEF IndInv
<1>3. CASE ~QueueIsEmpty(cur)
  <2>1. ppc' = "count" /\ UNCHANGED <<todo, cur, late>>
    BY <1>3
  <2>2. TypeOK'
    BY <1>0, <2>1 DEF TypeOK, ringVars, pollVars, StorePlaces
  <2>3. AtLidars' /\ PushHasRoom' /\ AllocatedFirst'
    BY <1>1, <1>0, <2>1 DEF IndInv, AtLidars, PushHasRoom, AllocatedFirst, ringVars,
        pollVars
  <2>4. PopHasFrame'
    BY <1>1 DEF IndInv, PopHasFrame, ringVars, pollVars
  <2>5. NoLostWakeup'
    BY <2>1 DEF NoLostWakeup, WillBeSeen
  <2> QED BY <1>1, <2>2, <2>3, <2>4, <2>5 DEF IndInv
<1> QED BY <1>2, <1>3

LEMMA ReadCountInv == IndInv /\ ReadCount => IndInv'
<1> SUFFICES ASSUME IndInv, ReadCount PROVE IndInv'
  OBVIOUS
<1> USE DEF ReadCount
<1>0. cur \in Lidars /\ TypeOK
  BY DEF IndInv, AtLidars
<1>1. RingsFit' /\ \A l : QueueIsEmpty(l)' = QueueIsEmpty(l)
  BY RingsKept DEF RingsSame, ringVars
<1>2. PopHasFrame'
  BY <1>1 DEF IndInv, PopHasFrame, ringVars, pollVars
<1>3. CASE PollIsAwake
  <2>1. /\ ppc' \in {"idle", "push"} /\ todo' \subseteq Lidars /\ cur' \in Lidars
        /\ late' \in [Lidars -> BOOLEAN]
    BY <1>0, <1>3, PushDoneEffect
  <2>2. TypeOK'
    <3>1. ppc' \in StorePlaces /\ cur' \in 0..NLidars
      BY <2>1, LidarAssumption DEF StorePlaces, Lidars
    <3> QED BY <1>0, <2>1, <3>1 DEF TypeOK, ringVars, pollVars
  <2>3. AtLidars' /\ PushHasRoom' /\ AllocatedFirst'
    BY <1>1, <2>1 DEF IndInv, AtLidars, PushHasRoom, AllocatedFirst, ringVars,
        pollVars
  <2>4. NoLostWakeup'
    BY <1>3 DEF NoLostWakeup, WillBeSeen, PollIsAwake
  <2> QED BY <1>1, <1>2, <2>2, <2>3, <2>4 DEF IndInv
<1>4. CASE ~PollIsAwake
  <2>1. ppc' = "signal" /\ UNCHANGED <<todo, cur, late>>
    BY <1>4
  <2>2. TypeOK'
    BY <1>0, <2>1 DEF TypeOK, ringVars, pollVars, StorePlaces
  <2>3. pcd_semaphore_ = 0
    BY <1>0, <1>4 DEF TypeOK, PollIsAwake
  <2>4. AtLidars' /\ PushHasRoom' /\ AllocatedFirst'
    BY <1>1, <1>0, <2>1, <2>3 DEF IndInv, AtLidars, PushHasRoom, AllocatedFirst, ringVars,
        pollVars
  <2>5. NoLostWakeup'
    BY <2>1 DEF NoLostWakeup, WillBeSeen
  <2> QED BY <1>1, <1>2, <2>2, <2>4, <2>5 DEF IndInv
<1> QED BY <1>3, <1>4

LEMMA SignalInv == IndInv /\ Signal => IndInv'
<1> SUFFICES ASSUME IndInv, Signal PROVE IndInv'
  OBVIOUS
<1> USE DEF Signal
<1>0. cur \in Lidars /\ TypeOK /\ pcd_semaphore_' = 1
  BY DEF IndInv, AtLidars
<1>1. RingsFit' /\ \A l : QueueIsEmpty(l)' = QueueIsEmpty(l)
  BY RingsKept DEF RingsSame, ringVars
<1>2. /\ ppc' \in {"idle", "push"} /\ todo' \subseteq Lidars /\ cur' \in Lidars
      /\ late' \in [Lidars -> BOOLEAN]
  BY <1>0, PushDoneEffect
<1>3. TypeOK'
  <2>1. ppc' \in StorePlaces /\ cur' \in 0..NLidars
    BY <1>2, LidarAssumption DEF StorePlaces, Lidars
  <2> QED BY <1>0, <1>2, <2>1 DEF TypeOK, ringVars, pollVars
<1>4. AtLidars' /\ PushHasRoom'
  BY <1>2 DEF IndInv, AtLidars, PushHasRoom, pollVars
<1>5. PopHasFrame'
  BY <1>1 DEF IndInv, PopHasFrame, ringVars, pollVars
<1>6. NoLostWakeup'
  BY <1>0 DEF NoLostWakeup, WillBeSeen
<1>20. AllocatedFirst'
  BY <1>1, <1>2 DEF IndInv, AllocatedFirst, ringVars
<1> QED BY <1>1, <1>3, <1>4, <1>5, <1>6, <1>20 DEF IndInv

\* The storing thread's side.
LEMMA StoreInv == IndInv /\ Store => IndInv'
BY StoragePointDataInv, PushLidarDataInv, PushSlotInv, FillSlotInv,
   PushUpdateInv, CheckPushedInv, ReadCountInv, SignalInv DEF Store

\* A step of the publishing thread that leaves the rings alone keeps what the
\* storing thread relies on.
LEMMA StoreSideKept ==
  ASSUME IndInv, UNCHANGED <<ringVars, storeVars>>
  PROVE  /\ RingsFit' /\ PushHasRoom' /\ AllocatedFirst'
         /\ \A l : QueueIsEmpty(l)' = QueueIsEmpty(l)
<1>1. /\ RingsFit' /\ \A l : QueueUsedSize(l)' = QueueUsedSize(l)
      /\ \A l : QueueIsEmpty(l)' = QueueIsEmpty(l)
  BY RingsKept DEF RingsSame, ringVars
<1>2. PushHasRoom'
  BY <1>1 DEF IndInv, PushHasRoom, ringVars, storeVars
<1>3. AllocatedFirst'
  BY <1>1 DEF IndInv, AllocatedFirst, ringVars, storeVars
<1> QED BY <1>1, <1>2, <1>3

LEMMA DistributeInv == IndInv /\ Distribute => IndInv'
<1> SUFFICES ASSUME IndInv, Distribute PROVE IndInv'
  OBVIOUS
<1> USE DEF Distribute
<1>1. /\ RingsFit' /\ PushHasRoom' /\ AllocatedFirst'
      /\ \A l : QueueIsEmpty(l)' = QueueIsEmpty(l)
  BY StoreSideKept
<1>2. TypeOK'
  BY DEF IndInv, TypeOK, ringVars, storeVars, PublishPlaces
<1>3. AtLidars' /\ PopHasFrame'
  BY DEF IndInv, AtLidars, PopHasFrame, storeVars
<1>4. NoLostWakeup'
  BY <1>1 DEF IndInv, NoLostWakeup, WillBeSeen, IsRequestExit, storeVars
<1> QED BY <1>1, <1>2, <1>3, <1>4 DEF IndInv

LEMMA WaitInv == IndInv /\ Wait => IndInv'
<1> SUFFICES ASSUME IndInv, Wait PROVE IndInv'
  OBVIOUS
<1> USE DEF Wait
<1>1. pcd_semaphore_ = 1 /\ pcd_semaphore_' = 0
  BY DEF IndInv, TypeOK
<1>2. RingsFit' /\ PushHasRoom' /\ AllocatedFirst'
  BY StoreSideKept
<1>3. TypeOK'
  BY <1>1, LidarAssumption DEF IndInv, TypeOK, ringVars, storeVars, PublishPlaces
<1>4. AtLidars'
  BY <1>1 DEF IndInv, AtLidars, storeVars
<1>5. PopHasFrame'
  BY DEF PopHasFrame
<1>6. NoLostWakeup'
  BY DEF NoLostWakeup, WillBeSeen, Lidars
<1> QED BY <1>2, <1>3, <1>4, <1>5, <1>6 DEF IndInv

\* Looking at the next lidar is safe when nothing is left in this one, or it
\* need not be served.
LEMMA NextScanned ==
  ASSUME IndInv, i \in Lidars, qpc \in {"scan", "poll"}, qpc' = "scan",
         i' = i + 1,
         QueueIsEmpty(i) \/ ~sampling[i] \/ IsRequestExit,
         UNCHANGED <<ringVars, sampling, pcd_semaphore_, owner, storeVars, pkg,
                     taken, late>>
  PROVE  IndInv'
<1>1. /\ RingsFit' /\ PushHasRoom' /\ AllocatedFirst'
      /\ \A l : QueueIsEmpty(l)' = QueueIsEmpty(l)
  BY StoreSideKept
<1>2. TypeOK'
  <2>1. i' \in 0..NLidars+1 /\ qpc' \in PublishPlaces
    BY LidarAssumption DEF PublishPlaces, Lidars
  <2> QED BY <2>1 DEF IndInv, TypeOK, ringVars, storeVars
<1>3. AtLidars' /\ PopHasFrame'
  <2>1. i' >= 1
    BY LidarAssumption DEF Lidars
  <2> QED BY <2>1 DEF IndInv, AtLidars, PopHasFrame, storeVars
<1>4. NoLostWakeup'
  <2> SUFFICES ASSUME NEW l \in Lidars,
                      sampling[l], ~late[l], ~QueueIsEmpty(l)
               PROVE  WillBeSeen(l)'
    BY <1>1 DEF NoLostWakeup
  <2>1. WillBeSeen(l)
    BY DEF IndInv, NoLostWakeup
  <2>2. CASE IsRequestExit
    BY <2>2 DEF WillBeSeen, IsRequestExit
  <2>3. CASE ~IsRequestExit
    <3>1. l # i
      BY <2>3
    <3>2. i <= l => i' <= l
      BY <3>1, LidarAssumption DEF Lidars
    <3> QED BY <2>1, <2>3, <3>2 DEF WillBeSeen, IsRequestExit, storeVars
  <2> QED BY <2>2, <2>3
<1> QED BY <1>1, <1>2, <1>3, <1>4 DEF IndInv

LEMMA ScanInv == IndInv /\ Scan => IndInv'
<1> SUFFICES ASSUME IndInv, Scan PROVE IndInv'
  OBVIOUS
<1> USE DEF Scan
<1>1. TypeOK /\ i \in 0..NLidars+1
  BY DEF IndInv, TypeOK
<1>2. /\ RingsFit' /\ PushHasRoom' /\ AllocatedFirst'
      /\ \A l : QueueIsEmpty(l)' = QueueIsEmpty(l)
  BY StoreSideKept
<1>3. /\ UNCHANGED <<ringVars, sampling, pcd_semaphore_, owner, storeVars, pkg,
                     taken, late>>
      /\ qpc = "scan"
  OBVIOUS
<1>4. i >= 1
  BY DEF IndInv, AtLidars
<1>5. CASE ~LidarLeft /\ qpc' = "future" /\ UNCHANGED i
  <2>1. TypeOK'
    BY <1>1, <1>3, <1>5 DEF TypeOK, ringVars, storeVars, PublishPlaces
  <2>2. AtLidars' /\ PopHasFrame'
    BY <1>3, <1>5 DEF IndInv, AtLidars, PopHasFrame, storeVars
  <2>3. \A l \in Lidars : ~(i <= l)
    BY <1>1, <1>5, LidarAssumption DEF LidarLeft, Lidars
  <2>4. NoLostWakeup'
    BY <1>2, <1>3, <1>5, <2>3
       DEF IndInv, NoLostWakeup, WillBeSeen, IsRequestExit, storeVars
  <2> QED BY <1>2, <2>1, <2>2, <2>4 DEF IndInv
<1>6. CASE LidarLeft /\ sampling[i] /\ allocated[i] /\ qpc' = "poll" /\ UNCHANGED i
  <2>1. i \in Lidars
    BY <1>1, <1>4, <1>6, LidarAssumption DEF LidarLeft, Lidars
  <2>2. TypeOK'
    BY <1>1, <1>3, <1>6 DEF TypeOK, ringVars, storeVars, PublishPlaces
  <2>3. AtLidars' /\ PopHasFrame'
    BY <1>3, <1>6, <2>1 DEF IndInv, AtLidars, PopHasFrame, storeVars
  <2>4. NoLostWakeup'
    BY <1>2, <1>3, <1>6 DEF IndInv, NoLostWakeup, WillBeSeen, IsRequestExit, storeVars
  <2> QED BY <1>2, <2>2, <2>3, <2>4 DEF IndInv
<1>7. CASE LidarLeft /\ ~(sampling[i] /\ allocated[i]) /\ i' = i + 1 /\ UNCHANGED qpc
  <2>1. i \in Lidars
    BY <1>1, <1>4, <1>7, LidarAssumption DEF LidarLeft, Lidars
  <2>2. QueueIsEmpty(i) \/ ~sampling[i]
    BY <1>7, <2>1 DEF IndInv, AllocatedFirst
  <2> QED BY <1>3, <1>7, <2>1, <2>2, NextScanned
<1> QED BY <1>5, <1>6, <1>7

LEMMA PollInv == IndInv /\ Poll => IndInv'
<1> SUFFICES ASSUME IndInv, Poll PROVE IndInv'
  OBVIOUS
<1> USE DEF Poll
<1>1. i \in Lidars /\ TypeOK
  BY DEF IndInv, AtLidars
<1>2. CASE ~PollingEnds /\ ~QueueIsEmpty(i)
  <2>1. qpc' = "drain" /\ i' = i
    BY <1>2
  <2>2. /\ RingsFit' /\ PushHasRoom' /\ AllocatedFirst'
        /\ \A l : QueueIsEmpty(l)' = QueueIsEmpty(l)
    BY StoreSideKept
  <2>3. TypeOK'
    BY <1>1, <2>1 DEF TypeOK, ringVars, storeVars, PublishPlaces
  <2>4. AtLidars' /\ PopHasFrame'
    BY <1>1, <2>1 DEF IndInv, AtLidars, PopHasFrame, storeVars
  <2>5. NoLostWakeup'
    BY <2>1, <2>2 DEF IndInv, NoLostWakeup, WillBeSeen, IsRequestExit, storeVars
  <2> QED BY <2>2, <2>3, <2>4, <2>5 DEF IndInv
<1>3. CASE ~(~PollingEnds /\ ~QueueIsEmpty(i))
  <2>1. qpc' = "scan" /\ i' = i + 1 /\ (QueueIsEmpty(i) \/ IsRequestExit)
    BY <1>3 DEF PollingEnds
  <2> QED BY <1>1, <2>1, NextScanned
<1> QED BY <1>2, <1>3

LEMMA DrainInv == IndInv /\ Drain => IndInv'
<1> SUFFICES ASSUME IndInv, Drain PROVE IndInv'
  OBVIOUS
<1> USE DEF Drain
<1>1. /\ RingsFit' /\ PushHasRoom' /\ AllocatedFirst'
      /\ \A l : QueueIsEmpty(l)' = QueueIsEmpty(l)
  BY StoreSideKept
<1>2. qpc' = "poll" \/ (qpc' = "pop" /\ ~QueueIsEmpty(i))
  OBVIOUS
<1>3. TypeOK'
  BY <1>2 DEF IndInv, TypeOK, ringVars, storeVars, PublishPlaces
<1>4. AtLidars' /\ PopHasFrame'
  BY <1>1, <1>2 DEF IndInv, AtLidars, PopHasFrame, storeVars
<1>5. NoLostWakeup'
  BY <1>1, <1>2 DEF IndInv, NoLostWakeup, WillBeSeen, IsRequestExit, storeVars
<1> QED BY <1>1, <1>3, <1>4, <1>5 DEF IndInv

LEMMA PrePopInv == IndInv /\ PrePop => IndInv'
<1> SUFFICES ASSUME IndInv, PrePop PROVE IndInv'
  OBVIOUS
<1> USE DEF PrePop
<1>1. /\ RingsFit' /\ PushHasRoom' /\ AllocatedFirst'
      /\ \A l : QueueIsEmpty(l)' = QueueIsEmpty(l)
  BY StoreSideKept
<1>2. i \in Lidars /\ TypeOK /\ ~QueueIsEmpty(i)
  BY DEF IndInv, AtLidars, PopHasFrame
<1>3. pkg' \in Packets \cup {NoPacket}
  <2>1. Slot(rd_idx[i]) \in 0..Size-1
    BY <1>2, RingUsed
  <2> QED BY <1>2, <2>1 DEF TypeOK
<1>4. TypeOK'
  BY <1>2, <1>3 DEF TypeOK, ringVars, storeVars, PublishPlaces
<1>5. AtLidars' /\ PopHasFrame'
  BY <1>1, <1>2 DEF IndInv, AtLidars, PopHasFrame, storeVars, ringVars
<1>6. NoLostWakeup'
  BY <1>1 DEF IndInv, NoLostWakeup, WillBeSeen, IsRequestExit, storeVars
<1> QED BY <1>1, <1>4, <1>5, <1>6 DEF IndInv

LEMMA PopUpdateInv == IndInv /\ PopUpdate => IndInv'
<1> SUFFICES ASSUME IndInv, PopUpdate PROVE IndInv'
  OBVIOUS
<1> USE DEF PopUpdate
<1>1. i \in Lidars /\ TypeOK /\ rd_idx[i] # wr_idx[i]
  BY DEF IndInv, AtLidars, PopHasFrame, QueueIsEmpty
<1>2. /\ rd_idx[i] \in Index /\ wr_idx[i] \in Index
      /\ QueueUsedSize(i) = Used(rd_idx[i], wr_idx[i])
      /\ QueueUsedSize(i) \in Nat
  BY <1>1, RingUsed
<1>3. rd_idx'[i] = Next32(rd_idx[i]) /\ i' = i /\ wr_idx' = wr_idx
  BY <1>1 DEF TypeOK
<1>4. /\ Next32(rd_idx[i]) \in Index
      /\ Used(Next32(rd_idx[i]), wr_idx[i]) = Used(rd_idx[i], wr_idx[i]) - 1
  BY <1>1, <1>2, UsedPopped
<1>5. QueueUsedSize(i)' = QueueUsedSize(i) - 1
  BY <1>2, <1>3, <1>4 DEF QueueUsedSize, Used
<1>6. \A l \in Lidars \ {i} : /\ QueueUsedSize(l)' = QueueUsedSize(l)
                              /\ QueueIsEmpty(l)' = QueueIsEmpty(l)
  BY <1>1 DEF QueueUsedSize, QueueIsEmpty, TypeOK
<1>7. TypeOK'
  <2>1. rd_idx' \in [Lidars -> 0..IndexRange-1]
    BY <1>1, <1>4 DEF TypeOK, Index
  <2>2. taken' \in [Lidars -> Packets \cup {NoPacket}]
    BY <1>1 DEF TypeOK
  <2> QED BY <1>1, <2>1, <2>2 DEF TypeOK, storeVars, PublishPlaces
<1>8. \A l \in Lidars : QueueUsedSize(l)' <= QueueUsedSize(l)
  <2>1. QueueUsedSize(i)' <= QueueUsedSize(i)
    BY <1>2, <1>5
  <2>2. \A l \in Lidars : QueueUsedSize(l) \in Nat
    BY <1>1, RingUsed
  <2> QED BY <1>6, <2>1, <2>2
<1>9. \A l \in Lidars : QueueUsedSize(l) \in Nat /\ QueueUsedSize(l)' \in Nat
  <2>1. \A l \in Lidars : QueueUsedSize(l) \in Nat
    BY <1>1, RingUsed
  <2>2. QueueUsedSize(i)' \in Nat
    <3>1. Used(Next32(rd_idx[i]), wr_idx[i]) \in Nat
      BY <1>2, <1>4, UsedZero
    <3> QED BY <1>3, <3>1 DEF QueueUsedSize, Used
  <2> QED BY <1>6, <2>1, <2>2
<1>10. RingsFit'
  BY <1>8, <1>9, SizeBelowRange DEF IndInv, RingsFit
<1>11. AtLidars' /\ PopHasFrame'
  BY <1>1 DEF IndInv, AtLidars, PopHasFrame, storeVars
<1>12. PushHasRoom'
  <2>1. UNCHANGED <<ppc, cur, wr_idx, slots>>
    BY DEF storeVars
  <2>2. ASSUME ppc \in {"pushSlot", "fillSlot", "pushUpdate"}
        PROVE  QueueUsedSize(cur)' < Size
    <3>1. cur \in Lidars /\ QueueUsedSize(cur) < Size
      BY <2>2 DEF IndInv, AtLidars, PushHasRoom
    <3>2. cur' = cur
      BY <2>1
    <3> QED BY <3>1, <3>2, <1>8, <1>9, SizeBelowRange
  <2> QED BY <2>1, <2>2 DEF IndInv, PushHasRoom
<1>13. AllocatedFirst'
  <2>1. allocated[i]
    BY <1>1 DEF IndInv, AllocatedFirst, QueueIsEmpty
  <2> QED BY <1>6, <2>1 DEF IndInv, AllocatedFirst, storeVars
<1>14. NoLostWakeup'
  <2> SUFFICES ASSUME NEW l \in Lidars, sampling[l], ~late[l], ~QueueIsEmpty(l)'
               PROVE  WillBeSeen(l)'
    BY DEF NoLostWakeup
  <2>1. CASE l = i
    <3>1. i <= l
      BY <2>1, <1>1, LidarAssumption DEF Lidars
    <3> QED BY <3>1 DEF WillBeSeen
  <2>2. CASE l # i
    <3>1. WillBeSeen(l)
      BY <1>6, <2>2 DEF IndInv, NoLostWakeup
    <3> QED BY <3>1 DEF WillBeSeen, IsRequestExit, storeVars
  <2> QED BY <2>1, <2>2
<1> QED BY <1>7, <1>10, <1>11, <1>12, <1>13, <1>14 DEF IndInv

LEMMA CheckFutureInv == IndInv /\ CheckFuture => IndInv'
<1> SUFFICES ASSUME IndInv, CheckFuture PROVE IndInv'
  OBVIOUS
<1> USE DEF CheckFuture
<1>1. /\ RingsFit' /\ PushHasRoom' /\ AllocatedFirst'
      /\ \A l : QueueIsEmpty(l)' = QueueIsEmpty(l)
  BY StoreSideKept
<1>2. TypeOK'
  BY DEF IndInv, TypeOK, ringVars, storeVars, PublishPlaces
<1>3. AtLidars' /\ PopHasFrame'
  BY DEF IndInv, AtLidars, PopHasFrame, storeVars
<1>4. NoLostWakeup'
  BY <1>1 DEF IndInv, NoLostWakeup, WillBeSeen, IsRequestExit, storeVars
<1> QED BY <1>1, <1>2, <1>3, <1>4 DEF IndInv

\* The publishing thread's side.
LEMMA PublishInv == IndInv /\ Publish => IndInv'
BY DistributeInv, WaitInv, ScanInv, PollInv, DrainInv, PrePopInv, PopUpdateInv,
   CheckFutureInv DEF Publish

LEMMA StartSamplingInv == IndInv /\ StartSampling => IndInv'
<1> SUFFICES ASSUME IndInv,
                    NEW l \in Lidars,
                    sampling' = [sampling EXCEPT ![l] = TRUE],
                    late' = [late EXCEPT ![l] = ~QueueIsEmpty(l)],
                    UNCHANGED <<ringVars, pcd_semaphore_, owner, storeVars, pollVars>>
             PROVE  IndInv'
  BY DEF StartSampling
<1>1. /\ RingsFit' /\ PushHasRoom' /\ AllocatedFirst'
      /\ \A m : QueueIsEmpty(m)' = QueueIsEmpty(m)
  BY StoreSideKept
<1>2. TypeOK'
  <2>1. sampling' \in [Lidars -> BOOLEAN]
    BY DEF IndInv, TypeOK
  <2>2. late' \in [Lidars -> BOOLEAN]
    BY DEF IndInv, TypeOK, QueueIsEmpty
  <2> QED BY <2>1, <2>2 DEF IndInv, TypeOK, ringVars, storeVars, pollVars
<1>3. AtLidars' /\ PopHasFrame'
  BY <1>1 DEF IndInv, AtLidars, PopHasFrame, storeVars, pollVars, ringVars
<1>4. NoLostWakeup'
  <2> SUFFICES ASSUME NEW m \in Lidars, sampling'[m], ~late'[m], ~QueueIsEmpty(m)
               PROVE  WillBeSeen(m)'
    BY <1>1 DEF NoLostWakeup
  <2>1. m # l
    BY DEF IndInv, TypeOK
  <2>2. sampling[m] /\ ~late[m]
    BY <2>1 DEF IndInv, TypeOK
  <2>3. WillBeSeen(m)
    BY <2>2 DEF IndInv, NoLostWakeup
  <2> QED BY <2>3 DEF WillBeSeen, IsRequestExit, storeVars, pollVars
<1> QED BY <1>1, <1>2, <1>3, <1>4 DEF IndInv

LEMMA ExitInv == IndInv /\ (RequestExit \/ SetExitSignal) => IndInv'
<1> SUFFICES ASSUME IndInv, RequestExit \/ SetExitSignal PROVE IndInv'
  OBVIOUS
<1>1. /\ owner' \in {"exiting", "joining"}
      /\ UNCHANGED <<ringVars, sampling, pcd_semaphore_, storeVars, pollVars, late>>
  BY DEF RequestExit, SetExitSignal
<1>2. RingsFit' /\ PushHasRoom' /\ AllocatedFirst'
  BY <1>1, StoreSideKept
<1>3. TypeOK'
  BY <1>1 DEF IndInv, TypeOK, ringVars, storeVars, pollVars
<1>4. AtLidars' /\ PopHasFrame'
  BY <1>1, RingsKept
     DEF IndInv, AtLidars, PopHasFrame, RingsSame, ringVars, storeVars, pollVars
<1>5. NoLostWakeup'
  BY <1>1 DEF NoLostWakeup, WillBeSeen, IsRequestExit
<1> QED BY <1>2, <1>3, <1>4, <1>5 DEF IndInv

\* The invariant of the rings, their two threads and the semaphore.
THEOREM Invariance == Spec => []IndInv
<1>1. IndInv /\ UNCHANGED vars => IndInv'
  <2> SUFFICES ASSUME IndInv, UNCHANGED vars PROVE IndInv'
    OBVIOUS
  <2>1. /\ RingsFit' /\ PushHasRoom' /\ AllocatedFirst'
        /\ \A m : QueueIsEmpty(m)' = QueueIsEmpty(m)
    BY StoreSideKept DEF vars
  <2>2. TypeOK'
    BY DEF IndInv, TypeOK, vars, ringVars, storeVars, pollVars
  <2>3. AtLidars' /\ PopHasFrame'
    BY <2>1 DEF IndInv, AtLidars, PopHasFrame, vars, ringVars, storeVars, pollVars
  <2>4. NoLostWakeup'
    BY <2>1 DEF IndInv, NoLostWakeup, WillBeSeen, IsRequestExit, vars, storeVars,
                pollVars
  <2> QED BY <2>1, <2>2, <2>3, <2>4 DEF IndInv
<1>2. IndInv /\ [Next]_vars => IndInv'
  BY <1>1, StoreInv, PublishInv, StartSamplingInv, ExitInv DEF Next
<1> QED BY <1>2, InitInv, PTL DEF Spec

\* The driver's shared state keeps its types; the semaphore is binary.
THEOREM TypeCorrect == Spec => []TypeOK
<1>1. IndInv => TypeOK
  BY DEF IndInv
<1> QED BY <1>1, Invariance, PTL

\* A frame of a sampling lidar never waits for another frame, although
\* GetCount reads the semaphore without its lock.
THEOREM WakeupNotLost == Spec => []NoLostWakeup
<1>1. IndInv => NoLostWakeup
  BY DEF IndInv
<1> QED BY <1>1, Invariance, PTL

\* No slot is copied while it is filled, although no lock guards the ring.
THEOREM SlotsExclusive == Spec => []SlotExclusive
<1>1. IndInv => SlotExclusive
  <2> SUFFICES ASSUME IndInv,
                      ppc \in {"pushSlot", "fillSlot"}, qpc \in {"pop", "popUpdate"},
                      cur = i
               PROVE  Slot(wr_idx[i]) # Slot(rd_idx[i])
    BY DEF SlotExclusive
  <2>1. i \in Lidars /\ rd_idx[i] # wr_idx[i] /\ QueueUsedSize(i) < Size
    BY DEF IndInv, AtLidars, PushHasRoom, PopHasFrame, QueueIsEmpty
  <2>2. /\ rd_idx[i] \in Index /\ wr_idx[i] \in Index
        /\ QueueUsedSize(i) = Used(rd_idx[i], wr_idx[i])
        /\ QueueUsedSize(i) \in Nat /\ QueueUsedSize(i) # 0
    BY <2>1, RingUsed DEF IndInv
  <2>3. Used(rd_idx[i], wr_idx[i]) < Size /\ 0 < Used(rd_idx[i], wr_idx[i])
    BY <2>1, <2>2
  <2>4. Slot(rd_idx[i] + 0) # Slot(wr_idx[i])
    BY <2>2, <2>3, SlotFree
  <2>5. rd_idx[i] + 0 = rd_idx[i]
    BY <2>2, SizeBelowRange DEF Index
  <2> QED BY <2>4, <2>5
<1> QED BY <1>1, Invariance, PTL

-----------------------------------------------------------------------------
(* The rings implement bounded queues *)

Frames == Packets \cup {NoPacket}

\* The contents of a ring as a sequence.
LEMMA ContentSeq ==
  ASSUME IndInv, NEW l \in Lidars
  PROVE  /\ Content(l) \in Seq(Frames)
         /\ Len(Content(l)) = QueueUsedSize(l)
         /\ \A k \in 1..QueueUsedSize(l) :
              Content(l)[k] = slots[l][Slot(rd_idx[l] + k - 1)]
<1> DEFINE u == QueueUsedSize(l)
           e(k) == slots[l][Slot(rd_idx[l] + k - 1)]
<1>1. u \in Nat /\ rd_idx[l] \in Int
  BY RingUsed DEF IndInv, TypeOK
<1>2. \A k \in 1..u : e(k) \in Frames
  <2> SUFFICES ASSUME NEW k \in 1..u PROVE e(k) \in Frames
    OBVIOUS
  <2>1. rd_idx[l] + k - 1 \in Int
    BY <1>1
  <2>2. Slot(rd_idx[l] + k - 1) \in 0..Size-1
    BY <2>1, SlotRange
  <2>3. slots[l] \in [0..Size-1 -> Frames]
    BY DEF IndInv, TypeOK, Frames
  <2> QED BY <2>2, <2>3
<1>3. Content(l) = [k \in 1..u |-> e(k)]
  BY DEF Content
<1> HIDE DEF u, e
<1>4. Content(l) \in [1..u -> Frames]
  BY <1>2, <1>3
<1>5. Content(l) \in Seq(Frames) /\ Len(Content(l)) = u
  BY <1>1, <1>4, SeqDef
<1>6. \A k \in 1..u : Content(l)[k] = e(k)
  BY <1>3
<1> QED BY <1>5, <1>6 DEF u, e

LEMMA ContentKept ==
  ASSUME NEW l \in Lidars,
         QueueUsedSize(l)' = QueueUsedSize(l),
         \A k \in 1..QueueUsedSize(l) :
           slots'[l][Slot(rd_idx'[l] + k - 1)] = slots[l][Slot(rd_idx[l] + k - 1)]
  PROVE  Content(l)' = Content(l)
BY DEF Content

\* Until its index is published, a slot that is being filled does not show.
LEMMA FillDoesNotShow ==
  ASSUME IndInv, cur \in Lidars, QueueUsedSize(cur) < Size,
         UNCHANGED <<rd_idx, wr_idx>>,
         NEW p, slots' = [slots EXCEPT ![cur][Slot(wr_idx[cur])] = p],
         NEW l \in Lidars
  PROVE  Content(l)' = Content(l)
<1>1. QueueUsedSize(l)' = QueueUsedSize(l)
  BY DEF QueueUsedSize
<1>2. CASE l # cur
  <2>1. slots'[l] = slots[l]
    BY <1>2 DEF IndInv, TypeOK
  <2> QED BY <1>1, <2>1, ContentKept
<1>3. CASE l = cur
  <2> SUFFICES ASSUME NEW k \in 1..QueueUsedSize(l)
               PROVE  slots'[l][Slot(rd_idx[l] + k - 1)]
                        = slots[l][Slot(rd_idx[l] + k - 1)]
    BY <1>1, ContentKept
  <2>1. /\ rd_idx[l] \in Index /\ wr_idx[l] \in Index
        /\ QueueUsedSize(l) = Used(rd_idx[l], wr_idx[l]) /\ QueueUsedSize(l) \in Nat
    BY RingUsed DEF IndInv
  <2>2. Used(rd_idx[l], wr_idx[l]) < Size
    BY <1>3, <2>1
  <2>3. k - 1 \in Nat /\ k - 1 < Used(rd_idx[l], wr_idx[l])
    BY <2>1
  <2>4. Slot(rd_idx[l] + (k - 1)) # Slot(wr_idx[l])
    BY <2>1, <2>2, <2>3, SlotFree
  <2>5. rd_idx[l] + (k - 1) = rd_idx[l] + k - 1 /\ rd_idx[l] + k - 1 \in Int
    BY <2>1, SizeBelowRange DEF Index
  <2>6. Slot(rd_idx[l] + k - 1) \in 0..Size-1
    BY <2>5, SlotRange
  <2>7. slots'[l] = [slots[l] EXCEPT ![Slot(wr_idx[l])] = p]
    BY <1>3 DEF IndInv, TypeOK
  <2>8. slots[l] \in [0..Size-1 -> Frames]
    BY DEF IndInv, TypeOK, Frames
  <2> QED BY <2>4, <2>5, <2>6, <2>7, <2>8
<1> QED BY <1>2, <1>3

LEMMA PushIsPut ==
  ASSUME IndInv, IndInv', PushUpdate
  PROVE  Fifo!Put(cur, slots[cur][Slot(wr_idx[cur])])
<1> DEFINE p == slots[cur][Slot(wr_idx[cur])]
           u == QueueUsedSize(cur)
           old == Content(cur)
           new == Content(cur)'
<1>1. /\ cur \in Lidars /\ u < Size /\ p \in Packets /\ cur' = cur
      /\ UNCHANGED <<rd_idx, slots, taken>>
  BY DEF IndInv, AtLidars, PushHasRoom, PushUpdate, pollVars
<1>2. /\ rd_idx[cur] \in Index /\ wr_idx[cur] \in Index /\ u \in Nat
      /\ u = Used(rd_idx[cur], wr_idx[cur])
  BY <1>1, RingUsed DEF IndInv
<1>3. wr_idx'[cur] = Next32(wr_idx[cur])
  BY <1>1 DEF PushUpdate, IndInv, TypeOK
<1>4. QueueUsedSize(cur)' = u + 1
  <2>1. Used(rd_idx[cur], Next32(wr_idx[cur])) = u + 1
    BY <1>1, <1>2, UsedPushed
  <2> QED BY <1>1, <1>3, <2>1 DEF QueueUsedSize, Used
<1>5. /\ old \in Seq(Frames) /\ Len(old) = u
      /\ \A k \in 1..u : old[k] = slots[cur][Slot(rd_idx[cur] + k - 1)]
  BY <1>1, ContentSeq
<1>6. new = [k \in 1..u+1 |-> slots[cur][Slot(rd_idx[cur] + k - 1)]]
  BY <1>1, <1>4 DEF Content
<1>7. slots[cur][Slot(rd_idx[cur] + (u + 1) - 1)] = p
  <2>1. rd_idx[cur] + (u + 1) - 1 = rd_idx[cur] + u
    BY <1>2, SizeBelowRange DEF Index
  <2> QED BY <1>2, <2>1, SlotOfWriter
<1> HIDE DEF p, u, old
<1>8. new = Append(old, p)
  <2>1. \A k \in 1..u+1 : new[k] = Append(old, p)[k]
    <3> SUFFICES ASSUME NEW k \in 1..u+1 PROVE new[k] = Append(old, p)[k]
      OBVIOUS
    <3>1. CASE k = u + 1
      BY <1>2, <1>5, <1>6, <1>7, <3>1
    <3>2. CASE k # u + 1
      BY <1>2, <1>5, <1>6, <3>2
    <3> QED BY <3>1, <3>2
  <2>2. p \in Frames
    BY <1>1 DEF Frames
  <2>3. Append(old, p) \in Seq(Frames) /\ Len(Append(old, p)) = u + 1
    BY <1>5, <2>2
  <2>4. new \in [1..u+1 -> Frames]
    <3>1. \A k \in 1..u+1 : Append(old, p)[k] \in Frames
      BY <2>3, ElementOfSeq
    <3>2. \A k \in 1..u+1 : new[k] \in Frames
      BY <2>1, <3>1
    <3> QED BY <1>6, <3>2
  <2>5. new \in Seq(Frames) /\ Len(new) = u + 1
    BY <1>2, <2>4, SeqDef
  <2> HIDE DEF new
  <2> QED BY <2>1, <2>3, <2>5, SeqEqual
<1>9. \A l \in Lidars \ {cur} : Content(l)' = Content(l)
  <2> SUFFICES ASSUME NEW l \in Lidars \ {cur} PROVE Content(l)' = Content(l)
    OBVIOUS
  <2>1. wr_idx'[l] = wr_idx[l]
    BY <1>1 DEF PushUpdate, IndInv, TypeOK
  <2> QED BY <1>1, <2>1, ContentKept DEF QueueUsedSize
<1>10. [l \in Lidars |-> Content(l)]'
         = [[l \in Lidars |-> Content(l)] EXCEPT ![cur] = Append(@, p)]
  BY <1>1, <1>8, <1>9 DEF old
<1> QED BY <1>1, <1>5, <1>10 DEF Fifo!Put, p, u, old

LEMMA PopIsTake ==
  ASSUME IndInv, IndInv', PopUpdate
  PROVE  Fifo!Take(i)
<1> DEFINE u == QueueUsedSize(i)
           old == Content(i)
           new == Content(i)'
<1>1. /\ i \in Lidars /\ i' = i /\ pkg = slots[i][Slot(rd_idx[i])]
      /\ rd_idx[i] # wr_idx[i] /\ UNCHANGED <<wr_idx, slots>>
      /\ taken' = [taken EXCEPT ![i] = pkg]
  BY DEF IndInv, AtLidars, PopHasFrame, QueueIsEmpty, PopUpdate
<1>2. /\ rd_idx[i] \in Index /\ wr_idx[i] \in Index /\ u \in Nat /\ u # 0
      /\ u = Used(rd_idx[i], wr_idx[i])
  BY <1>1, RingUsed DEF IndInv
<1>3. rd_idx'[i] = Next32(rd_idx[i])
  BY <1>1 DEF PopUpdate, IndInv, TypeOK
<1>4. QueueUsedSize(i)' = u - 1
  <2>1. Used(Next32(rd_idx[i]), wr_idx[i]) = u - 1
    BY <1>1, <1>2, UsedPopped
  <2> QED BY <1>1, <1>3, <2>1 DEF QueueUsedSize, Used
<1>5. /\ old \in Seq(Frames) /\ Len(old) = u
      /\ \A k \in 1..u : old[k] = slots[i][Slot(rd_idx[i] + k - 1)]
  BY <1>1, ContentSeq
<1>6. new = [k \in 1..u-1 |-> slots[i][Slot(Next32(rd_idx[i]) + k - 1)]]
  BY <1>1, <1>3, <1>4 DEF Content
<1>7. old # <<>> /\ Head(old) = pkg
  <2>1. 1 \in 1..u
    BY <1>2
  <2>2. rd_idx[i] + 1 - 1 = rd_idx[i]
    BY <1>2, SizeBelowRange DEF Index
  <2>3. old[1] = pkg
    BY <1>1, <1>5, <2>1, <2>2
  <2> HIDE DEF u, old
  <2> QED BY <1>2, <1>5, <2>3
<1>8. \A k \in 1..u-1 : new[k] = old[k + 1]
  <2> SUFFICES ASSUME NEW k \in 1..u-1 PROVE new[k] = old[k + 1]
    OBVIOUS
  <2>1. k - 1 \in Nat /\ k + 1 \in 1..u
    BY <1>2
  <2>2. Slot(Next32(rd_idx[i]) + (k - 1)) = Slot(rd_idx[i] + ((k - 1) + 1))
    BY <1>2, <2>1, SlotOfNext
  <2>3. /\ Next32(rd_idx[i]) + (k - 1) = Next32(rd_idx[i]) + k - 1
        /\ rd_idx[i] + ((k - 1) + 1) = rd_idx[i] + (k + 1) - 1
    <3>1. Next32(rd_idx[i]) \in Int /\ rd_idx[i] \in Int
      BY <1>1, <1>2, UsedPopped, SizeBelowRange DEF Index
    <3> QED BY <2>1, <3>1
  <2>4. new[k] = slots[i][Slot(Next32(rd_idx[i]) + k - 1)]
    BY <1>6
  <2>5. old[k + 1] = slots[i][Slot(rd_idx[i] + (k + 1) - 1)]
    BY <1>5, <2>1
  <2> QED BY <2>2, <2>3, <2>4, <2>5
<1> HIDE DEF u, old
<1>9. new = Tail(old)
  <2>1. /\ Tail(old) \in Seq(Frames) /\ Len(Tail(old)) = u - 1
        /\ \A k \in 1..u-1 : Tail(old)[k] = old[k + 1]
    BY <1>2, <1>5, <1>7
  <2>2. new \in [1..u-1 -> Frames]
    <3>1. \A k \in 1..u-1 : Tail(old)[k] \in Frames
      BY <2>1, ElementOfSeq
    <3>2. \A k \in 1..u-1 : new[k] \in Frames
      BY <1>8, <2>1, <3>1
    <3> QED BY <1>6, <3>2
  <2>3. new \in Seq(Frames) /\ Len(new) = u - 1
    BY <1>2, <2>2, SeqDef
  <2> HIDE DEF new
  <2> QED BY <1>8, <2>1, <2>3, SeqEqual
<1>10. \A l \in Lidars \ {i} : Content(l)' = Content(l)
  <2> SUFFICES ASSUME NEW l \in Lidars \ {i} PROVE Content(l)' = Content(l)
    OBVIOUS
  <2>1. rd_idx'[l] = rd_idx[l]
    BY <1>1 DEF PopUpdate, IndInv, TypeOK
  <2> QED BY <1>1, <2>1, ContentKept DEF QueueUsedSize
<1>11. [l \in Lidars |-> Content(l)]'
         = [[l \in Lidars |-> Content(l)] EXCEPT ![i] = Tail(@)]
  BY <1>1, <1>9, <1>10 DEF old
<1> QED BY <1>1, <1>7, <1>11 DEF Fifo!Take, old

\* A step that touches no slot, index or taken frame is not seen by the queues.
LEMMA Stutters ==
  ASSUME UNCHANGED <<rd_idx, wr_idx, slots, taken>>
  PROVE  UNCHANGED Fifo!vars
BY DEF Fifo!vars, Content, QueueUsedSize

\* The rings of the driver, without locks and with wrapping indices, are
\* bounded first-in first-out queues.
THEOREM RingsAreQueues == Spec => IsFifo
<1>1. Init => Fifo!Init
  <2> SUFFICES ASSUME Init PROVE Fifo!Init
    OBVIOUS
  <2>1. IndInv
    BY InitInv
  <2>2. \A l \in Lidars : Content(l) = <<>>
    <3> SUFFICES ASSUME NEW l \in Lidars PROVE Content(l) = <<>>
      OBVIOUS
    <3>1. QueueUsedSize(l) = 0
      BY <2>1, RingUsed DEF Init, IndInv
    <3> QED BY <2>1, <3>1, ContentSeq
  <2> QED BY <2>2 DEF Fifo!Init, Init
<1>2. IndInv /\ IndInv' /\ [Next]_vars => [Fifo!Next]_(Fifo!vars)
  <2> SUFFICES ASSUME IndInv, IndInv', [Next]_vars
               PROVE  Fifo!Next \/ UNCHANGED Fifo!vars
    OBVIOUS
  <2>1. CASE PushSlot \/ FillSlot
    <3>1. cur \in Lidars /\ QueueUsedSize(cur) < Size
      BY <2>1 DEF PushSlot, FillSlot, IndInv, AtLidars, PushHasRoom
    <3>2. PICK p : slots' = [slots EXCEPT ![cur][Slot(wr_idx[cur])] = p]
      BY <2>1 DEF PushSlot, FillSlot
    <3>3. UNCHANGED <<rd_idx, wr_idx, taken>>
      BY <2>1 DEF PushSlot, FillSlot, pollVars
    <3>4. \A l \in Lidars : Content(l)' = Content(l)
      BY <3>1, <3>2, <3>3, FillDoesNotShow
    <3> QED BY <3>3, <3>4 DEF Fifo!vars
  <2>2. CASE PushUpdate
    <3>1. cur \in Lidars /\ slots[cur][Slot(wr_idx[cur])] \in Packets
      BY <2>2 DEF PushUpdate, IndInv, AtLidars, PushHasRoom
    <3> QED BY <2>2, <3>1, PushIsPut DEF Fifo!Next
  <2>3. CASE PopUpdate
    <3>1. i \in Lidars
      BY <2>3 DEF PopUpdate, IndInv, AtLidars
    <3> QED BY <2>3, <3>1, PopIsTake DEF Fifo!Next
  <2>4. CASE \/ StoragePointData \/ PushLidarData \/ CheckPushed \/ ReadCount
             \/ Signal
    BY <2>4, Stutters
       DEF StoragePointData, PushLidarData, CheckPushed, ReadCount, Signal,
           ringVars, pollVars
  <2>5. CASE \/ Distribute \/ Wait \/ Scan \/ Poll \/ Drain \/ PrePop
             \/ CheckFuture
    BY <2>5, Stutters
       DEF Distribute, Wait, Scan, Poll, Drain, PrePop, CheckFuture, ringVars
  <2>6. CASE StartSampling \/ RequestExit \/ SetExitSignal
    BY <2>6, Stutters
       DEF StartSampling, RequestExit, SetExitSignal, ringVars, pollVars
  <2>7. CASE UNCHANGED vars
    BY <2>7, Stutters DEF vars, ringVars, pollVars
  <2> QED BY <2>1, <2>2, <2>3, <2>4, <2>5, <2>6, <2>7 DEF Next, Store, Publish
<1> QED BY <1>1, <1>2, Invariance, PTL DEF Spec, IsFifo, Fifo!Spec
===============================================================================
