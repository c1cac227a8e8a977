------------------------------ MODULE BoundedFifo ------------------------------
(***************************************************************************)
(* What the packet queues of the driver promise: per lidar, a bounded      *)
(* first-in first-out queue between the thread that stores frames and the  *)
(* one that publishes them.  A frame that finds its queue full is dropped, *)
(* which leaves this state as it is.                                       *)
(***************************************************************************)
EXTENDS Naturals, Sequences

CONSTANTS
  Lidars,   \* the indices of the lidars
  Packets,  \* the frames
  NoPacket, \* no frame yet
  Size      \* how many frames a queue holds, at least one

VARIABLES
  queue,    \* the frames stored and not yet taken, per lidar
  taken     \* the frame last taken, per lidar

vars == <<queue, taken>>

Init ==
  /\ queue = [l \in Lidars |-> <<>>]
  /\ taken = [l \in Lidars |-> NoPacket]

Put(l, p) ==
  /\ Len(queue[l]) < Size
  /\ queue' = [queue EXCEPT ![l] = Append(@, p)]
  /\ UNCHANGED taken

Take(l) ==
  /\ queue[l] # <<>>
  /\ taken' = [taken EXCEPT ![l] = Head(queue[l])]
  /\ queue' = [queue EXCEPT ![l] = Tail(@)]

Next == \E l \in Lidars : Take(l) \/ \E p \in Packets : Put(l, p)

Spec == Init /\ [][Next]_vars
===============================================================================
