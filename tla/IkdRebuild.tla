------------------------------ MODULE IkdRebuild ------------------------------
(***************************************************************************)
(* The concurrent rebuild of the ikd-Tree (FAST_LIO_ROS2/include/ikd-Tree).*)
(*                                                                         *)
(* The mapping thread of the LIO node changes the map; a second thread     *)
(* rebuilds the (sub)tree the mapping thread points Rebuild_Ptr at.  It    *)
(* flattens the old tree into a copy, builds a new tree from the copy      *)
(* while the mapping thread goes on changing the old one, replays the      *)
(* operations logged meanwhile, and swaps the new tree in.                 *)
(*                                                                         *)
(* The tree is seen at the level the protocol tells apart: the root node   *)
(* and its two sons, each a subtree large enough (>= 1500 nodes) to be     *)
(* handed to the rebuild thread.  A subtree is the set of the points in it *)
(* that are not deleted.  Sizes, axes and coordinates are abstracted: the  *)
(* side of the root a point falls on is Home, a deletion box is the set of *)
(* points inside it, and the tests on sizes and ranges are choices limited *)
(* only by what the point sets imply.                                      *)
(*                                                                         *)
(* rebuild_logger_mutex_lock is always taken while working_flag_mutex is   *)
(* held, so it adds no order of its own and is left out; search_flag_mutex *)
(* concerns the readers, whose only write, Push_Down of the root, is here. *)
(***************************************************************************)
EXTENDS Naturals, Sequences

CONSTANTS
  Point,       \* the points that may ever be in the map
  Left, Right, \* the sons of the root
  Root,        \* the slot holding the root node itself
  NoSlot,      \* Rebuild_Ptr == nullptr
  Home,        \* the son whose side of the division plane a point lies on
  Boxes,       \* the deletion boxes, each the set of the points inside it
  InitPoints,  \* what Build() put into the tree
  MaxRequests  \* bound of the model: requests the mapping thread makes

Son == {Left, Right}
Slot == Son \cup {Root}

ASSUME SlotAssumption ==
  /\ Left # Right /\ Root \notin Son /\ NoSlot \notin Slot
ASSUME HomeAssumption == Home \in [Point -> Son]
ASSUME BoxAssumption == Boxes \subseteq SUBSET Point
ASSUME InitAssumption == InitPoints \subseteq Point
ASSUME BoundAssumption == MaxRequests \in Nat

VARIABLES
  live,        \* the points not deleted in each son
  label,       \* a deletion of the whole tree not yet pushed down to a son
  working,     \* working_flag of the root node
  rebuildPtr,  \* Rebuild_Ptr
  rebuildFlag, \* rebuild_flag
  logger,      \* Rebuild_Logger
  mutex,       \* owner of working_flag_mutex
  mpc,         \* where the mapping thread is
  req,         \* its request: what is deleted, then what is added
  stage,       \* the tree operation of the request it is in
  cur,         \* the son it is at
  requests,    \* how many requests it has made
  rpc,         \* where the rebuild thread is
  copy,        \* Rebuild_PCL_Storage, then the content of the new tree
  pending,     \* the operation popped from the logger and being replayed
  terminate,   \* termination_flag
  taint        \* history: what the current round has suffered from

treeVars == <<live, label, working>>
mapVars == <<mpc, req, stage, cur, requests>>
roundVars == <<rpc, copy, pending, taint>>
vars == <<live, label, working, rebuildPtr, rebuildFlag, logger, mutex, mpc,
          req, stage, cur, requests, rpc, copy, pending, terminate, taint>>

Operation == [del : SUBSET Point, add : SUBSET Point]
NoOp == [del |-> {}, add |-> {}]

MapPc == {"idle", "top", "topLock", "topLog", "begin", "push", "pushLock",
          "pushLog", "select", "visit", "visitFree", "visitLock", "visitLog",
          "sonDone", "unwind", "stopped"}
RebuildPc == {"rest", "lockWorking", "start", "flatten", "build", "drain",
              "replay", "swap", "check", "update", "clear", "unflag",
              "free", "done"}

\* The operation's effect on a set of points: deletions come first.
Effect(o, S) == (S \ o.del) \cup o.add

PointsOf(s) == {p \in Point : Home[p] = s}

\* What a search of the son under its father's pending label returns.
Visible(s) == IF label[s] THEN {} ELSE live[s]

\* The map: what a search from the root returns.
Content == Visible(Left) \cup Visible(Right)

\* What flatten() of the slot collects.
ContentOf(slot) == IF slot = Root THEN Content ELSE live[slot]

Init ==
  /\ live = [s \in Son |-> InitPoints \cap PointsOf(s)]
  /\ label = [s \in Son |-> FALSE]
  /\ working = FALSE
  /\ rebuildPtr = NoSlot
  /\ rebuildFlag = FALSE
  /\ logger = <<>>
  /\ mutex = "free"
  /\ mpc = "idle" /\ req = NoOp /\ stage = "add" /\ cur = Left
  /\ requests = 0
  /\ rpc = "rest" /\ copy = {} /\ pending = NoOp
  /\ terminate = FALSE
  /\ taint = {}

-----------------------------------------------------------------------------
(* The mapping thread *)

\* The requests of the LIO node: Delete_Point_Boxes (a box), Add_Points with
\* downsampling (a box emptied and its representative added, or a point added
\* to an empty box) or without (a point), and a search, which changes nothing
\* but the labels it pushes down.
Request ==
  {[del |-> b, add |-> {}] : b \in Boxes}
    \cup {[del |-> {}, add |-> {p}] : p \in Point}
    \cup {r \in {[del |-> b, add |-> {p}] : b \in Boxes, p \in Point} :
            r.add \subseteq r.del}
    \cup {NoOp}

FirstStage(r) ==
  IF r = NoOp THEN "search" ELSE IF r.del # {} THEN "delete" ELSE "add"

MakeRequest ==
  /\ mpc = "idle" /\ requests < MaxRequests
  /\ requests' = requests + 1
  /\ req' \in Request
  /\ stage' = FirstStage(req')
  /\ mpc' = IF req' = NoOp THEN "begin" ELSE "top"
  /\ UNCHANGED <<treeVars, rebuildPtr, rebuildFlag, logger, mutex, cur,
                 roundVars, terminate>>

\* The slot has been overwritten by the swap but Rebuild_Ptr is not yet null:
\* the two unlocked loads of a comparison may straddle the swap and differ.
Swapped == rpc \in {"check", "update", "clear"}

LooksRebuilt(slot) == rebuildPtr = slot
LooksUntouched(slot) == rebuildPtr # slot \/ Swapped

Goto(pc) ==
  /\ mpc' = pc
  /\ UNCHANGED <<req, stage, cur, requests>>

\* Rebuild_Ptr == nullptr || *Rebuild_Ptr != Root_Node, read without a lock.
CompareRoot ==
  /\ mpc = "top"
  /\ \/ LooksRebuilt(Root) /\ Goto("topLock")
     \/ LooksUntouched(Root) /\ Goto("begin")
  /\ UNCHANGED <<treeVars, rebuildPtr, rebuildFlag, logger, mutex, roundVars,
                 terminate>>

\* Push_Down of the root onto both sons.
PushedLive == [s \in Son |-> Visible(s)]
NoLabel == [s \in Son |-> FALSE]

\* The request is run on the whole tree with allow_rebuild = false.  Only the
\* early returns of Delete_by_range leave the root's working_flag set.
RunOnRoot ==
  \/ /\ req.add = {} /\ Content = {}
     /\ UNCHANGED treeVars
  \/ /\ req.add = {} /\ Content # {} /\ Content \cap req.del = {}
     /\ live' = PushedLive /\ label' = NoLabel /\ working' = TRUE
  \/ /\ req.add = {} /\ Content # {} /\ Content \subseteq req.del
     /\ live' = PushedLive /\ label' = [s \in Son |-> TRUE] /\ working' = TRUE
  \/ /\ req.add # {} \/ Content # {}
     /\ live' = [s \in Son |-> Effect([del |-> req.del,
                                       add |-> req.add \cap PointsOf(s)],
                                      Visible(s))]
     /\ label' = NoLabel /\ working' = FALSE

LockAndRunOnRoot ==
  /\ mpc = "topLock" /\ mutex = "free"
  /\ mutex' = "map"
  /\ RunOnRoot
  /\ Goto("topLog")
  /\ UNCHANGED <<rebuildPtr, rebuildFlag, logger, roundVars, terminate>>

\* if (rebuild_flag) Rebuild_Logger.push(op); then working_flag_mutex is released.
LogAndUnlock(o) ==
  /\ logger' = IF rebuildFlag THEN Append(logger, o) ELSE logger
  /\ mutex' = "free"
  /\ UNCHANGED <<treeVars, rebuildPtr, rebuildFlag, roundVars, terminate>>

\* A downsampling request pushes its deletion and its addition under one hold
\* of the lock: one entry here, replayed in the same order.
LogOnRoot ==
  /\ mpc = "topLog"
  /\ LogAndUnlock(req)
  /\ Goto("idle")

\* A node whose tree_deleted is set returns at once; otherwise working_flag is
\* set and the labels are pushed down.
Begin ==
  /\ mpc = "begin"
  /\ \/ /\ stage = "delete" /\ Content = {}
        /\ IF req.add # {}
             THEN stage' = "add" /\ mpc' = "begin"
             ELSE stage' = stage /\ mpc' = "idle"
        /\ UNCHANGED <<working, cur>>
     \/ /\ stage # "delete" \/ Content # {}
        /\ working' = (working \/ stage # "search")
        /\ cur' = Left /\ mpc' = "push"
        /\ UNCHANGED stage
  /\ UNCHANGED <<live, label, rebuildPtr, rebuildFlag, logger, mutex, req,
                 requests, roundVars, terminate>>

\* After the left son comes the right one, and then the rest of the operation.
AfterPush ==
  /\ \/ cur = Left /\ cur' = Right /\ mpc' = "push"
     \/ cur = Right /\ cur' = cur
        /\ mpc' = IF stage = "search" THEN "idle" ELSE "select"
  /\ UNCHANGED <<req, stage, requests>>

PushOntoSon ==
  /\ live' = [live EXCEPT ![cur] = Visible(cur)]
  /\ label' = [label EXCEPT ![cur] = FALSE]
  /\ UNCHANGED working

\* Push_Down: the sons are compared with *Rebuild_Ptr without a lock.
Push ==
  /\ mpc = "push"
  /\ \/ ~label[cur] /\ AfterPush /\ UNCHANGED treeVars
     \/ label[cur] /\ LooksUntouched(cur) /\ PushOntoSon /\ AfterPush
     \/ label[cur] /\ LooksRebuilt(cur) /\ Goto("pushLock")
        /\ UNCHANGED treeVars
  /\ UNCHANGED <<rebuildPtr, rebuildFlag, logger, mutex, roundVars, terminate>>

\* The label is read again under the lock.
LockAndPush ==
  /\ mpc = "pushLock" /\ mutex = "free"
  /\ mutex' = "map"
  /\ PushOntoSon
  /\ Goto("pushLog")
  /\ UNCHANGED <<rebuildPtr, rebuildFlag, logger, roundVars, terminate>>

PushDownOp == [del |-> Point, add |-> {}]

LogPush ==
  /\ mpc = "pushLog"
  /\ LogAndUnlock(PushDownOp)
  /\ AfterPush

AfterStage ==
  /\ IF stage = "delete" /\ req.add # {}
       THEN stage' = "add" /\ mpc' = "begin"
       ELSE stage' = stage /\ mpc' = "idle"
  /\ UNCHANGED <<req, cur, requests>>

\* Delete_by_range leaves early when its box misses the range of the tree,
\* and when it covers it: then the sons only get a label.  Otherwise the sons
\* are visited, Add_by_point visits one of them.
Select ==
  /\ mpc = "select"
  /\ \/ /\ stage = "delete" /\ Content \cap req.del = {}
        /\ AfterStage /\ UNCHANGED label
     \/ /\ stage = "delete" /\ Content \subseteq req.del
        /\ label' = [s \in Son |-> TRUE]
        /\ AfterStage
     \/ /\ stage = "delete"
        /\ cur' = Left /\ mpc' = "visit"
        /\ UNCHANGED <<label, req, stage, requests>>
     \/ /\ stage = "add"
        /\ cur' \in {Home[p] : p \in req.add} /\ mpc' = "visit"
        /\ UNCHANGED <<label, req, stage, requests>>
  /\ UNCHANGED <<live, working, rebuildPtr, rebuildFlag, logger, mutex,
                 roundVars, terminate>>

CompareSon ==
  /\ mpc = "visit"
  /\ \/ LooksRebuilt(cur) /\ Goto("visitLock")
     \/ LooksUntouched(cur) /\ Goto("visitFree")
  /\ UNCHANGED <<treeVars, rebuildPtr, rebuildFlag, logger, mutex, roundVars,
                 terminate>>

\* The part of the request that the current stage carries out.
StageOp == IF stage = "delete" THEN [del |-> req.del, add |-> {}]
                               ELSE [del |-> {}, add |-> req.add]

RunOnSon ==
  /\ live' = [live EXCEPT ![cur] = Effect(StageOp, live[cur])]
  /\ UNCHANGED <<label, working>>

\* The rounds between flatten() and the swap, when the old tree is doomed.
Copied == {"build", "drain", "replay", "swap"}

\* The tree is changed without the lock and without a log entry.  If a round
\* has already copied the tree around it the change will be lost.
VisitFree ==
  /\ mpc = "visitFree"
  /\ RunOnSon
  /\ Goto("sonDone")
  /\ taint' = IF rpc \in Copied /\ rebuildPtr \in {cur, Root}
                THEN taint \cup {"unlogged"} ELSE taint
  /\ UNCHANGED <<rebuildPtr, rebuildFlag, logger, mutex, rpc, copy, pending,
                 terminate>>

LockAndVisit ==
  /\ mpc = "visitLock" /\ mutex = "free"
  /\ mutex' = "map"
  /\ RunOnSon
  /\ Goto("visitLog")
  /\ UNCHANGED <<rebuildPtr, rebuildFlag, logger, roundVars, terminate>>

AfterSon ==
  /\ \/ stage = "delete" /\ cur = Left /\ cur' = Right /\ mpc' = "visit"
     \/ (stage # "delete" \/ cur # Left) /\ cur' = cur /\ mpc' = "unwind"
  /\ UNCHANGED <<req, stage, requests>>

LogVisit ==
  /\ mpc = "visitLog"
  /\ LogAndUnlock(StageOp)
  /\ AfterSon

\* Rebuild(): a large tree is left to the rebuild thread, provided that
\* rebuild_ptr_mutex_lock can be had at once and that no larger tree waits.
PtrMutexFree == rpc \in {"rest", "done"}
Larger(slot) ==
  \/ rebuildPtr = NoSlot
  \/ rebuildPtr # slot /\ rebuildPtr # Root
Rebuild(slot) ==
  rebuildPtr' = IF PtrMutexFree /\ Larger(slot) THEN slot ELSE rebuildPtr

\* The son's own Criterion_Check, which only follows an unlocked visit.
SonDone ==
  /\ mpc = "sonDone"
  /\ Rebuild(cur) \/ UNCHANGED rebuildPtr
  /\ AfterSon
  /\ UNCHANGED <<treeVars, rebuildFlag, logger, mutex, roundVars, terminate>>

\* Back at the root: Update, Criterion_Check, working_flag = false.
Unwind ==
  /\ mpc = "unwind"
  /\ Rebuild(Root) \/ UNCHANGED rebuildPtr
  /\ working' = FALSE
  /\ AfterStage
  /\ UNCHANGED <<live, label, rebuildFlag, logger, mutex, roundVars, terminate>>

\* stop_thread(), called by the destructor of the tree.
Stop ==
  /\ mpc = "idle"
  /\ terminate' = TRUE
  /\ Goto("stopped")
  /\ UNCHANGED <<treeVars, rebuildPtr, rebuildFlag, logger, mutex, roundVars>>

MapRun ==
  \/ CompareRoot \/ LockAndRunOnRoot \/ LogOnRoot \/ Begin
  \/ Push \/ LockAndPush \/ LogPush \/ Select
  \/ CompareSon \/ VisitFree \/ LockAndVisit \/ LogVisit \/ SonDone \/ Unwind

MapStep == MakeRequest \/ MapRun \/ Stop

-----------------------------------------------------------------------------
(* The rebuild thread: multi_thread_rebuild() *)

RGoto(pc) ==
  /\ rpc' = pc
  /\ UNCHANGED <<mapVars, terminate>>

LockPtr ==
  /\ rpc = "rest"
  /\ RGoto("lockWorking")
  /\ UNCHANGED <<treeVars, rebuildPtr, rebuildFlag, logger, mutex, copy,
                 pending, taint>>

\* Rebuild_Ptr is looked at under both locks; if null they are released.
LockWorking ==
  /\ rpc = "lockWorking" /\ mutex = "free"
  /\ IF rebuildPtr # NoSlot
       THEN RGoto("start") /\ mutex' = "reb"
       ELSE RGoto("free") /\ mutex' = mutex
  /\ UNCHANGED <<treeVars, rebuildPtr, rebuildFlag, logger, copy, pending,
                 taint>>

\* Mutation: rebuild_flag is not raised before the copy is taken.
StartUnflagged ==
  /\ rpc = "start"
  /\ RGoto("flatten")
  /\ taint' = IF logger # <<>> THEN {"stale"} ELSE {}
  /\ UNCHANGED <<treeVars, rebuildPtr, rebuildFlag, logger, mutex, copy, pending>>

Start ==
  /\ rpc = "start"
  /\ RGoto("flatten")
  /\ rebuildFlag' = TRUE
  /\ taint' = IF logger # <<>> THEN {"stale"} ELSE {}
  /\ UNCHANGED <<treeVars, rebuildPtr, logger, mutex, copy, pending>>

\* flatten() pushes the labels down on its way.  When nothing is left to build
\* a tree from, the rest of the round runs without working_flag_mutex.
Flatten ==
  /\ rpc = "flatten"
  /\ copy' = ContentOf(rebuildPtr)
  /\ IF rebuildPtr = Root
       THEN live' = PushedLive /\ label' = NoLabel
       ELSE UNCHANGED <<live, label>>
  /\ mutex' = "free"
  /\ IF copy' # {}
       THEN RGoto("build") /\ taint' = taint
       ELSE RGoto("swap") /\ taint' = taint \cup {"empty"}
  /\ UNCHANGED <<working, rebuildPtr, rebuildFlag, logger, pending>>

\* Mutation: the replay goes on without working_flag_mutex.
RelockNot ==
  /\ rpc = "build"
  /\ RGoto("drain")
  /\ UNCHANGED <<treeVars, rebuildPtr, rebuildFlag, logger, mutex, copy,
                 pending, taint>>

\* BuildTree, then working_flag_mutex for the replay.
Relock ==
  /\ rpc = "build" /\ mutex = "free"
  /\ mutex' = "reb"
  /\ RGoto("drain")
  /\ UNCHANGED <<treeVars, rebuildPtr, rebuildFlag, logger, copy, pending,
                 taint>>

\* One logged operation is popped and the locks are released to replay it.
Pop ==
  /\ rpc = "drain" /\ logger # <<>>
  /\ pending' = Head(logger)
  /\ logger' = Tail(logger)
  /\ mutex' = "free"
  /\ RGoto("replay")
  /\ UNCHANGED <<treeVars, rebuildPtr, rebuildFlag, copy, taint>>

\* run_operation() on the new tree, which nobody else can see yet.
Replay ==
  /\ rpc = "replay"
  /\ copy' = Effect(pending, copy)
  /\ RGoto("build")
  /\ UNCHANGED <<treeVars, rebuildPtr, rebuildFlag, logger, mutex, pending,
                 taint>>

\* Mutation: the swap does not wait for the log to be empty.
DrainedEarly ==
  /\ rpc = "drain"
  /\ RGoto("swap")
  /\ UNCHANGED <<treeVars, rebuildPtr, rebuildFlag, logger, mutex, copy,
                 pending, taint>>

Drained ==
  /\ rpc = "drain" /\ logger = <<>>
  /\ RGoto("swap")
  /\ UNCHANGED <<treeVars, rebuildPtr, rebuildFlag, logger, mutex, copy,
                 pending, taint>>

\* The new tree takes the place of the old one.  A new root node has neither
\* labels nor its working_flag set.
Swap ==
  /\ rpc = "swap"
  /\ IF rebuildPtr = Root
       THEN /\ live' = [s \in Son |-> copy \cap PointsOf(s)]
            /\ label' = NoLabel
            /\ working' = FALSE
       ELSE /\ live' = [live EXCEPT ![rebuildPtr] = copy]
            /\ UNCHANGED <<label, working>>
  /\ RGoto("check")
  /\ UNCHANGED <<rebuildPtr, rebuildFlag, logger, mutex, copy, pending, taint>>

\* The ancestors of the new subtree are updated unless somebody works there.
CheckFather ==
  /\ rpc = "check"
  /\ RGoto(IF rebuildPtr = Root \/ working THEN "clear" ELSE "update")
  /\ UNCHANGED <<treeVars, rebuildPtr, rebuildFlag, logger, mutex, copy,
                 pending, taint>>

\* Update(father): its tree_deleted is recomputed from the sons.  With a label
\* still pending the recomputed flag is false, and the deletion is forgotten.
UpdateFather ==
  /\ rpc = "update"
  /\ label' = NoLabel
  /\ RGoto("clear")
  /\ UNCHANGED <<live, working, rebuildPtr, rebuildFlag, logger, mutex, copy,
                 pending, taint>>

\* Mutation: Rebuild_Ptr is not reset.
ClearPtrNot ==
  /\ rpc = "clear"
  /\ mutex' = "free"
  /\ RGoto("unflag")
  /\ UNCHANGED <<treeVars, rebuildPtr, rebuildFlag, logger, copy, pending,
                 taint>>

\* Rebuild_Ptr = nullptr and working_flag_mutex is unlocked, held or not.
ClearPtr ==
  /\ rpc = "clear"
  /\ rebuildPtr' = NoSlot
  /\ mutex' = "free"
  /\ RGoto("unflag")
  /\ UNCHANGED <<treeVars, rebuildFlag, logger, copy, pending, taint>>

\* rebuild_flag = false comes after the unlock.
ClearFlag ==
  /\ rpc = "unflag"
  /\ rebuildFlag' = FALSE
  /\ RGoto("free")
  /\ UNCHANGED <<treeVars, rebuildPtr, logger, mutex, copy, pending, taint>>

\* The old nodes are deleted, rebuild_ptr_mutex_lock is released, and the
\* termination flag is read.
Rest ==
  /\ rpc = "free"
  /\ RGoto(IF terminate THEN "done" ELSE "rest")
  /\ UNCHANGED <<treeVars, rebuildPtr, rebuildFlag, logger, mutex, copy,
                 pending, taint>>

RebuildStep ==
  \/ LockPtr \/ LockWorking \/ Start \/ Flatten \/ Relock \/ Pop \/ Replay
  \/ Drained \/ Swap \/ CheckFather \/ UpdateFather \/ ClearPtr \/ ClearFlag
  \/ Rest

\* pthread_join has returned: nothing runs any more.
Joined ==
  /\ mpc = "stopped" /\ rpc = "done"
  /\ UNCHANGED vars

Next == MapStep \/ RebuildStep \/ Joined

\* Both threads are scheduled; the node need not make another request or stop.
Fairness == WF_vars(MapRun) /\ WF_vars(RebuildStep)

Spec == Init /\ [][Next]_vars
FairSpec == Spec /\ Fairness
-----------------------------------------------------------------------------
(* Properties *)

\* The variables have the types of the members and locals they model.
TypeOK ==
  /\ live \in [Son -> SUBSET Point]
  /\ label \in [Son -> BOOLEAN]
  /\ working \in BOOLEAN
  /\ rebuildPtr \in Slot \cup {NoSlot}
  /\ rebuildFlag \in BOOLEAN
  /\ logger \in Seq(Operation)
  /\ mutex \in {"free", "map", "reb"}
  /\ mpc \in MapPc
  /\ req \in Operation
  /\ stage \in {"search", "delete", "add"}
  /\ cur \in Son
  /\ requests \in Nat
  /\ rpc \in RebuildPc
  /\ copy \in SUBSET Point
  /\ pending \in Operation
  /\ terminate \in BOOLEAN
  /\ taint \in SUBSET {"stale", "empty", "unlogged"}

\* Whether p is in the set after the operations of q are run on S, in order:
\* some operation added it, or it was there, and no later one deleted it.
InAfter(p, q, S) ==
  \/ \E i \in DOMAIN q :
       /\ p \in q[i].add
       /\ \A j \in DOMAIN q : j > i => p \notin q[j].del
  \/ p \in S /\ \A j \in DOMAIN q : p \notin q[j].del

\* What the operation popped last makes of the new tree.
NewTree == IF rpc = "replay" THEN Effect(pending, copy) ELSE copy

\* The mapping thread holds working_flag_mutex, has changed the tree and has
\* yet to write its log entry, which will be InFlight.
Unlogged == mpc \in {"topLog", "pushLog", "visitLog"}
InFlight == CASE mpc = "topLog" -> req
              [] mpc = "pushLog" -> PushDownOp
              [] OTHER -> StageOp
FullLog == IF Unlogged THEN Append(logger, InFlight) ELSE logger

\* In a round that started with an empty log, found something to copy and met
\* no unlogged write, the new tree with all that is logged for it holds the
\* points of the old tree at every moment between flatten() and the swap,
\* however the changes of the mapping thread interleave with the replay.
CopyFollowsLive ==
  rpc \in Copied /\ taint = {} =>
    \A p \in Point :
      p \in ContentOf(rebuildPtr) <=> InAfter(p, FullLog, NewTree)

\* working_flag_mutex excludes: the mapping thread is never between a locked
\* change and its log entry while the rebuild thread is in a section it
\* entered under the mutex, in a round that has not taken the path on which
\* the mutex is not held.
HoldsMutex ==
  \/ rpc \in {"start", "flatten", "drain"}
  \/ rpc \in {"swap", "check", "update", "clear"} /\ "empty" \notin taint
WorkingExclusion == ~(HoldsMutex /\ Unlogged)

\* A decision to enter a son without the lock, taken from an unlocked read of
\* Rebuild_Ptr, stays right until the son has been changed: no round copies
\* or has copied that son in between.
FreeWriterStaysOut == mpc = "visitFree" /\ rebuildPtr = cur => Swapped

\* The same for the root and a deletion, whose box may cover the whole tree.
\* It does not hold of the addition that follows it in one request.
FreeDeleterStaysOut ==
  /\ mpc \in {"begin", "push", "pushLock", "pushLog", "select", "visit",
              "visitFree", "visitLock", "visitLog", "sonDone", "unwind"}
  /\ stage = "delete" /\ rebuildPtr = Root
  => Swapped

\* A thread of control that has chosen to work without the lock is right to.
FreeThreadStaysOut == FreeWriterStaysOut /\ FreeDeleterStaysOut

\* The rebuild thread and the mapping thread keep out of each other's way, with the
\* mutex and without it.
Exclusion == WorkingExclusion /\ FreeThreadStaysOut

(* What makes the properties above inductive *)

InRound == rpc \in {"start", "flatten"} \cup Copied \/ Swapped

MutexOwner ==
  /\ HoldsMutex => mutex = "reb"
  /\ Unlogged /\ rebuildPtr # NoSlot => mutex = "map"

\* A thread of control that chose the locked path finds the slot it chose it
\* for under rebuild, or no rebuild at all.
LockedPathSlot ==
  /\ mpc \in {"topLock", "topLog"} => rebuildPtr \in {Root, NoSlot}
  /\ mpc \in {"pushLock", "pushLog", "visitLock", "visitLog"}
       => rebuildPtr \in {cur, NoSlot}
  /\ mpc = "pushLock" /\ rebuildPtr = cur => label[cur] \/ Swapped

RoundTarget == InRound => rebuildPtr # NoSlot

RoundState ==
  /\ rpc \in {"flatten"} \cup Copied => rebuildFlag
  /\ rpc = "flatten" /\ taint = {} => logger = <<>>
  /\ rpc = "swap" /\ "empty" \notin taint => logger = <<>>

IndInv ==
  /\ TypeOK
  /\ RoundTarget
  /\ MutexOwner
  /\ LockedPathSlot
  /\ RoundState
  /\ FreeWriterStaysOut
  /\ FreeDeleterStaysOut
  /\ CopyFollowsLive

\* The rebuild thread, swapping in a round of the kind CopyFollowsLive
\* speaks of, does not change what the map contains.
CleanSwap ==
  [][(rpc = "swap" /\ rpc' = "check" /\ taint = {}) => (Content' = Content)]_vars

\* A rebuild that was asked for is carried out (or the tree is being stopped).
RebuildServed == rebuildPtr # NoSlot ~> (rebuildPtr = NoSlot \/ terminate)

\* Every request of the mapping thread returns, whatever the rebuild thread
\* does with the mutex meanwhile, and stop_thread() gets past pthread_join.
RequestReturns == mpc \notin {"idle", "stopped"} ~> mpc = "idle"
JoinReturns == terminate ~> rpc = "done"
CallsReturn == RequestReturns /\ JoinReturns

\* Neither thread keeps the other waiting for ever.
BothServed == RebuildServed /\ CallsReturn

\* What the comment "rebuild and update missed operations" suggests: a round that
\* started with an empty log and found something to copy loses no operation it
\* missed.  This is false, see README.md.
MissedOpsUpdated ==
  [][(rpc = "swap" /\ rpc' = "check" /\ taint \cap {"stale", "empty"} = {})
       => (Content' = Content)]_vars
===============================================================================
