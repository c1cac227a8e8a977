------------------------------- MODULE IkdProofs -------------------------------
(***************************************************************************)
(* Proofs about the two threads of the ikd-Tree.                           *)
(*                                                                         *)
(* IkdRebuild: the variables keep their types, and a round that starts     *)
(* with an empty log, finds something to copy and meets no unlogged write  *)
(* swaps in a tree with exactly the points of the old one, for any points, *)
(* boxes, division of the points and number of requests.                   *)
(*                                                                         *)
(* IkdSearch: the door is kept, and no nearest search whose two loads      *)
(* agree is in a subtree that is copied, taken out or deleted, for any     *)
(* number of searchers, searches and rebuilds.                             *)
(***************************************************************************)
EXTENDS IkdRebuild, IkdSearch, FiniteSetTheorems, TLAPS

ConstAssumptions == /\ Left # Right /\ Root \notin Son /\ NoSlot \notin Slot
                    /\ Home \in [Point -> Son]
                    /\ Boxes \subseteq SUBSET Point
                    /\ InitPoints \subseteq Point

LEMMA ConstFacts == ConstAssumptions
BY SlotAssumption, HomeAssumption, BoxAssumption, InitAssumption
   DEF ConstAssumptions

-----------------------------------------------------------------------------
(* The log *)

\* An operation at the end of the log acts on what those before it leave.
LEMMA InAfterAppend ==
  ASSUME NEW p, NEW S, NEW q \in Seq(Operation), NEW o \in Operation
  PROVE  InAfter(p, Append(q, o), S)
           <=> p \in o.add \/ (InAfter(p, q, S) /\ p \notin o.del)
<1> DEFINE r == Append(q, o)
           n == Len(q)
<1>1. /\ n \in Nat
      /\ DOMAIN q = 1 .. n
      /\ DOMAIN r = 1 .. (n + 1)
      /\ \A i \in 1 .. n : r[i] = q[i]
      /\ r[n + 1] = o
  OBVIOUS
<1> HIDE DEF r, n
<1>2. ASSUME p \in o.add
      PROVE  InAfter(p, r, S)
  <2>1. n + 1 \in DOMAIN r /\ p \in r[n + 1].add
    BY <1>1, <1>2
  <2>2. \A j \in DOMAIN r : ~(j > n + 1)
    BY <1>1
  <2> QED BY <2>1, <2>2 DEF InAfter
<1>3. ASSUME InAfter(p, q, S), p \notin o.del
      PROVE  InAfter(p, r, S)
  <2>1. CASE \E i \in DOMAIN q :
               p \in q[i].add /\ \A j \in DOMAIN q : j > i => p \notin q[j].del
    <3>1. PICK i \in DOMAIN q :
            p \in q[i].add /\ \A j \in DOMAIN q : j > i => p \notin q[j].del
      BY <2>1
    <3>2. i \in DOMAIN r /\ p \in r[i].add
      BY <3>1, <1>1
    <3>3. ASSUME NEW j \in DOMAIN r, j > i
          PROVE  p \notin r[j].del
      BY <3>1, <3>3, <1>1, <1>3
    <3> QED BY <3>2, <3>3 DEF InAfter
  <2>2. CASE p \in S /\ \A j \in DOMAIN q : p \notin q[j].del
    <3>1. \A j \in DOMAIN r : p \notin r[j].del
      BY <2>2, <1>1, <1>3
    <3> QED BY <3>1, <2>2 DEF InAfter
  <2> QED BY <2>1, <2>2, <1>3 DEF InAfter
<1>4. ASSUME InAfter(p, r, S), p \notin o.add
      PROVE  InAfter(p, q, S) /\ p \notin o.del
  <2>1. CASE \E i \in DOMAIN r :
               p \in r[i].add /\ \A j \in DOMAIN r : j > i => p \notin r[j].del
    <3>1. PICK i \in DOMAIN r :
            p \in r[i].add /\ \A j \in DOMAIN r : j > i => p \notin r[j].del
      BY <2>1
    <3>2. i \in 1 .. n
      BY <3>1, <1>1, <1>4
    <3>3. n + 1 \in DOMAIN r /\ n + 1 > i
      BY <3>2, <1>1
    <3>4. p \notin o.del
      BY <3>1, <3>3, <1>1
    <3>5. i \in DOMAIN q /\ p \in q[i].add
      BY <3>1, <3>2, <1>1
    <3>6. \A j \in DOMAIN q : j > i => p \notin q[j].del
      BY <3>1, <1>1
    <3> QED BY <3>4, <3>5, <3>6 DEF InAfter
  <2>2. CASE p \in S /\ \A j \in DOMAIN r : p \notin r[j].del
    BY <2>2, <1>1 DEF InAfter
  <2> QED BY <2>1, <2>2, <1>4 DEF InAfter
<1> QED BY <1>2, <1>3, <1>4 DEF r

\* Running the first operation of the log before the rest changes nothing.
LEMMA InAfterTail ==
  ASSUME NEW p, NEW S, NEW q \in Seq(Operation), q # <<>>
  PROVE  InAfter(p, Tail(q), Effect(Head(q), S)) <=> InAfter(p, q, S)
<1> DEFINE t == Tail(q)
           h == Head(q)
           n == Len(q)
<1>1. /\ n \in Nat /\ n > 0
      /\ DOMAIN q = 1 .. n
      /\ DOMAIN t = 1 .. (n - 1)
      /\ \A i \in 1 .. (n - 1) : t[i] = q[i + 1]
      /\ h = q[1]
  OBVIOUS
<1> HIDE DEF t, h, n
<1>2. ASSUME InAfter(p, q, S)
      PROVE  InAfter(p, t, Effect(h, S))
  <2>1. CASE \E i \in DOMAIN q :
               p \in q[i].add /\ \A j \in DOMAIN q : j > i => p \notin q[j].del
    <3>1. PICK i \in DOMAIN q :
            p \in q[i].add /\ \A j \in DOMAIN q : j > i => p \notin q[j].del
      BY <2>1
    <3>2. CASE i = 1
      <4>1. \A j \in DOMAIN t : p \notin t[j].del
        <5>1. ASSUME NEW j \in DOMAIN t PROVE p \notin t[j].del
          <6>1. j + 1 \in DOMAIN q /\ j + 1 > i /\ t[j] = q[j + 1]
            BY <1>1, <3>2
          <6> QED BY <6>1, <3>1
        <5> QED BY <5>1
      <4>2. p \in Effect(h, S)
        BY <3>1, <3>2, <1>1 DEF Effect
      <4> QED BY <4>1, <4>2 DEF InAfter
    <3>3. CASE i # 1
      <4>1. i - 1 \in DOMAIN t /\ t[i - 1] = q[i]
        BY <1>1, <3>3
      <4>2. ASSUME NEW j \in DOMAIN t, j > i - 1
            PROVE  p \notin t[j].del
        <5>1. j + 1 \in DOMAIN q /\ j + 1 > i /\ t[j] = q[j + 1]
          BY <1>1, <4>2
        <5> QED BY <5>1, <3>1
      <4> QED BY <4>1, <4>2, <3>1 DEF InAfter
    <3> QED BY <3>2, <3>3
  <2>2. CASE p \in S /\ \A j \in DOMAIN q : p \notin q[j].del
    <3>1. p \in Effect(h, S)
      BY <2>2, <1>1 DEF Effect
    <3>2. ASSUME NEW j \in DOMAIN t PROVE p \notin t[j].del
      <4>1. j + 1 \in DOMAIN q /\ t[j] = q[j + 1]
        BY <1>1
      <4> QED BY <4>1, <2>2
    <3> QED BY <3>1, <3>2 DEF InAfter
  <2> QED BY <2>1, <2>2, <1>2 DEF InAfter
<1>3. ASSUME InAfter(p, t, Effect(h, S))
      PROVE  InAfter(p, q, S)
  <2>1. CASE \E i \in DOMAIN t :
               p \in t[i].add /\ \A j \in DOMAIN t : j > i => p \notin t[j].del
    <3>1. PICK i \in DOMAIN t :
            p \in t[i].add /\ \A j \in DOMAIN t : j > i => p \notin t[j].del
      BY <2>1
    <3>2. i + 1 \in DOMAIN q /\ p \in q[i + 1].add
      BY <3>1, <1>1
    <3>3. ASSUME NEW j \in DOMAIN q, j > i + 1
          PROVE  p \notin q[j].del
      <4>1. j - 1 \in DOMAIN t /\ j - 1 > i /\ t[j - 1] = q[j]
        BY <1>1, <3>1, <3>3
      <4> QED BY <4>1, <3>1
    <3> QED BY <3>2, <3>3 DEF InAfter
  <2>2. CASE p \in Effect(h, S) /\ \A j \in DOMAIN t : p \notin t[j].del
    <3>1. ASSUME NEW j \in DOMAIN q, j > 1
          PROVE  p \notin q[j].del
      <4>1. j - 1 \in DOMAIN t /\ t[j - 1] = q[j]
        BY <1>1, <3>1
      <4> QED BY <4>1, <2>2
    <3>2. CASE p \in h.add
      <4>1. 1 \in DOMAIN q /\ p \in q[1].add
        BY <3>2, <1>1
      <4> QED BY <4>1, <3>1 DEF InAfter
    <3>3. CASE p \in S /\ p \notin h.del
      <4>1. \A j \in DOMAIN q : p \notin q[j].del
        BY <3>1, <3>3, <1>1
      <4> QED BY <4>1, <3>3 DEF InAfter
    <3> QED BY <3>2, <3>3, <2>2 DEF Effect
  <2> QED BY <2>1, <2>2, <1>3 DEF InAfter
<1> QED BY <1>2, <1>3 DEF t, h

LEMMA InAfterEmpty ==
  ASSUME NEW p, NEW S
  PROVE  InAfter(p, <<>>, S) <=> p \in S
BY DEF InAfter
-----------------------------------------------------------------------------
(* Types *)

LEMMA OpTypes ==
  ASSUME TypeOK
  PROVE  /\ NoOp \in Operation /\ PushDownOp \in Operation
         /\ StageOp \in Operation
         /\ InFlight \in Operation
BY DEF TypeOK, NoOp, PushDownOp, StageOp, InFlight, Operation

LEMMA TreeTypes ==
  ASSUME TypeOK
  PROVE  /\ PushedLive \in [Son -> SUBSET Point]
         /\ NoLabel \in [Son -> BOOLEAN]
         /\ \A s \in Son : Visible(s) \subseteq Point
         /\ Content \subseteq Point
         /\ \A s \in Slot : ContentOf(s) \subseteq Point
BY DEF TypeOK, PushedLive, NoLabel, Visible, Content, ContentOf, Slot, Son

LEMMA PushTypes ==
  ASSUME TypeOK, PushOntoSon
  PROVE  /\ live' \in [Son -> SUBSET Point]
         /\ label' \in [Son -> BOOLEAN]
         /\ working' \in BOOLEAN
<1>1. cur \in Son /\ Visible(cur) \in SUBSET Point
  BY TreeTypes DEF TypeOK
<1> QED BY <1>1 DEF PushOntoSon, TypeOK

LEMMA RequestType == Request \subseteq Operation
BY ConstFacts DEF ConstAssumptions, Request, Operation, NoOp

\* Init gives every variable a value of its type.
LEMMA InitType == Init => TypeOK
<1> SUFFICES ASSUME Init PROVE TypeOK
  OBVIOUS
<1>1. live \in [Son -> SUBSET Point] /\ label \in [Son -> BOOLEAN]
  BY ConstFacts DEF ConstAssumptions, Init, PointsOf
<1>2. req \in Operation /\ pending \in Operation /\ logger \in Seq(Operation)
  BY DEF Init, NoOp, Operation
<1> QED
  BY <1>1, <1>2 DEF Init, TypeOK, Son, Slot, MapPc, RebuildPc

\* The log entry the mapping thread writes has the type of the log.
LEMMA LogType ==
  ASSUME TypeOK, NEW o \in Operation, LogAndUnlock(o)
  PROVE  logger' \in Seq(Operation) /\ mutex' \in {"free", "map", "reb"}
BY DEF LogAndUnlock, TypeOK

\* No step takes a variable out of its type.
LEMMA NextType == TypeOK /\ RoundTarget /\ [Next]_vars => TypeOK'
<1> SUFFICES ASSUME TypeOK, RoundTarget, [Next]_vars PROVE TypeOK'
  OBVIOUS
<1> USE ConstFacts DEF ConstAssumptions
<1> USE DEF TypeOK, Son, Slot
<1>1. CASE MakeRequest
  BY <1>1, RequestType DEF MakeRequest, FirstStage, treeVars, roundVars, MapPc
<1>2. CASE CompareRoot
  BY <1>2 DEF CompareRoot, Goto, treeVars, roundVars, MapPc
<1>3. CASE LockAndRunOnRoot
  <2>1. /\ live' \in [Son -> SUBSET Point]
        /\ label' \in [Son -> BOOLEAN]
        /\ working' \in BOOLEAN
    <3> USE TreeTypes
    <3>1. RunOnRoot
      BY <1>3 DEF LockAndRunOnRoot
    <3>2. ASSUME live' = [s \in Son |-> Effect([del |-> req.del,
                                     add |-> req.add \cap PointsOf(s)],
                                     Visible(s))]
          PROVE  live' \in [Son -> SUBSET Point]
      BY <3>2 DEF Effect, PointsOf
    <3> QED BY <3>1, <3>2 DEF RunOnRoot, treeVars
  <2> QED
    BY <1>3, <2>1 DEF LockAndRunOnRoot, Goto, roundVars, MapPc
<1>4. CASE LogOnRoot
  BY <1>4, LogType DEF LogOnRoot, LogAndUnlock, Goto, treeVars, roundVars, MapPc
<1>5. CASE Begin
  BY <1>5 DEF Begin, treeVars, roundVars, MapPc
<1>6. CASE Push
  <2>1. /\ live' \in [Son -> SUBSET Point]
        /\ label' \in [Son -> BOOLEAN]
        /\ working' \in BOOLEAN
    <3>1. CASE PushOntoSon
      BY <3>1, PushTypes
    <3>2. CASE UNCHANGED treeVars
      BY <3>2 DEF treeVars
    <3> QED BY <1>6, <3>1, <3>2 DEF Push
  <2>2. mpc' \in MapPc /\ cur' \in Son
    BY <1>6 DEF Push, Goto, AfterPush, MapPc
  <2> QED
    BY <1>6, <2>1, <2>2 DEF Push, Goto, AfterPush, roundVars
<1>7. CASE LockAndPush
  <2>1. PushOntoSon
    BY <1>7 DEF LockAndPush
  <2> QED
    BY <1>7, <2>1, PushTypes DEF LockAndPush, Goto, roundVars, MapPc
<1>8. CASE LogPush
  BY <1>8, LogType, OpTypes DEF LogPush, LogAndUnlock, AfterPush, treeVars, roundVars, MapPc
<1>9. CASE Select
  BY <1>9 DEF Select, AfterStage, Operation, treeVars, roundVars, MapPc
<1>10. CASE CompareSon
  BY <1>10 DEF CompareSon, Goto, treeVars, roundVars, MapPc
<1>11. CASE VisitFree
  BY <1>11, OpTypes DEF VisitFree, RunOnSon, Effect, Operation, Goto, treeVars, roundVars, MapPc
<1>12. CASE LockAndVisit
  BY <1>12, OpTypes DEF LockAndVisit, RunOnSon, Effect, Operation, Goto, treeVars, roundVars, MapPc
<1>13. CASE LogVisit
  BY <1>13, LogType, OpTypes DEF LogVisit, LogAndUnlock, AfterSon, treeVars, roundVars, MapPc
<1>14. CASE SonDone
  BY <1>14 DEF SonDone, Rebuild, AfterSon, treeVars, roundVars, MapPc
<1>15. CASE Unwind
  BY <1>15 DEF Unwind, Rebuild, AfterStage, treeVars, roundVars, MapPc
<1>16. CASE Stop
  BY <1>16 DEF Stop, Goto, treeVars, roundVars, MapPc
<1>17. CASE LockPtr
  BY <1>17 DEF LockPtr, RGoto, treeVars, mapVars, RebuildPc
<1>18. CASE LockWorking
  BY <1>18 DEF LockWorking, RGoto, treeVars, mapVars, RebuildPc
<1>19. CASE Start
  BY <1>19 DEF Start, RGoto, treeVars, mapVars, RebuildPc
<1>20. CASE Flatten
  <2>1. live' \in [Son -> SUBSET Point] /\ label' \in [Son -> BOOLEAN]
    BY <1>20, TreeTypes DEF Flatten
  <2>2. copy' \subseteq Point
    BY <1>20, TreeTypes DEF Flatten, RoundTarget, InRound
  <2> QED
    BY <1>20, <2>1, <2>2 DEF Flatten, RGoto, mapVars, RebuildPc
<1>21. CASE Relock
  BY <1>21 DEF Relock, RGoto, treeVars, mapVars, RebuildPc
<1>22. CASE Pop
  BY <1>22 DEF Pop, RGoto, treeVars, mapVars, RebuildPc
<1>23. CASE Replay
  BY <1>23 DEF Replay, Effect, Operation, RGoto, treeVars, mapVars, RebuildPc
<1>24. CASE Drained
  BY <1>24 DEF Drained, RGoto, treeVars, mapVars, RebuildPc
<1>25. CASE Swap
  <2>1. live' \in [Son -> SUBSET Point]
    <3>1. CASE rebuildPtr = Root
      BY <1>25, <3>1 DEF Swap
    <3>2. CASE rebuildPtr # Root
      BY <1>25, <3>2 DEF Swap
    <3> QED BY <3>1, <3>2
  <2>2. label' \in [Son -> BOOLEAN] /\ working' \in BOOLEAN
    BY <1>25 DEF Swap, NoLabel
  <2> QED
    BY <1>25, <2>1, <2>2 DEF Swap, RGoto, mapVars, RebuildPc
<1>26. CASE CheckFather
  BY <1>26 DEF CheckFather, RGoto, treeVars, mapVars, RebuildPc
<1>27. CASE UpdateFather
  BY <1>27 DEF UpdateFather, NoLabel, RGoto, treeVars, mapVars, RebuildPc
<1>28. CASE ClearPtr
  BY <1>28 DEF ClearPtr, RGoto, treeVars, mapVars, RebuildPc
<1>29. CASE ClearFlag
  BY <1>29 DEF ClearFlag, RGoto, treeVars, mapVars, RebuildPc
<1>30. CASE Rest
  BY <1>30 DEF Rest, RGoto, treeVars, mapVars, RebuildPc
<1>31. CASE UNCHANGED vars
  BY <1>31 DEF vars
<1> QED
  BY <1>1, <1>2, <1>3, <1>4, <1>5, <1>6, <1>7, <1>8, <1>9, <1>10, <1>11, <1>12, <1>13, <1>14, <1>15, <1>16, <1>17, <1>18, <1>19, <1>20, <1>21, <1>22, <1>23, <1>24, <1>25, <1>26, <1>27, <1>28, <1>29, <1>30, <1>31
     DEF Next, MapStep, MapRun, RebuildStep, Joined

\* A round has a target from its start until Rebuild_Ptr is reset.
LEMMA NextTarget == TypeOK /\ RoundTarget /\ [Next]_vars => RoundTarget'
<1> SUFFICES ASSUME TypeOK, RoundTarget, [Next]_vars PROVE RoundTarget'
  OBVIOUS
<1> USE DEF RoundTarget, InRound, Copied, Swapped, RGoto, mapVars, roundVars
<1>1. CASE LockWorking \/ Start \/ ClearPtr
  BY <1>1 DEF LockWorking, Start, ClearPtr
<1>2. CASE LockPtr \/ Flatten \/ Relock \/ Pop \/ Replay \/ Drained \/ Swap
           \/ CheckFather \/ UpdateFather \/ ClearFlag \/ Rest
  BY <1>2 DEF LockPtr, Flatten, Relock, Pop, Replay, Drained, Swap,
     CheckFather, UpdateFather, ClearFlag, Rest
<1>3. CASE SonDone
  BY <1>3, ConstFacts DEF SonDone, Rebuild, TypeOK, ConstAssumptions, Slot
<1>4. CASE Unwind
  BY <1>4, ConstFacts DEF Unwind, Rebuild, ConstAssumptions, Slot
<1>5. CASE VisitFree
  BY <1>5 DEF VisitFree
<1>6. CASE LogOnRoot \/ LogPush \/ LogVisit
  BY <1>6 DEF LogOnRoot, LogPush, LogVisit, LogAndUnlock
<1>7. CASE MakeRequest \/ CompareRoot \/ LockAndRunOnRoot \/ Begin \/ Push
           \/ LockAndPush \/ Select \/ CompareSon \/ LockAndVisit \/ Stop
  BY <1>7 DEF MakeRequest, CompareRoot, LockAndRunOnRoot, Begin, Push,
     LockAndPush, Select, CompareSon, LockAndVisit, Stop
<1>8. CASE UNCHANGED vars
  BY <1>8 DEF vars
<1> QED
  BY <1>1, <1>2, <1>3, <1>4, <1>5, <1>6, <1>7, <1>8
     DEF Next, MapStep, MapRun, RebuildStep, Joined

\* The type invariant holds of every behaviour of the specification.
THEOREM TypeCorrect == Spec => []TypeOK
<1>1. Init => TypeOK /\ RoundTarget
  BY InitType DEF Init, RoundTarget, InRound, Copied, Swapped
<1>2. TypeOK /\ RoundTarget /\ [Next]_vars => TypeOK' /\ RoundTarget'
  BY NextType, NextTarget
<1> QED BY <1>1, <1>2, PTL DEF Spec
-----------------------------------------------------------------------------
(* Who holds what, and when *)

Control == /\ MutexOwner
           /\ LockedPathSlot
           /\ RoundState
           /\ FreeWriterStaysOut
           /\ FreeDeleterStaysOut

\* A log entry is written by the owner of the mutex, so never while the
\* rebuild thread relies on it.
LEMMA LogExcluded ==
  ASSUME RoundTarget, Control, Unlogged
  PROVE  ~HoldsMutex
BY DEF RoundTarget, Control, MutexOwner, HoldsMutex, InRound, Copied, Swapped

LEMMA NextControl == TypeOK /\ RoundTarget /\ Control /\ [Next]_vars => Control'
<1> SUFFICES ASSUME TypeOK, RoundTarget, Control, [Next]_vars PROVE Control'
  OBVIOUS
<1> USE ConstFacts DEF ConstAssumptions, Slot
<1>t. cur \in Son /\ rebuildPtr \in Slot \cup {NoSlot}
  BY DEF TypeOK
<1> USE <1>t
<1> USE DEF Control, MutexOwner, LockedPathSlot, RoundState, FreeWriterStaysOut,
        FreeDeleterStaysOut, HoldsMutex, Unlogged, Copied, Swapped
<1>1. CASE MakeRequest
  BY <1>1 DEF MakeRequest, FirstStage, treeVars, roundVars
<1>2. CASE CompareRoot
  BY <1>2 DEF CompareRoot, LooksRebuilt, LooksUntouched, Goto, roundVars
<1>3. CASE LockAndRunOnRoot
  BY <1>3 DEF LockAndRunOnRoot, Goto, roundVars, RoundTarget, InRound
<1>4. CASE Begin
  BY <1>4 DEF Begin, roundVars
<1>5. CASE Push
  <2>1. CASE AfterPush
    BY <1>5, <2>1 DEF Push, AfterPush, roundVars
  <2>2. CASE LooksRebuilt(cur) /\ label[cur] /\ Goto("pushLock") /\ UNCHANGED treeVars
    BY <1>5, <2>2 DEF Push, LooksRebuilt, Goto, roundVars, treeVars
  <2> QED BY <1>5, <2>1, <2>2 DEF Push
<1>6. CASE LockAndPush
  BY <1>6 DEF LockAndPush, Goto, roundVars, RoundTarget, InRound
<1>7. CASE Select
  BY <1>7 DEF Select, AfterStage, roundVars
<1>8. CASE CompareSon
  BY <1>8 DEF CompareSon, LooksRebuilt, LooksUntouched, Goto, roundVars
<1>9. CASE VisitFree
  BY <1>9 DEF VisitFree, Goto
<1>10. CASE LockAndVisit
  BY <1>10 DEF LockAndVisit, Goto, roundVars, RoundTarget, InRound
<1>11. CASE SonDone
  BY <1>11 DEF SonDone, Rebuild, PtrMutexFree, AfterSon, roundVars
<1>12. CASE Unwind
  BY <1>12 DEF Unwind, Rebuild, PtrMutexFree, AfterStage, roundVars
<1>13. CASE Stop
  BY <1>13 DEF Stop, Goto, roundVars
<1>14. CASE LogOnRoot
  BY <1>14, LogExcluded DEF LogOnRoot, LogAndUnlock, Goto, roundVars
<1>15. CASE LogPush
  BY <1>15, LogExcluded DEF LogPush, LogAndUnlock, AfterPush, roundVars
<1>16. CASE LogVisit
  BY <1>16, LogExcluded DEF LogVisit, LogAndUnlock, AfterSon, roundVars
<1>17. CASE LockPtr
  BY <1>17 DEF LockPtr, RGoto, mapVars, treeVars, RoundTarget, InRound
<1>18. CASE LockWorking
  BY <1>18 DEF LockWorking, RGoto, mapVars, treeVars, RoundTarget, InRound
<1>19. CASE Start
  BY <1>19 DEF Start, RGoto, mapVars, treeVars, RoundTarget, InRound
<1>20. CASE Flatten
  <2>1. ~Unlogged /\ ~Unlogged'
    BY <1>20, LogExcluded DEF Flatten, RGoto, mapVars
  <2>2. rebuildFlag
    BY <1>20 DEF Flatten
  <2>3. CASE copy' # {}
    BY <1>20, <2>1, <2>2, <2>3 DEF Flatten, RGoto, mapVars
  <2>4. CASE copy' = {}
    BY <1>20, <2>1, <2>2, <2>4 DEF Flatten, RGoto, mapVars
  <2> QED BY <2>3, <2>4
<1>21. CASE Relock
  BY <1>21 DEF Relock, RGoto, mapVars, treeVars, RoundTarget, InRound
<1>22. CASE Pop
  BY <1>22 DEF Pop, RGoto, mapVars, treeVars, RoundTarget, InRound
<1>23. CASE Replay
  BY <1>23 DEF Replay, RGoto, mapVars, treeVars, RoundTarget, InRound
<1>24. CASE Drained
  BY <1>24 DEF Drained, RGoto, mapVars, treeVars, RoundTarget, InRound
<1>25. CASE Swap
  BY <1>25 DEF Swap, RGoto, mapVars, treeVars, RoundTarget, InRound
<1>26. CASE CheckFather
  BY <1>26 DEF CheckFather, RGoto, mapVars, treeVars, RoundTarget, InRound
<1>27. CASE UpdateFather
  BY <1>27 DEF UpdateFather, RGoto, mapVars, treeVars, RoundTarget, InRound
<1>28. CASE ClearPtr
  BY <1>28 DEF ClearPtr, RGoto, mapVars, treeVars, RoundTarget, InRound
<1>29. CASE ClearFlag
  BY <1>29 DEF ClearFlag, RGoto, mapVars, treeVars, RoundTarget, InRound
<1>30. CASE Rest
  BY <1>30 DEF Rest, RGoto, mapVars, treeVars, RoundTarget, InRound
<1>31. CASE UNCHANGED vars
  BY <1>31 DEF vars
<1> QED
  BY <1>1, <1>2, <1>3, <1>4, <1>5, <1>6, <1>7, <1>8, <1>9, <1>10, <1>11, <1>12, <1>13, <1>14, <1>15, <1>16, <1>17, <1>18, <1>19, <1>20, <1>21, <1>22, <1>23, <1>24, <1>25, <1>26, <1>27, <1>28, <1>29, <1>30, <1>31
     DEF Next, MapStep, MapRun, RebuildStep, Joined
-----------------------------------------------------------------------------
(* The new tree follows the old one *)

\* Running a request on the whole tree has its effect on the map, whichever
\* early return it takes.
LEMMA RunOnRootEffect ==
  ASSUME TypeOK, RunOnRoot
  PROVE  Content' = Effect(req, Content)
<1> USE ConstFacts DEF ConstAssumptions
<1>1. CASE /\ req.add = {} /\ Content = {}
           /\ UNCHANGED treeVars
  BY <1>1 DEF treeVars, Content, Visible, Effect
<1>2. CASE /\ req.add = {} /\ Content \cap req.del = {}
           /\ live' = PushedLive /\ label' = NoLabel
  BY <1>2 DEF Content, Visible, Effect, PushedLive, NoLabel, Son
<1>3. CASE /\ req.add = {} /\ Content \subseteq req.del
           /\ label' = [s \in Son |-> TRUE]
  BY <1>3 DEF Content, Visible, Effect, Son
<1>4. CASE /\ live' = [s \in Son |-> Effect([del |-> req.del,
                                     add |-> req.add \cap PointsOf(s)],
                                     Visible(s))]
           /\ label' = NoLabel
  <2>1. \A s \in Son :
          Visible(s)' = (Visible(s) \ req.del) \cup (req.add \cap PointsOf(s))
    BY <1>4 DEF Visible, NoLabel, Effect
  <2>2. req.add = (req.add \cap PointsOf(Left)) \cup (req.add \cap PointsOf(Right))
    BY DEF TypeOK, Operation, PointsOf, Son
  <2> QED BY <2>1, <2>2 DEF Content, Effect, Son
<1> QED BY <1>1, <1>2, <1>3, <1>4 DEF RunOnRoot

\* Pushing a label down does not change the map.
LEMMA PushContent ==
  ASSUME TypeOK, PushOntoSon
  PROVE  /\ Content' = Content
         /\ live'[cur] = Visible(cur)
         /\ \A s \in Son : s # cur => live'[s] = live[s]
<1>1. /\ live'[cur] = Visible(cur) /\ ~label'[cur]
      /\ \A s \in Son : s # cur => live'[s] = live[s] /\ label'[s] = label[s]
  BY DEF PushOntoSon, TypeOK
<1>2. \A s \in Son : Visible(s)' = Visible(s)
  BY <1>1 DEF Visible
<1> QED BY <1>1, <1>2 DEF Content, Son

\* What the invariant needs of a step that leaves the round alone.
LEMMA FollowsUnchanged ==
  ASSUME CopyFollowsLive,
         rpc \in Copied /\ taint = {},
         ContentOf(rebuildPtr)' = ContentOf(rebuildPtr),
         FullLog' = FullLog, NewTree' = NewTree
  PROVE  CopyFollowsLive'
BY DEF CopyFollowsLive
\* The same of a step that changes the old tree and adds what it did to the
\* log in full.
LEMMA FollowsAppend ==
  ASSUME TypeOK, CopyFollowsLive,
         rpc \in Copied /\ taint = {},
         NEW o \in Operation,
         ContentOf(rebuildPtr)' \cap Point
           = Effect(o, ContentOf(rebuildPtr)) \cap Point,
         FullLog \in Seq(Operation),
         FullLog' = Append(FullLog, o),
         NewTree' = NewTree
  PROVE  CopyFollowsLive'
<1>1. ASSUME NEW p \in Point
      PROVE  p \in ContentOf(rebuildPtr)' <=> InAfter(p, FullLog', NewTree')
  <2>1. p \in ContentOf(rebuildPtr) <=> InAfter(p, FullLog, NewTree)
    BY DEF CopyFollowsLive
  <2>2. InAfter(p, FullLog', NewTree')
          <=> p \in o.add \/ (InAfter(p, FullLog, NewTree) /\ p \notin o.del)
    BY InAfterAppend
  <2>3. p \in ContentOf(rebuildPtr)' <=> p \in Effect(o, ContentOf(rebuildPtr))
    BY <1>1
  <2> QED BY <2>1, <2>2, <2>3 DEF Effect
<1> QED BY <1>1 DEF CopyFollowsLive

\* While the mapping thread holds the mutex in a round, writing its entry
\* makes the log what the invariant took it to be.
LEMMA LogFollows ==
  ASSUME RoundTarget, Control, CopyFollowsLive, rpc \in Copied, taint = {},
         Unlogged, LogAndUnlock(InFlight), mpc' \notin {"topLog", "pushLog", "visitLog"}
  PROVE  CopyFollowsLive'
<1>1. FullLog' = FullLog
  BY DEF LogAndUnlock, FullLog, Unlogged, Control, RoundState
<1>2. NewTree' = NewTree /\ ContentOf(rebuildPtr)' = ContentOf(rebuildPtr)
  BY DEF LogAndUnlock, NewTree, ContentOf, Content, Visible, treeVars, roundVars
<1> QED BY <1>1, <1>2, FollowsUnchanged

LEMMA NextFollows ==
  TypeOK /\ RoundTarget /\ Control /\ CopyFollowsLive /\ [Next]_vars
    => CopyFollowsLive'
<1> SUFFICES ASSUME TypeOK, RoundTarget, Control, CopyFollowsLive, [Next]_vars,
                    rpc' \in Copied, taint' = {}
             PROVE  CopyFollowsLive'
  BY DEF CopyFollowsLive
<1>t. /\ cur \in Son /\ rebuildPtr \in Slot \cup {NoSlot}
      /\ logger \in Seq(Operation)
      /\ req \in Operation /\ StageOp \in Operation /\ PushDownOp \in Operation
  BY OpTypes DEF TypeOK
<1>s. /\ Root \notin Son /\ NoSlot \notin Son /\ NoSlot # Root
  BY ConstFacts DEF ConstAssumptions, Slot
<1>u. rpc \in Copied => rebuildPtr # NoSlot /\ ~Swapped
  BY DEF RoundTarget, InRound, Copied, Swapped
<1>1. CASE LockAndRunOnRoot
  <2>1. rpc \in Copied /\ taint = {} /\ NewTree' = NewTree
    BY <1>1 DEF LockAndRunOnRoot, roundVars, NewTree
  <2>2. rebuildPtr = Root /\ rebuildPtr' = Root
    BY <1>1, <2>1, <1>u DEF LockAndRunOnRoot, Control, LockedPathSlot
  <2>3. ContentOf(rebuildPtr)' = Effect(req, ContentOf(rebuildPtr))
    BY <1>1, <2>2, RunOnRootEffect DEF LockAndRunOnRoot, ContentOf
  <2>4. FullLog = logger /\ FullLog' = Append(logger, req)
    BY <1>1 DEF LockAndRunOnRoot, Goto, FullLog, Unlogged, InFlight
  <2> QED BY <2>1, <2>3, <2>4, <1>t, FollowsAppend
<1>2. CASE LockAndPush
  <2>1. rpc \in Copied /\ taint = {} /\ NewTree' = NewTree
    BY <1>2 DEF LockAndPush, roundVars, NewTree
  <2>2. rebuildPtr = cur /\ rebuildPtr' = cur /\ label[cur]
    BY <1>2, <2>1, <1>u DEF LockAndPush, Control, LockedPathSlot
  <2>3. live'[cur] = {}
    BY <1>2, <2>2, PushContent DEF LockAndPush, Visible
  <2>4. ContentOf(rebuildPtr)' \cap Point
          = Effect(PushDownOp, ContentOf(rebuildPtr)) \cap Point
    BY <2>2, <2>3, <1>t, <1>s DEF ContentOf, Effect, PushDownOp
  <2>5. FullLog = logger /\ FullLog' = Append(logger, PushDownOp)
    BY <1>2 DEF LockAndPush, Goto, FullLog, Unlogged, InFlight, PushDownOp
  <2> QED BY <2>1, <2>4, <2>5, <1>t, FollowsAppend
<1>3. CASE LockAndVisit
  <2>1. rpc \in Copied /\ taint = {} /\ NewTree' = NewTree
    BY <1>3 DEF LockAndVisit, roundVars, NewTree
  <2>2. rebuildPtr = cur /\ rebuildPtr' = cur
    BY <1>3, <2>1, <1>u DEF LockAndVisit, Control, LockedPathSlot
  <2>3. live'[cur] = Effect(StageOp, live[cur])
    BY <1>3, <1>t DEF LockAndVisit, RunOnSon, TypeOK
  <2>4. ContentOf(rebuildPtr)' = Effect(StageOp, ContentOf(rebuildPtr))
    BY <2>2, <2>3, <1>t, <1>s DEF ContentOf
  <2>5. FullLog = logger /\ FullLog' = Append(logger, StageOp)
    BY <1>3 DEF LockAndVisit, Goto, FullLog, Unlogged, InFlight, StageOp
  <2> QED BY <2>1, <2>4, <2>5, <1>t, FollowsAppend
<1>4. CASE LogOnRoot
  <2>1. Unlogged /\ InFlight = req /\ mpc' = "idle"
    BY <1>4 DEF LogOnRoot, Unlogged, InFlight, Goto
  <2>2. rpc \in Copied /\ taint = {}
    BY <1>4 DEF LogOnRoot, LogAndUnlock, roundVars
  <2> QED BY <1>4, <2>1, <2>2, LogFollows DEF LogOnRoot
<1>5. CASE LogPush
  <2>1. Unlogged /\ InFlight = PushDownOp
        /\ mpc' \notin {"topLog", "pushLog", "visitLog"}
    BY <1>5 DEF LogPush, Unlogged, InFlight, AfterPush
  <2>2. rpc \in Copied /\ taint = {}
    BY <1>5 DEF LogPush, LogAndUnlock, roundVars
  <2> QED BY <1>5, <2>1, <2>2, LogFollows DEF LogPush
<1>6. CASE LogVisit
  <2>1. Unlogged /\ InFlight = StageOp
        /\ mpc' \notin {"topLog", "pushLog", "visitLog"}
    BY <1>6 DEF LogVisit, Unlogged, InFlight, AfterSon
  <2>2. rpc \in Copied /\ taint = {}
    BY <1>6 DEF LogVisit, LogAndUnlock, roundVars
  <2> QED BY <1>6, <2>1, <2>2, LogFollows DEF LogVisit
<1>7. CASE Push
  <2>1. rpc \in Copied /\ taint = {} /\ NewTree' = NewTree
    BY <1>7 DEF Push, roundVars, NewTree
  <2>2. FullLog' = FullLog
    BY <1>7 DEF Push, AfterPush, Goto, FullLog, Unlogged
  <2>3. CASE UNCHANGED treeVars
    <3>1. ContentOf(rebuildPtr)' = ContentOf(rebuildPtr)
      BY <1>7, <2>3 DEF Push, treeVars, ContentOf, Content, Visible
    <3> QED BY <2>1, <2>2, <3>1, FollowsUnchanged
  <2>4. CASE LooksUntouched(cur) /\ PushOntoSon
    <3>1. rebuildPtr # cur /\ rebuildPtr' = rebuildPtr
      BY <1>7, <2>1, <2>4, <1>u DEF Push, LooksUntouched
    <3>2. ContentOf(rebuildPtr)' = ContentOf(rebuildPtr)
      BY <2>4, <3>1, <2>1, <1>t, <1>u, PushContent DEF ContentOf, Slot
    <3> QED BY <2>1, <2>2, <3>2, FollowsUnchanged
  <2> QED BY <1>7, <2>3, <2>4 DEF Push
<1>8. CASE Select
  <2>1. rpc \in Copied /\ taint = {} /\ NewTree' = NewTree
    BY <1>8 DEF Select, roundVars, NewTree
  <2>2. FullLog' = FullLog
    BY <1>8 DEF Select, AfterStage, FullLog, Unlogged
  <2>3. rebuildPtr = Root => UNCHANGED <<live, label>>
    BY <1>8, <2>1, <1>u DEF Select, Control, FreeDeleterStaysOut
  <2>4. ContentOf(rebuildPtr)' = ContentOf(rebuildPtr)
    BY <1>8, <2>3 DEF Select, ContentOf, Content, Visible
  <2> QED BY <2>1, <2>2, <2>4, FollowsUnchanged
<1>9. CASE VisitFree
  <2>1. rpc \in Copied /\ taint = {} /\ rebuildPtr \notin {cur, Root}
        /\ NewTree' = NewTree /\ rebuildPtr' = rebuildPtr
    BY <1>9 DEF VisitFree, NewTree
  <2>2. FullLog' = FullLog
    BY <1>9 DEF VisitFree, Goto, FullLog, Unlogged
  <2>3. rebuildPtr \in Son
    BY <2>1, <1>t, <1>u DEF Slot
  <2>4. ContentOf(rebuildPtr)' = ContentOf(rebuildPtr)
    BY <1>9, <2>1, <2>3 DEF VisitFree, RunOnSon, ContentOf, TypeOK
  <2> QED BY <2>1, <2>2, <2>4, FollowsUnchanged
<1>10. CASE SonDone \/ Unwind
  <2>1. rpc \in Copied /\ taint = {} /\ NewTree' = NewTree
    BY <1>10 DEF SonDone, Unwind, roundVars, NewTree
  <2>2. rebuildPtr' = rebuildPtr
    BY <1>10, <2>1 DEF SonDone, Unwind, Rebuild, PtrMutexFree, Copied
  <2>3. FullLog' = FullLog
    BY <1>10 DEF SonDone, Unwind, AfterSon, AfterStage, FullLog, Unlogged
  <2>4. ContentOf(rebuildPtr)' = ContentOf(rebuildPtr)
    BY <1>10, <2>2 DEF SonDone, Unwind, treeVars, ContentOf, Content, Visible
  <2> QED BY <2>1, <2>3, <2>4, FollowsUnchanged
<1>11. CASE MakeRequest \/ CompareRoot \/ Begin \/ CompareSon \/ Stop
  <2>1. rpc \in Copied /\ taint = {} /\ NewTree' = NewTree
        /\ UNCHANGED <<live, label, rebuildPtr, logger>>
    BY <1>11 DEF MakeRequest, CompareRoot, Begin, CompareSon, Stop, roundVars,
       treeVars, NewTree
  <2>2. FullLog' = FullLog
    BY <1>11, <2>1 DEF MakeRequest, CompareRoot, Begin, CompareSon, Stop, Goto,
       FullLog, Unlogged
  <2>3. ContentOf(rebuildPtr)' = ContentOf(rebuildPtr)
    BY <2>1 DEF ContentOf, Content, Visible
  <2> QED BY <2>1, <2>2, <2>3, FollowsUnchanged
<1>12. CASE Flatten
  <2>1. logger = <<>> /\ ~Unlogged
    BY <1>12, LogExcluded DEF Flatten, Control, RoundState, HoldsMutex, RGoto, Copied
  <2>2. FullLog' = <<>>
    BY <1>12, <2>1 DEF Flatten, RGoto, mapVars, FullLog, Unlogged
  <2>3. NewTree' = ContentOf(rebuildPtr)
    BY <1>12 DEF Flatten, RGoto, NewTree
  <2>4. ContentOf(rebuildPtr)' = ContentOf(rebuildPtr)
    BY <1>12, <1>t, <1>s DEF Flatten, ContentOf, Content, Visible, PushedLive, NoLabel, Son
  <2> QED BY <2>2, <2>3, <2>4, InAfterEmpty DEF CopyFollowsLive
<1>13. CASE Pop
  <2>1. ~Unlogged
    BY <1>13, LogExcluded DEF Pop, HoldsMutex
  <2>2. logger # <<>> /\ FullLog = logger /\ FullLog' = Tail(logger)
    BY <1>13, <2>1 DEF Pop, RGoto, mapVars, FullLog, Unlogged
  <2>3. NewTree = copy /\ NewTree' = Effect(Head(logger), copy)
    BY <1>13 DEF Pop, RGoto, NewTree, Effect
  <2>4. ContentOf(rebuildPtr)' = ContentOf(rebuildPtr)
    BY <1>13 DEF Pop, treeVars, ContentOf, Content, Visible
  <2>5. rpc \in Copied /\ taint = {}
    BY <1>13 DEF Pop, Copied
  <2>6. \A p \in Point :
          InAfter(p, FullLog', NewTree') <=> InAfter(p, FullLog, NewTree)
    BY <2>2, <2>3, <1>t, InAfterTail
  <2> QED BY <2>4, <2>5, <2>6 DEF CopyFollowsLive
<1>14. CASE Replay \/ Relock \/ Drained
  <2>1. rpc \in Copied /\ taint = {} /\ NewTree' = NewTree
        /\ UNCHANGED <<live, label, rebuildPtr, logger>>
    BY <1>14 DEF Replay, Relock, Drained, RGoto, treeVars, NewTree, Copied
  <2>2. FullLog' = FullLog
    BY <1>14, <2>1 DEF Replay, Relock, Drained, RGoto, mapVars, FullLog,
       Unlogged, InFlight, StageOp
  <2>3. ContentOf(rebuildPtr)' = ContentOf(rebuildPtr)
    BY <2>1 DEF ContentOf, Content, Visible
  <2> QED BY <2>1, <2>2, <2>3, FollowsUnchanged
<1>15. CASE LockPtr \/ LockWorking \/ Start \/ Swap \/ CheckFather
            \/ UpdateFather \/ ClearPtr \/ ClearFlag \/ Rest
  BY <1>15 DEF LockPtr, LockWorking, Start, Swap, CheckFather, UpdateFather,
     ClearPtr, ClearFlag, Rest, RGoto, Copied
<1>16. CASE UNCHANGED vars
  BY <1>16 DEF vars, CopyFollowsLive, Copied, ContentOf, Content, Visible,
     FullLog, Unlogged, InFlight, StageOp, NewTree
<1> QED
  BY <1>1, <1>2, <1>3, <1>4, <1>5, <1>6, <1>7, <1>8, <1>9, <1>10, <1>11, <1>12,
     <1>13, <1>14, <1>15, <1>16
     DEF Next, MapStep, MapRun, RebuildStep, Joined

-----------------------------------------------------------------------------
(* The theorems *)

\* IndInv is inductive.
LEMMA Inductive == Spec => []IndInv
<1>1. Init => IndInv
  <2> SUFFICES ASSUME Init PROVE IndInv
    OBVIOUS
  <2>1. TypeOK
    BY InitType
  <2>2. rpc = "rest" /\ mpc = "idle" /\ rebuildPtr = NoSlot
    BY DEF Init
  <2> QED
    BY <2>1, <2>2 DEF IndInv, RoundTarget, InRound, MutexOwner, HoldsMutex,
       Unlogged, LockedPathSlot, RoundState, FreeWriterStaysOut,
       FreeDeleterStaysOut, CopyFollowsLive, Copied, Swapped
<1>2. IndInv /\ [Next]_vars => IndInv'
  BY NextType, NextTarget, NextControl, NextFollows DEF IndInv, Control
<1> QED BY <1>1, <1>2, PTL DEF Spec

\* Between flatten() and the swap of a clean round the new tree, with all that
\* is logged for it, holds the points of the old one.
THEOREM CopyCorrect == Spec => []CopyFollowsLive
BY Inductive, PTL DEF IndInv

\* working_flag_mutex keeps the two threads apart in every round that found
\* something to copy.
THEOREM WorkingExclusive == Spec => []WorkingExclusion
<1>1. IndInv => WorkingExclusion
  BY LogExcluded DEF IndInv, Control, WorkingExclusion
<1> QED BY <1>1, Inductive, PTL

\* Unlocked decisions stay right.
THEOREM FreeThreads == Spec => []FreeThreadStaysOut
<1>1. IndInv => FreeThreadStaysOut
  BY DEF IndInv, FreeThreadStaysOut
<1> QED BY <1>1, Inductive, PTL

\* The two threads stay apart, with the mutex and without it.
THEOREM Excluded == Spec => []Exclusion
BY WorkingExclusive, FreeThreads, PTL DEF Exclusion

\* The swap of a clean round leaves the map as it is.
THEOREM CleanSwapCorrect == Spec => CleanSwap
<1>1. IndInv /\ [Next]_vars
        => [(rpc = "swap" /\ rpc' = "check" /\ taint = {})
              => (Content' = Content)]_vars
  <2> SUFFICES ASSUME IndInv, Next, rpc = "swap", rpc' = "check", taint = {}
               PROVE  Content' = Content
    BY DEF vars
  <2>1. Swap
    BY DEF Next, MapStep, MapRun, RebuildStep, Joined, MakeRequest, CompareRoot,
       LockAndRunOnRoot, LogOnRoot, LogAndUnlock, Begin, Push, LockAndPush,
       LogPush, Select, CompareSon, VisitFree, LockAndVisit, LogVisit, SonDone,
       Unwind, Stop, LockPtr, LockWorking, Start, Flatten, Relock, Pop, Replay,
       Drained, CheckFather, UpdateFather, ClearPtr, ClearFlag, Rest, RGoto,
       roundVars, vars
  <2>2. FullLog = <<>> /\ NewTree = copy
    BY LogExcluded DEF IndInv, Control, RoundState, FullLog, HoldsMutex, NewTree
  <2>3. copy = ContentOf(rebuildPtr)
    <3>1. \A p \in Point : p \in ContentOf(rebuildPtr) <=> p \in copy
      BY <2>2, InAfterEmpty DEF IndInv, CopyFollowsLive, Copied
    <3>2. rebuildPtr \in Slot
      BY DEF IndInv, TypeOK, RoundTarget, InRound, Copied
    <3> QED BY <3>1, <3>2, TreeTypes DEF IndInv, TypeOK
  <2>4. CASE rebuildPtr = Root
    <3>1. Content' = (copy \cap PointsOf(Left)) \cup (copy \cap PointsOf(Right))
      BY <2>1, <2>4 DEF Swap, Content, Visible, NoLabel, Son
    <3>2. copy \subseteq PointsOf(Left) \cup PointsOf(Right)
      BY ConstFacts DEF ConstAssumptions, PointsOf, Son, IndInv, TypeOK
    <3> QED BY <2>3, <2>4, <3>1, <3>2 DEF ContentOf
  <2>5. CASE rebuildPtr # Root
    <3>1. rebuildPtr \in Son /\ copy = live[rebuildPtr]
      BY <2>3, <2>5 DEF IndInv, TypeOK, RoundTarget, InRound, Copied, Slot, ContentOf
    <3>2. \A s \in Son : live'[s] = live[s] /\ label'[s] = label[s]
      BY <2>1, <2>5, <3>1 DEF Swap, IndInv, TypeOK
    <3> QED BY <3>2 DEF Content, Visible, Son
  <2> QED BY <2>4, <2>5
<1> QED BY <1>1, Inductive, PTL DEF Spec, CleanSwap

-----------------------------------------------------------------------------
(* IkdSearch *)

USE SearchersAssumption, BoundsAssumption
  DEF Trees, Unread, Nowhere, Places, threadVars, mainVars, searchVars

-----------------------------------------------------------------------------
(* The number of searches inside *)

LEMMA CountedFinite ==
  /\ IsFiniteSet(Counted)
  /\ Cardinality(Counted) \in 0..Cardinality(Searchers)
  /\ Cardinality(Searchers) \in Nat
<1>1. Counted \subseteq Searchers
  BY DEF Counted
<1> QED BY <1>1, FS_Subset, FS_CardinalityType

LEMMA CountedEmpty == Cardinality(Counted) = 0 <=> Counted = {}
BY CountedFinite, FS_EmptySet

\* The count is that of the searches that are inside afterwards, whatever the
\* step: a search counts itself in or out while the door is open, and the
\* thread opens the door only for nobody.
LEMMA DoorStep ==
  ASSUME SearchInv, [SearchNext]_allVars
  PROVE  DoorKept' /\ ClosedEmpty'
<1> USE DEF SearchInv, DoorKept, ClosedEmpty, Closed
<1>1. CASE CloseForCopy
  <2>1. Counted = {}
    BY <1>1, CountedEmpty DEF CloseForCopy, CloseDoor, NobodyInside
  <2> QED BY <1>1, <2>1 DEF CloseForCopy, CloseDoor, Counted
<1>2. CASE CloseForSwap
  <2>1. Counted = {}
    BY <1>2, CountedEmpty DEF CloseForSwap, CloseDoor, NobodyInside
  <2> QED BY <1>2, <2>1 DEF CloseForSwap, CloseDoor, Counted
<1>3. CASE OpenAfterCopy
  <2>1. Counted' = Counted
    BY <1>3 DEF OpenAfterCopy, OpenDoor, Counted
  <2>2. Counted = {} /\ search_mutex_counter' = 0 /\ pc' = "build"
    BY <1>3 DEF OpenAfterCopy, OpenDoor
  <2> QED BY <2>1, <2>2, CountedEmpty
<1>4. CASE OpenAfterSwap
  <2>1. Counted' = Counted
    BY <1>4 DEF OpenAfterSwap, OpenDoor, Counted
  <2>2. Counted = {} /\ search_mutex_counter' = 0 /\ pc' = "clear"
    BY <1>4 DEF OpenAfterSwap, OpenDoor
  <2> QED BY <2>1, <2>2, CountedEmpty
<1>5. CASE BeginRebuild \/ SwapIn \/ ClearRebuildPtr \/ DeleteOld
  <2>1. /\ Counted' = Counted
        /\ search_mutex_counter' = search_mutex_counter
        /\ (pc' \in {"copy", "swap", "reopen"}) = (pc \in {"copy", "swap", "reopen"})
    BY <1>5 DEF BeginRebuild, SwapIn, ClearRebuildPtr, DeleteOld, Counted
  <2> QED BY <2>1
<1>6. CASE NodeThread
  <2>1. /\ Counted' = Counted
        /\ search_mutex_counter' = search_mutex_counter
        /\ pc' = pc
    BY <1>6 DEF NodeThread, RequestRebuild, BeginRange, EndRange, BeginSearches,
                EndSearches, Counted
  <2> QED BY <2>1
<1>7. ASSUME NEW s \in Searchers, StartSearch(s) \/ Search(s)
      PROVE  DoorKept' /\ ClosedEmpty'
  <2>1. pc' = pc
    BY <1>7 DEF StartSearch, Search, LoadSon, LoadSlot, GoOn, MustCount, CountIn,
                Enter, Leave
  <2>2. CASE CountIn(s)
    <3>1. ~counted[s]
      BY <2>2 DEF CountIn, PlacesAgree
    <3>2. Counted' = Counted \cup {s}
      BY <2>2 DEF CountIn, Counted, SearchTypeOK
    <3>a. s \notin Counted
      BY <3>1 DEF Counted
    <3>3. Cardinality(Counted') = Cardinality(Counted) + 1
      BY <3>a, <3>2, CountedFinite, FS_AddElement
    <3>4. ~Closed /\ search_mutex_counter' = search_mutex_counter + 1
      BY <2>2 DEF CountIn, DoorOpen
    <3> QED BY <2>1, <3>3, <3>4
  <2>3. CASE Leave(s) /\ counted[s]
    <3>1. s \in Counted
      BY <2>3 DEF Counted
    <3>2. Counted' = Counted \ {s}
      BY <2>3 DEF Leave, Counted, SearchTypeOK
    <3>3. Cardinality(Counted') = Cardinality(Counted) - 1
      BY <3>1, <3>2, CountedFinite, FS_RemoveElement
    <3>4. search_mutex_counter' = search_mutex_counter - 1
      BY <2>3 DEF Leave, Count
    <3>5. ~Closed
      BY <3>1
    <3> QED BY <2>1, <3>3, <3>4, <3>5
  <2>4. CASE Leave(s) /\ ~counted[s]
    <3>1. Counted' = Counted
      BY <2>4 DEF Leave, Counted, SearchTypeOK
    <3>2. search_mutex_counter' = search_mutex_counter
      BY <2>4 DEF Leave, Count, SearchTypeOK
    <3> QED BY <2>1, <3>1, <3>2
  <2>5. CASE ~CountIn(s) /\ ~Leave(s)
    <3>1. Counted' = Counted /\ search_mutex_counter' = search_mutex_counter
      BY <1>7, <2>5 DEF StartSearch, Search, LoadSon, LoadSlot, GoOn, MustCount,
                        Enter, Counted
    <3> QED BY <2>1, <3>1
  <2> QED BY <2>2, <2>3, <2>4, <2>5
<1>8. CASE UNCHANGED allVars
  BY <1>8 DEF allVars, Counted
<1> QED BY <1>1, <1>2, <1>3, <1>4, <1>5, <1>6, <1>7, <1>8 DEF SearchNext, RebuildThread

-----------------------------------------------------------------------------
(* The rest of the invariant *)

\* The types; the count keeps its own because the door is kept.
LEMMA SearchTypeStep ==
  ASSUME SearchInv, [SearchNext]_allVars
  PROVE  SearchTypeOK'
<1>0. SearchTypeOK /\ PtrAgrees
  BY DEF SearchInv
<1>count. search_mutex_counter' \in -1..Cardinality(Searchers)
  <2>1. DoorKept'
    BY DoorStep
  <2>2. /\ IsFiniteSet(Counted')
        /\ Cardinality(Counted') \in 0..Cardinality(Searchers)
    <3>1. Counted' \subseteq Searchers
      BY DEF Counted
    <3> QED BY <3>1, FS_Subset, FS_CardinalityType
  <2> QED BY <2>1, <2>2, CountedFinite DEF DoorKept
<1>1. CASE BeginRebuild
  BY <1>1, <1>0, <1>count DEF BeginRebuild, SearchTypeOK
<1>2. CASE CloseForCopy
  BY <1>2, <1>0, <1>count DEF CloseForCopy, CloseDoor, NobodyInside, SearchTypeOK
<1>3. CASE OpenAfterCopy
  BY <1>3, <1>0, <1>count DEF OpenAfterCopy, OpenDoor, SearchTypeOK
<1>4. CASE CloseForSwap
  BY <1>4, <1>0, <1>count DEF CloseForSwap, CloseDoor, NobodyInside, SearchTypeOK
<1>5. CASE SwapIn
  BY <1>5, <1>0, <1>count DEF SwapIn, PtrAgrees, SearchTypeOK
<1>6. CASE OpenAfterSwap
  BY <1>6, <1>0, <1>count DEF OpenAfterSwap, OpenDoor, SearchTypeOK
<1>7. CASE ClearRebuildPtr
  BY <1>7, <1>0, <1>count DEF ClearRebuildPtr, SearchTypeOK
<1>8. CASE DeleteOld
  BY <1>8, <1>0, <1>count DEF DeleteOld, PtrAgrees, SearchTypeOK
<1>9. CASE RequestRebuild
  BY <1>9, <1>0, <1>count DEF RequestRebuild, PtrAgrees, SearchTypeOK
<1>10. CASE BeginRange
  BY <1>10, <1>0, <1>count DEF BeginRange, SearchTypeOK
<1>11. CASE EndRange
  BY <1>11, <1>0, <1>count DEF EndRange, SearchTypeOK
<1>12. CASE BeginSearches
  BY <1>12, <1>0, <1>count DEF BeginSearches, SearchTypeOK
<1>13. CASE EndSearches
  BY <1>13, <1>0, <1>count DEF EndSearches, SearchTypeOK
<1>14. ASSUME NEW s \in Searchers, StartSearch(s) \/ Search(s)
       PROVE  SearchTypeOK'
  <2>1. CASE StartSearch(s)
    BY <1>14, <2>1, <1>0, <1>count DEF StartSearch, SearchTypeOK
  <2>2. CASE LoadSon(s)
    BY <1>14, <2>2, <1>0, <1>count DEF LoadSon, SearchTypeOK
  <2>3. CASE LoadSlot(s)
    BY <1>14, <2>3, <1>0, <1>count DEF LoadSlot, SearchTypeOK
  <2>4. CASE GoOn(s)
    BY <1>14, <2>4, <1>0, <1>count DEF GoOn, Loaded, SearchTypeOK
  <2>5. CASE MustCount(s)
    BY <1>14, <2>5, <1>0, <1>count DEF MustCount, Loaded, SearchTypeOK
  <2>6. CASE CountIn(s)
    BY <1>14, <2>6, <1>0, <1>count DEF CountIn, DoorOpen, SearchTypeOK
  <2>7. CASE Enter(s)
    BY <1>14, <2>7, <1>0, <1>count DEF Enter, Entered, SearchTypeOK
  <2>8. CASE Leave(s)
    BY <1>14, <2>8, <1>0, <1>count DEF Leave, Count, SearchTypeOK
  <2> QED BY <1>14, <2>1, <2>2, <2>3, <2>4, <2>5, <2>6, <2>7, <2>8 DEF Search
<1>15. CASE UNCHANGED allVars
  BY <1>15, <1>0, <1>count DEF SearchTypeOK, allVars
<1> QED BY <1>1, <1>2, <1>3, <1>4, <1>5, <1>6, <1>7, <1>8, <1>9, <1>10, <1>11, <1>12, <1>13,
    <1>14, <1>15 DEF SearchNext, RebuildThread, NodeThread

LEMMA PlacesStep ==
  ASSUME SearchInv, [SearchNext]_allVars
  PROVE  PlacesAgree' /\ PtrAgrees' /\ FreedAreOld'
<1>0. SearchTypeOK /\ PlacesAgree /\ PtrAgrees /\ FreedAreOld /\ ClosedEmpty
  BY DEF SearchInv
<1>1. CASE BeginRebuild
  BY <1>1, <1>0 DEF BeginRebuild, SearchTypeOK, PlacesAgree, PtrAgrees, FreedAreOld
<1>2. CASE CloseForCopy
  BY <1>2, <1>0 DEF CloseForCopy, CloseDoor, NobodyInside, SearchTypeOK, PlacesAgree, PtrAgrees,
     FreedAreOld
<1>3. CASE OpenAfterCopy
  BY <1>3, <1>0 DEF OpenAfterCopy, OpenDoor, SearchTypeOK, PlacesAgree, PtrAgrees, FreedAreOld
<1>4. CASE CloseForSwap
  BY <1>4, <1>0 DEF CloseForSwap, CloseDoor, NobodyInside, SearchTypeOK, PlacesAgree, PtrAgrees,
     FreedAreOld
<1>5. CASE SwapIn
  BY <1>5, <1>0 DEF SwapIn, ClosedEmpty, Closed, Counted, SearchTypeOK, PlacesAgree, PtrAgrees,
     FreedAreOld
<1>6. CASE OpenAfterSwap
  BY <1>6, <1>0 DEF OpenAfterSwap, OpenDoor, SearchTypeOK, PlacesAgree, PtrAgrees, FreedAreOld
<1>7. CASE ClearRebuildPtr
  BY <1>7, <1>0 DEF ClearRebuildPtr, SearchTypeOK, PlacesAgree, PtrAgrees, FreedAreOld
<1>8. CASE DeleteOld
  BY <1>8, <1>0 DEF DeleteOld, SearchTypeOK, PlacesAgree, PtrAgrees, FreedAreOld
<1>9. CASE RequestRebuild
  BY <1>9, <1>0 DEF RequestRebuild, SearchTypeOK, PlacesAgree, PtrAgrees, FreedAreOld
<1>10. CASE BeginRange
  BY <1>10, <1>0 DEF BeginRange, SearchTypeOK, PlacesAgree, PtrAgrees, FreedAreOld
<1>11. CASE EndRange
  BY <1>11, <1>0 DEF EndRange, SearchTypeOK, PlacesAgree, PtrAgrees, FreedAreOld
<1>12. CASE BeginSearches
  BY <1>12, <1>0 DEF BeginSearches, SearchTypeOK, PlacesAgree, PtrAgrees, FreedAreOld
<1>13. CASE EndSearches
  BY <1>13, <1>0 DEF EndSearches, SearchTypeOK, PlacesAgree, PtrAgrees, FreedAreOld
<1>14. ASSUME NEW s \in Searchers, StartSearch(s) \/ Search(s)
       PROVE  PlacesAgree' /\ PtrAgrees' /\ FreedAreOld'
  <2>1. CASE StartSearch(s)
    BY <1>14, <2>1, <1>0 DEF StartSearch, SearchTypeOK, PlacesAgree, PtrAgrees, FreedAreOld
  <2>2. CASE LoadSon(s)
    BY <1>14, <2>2, <1>0 DEF LoadSon, SearchTypeOK, PlacesAgree, PtrAgrees, FreedAreOld
  <2>3. CASE LoadSlot(s)
    BY <1>14, <2>3, <1>0 DEF LoadSlot, SearchTypeOK, PlacesAgree, PtrAgrees, FreedAreOld
  <2>4. CASE GoOn(s)
    BY <1>14, <2>4, <1>0 DEF GoOn, Loaded, SearchTypeOK, PlacesAgree, PtrAgrees, FreedAreOld
  <2>5. CASE MustCount(s)
    BY <1>14, <2>5, <1>0 DEF MustCount, Loaded, SearchTypeOK, PlacesAgree, PtrAgrees, FreedAreOld
  <2>6. CASE CountIn(s)
    BY <1>14, <2>6, <1>0 DEF CountIn, DoorOpen, SearchTypeOK, PlacesAgree, PtrAgrees, FreedAreOld
  <2>7. CASE Enter(s)
    BY <1>14, <2>7, <1>0 DEF Enter, Entered, SearchTypeOK, PlacesAgree, PtrAgrees, FreedAreOld
  <2>8. CASE Leave(s)
    BY <1>14, <2>8, <1>0 DEF Leave, Count, SearchTypeOK, PlacesAgree, PtrAgrees, FreedAreOld
  <2> QED BY <1>14, <2>1, <2>2, <2>3, <2>4, <2>5, <2>6, <2>7, <2>8 DEF Search
<1>15. CASE UNCHANGED allVars
  BY <1>15, <1>0 DEF SearchTypeOK, PlacesAgree, PtrAgrees, FreedAreOld, allVars
<1> QED BY <1>1, <1>2, <1>3, <1>4, <1>5, <1>6, <1>7, <1>8, <1>9, <1>10, <1>11, <1>12, <1>13,
    <1>14, <1>15 DEF SearchNext, RebuildThread, NodeThread

\* What the searchers have loaded: only the swap changes the pointer, and no
\* rebuild is requested while they search.
LEMMA LoadsStep ==
  ASSUME SearchInv, [SearchNext]_allVars
  PROVE  LoadsAgree'
<1>0. SearchTypeOK /\ PlacesAgree /\ PtrAgrees /\ LoadsAgree
  BY DEF SearchInv
<1>1. CASE BeginRebuild
  BY <1>1, <1>0 DEF BeginRebuild, SearchTypeOK, PlacesAgree, PtrAgrees, LoadsAgree, Settled
<1>2. CASE CloseForCopy
  BY <1>2, <1>0 DEF CloseForCopy, CloseDoor, NobodyInside, SearchTypeOK, PlacesAgree, PtrAgrees,
     LoadsAgree, Settled
<1>3. CASE OpenAfterCopy
  BY <1>3, <1>0 DEF OpenAfterCopy, OpenDoor, SearchTypeOK, PlacesAgree, PtrAgrees, LoadsAgree,
     Settled
<1>4. CASE CloseForSwap
  BY <1>4, <1>0 DEF CloseForSwap, CloseDoor, NobodyInside, SearchTypeOK, PlacesAgree, PtrAgrees,
     LoadsAgree, Settled
<1>5. CASE SwapIn
  BY <1>5, <1>0 DEF SwapIn, SearchTypeOK, PlacesAgree, PtrAgrees, LoadsAgree, Settled
<1>6. CASE OpenAfterSwap
  BY <1>6, <1>0 DEF OpenAfterSwap, OpenDoor, SearchTypeOK, PlacesAgree, PtrAgrees, LoadsAgree,
     Settled
<1>7. CASE ClearRebuildPtr
  BY <1>7, <1>0 DEF ClearRebuildPtr, SearchTypeOK, PlacesAgree, PtrAgrees, LoadsAgree, Settled
<1>8. CASE DeleteOld
  BY <1>8, <1>0 DEF DeleteOld, SearchTypeOK, PlacesAgree, PtrAgrees, LoadsAgree, Settled
<1>9. CASE RequestRebuild
  BY <1>9, <1>0 DEF RequestRebuild, SearchTypeOK, PlacesAgree, PtrAgrees, LoadsAgree, Settled
<1>10. CASE BeginRange
  BY <1>10, <1>0 DEF BeginRange, SearchTypeOK, PlacesAgree, PtrAgrees, LoadsAgree, Settled
<1>11. CASE EndRange
  BY <1>11, <1>0 DEF EndRange, SearchTypeOK, PlacesAgree, PtrAgrees, LoadsAgree, Settled
<1>12. CASE BeginSearches
  BY <1>12, <1>0 DEF BeginSearches, SearchTypeOK, PlacesAgree, PtrAgrees, LoadsAgree, Settled
<1>13. CASE EndSearches
  BY <1>13, <1>0 DEF EndSearches, SearchTypeOK, PlacesAgree, PtrAgrees, LoadsAgree, Settled
<1>14. ASSUME NEW s \in Searchers, StartSearch(s) \/ Search(s)
       PROVE  LoadsAgree'
  <2>1. CASE StartSearch(s)
    BY <1>14, <2>1, <1>0 DEF StartSearch, SearchTypeOK, PlacesAgree, PtrAgrees, LoadsAgree,
       Settled
  <2>2. CASE LoadSon(s)
    BY <1>14, <2>2, <1>0 DEF LoadSon, SearchTypeOK, PlacesAgree, PtrAgrees, LoadsAgree, Settled
  <2>3. CASE LoadSlot(s)
    BY <1>14, <2>3, <1>0 DEF LoadSlot, SearchTypeOK, PlacesAgree, PtrAgrees, LoadsAgree, Settled
  <2>4. CASE GoOn(s)
    BY <1>14, <2>4, <1>0 DEF GoOn, Loaded, SearchTypeOK, PlacesAgree, PtrAgrees, LoadsAgree,
       Settled
  <2>5. CASE MustCount(s)
    BY <1>14, <2>5, <1>0 DEF MustCount, Loaded, SearchTypeOK, PlacesAgree, PtrAgrees,
       LoadsAgree, Settled
  <2>6. CASE CountIn(s)
    BY <1>14, <2>6, <1>0 DEF CountIn, DoorOpen, SearchTypeOK, PlacesAgree, PtrAgrees,
       LoadsAgree, Settled
  <2>7. CASE Enter(s)
    BY <1>14, <2>7, <1>0 DEF Enter, Entered, SearchTypeOK, PlacesAgree, PtrAgrees, LoadsAgree,
       Settled
  <2>8. CASE Leave(s)
    BY <1>14, <2>8, <1>0 DEF Leave, Count, SearchTypeOK, PlacesAgree, PtrAgrees, LoadsAgree,
       Settled
  <2> QED BY <1>14, <2>1, <2>2, <2>3, <2>4, <2>5, <2>6, <2>7, <2>8 DEF Search
<1>15. CASE UNCHANGED allVars
  BY <1>15, <1>0 DEF SearchTypeOK, PlacesAgree, PtrAgrees, LoadsAgree, Settled, allVars
<1> QED BY <1>1, <1>2, <1>3, <1>4, <1>5, <1>6, <1>7, <1>8, <1>9, <1>10, <1>11, <1>12, <1>13,
    <1>14, <1>15 DEF SearchNext, RebuildThread, NodeThread

-----------------------------------------------------------------------------
(* The theorems *)

LEMMA SearchInitInv == SearchInit => SearchInv
<1> SUFFICES ASSUME SearchInit PROVE SearchInv
  OBVIOUS
<1>1. Counted = {}
  BY DEF SearchInit, Counted
<1>2. DoorKept /\ ClosedEmpty
  BY <1>1, CountedEmpty DEF SearchInit, DoorKept, ClosedEmpty, Closed
<1>3. Cardinality(Searchers) \in Nat
  BY FS_CardinalityType
<1>4. SearchTypeOK
  <2>1. 0 \in Trees /\ 0 \in 0..Share /\ 0 \in -1..Cardinality(Searchers)
    BY <1>3
  <2> QED BY <2>1, Zenon DEF SearchInit, SearchTypeOK
<1>5. PlacesAgree /\ PtrAgrees /\ FreedAreOld /\ LoadsAgree
  BY DEF SearchInit, PlacesAgree, PtrAgrees, FreedAreOld, LoadsAgree
<1> QED BY <1>2, <1>4, <1>5 DEF SearchInv

THEOREM SearchInductive == SearchSpec => []SearchInv
<1>1. SearchInv /\ [SearchNext]_allVars => SearchInv'
  BY DoorStep, SearchTypeStep, PlacesStep, LoadsStep DEF SearchInv
<1> QED BY <1>1, SearchInitInv, PTL DEF SearchSpec

\* The types, with the range of search_mutex_counter.
THEOREM SearchTypeCorrect == SearchSpec => []SearchTypeOK
<1>1. SearchInv => SearchTypeOK
  BY DEF SearchInv
<1> QED BY <1>1, SearchInductive, PTL

\* The count is -1 exactly while the searches are kept out (multi_thread_rebuild)
\* and else the number of those inside; and no nearest search with untorn loads
\* is in a subtree that is copied, taken out or deleted.
THEOREM SearchesExcluded == SearchSpec => []SearchExclusion
<1>1. ASSUME SearchInv PROVE SearchersSafe
  <2>1. SUFFICES ASSUME NEW s \in Searchers, spc[s] = "search", ~torn[s]
                 PROVE  inside[s] \notin freed \cup WorkedOn
    BY DEF SearchersSafe
  <2>2. inside[s] = tree
    BY <1>1, <2>1 DEF SearchInv, PlacesAgree, LoadsAgree, SearchTypeOK
  <2>3. tree \notin freed
    BY <1>1 DEF SearchInv, FreedAreOld, SearchTypeOK
  <2>4. pc \notin {"copy", "swap"}
    <3>1. CASE counted[s]
      BY <1>1, <3>1 DEF SearchInv, ClosedEmpty, Closed, Counted
    <3>2. CASE ~counted[s]
      BY <1>1, <2>1, <3>2 DEF SearchInv, LoadsAgree, Settled, PtrAgrees
    <3> QED BY <3>1, <3>2
  <2> QED BY <2>2, <2>3, <2>4 DEF WorkedOn
<1>2. SearchInv => SearchExclusion
  BY <1>1 DEF SearchInv, SearchExclusion
<1> QED BY <1>2, SearchInductive, PTL
================================================================================
