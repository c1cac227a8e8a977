------------------------------- MODULE IkdSearch -------------------------------
(***************************************************************************)
(* Searches in the ikd-Tree while its rebuild thread copies and replaces a *)
(* subtree (FAST_LIO_ROS2/include/ikd-Tree): search_mutex_counter, which   *)
(* counts the searches inside the subtree and is -1 while they are kept    *)
(* out, search_flag_mutex, which guards that count, and *Rebuild_Ptr, the  *)
(* son pointer both sides read and write without a lock.                   *)
(*                                                                         *)
(* The node's thread alternates between changing the tree (where a rebuild *)
(* may be requested and Add_Points makes range searches) and nearest       *)
(* searches on several OpenMP threads (h_share_model).  A tree is its      *)
(* generation: the subtree in the rebuilt place is the one numbered tree.  *)
(* Critical sections of search_flag_mutex that do nothing else than look   *)
(* at the count and set it are one step.                                   *)
(***************************************************************************)
EXTENDS Integers, FiniteSets

CONSTANTS
  Searchers,   \* the OpenMP threads of h_share_model
  Share,       \* how many searches each makes in one call of h_share_model
  MaxRebuilds  \* bound of the model: how often a rebuild is requested

ASSUME SearchersAssumption == IsFiniteSet(Searchers)
ASSUME BoundsAssumption == Share \in Nat /\ MaxRebuilds \in Nat

Trees == 0..MaxRebuilds
Unread == -1     \* a pointer not loaded yet
Nowhere == -2    \* what *Rebuild_Ptr gives when Rebuild_Ptr is null

VARIABLES
  tree,                 \* the subtree in the place that is rebuilt
  freed,                \* the subtrees given to delete_tree_nodes
  Rebuild_Ptr,          \* whether it is set
  atRoot,               \* whether *Rebuild_Ptr is Root_Node or a son
  search_mutex_counter,
  flagHeld,             \* search_flag_mutex, while a range search holds it
  pc,                   \* where the rebuild thread is
  phase,                \* what the node's thread does
  ranged,               \* the subtree its range search is in
  left,                 \* the searches each searcher has left to make
  spc,                  \* where it is
  son, slot,            \* what it has loaded of the son pointer, of *Rebuild_Ptr
  inside,               \* the subtree it is in
  counted,              \* whether it has counted itself
  torn                  \* history: it entered a subtree already replaced

threadVars == <<tree, freed, Rebuild_Ptr, atRoot, pc>>
mainVars == <<flagHeld, phase, ranged>>
searchVars == <<left, spc, son, slot, inside, counted, torn>>
allVars == <<threadVars, search_mutex_counter, mainVars, searchVars>>

SearchInit ==
  /\ tree = 0 /\ freed = {}
  /\ Rebuild_Ptr = FALSE /\ atRoot = TRUE
  /\ search_mutex_counter = 0
  /\ flagHeld = FALSE
  /\ pc = "rest" /\ phase = "change" /\ ranged = Nowhere
  /\ left = [s \in Searchers |-> 0]
  /\ spc = [s \in Searchers |-> "done"]
  /\ son = [s \in Searchers |-> Unread] /\ slot = [s \in Searchers |-> Unread]
  /\ inside = [s \in Searchers |-> Nowhere]
  /\ counted = [s \in Searchers |-> FALSE]
  /\ torn = [s \in Searchers |-> FALSE]

-----------------------------------------------------------------------------
(* The rebuild thread: multi_thread_rebuild *)

BeginRebuild ==
  /\ pc = "rest" /\ Rebuild_Ptr /\ pc' = "closeCopy"
  /\ UNCHANGED <<tree, freed, Rebuild_Ptr, atRoot, search_mutex_counter,
                 mainVars, searchVars>>

NobodyInside == ~flagHeld /\ search_mutex_counter = 0

\* Lock Search: polled until nobody is inside, then the count is set to -1.
CloseDoor(from, to) ==
  /\ pc = from /\ pc' = to
  /\ NobodyInside
  /\ search_mutex_counter' = -1
  /\ UNCHANGED <<tree, freed, Rebuild_Ptr, atRoot, mainVars, searchVars>>

CloseForCopy == CloseDoor("closeCopy", "copy")
CloseForSwap == CloseDoor("build", "swap")

\* Unlock Search.
OpenDoor(from, to) ==
  /\ pc = from /\ pc' = to
  /\ ~flagHeld
  /\ search_mutex_counter' = 0
  /\ UNCHANGED <<tree, freed, Rebuild_Ptr, atRoot, mainVars, searchVars>>

\* flatten has copied the old subtree; BuildTree and the replay of the missed
\* operations go on with the door open.
OpenAfterCopy == OpenDoor("copy", "build")

\* The father's son pointer and *Rebuild_Ptr are set to the new subtree.
SwapIn ==
  /\ pc = "swap" /\ pc' = "reopen"
  /\ tree' = tree + 1
  /\ UNCHANGED <<freed, Rebuild_Ptr, atRoot, search_mutex_counter, mainVars,
                 searchVars>>

\* The nodes above have been updated.
OpenAfterSwap == OpenDoor("reopen", "clear")

ClearRebuildPtr ==
  /\ pc = "clear" /\ pc' = "delete"
  /\ Rebuild_Ptr' = FALSE
  /\ UNCHANGED <<tree, freed, atRoot, search_mutex_counter, mainVars, searchVars>>

\* The old subtree is deleted and rebuild_ptr_mutex_lock released.
DeleteOld ==
  /\ pc = "delete" /\ pc' = "rest"
  /\ freed' = freed \cup {tree - 1}
  /\ UNCHANGED <<tree, Rebuild_Ptr, atRoot, search_mutex_counter, mainVars,
                 searchVars>>

RebuildThread ==
  \/ BeginRebuild \/ CloseForCopy \/ OpenAfterCopy
  \/ CloseForSwap \/ SwapIn \/ OpenAfterSwap \/ ClearRebuildPtr \/ DeleteOld

-----------------------------------------------------------------------------
(* The node's thread *)

\* Rebuild: the place is given to the thread while it holds no rebuild, or an
\* enclosing subtree is given instead of one it has not begun.
RequestRebuild ==
  /\ phase = "change" /\ pc = "rest" /\ tree < MaxRebuilds
  /\ IF Rebuild_Ptr THEN atRoot' = TRUE ELSE atRoot' \in BOOLEAN
  /\ Rebuild_Ptr' = TRUE
  /\ UNCHANGED <<tree, freed, pc, search_mutex_counter, mainVars, searchVars>>

\* The range search of a downsampling, Search_by_range: on its way down it
\* holds search_flag_mutex inside the place that is rebuilt; it takes nothing
\* when that is the root, and it never looks at the count.
BeginRange ==
  /\ phase = "change" /\ phase' = "range"
  /\ ranged' = tree
  /\ flagHeld' = (Rebuild_Ptr /\ ~atRoot)
  /\ UNCHANGED <<threadVars, search_mutex_counter, searchVars>>

EndRange ==
  /\ phase = "range" /\ phase' = "change"
  /\ ranged' = Nowhere
  /\ flagHeld' = FALSE
  /\ UNCHANGED <<threadVars, search_mutex_counter, searchVars>>

BeginSearches ==
  /\ phase = "change" /\ phase' = "search"
  /\ left' = [s \in Searchers |-> Share]
  /\ UNCHANGED <<threadVars, search_mutex_counter, flagHeld, ranged, spc, son,
                 slot, inside, counted, torn>>

\* The parallel loop ends when every thread has done its share.
EndSearches ==
  /\ phase = "search" /\ phase' = "change"
  /\ \A s \in Searchers : spc[s] = "done" /\ left[s] = 0
  /\ UNCHANGED <<threadVars, search_mutex_counter, flagHeld, ranged, searchVars>>

NodeThread == RequestRebuild \/ BeginRange \/ EndRange \/ BeginSearches \/ EndSearches

-----------------------------------------------------------------------------
(* The searchers: Nearest_Search at the root, Search below it *)

StartSearch(s) ==
  /\ spc[s] = "done" /\ left[s] > 0
  /\ left' = [left EXCEPT ![s] = @ - 1]
  /\ spc' = [spc EXCEPT ![s] = "look"]
  /\ UNCHANGED <<threadVars, search_mutex_counter, mainVars, son, slot, inside,
                 counted, torn>>

\* The two pointers of the test are loaded without a lock, in either order.
LoadSon(s) ==
  /\ spc[s] = "look" /\ son[s] = Unread
  /\ son' = [son EXCEPT ![s] = tree]
  /\ UNCHANGED <<threadVars, search_mutex_counter, mainVars, left, spc, slot, inside,
                 counted, torn>>

LoadSlot(s) ==
  /\ spc[s] = "look" /\ slot[s] = Unread
  /\ slot' = [slot EXCEPT ![s] = IF Rebuild_Ptr THEN tree ELSE Nowhere]
  /\ UNCHANGED <<threadVars, search_mutex_counter, mainVars, left, spc, son, inside,
                 counted, torn>>

Loaded(s) == spc[s] = "look" /\ son[s] # Unread /\ slot[s] # Unread

\* The subtree is not the one being rebuilt: the search goes on into it, with
\* the pointer the test has loaded or with one loaded again.
GoOn(s) ==
  /\ Loaded(s) /\ son[s] # slot[s]
  /\ spc' = [spc EXCEPT ![s] = "search"]
  /\ \E t \in {son[s], tree} : /\ inside' = [inside EXCEPT ![s] = t]
                               /\ torn' = [torn EXCEPT ![s] = t # tree]
  /\ UNCHANGED <<threadVars, search_mutex_counter, mainVars, left, son, slot, counted>>

\* It is: the search has to count itself in first.
MustCount(s) ==
  /\ Loaded(s) /\ son[s] = slot[s]
  /\ spc' = [spc EXCEPT ![s] = "wait"]
  /\ UNCHANGED <<threadVars, search_mutex_counter, mainVars, left, son, slot, inside,
                 counted, torn>>

DoorOpen == ~flagHeld /\ search_mutex_counter # -1

CountIn(s) ==
  /\ spc[s] = "wait" /\ DoorOpen
  /\ spc' = [spc EXCEPT ![s] = "enter"]
  /\ search_mutex_counter' = search_mutex_counter + 1
  /\ counted' = [counted EXCEPT ![s] = TRUE]
  /\ UNCHANGED <<threadVars, mainVars, left, son, slot, inside, torn>>

\* Mutation: the pointer loaded before the wait is used after it.
EnteredLoaded(s) == son[s]
Entered(s) == tree

\* The son pointer is loaded again after the wait.
Enter(s) ==
  /\ spc[s] = "enter"
  /\ spc' = [spc EXCEPT ![s] = "search"]
  /\ inside' = [inside EXCEPT ![s] = Entered(s)]
  /\ UNCHANGED <<threadVars, search_mutex_counter, mainVars, left, son, slot, counted,
                 torn>>

\* Mutation: a search does not count itself out.
CountNever(s) == 0
Count(s) == IF counted[s] THEN 1 ELSE 0

\* The search leaves the subtree, and counts itself out if it is counted.
Leave(s) ==
  /\ spc[s] = "search" /\ (counted[s] => ~flagHeld)
  /\ spc' = [spc EXCEPT ![s] = "done"]
  /\ search_mutex_counter' = search_mutex_counter - Count(s)
  /\ counted' = [counted EXCEPT ![s] = FALSE]
  /\ son' = [son EXCEPT ![s] = Unread] /\ slot' = [slot EXCEPT ![s] = Unread]
  /\ inside' = [inside EXCEPT ![s] = Nowhere]
  /\ torn' = [torn EXCEPT ![s] = FALSE]
  /\ UNCHANGED <<threadVars, mainVars, left>>

\* What a searcher does of itself once its search has begun.
Search(s) ==
  \/ LoadSon(s) \/ LoadSlot(s) \/ GoOn(s) \/ MustCount(s)
  \/ CountIn(s) \/ Enter(s) \/ Leave(s)

SearchNext ==
  \/ RebuildThread \/ NodeThread
  \/ \E s \in Searchers : StartSearch(s) \/ Search(s)

SearchSpec == SearchInit /\ [][SearchNext]_allVars

\* Searches and range searches end; the rebuild thread goes on.  It polls the
\* count every microsecond and gets search_flag_mutex in turn, so it finds the
\* count zero and the mutex free sooner or later if they are so again and
\* again: between two searches, and while the map is changed, they are.
SearchFairness ==
  /\ SF_allVars(RebuildThread)
  /\ WF_allVars(EndRange)
  /\ \A s \in Searchers : WF_allVars(Search(s))

FairSearchSpec == SearchSpec /\ SearchFairness

-----------------------------------------------------------------------------
(* Properties *)

Places == {"rest", "closeCopy", "copy", "build", "swap", "reopen", "clear",
           "delete"}

\* Types.  The count is -1 or the number of some searchers, never below.
SearchTypeOK ==
  /\ tree \in Trees /\ freed \subseteq Trees
  /\ Rebuild_Ptr \in BOOLEAN /\ atRoot \in BOOLEAN
  /\ search_mutex_counter \in -1..Cardinality(Searchers)
  /\ flagHeld \in BOOLEAN
  /\ pc \in Places
  /\ phase \in {"change", "range", "search"}
  /\ ranged \in Trees \cup {Nowhere}
  /\ left \in [Searchers -> 0..Share]
  /\ spc \in [Searchers -> {"done", "look", "wait", "enter", "search"}]
  /\ son \in [Searchers -> Trees \cup {Unread}]
  /\ slot \in [Searchers -> Trees \cup {Unread, Nowhere}]
  /\ inside \in [Searchers -> Trees \cup {Nowhere}]
  /\ counted \in [Searchers -> BOOLEAN]
  /\ torn \in [Searchers -> BOOLEAN]

Counted == {s \in Searchers : counted[s]}
Closed == pc \in {"copy", "swap", "reopen"}

\* The door: the count is -1 exactly while the thread keeps the searches out,
\* and otherwise the number of those inside, although the thread sets it to -1
\* and to 0 without regard to what it was.
DoorKept ==
  search_mutex_counter = IF Closed THEN -1 ELSE Cardinality(Counted)

\* The subtree whose labels and pointers the rebuild thread is working on.
WorkedOn == IF pc \in {"copy", "swap"} THEN {tree} ELSE {}

\* No nearest search is in a subtree while it is copied or taken out, or after
\* it has been deleted, whether it has counted itself or found that it need
\* not: at least as long as the two loads of the test see the same pointer.
SearchersSafe ==
  \A s \in Searchers :
    spc[s] = "search" /\ ~torn[s] => inside[s] \notin freed \cup WorkedOn

\* The door is kept and it keeps the searches safe.
SearchExclusion == DoorKept /\ SearchersSafe

\* A rebuild that was requested is made, and a search that waits at the door
\* gets in: neither side starves the other.
NeitherStarves ==
  /\ Rebuild_Ptr ~> ~Rebuild_Ptr
  /\ \A s \in Searchers : spc[s] = "wait" ~> spc[s] = "search"

\* "Lock Search": while the thread copies or replaces the subtree, no search is
\* in it, the range searches of Add_Points included.  This is false, see README.md.
SearchLocked == ranged \notin WorkedOn

(* What makes SearchExclusion inductive *)

\* Nobody is past the door while it is closed.
ClosedEmpty == Closed => Counted = {}

\* Only searches that are past the door are counted, and they are in the
\* subtree that is in place; searches begin and end within one phase.
PlacesAgree ==
  \A s \in Searchers :
    /\ counted[s] => spc[s] \in {"enter", "search"}
    /\ spc[s] = "enter" => counted[s]
    /\ spc[s] # "done" \/ left[s] > 0 => phase = "search"
    /\ spc[s] = "search" /\ counted[s] /\ ~torn[s] => inside[s] = tree

\* Rebuild_Ptr is set from the request to the swap, and a rebuild that was
\* requested is within the bound.
PtrAgrees ==
  /\ pc \notin {"rest", "delete"} => Rebuild_Ptr
  /\ pc = "delete" => ~Rebuild_Ptr
  /\ pc \in {"reopen", "clear", "delete"} => tree > 0
  /\ Rebuild_Ptr /\ pc \notin {"reopen", "clear"} => tree < MaxRebuilds

\* Subtrees are deleted after they have been replaced.
FreedAreOld == \A t \in freed : t < tree

\* The subtree in place will not be replaced in this phase.
Settled == ~Rebuild_Ptr \/ pc \in {"reopen", "clear"}

\* A search begins with nothing loaded.  A pointer it has loaded differs from
\* the one in place only after the swap; a search that went on uncounted went into a subtree that stays.
LoadsAgree ==
  \A s \in Searchers :
    /\ spc[s] = "done" => son[s] = Unread /\ slot[s] = Unread
    /\ spc[s] = "look" /\ son[s] # Unread /\ son[s] # tree => Settled
    /\ spc[s] = "look" /\ slot[s] # Unread /\ slot[s] # tree => Settled
    /\ spc[s] = "search" /\ ~counted[s] /\ ~torn[s] =>
         inside[s] = tree /\ Settled

SearchInv ==
  /\ SearchTypeOK
  /\ DoorKept
  /\ ClosedEmpty
  /\ PlacesAgree
  /\ PtrAgrees
  /\ FreedAreOld
  /\ LoadsAgree
===============================================================================
