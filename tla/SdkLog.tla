--------------------------------- MODULE SdkLog ---------------------------------
(***************************************************************************)
(* The logs that lidars push to the host (sdk_core/logger_handler/):       *)
(* LoggerManager takes the packets on the thread that reads the command    *)
(* sockets and gives each to the LoggerHandler of its lidar, whose thread   *)
(* writes what it took from its queue into files every 100 ms; a thread of  *)
(* the manager removes the oldest files of a type of log when they need    *)
(* more than their share of the disk; and the application shuts all of     *)
(* this down.                                                              *)
(*                                                                         *)
(* A file that is being written has a name that starts with a dot, which   *)
(* is dropped when the file is finished.  The contents of a file are the   *)
(* numbers (trans_index) of its packets.  The packets travel over a        *)
(* network that loses, delays and repeats them.                            *)
(***************************************************************************)
EXTENDS Integers, FiniteSets, SequencesExt

CONSTANTS
  Lidars,
  Configs,      \* of the log: [enable, cache], cache in MB
  PacketsPerMb,
  LeftOver,     \* files an earlier run of the program left
  Pushing,      \* what a lidar may be at when the program starts
  MaxTime,      \* bound: seconds
  MaxPackets,   \* bound: packets pushed
  MaxLate,      \* bound: packets on their way at once
  MaxFaults     \* bound: files that cannot be made

ASSUME BoundAssumption ==
  /\ MaxTime \in Nat /\ MaxPackets \in Nat /\ MaxLate \in Nat /\ MaxFaults \in Nat
  /\ PacketsPerMb \in Nat \ {0}

\* kLivoxLidarRealTimeLog and kLivoxLidarExceptionLog
Types == {0, 1}

\* A file of a lidar of this run or of an earlier one, and how its packets should be.
Files ==
  [lidar : Lidars \cup {f.lidar : f \in UNION LeftOver}, type : Types, time : Nat,
   index : Int, shown : BOOLEAN, data : Seq(Int)]
Ordered(data) == \A i \in 1 .. Len(data) - 1 : data[i] <= data[i + 1]

Sources == [index : Int, trans : Int, open : BOOLEAN]

ASSUME TypeAssumption ==
  /\ Configs \subseteq [enable : BOOLEAN, cache : Nat]
  /\ LeftOver \subseteq SUBSET Files
  /\ Pushing \subseteq [Types -> Sources]

VARIABLES
  app,          \* where the application's call is
  limit,        \* max_realtimelog_cache_size_ and max_exceptionlog_cache_size_
  log_enable_,
  cycle,        \* the deleting thread: where it is, and the files it listed
  devices_info_,
  handlers_,    \* of each lidar that has one
  disk,         \* the files under lidar_log/
  now,
  source,       \* the last packet a lidar pushed of each
  sent, late,   \* packets pushed, and those on their way
  down,         \* whether the program has crashed
  owed,         \* history: packets that came in order for a file that was created
  inOrder,      \* history: lidars none of whose packets was overtaken or repeated
  broken,       \* history: files that could not be made
  lateCreate    \* history: whether a file was asked for while shutting down

host == <<app, limit, log_enable_>>
lidars == <<source, sent>>
network == <<late, inOrder>>
vars == <<host, cycle, devices_info_, handlers_, disk, now, lidars, network, down, owed,
          broken, lateCreate>>

-----------------------------------------------------------------------------
(* Files *)

\* GetDirTotalSize and GetFileNames of the directory of a type.
FilesOf(t) == {f \in disk : f.type = t}
Size(t) == FoldSet(LAMBDA f, s : Len(f.data) + s, 0, FilesOf(t))
Named(t) == {f \in FilesOf(t) : f.shown}
TooLarge(t) == FilesOf(t) # {} /\ Size(t) > limit[t]

\* Which file it is, whether finished or not: its name without the dot.
NameOf(f) == <<f.lidar, f.type, f.time, f.index>>

\* ChangeCurrentFileName: the dot goes, and so does a file that had the name.
Rename(files, name) ==
  {f \in files : NameOf(f) # name} \cup
  IF \E f \in files : NameOf(f) = name /\ ~f.shown
  THEN {[f EXCEPT !.shown = TRUE] : f \in {g \in files : NameOf(g) = name /\ ~g.shown}}
  ELSE {f \in files : NameOf(f) = name}

\* ChangeHiddenFiles: every file that was left unfinished.
RenameAll(files) ==
  {f \in files : f.shown /\ ~\E g \in files : ~g.shown /\ NameOf(g) = NameOf(f)} \cup
  {[f EXCEPT !.shown = TRUE] : f \in {g \in files : ~g.shown}}

\* fopen with "ab", then fwrite.
Append1(files, name, n) ==
  LET open == {f \in files : NameOf(f) = name /\ ~f.shown}
  IN  (files \ open) \cup
      IF open # {} THEN {[f EXCEPT !.data = Append(@, n)] : f \in open}
      ELSE {[lidar |-> name[1], type |-> name[2], time |-> name[3], index |-> name[4],
             shown |-> FALSE, data |-> <<n>>]}

-----------------------------------------------------------------------------
(* LoggerHandler *)

\* A handler: what waits, what its thread took, and CurrentFileInfo.
NewHandler ==
  [queue_ |-> <<>>, queue |-> <<>>, is_stop_write_ |-> FALSE, joined |-> FALSE,
   files |-> [t \in Types |-> [fp |-> FALSE, time |-> 0, index |-> 0, trans |-> 0]]]

CurrentName(l, t) ==
  LET file == handlers_[l].files[t] IN <<l, t, file.time, file.index>>

\* LoggerHandler::StoreLogBag
Stored(l, p) == [handlers_ EXCEPT ![l].queue_ = Append(@, p)]

\* SaveToFile: once in 100 ms, what waits is taken.
Take(l) ==
  /\ ~handlers_[l].is_stop_write_
  /\ handlers_[l].queue = <<>>
  /\ handlers_[l].queue_ # <<>>
  /\ handlers_' = [handlers_ EXCEPT ![l].queue = handlers_[l].queue_, ![l].queue_ = <<>>]
  /\ UNCHANGED <<host, cycle, devices_info_, disk, now, lidars, network, down, owed,
                 broken, lateCreate>>

\* The end of the loop over what was taken.
Written(l, file) ==
  handlers_' = [handlers_ EXCEPT ![l].queue = Tail(@),
                                 ![l].files[Head(handlers_[l].queue).type] = file]

\* GetCurFormatTime, some time after it was last asked.
GetCurFormatTime(s) == s \in now .. MaxTime /\ now' = s

\* CreateFile, where the file can be made, ...
CreateFile(l, p) ==
  LET closed == IF handlers_[l].files[p.type].fp THEN Rename(disk, CurrentName(l, p.type))
                ELSE disk
  IN  /\ p.flag = "create"
      /\ \E s \in now .. MaxTime :
           /\ GetCurFormatTime(s)
           /\ disk' = Append1(closed, <<l, p.type, s, p.index>>, p.trans)
           /\ Written(l, [fp |-> TRUE, time |-> s, index |-> p.index, trans |-> p.trans])
      /\ UNCHANGED broken

\* ... and where fopen fails, or the directory cannot be made before.
CreateFileFails(l, p) ==
  LET file == handlers_[l].files[p.type]
      first == FilesOf(p.type) = {}
  IN  /\ p.flag = "create"
      /\ Cardinality(broken) < MaxFaults
      /\ broken' = broken \cup {<<l, p.type, p.index>>}
      /\ UNCHANGED now
      /\ \/ /\ first
            /\ Written(l, file)
            /\ UNCHANGED disk
         \/ /\ disk' = IF file.fp THEN Rename(disk, CurrentName(l, p.type)) ELSE disk
            /\ Written(l, [fp |-> FALSE, time |-> now, index |-> p.index,
                           trans |-> p.trans])

\* WriteFile; the number of the file is all that is looked at.
WriteFile(l, p) ==
  LET file == handlers_[l].files[p.type]
  IN  /\ p.flag = "transfer"
      /\ UNCHANGED <<now, broken>>
      /\ \/ /\ file.index # p.index
            /\ Written(l, file)
            /\ UNCHANGED disk
         \/ /\ file.index = p.index
            /\ Written(l, [file EXCEPT !.trans = p.trans])
            /\ disk' = IF file.fp THEN Append1(disk, CurrentName(l, p.type), p.trans)
                       ELSE disk

\* StopFile
StopFile(l, p) ==
  LET file == handlers_[l].files[p.type]
  IN  /\ p.flag = "end"
      /\ disk' = IF file.fp THEN Rename(disk, CurrentName(l, p.type)) ELSE disk
      /\ Written(l, [file EXCEPT !.fp = FALSE, !.trans = p.trans])
      /\ UNCHANGED <<now, broken>>

\* Mutation: a packet older than the last one is written all the same.
StaleNever(l) == FALSE

\* Write goes on to the next packet without taking this one off: for ever.
Stale(l) ==
  /\ handlers_[l].queue # <<>>
  /\ LET p == Head(handlers_[l].queue)
     IN  p.trans < handlers_[l].files[p.type].trans /\ p.flag # "create"

Write(l) ==
  /\ handlers_[l].queue # <<>>
  /\ ~Stale(l)
  /\ LET p == Head(handlers_[l].queue)
     IN  CreateFile(l, p) \/ CreateFileFails(l, p) \/ WriteFile(l, p) \/ StopFile(l, p)
  /\ UNCHANGED <<host, cycle, devices_info_, lidars, network, down, owed, lateCreate>>

Writer(l) == l \in DOMAIN handlers_ /\ (Take(l) \/ Write(l))

-----------------------------------------------------------------------------
(* LoggerManager::Handler, on the thread that reads the command sockets *)

\* mutex_ is the deleting thread's except while that waits.
MutexFree == cycle.pc \in {"off", "wait", "done"}

\* What is due to be in a file if packets keep their order.
Owed(l, p) ==
  IF \/ p.flag = "create"
     \/ /\ p.flag = "transfer"
        /\ \E o \in owed : /\ o.lidar = l /\ o.type = p.type /\ o.index = p.index
                           /\ o.flag = "create"
  THEN {[lidar |-> l, type |-> p.type, index |-> p.index, trans |-> p.trans,
         flag |-> p.flag]}
  ELSE {}

\* OnLoggerCreate: a lidar that was not detected has no handler to store with.
OnLoggerCreate(l, p) ==
  /\ p.flag = "create"
  /\ \/ /\ l \in DOMAIN handlers_
        /\ handlers_' = Stored(l, p)
        /\ UNCHANGED down
     \/ /\ l \notin DOMAIN handlers_ /\ l \in devices_info_
        /\ handlers_' = [k \in DOMAIN handlers_ \cup {l} |->
                           IF k = l THEN [NewHandler EXCEPT !.queue_ = <<p>>]
                           ELSE handlers_[k]]
        /\ UNCHANGED down
     \/ /\ l \notin DOMAIN handlers_ /\ l \notin devices_info_
        /\ down' = TRUE
        /\ UNCHANGED handlers_
  /\ lateCreate' = (lateCreate \/ app \in {"handlers", "stopall", "show", "disable"})

\* OnLoggerStopped wakes the deleting thread, for which it needs the lock.
OnLoggerStopped(l, p) ==
  /\ p.flag = "end"
  /\ IF l \in DOMAIN handlers_ THEN MutexFree /\ handlers_' = Stored(l, p)
     ELSE UNCHANGED handlers_
  /\ UNCHANGED <<down, lateCreate>>

OnLoggerTransfer(l, p) ==
  /\ p.flag = "transfer"
  /\ handlers_' = IF l \in DOMAIN handlers_ THEN Stored(l, p) ELSE handlers_
  /\ UNCHANGED <<down, lateCreate>>

Handler(l, p) ==
  \/ /\ ~log_enable_
     /\ UNCHANGED <<handlers_, down, owed, lateCreate>>
  \/ /\ log_enable_
     /\ OnLoggerCreate(l, p) \/ OnLoggerStopped(l, p) \/ OnLoggerTransfer(l, p)
     /\ owed' = owed \cup Owed(l, p)

-----------------------------------------------------------------------------
(* Lidars and the network *)

Packet(t, i, n, f) == [type |-> t, index |-> i, trans |-> n, flag |-> f]

\* The packets a lidar may push next of a type.  It begins a file whenever it likes:
\* an earlier program may have asked for it, and what StartLogger and StopLogger
\* send may be lost.
NextPackets(l, t) ==
  LET s == source[l][t]
  IN  IF s.open
      THEN {Packet(t, s.index, s.trans + 1, f) : f \in {"transfer", "end"}}
      ELSE {Packet(t, s.index + 1, n, "create") : n \in {0, s.trans + 1}}

Pushed(l, p) ==
  /\ sent < MaxPackets
  /\ sent' = sent + 1
  /\ source' = [source EXCEPT ![l][p.type] = [index |-> p.index, trans |-> p.trans,
                                              open |-> p.flag # "end"]]

Kept(l, p) == Cardinality(late) < MaxLate /\ late' = late \cup {<<l, p>>}

\* A packet that comes at once, and may come again ...
Push(l, p) ==
  /\ Pushed(l, p)
  /\ Handler(l, p)
  /\ UNCHANGED late \/ Kept(l, p)
  /\ UNCHANGED <<host, cycle, devices_info_, disk, now, inOrder, broken>>

\* ... one that is lost or comes later ...
PushAway(l, p) ==
  /\ Pushed(l, p)
  /\ UNCHANGED late \/ Kept(l, p)
  /\ UNCHANGED <<host, cycle, devices_info_, handlers_, disk, now, inOrder, down, owed,
                 broken, lateCreate>>

\* ... and one that comes now.
ComesLate(l, p) ==
  /\ <<l, p>> \in late
  /\ late' = late \ {<<l, p>>}
  /\ inOrder' = inOrder \ {l}
  /\ Handler(l, p)
  /\ UNCHANGED <<host, cycle, devices_info_, disk, now, lidars, broken>>

Lidar(l) ==
  \/ \E t \in Types : \E p \in NextPackets(l, t) : Push(l, p) \/ PushAway(l, p)
  \/ \E e \in late : e[1] = l /\ ComesLate(l, e[2])

-----------------------------------------------------------------------------
(* LoggerManager::CycleDelete *)

Cycle(pc, t, list) == [pc |-> pc, type |-> t, list |-> list]

\* A directory is listed if it is too large.
Look(t) ==
  IF TooLarge(t) THEN Cycle("remove", t, Named(t)) ELSE Cycle("after", t, {})

\* Woken by the end of a file or of the program, or after ten minutes.
Wake ==
  /\ cycle.pc = "wait"
  /\ cycle' = Look(0)
  /\ UNCHANGED <<disk, owed>>

\* The first file of the list, whose key is the time in its name.
RemoveOldest ==
  /\ cycle.pc = "remove" /\ Size(cycle.type) > limit[cycle.type]
  /\ \E f \in cycle.list :
       /\ \A g \in cycle.list : f.time <= g.time
       /\ cycle' = [cycle EXCEPT !.list = @ \ {f}]
       /\ disk' = disk \ {g \in disk : g.shown /\ NameOf(g) = NameOf(f)}
       /\ owed' = {o \in owed : <<o.lidar, o.type, o.index>> # <<f.lidar, f.type, f.index>>}

Enough ==
  /\ cycle.pc = "remove"
  /\ Size(cycle.type) <= limit[cycle.type] \/ cycle.list = {}
  /\ cycle' = Cycle("after", cycle.type, {})
  /\ UNCHANGED <<disk, owed>>

\* The other type, or the next round if log_cycle_delete_enable_ still says so.
NextRound == Cycle(IF app = "on" THEN "wait" ELSE "done", 0, {})

\* Mutation: only the logs of type 0 are looked after.
AfterRealtime ==
  /\ cycle.pc = "after"
  /\ cycle' = NextRound
  /\ UNCHANGED <<disk, owed>>

After ==
  /\ cycle.pc = "after"
  /\ cycle' = IF cycle.type = 0 THEN Look(1) ELSE NextRound
  /\ UNCHANGED <<disk, owed>>

CycleDelete ==
  /\ Wake \/ RemoveOldest \/ Enough \/ After
  /\ UNCHANGED <<host, devices_info_, handlers_, now, lidars, network, down, broken,
                 lateCreate>>

-----------------------------------------------------------------------------
(* The application, and detection *)

\* Sizes are 32 bits wide, and a MB is 2^20 bytes: a share of 4096 MB is none.
Wide(mb) == mb % 4096
Limits(cache) ==
  IF cache > 800 THEN [t \in Types |-> IF t = 0 THEN Wide(cache - 200) ELSE 200]
  ELSE [t \in Types |-> IF t = 0 THEN (cache * 3) \div 4 ELSE cache \div 4]

Usable(cache) == cache > 0 /\ cache <= 1000000000

\* LoggerManager::Init, with no log to keep, ...
InitDisabled ==
  /\ app = "off"
  /\ \E c \in Configs : ~c.enable \/ ~Usable(c.cache)
  /\ app' = "on"
  /\ UNCHANGED <<limit, log_enable_, cycle, disk>>

\* ... where the directory can neither be reached nor made, ...
InitFails ==
  /\ app = "off"
  /\ MaxFaults > 0
  /\ app' = "failed"
  /\ log_enable_' = TRUE
  /\ UNCHANGED <<limit, cycle, disk>>

\* ... and with one.
InitEnabled ==
  /\ app = "off"
  /\ \E c \in Configs :
       /\ c.enable /\ Usable(c.cache)
       /\ limit' = [t \in Types |-> Limits(c.cache)[t] * PacketsPerMb]
  /\ app' = "on"
  /\ log_enable_' = TRUE
  /\ disk' = RenameAll(disk)
  /\ cycle' = Cycle("wait", 0, {})

Start ==
  /\ InitDisabled \/ InitFails \/ InitEnabled
  /\ UNCHANGED <<devices_info_, handlers_, now, lidars, network, down, owed, broken,
                 lateCreate>>

\* AddDevice, when a lidar answers the search for it.
AddDevice(l) ==
  /\ app \notin {"off", "failed"}
  /\ l \notin devices_info_
  /\ devices_info_' = devices_info_ \cup {l}
  /\ UNCHANGED <<host, cycle, handlers_, disk, now, lidars, network, down, owed, broken,
                 lateCreate>>

-----------------------------------------------------------------------------
(* LoggerManager::Destory *)

\* log_cycle_delete_enable_ is cleared, and the deleting thread woken.
StopCycle ==
  /\ app = "on" /\ MutexFree
  /\ app' = "cycle"
  /\ UNCHANGED <<handlers_, disk, log_enable_>>

JoinCycle ==
  /\ app = "cycle" /\ cycle.pc \in {"off", "done"}
  /\ app' = "handlers"
  /\ UNCHANGED <<handlers_, disk, log_enable_>>

\* Mutation: the thread writes on until nothing waits.
StopHandlerUnset(l) ==
  /\ app = "handlers"
  /\ l \in DOMAIN handlers_ /\ ~handlers_[l].is_stop_write_
  /\ UNCHANGED <<handlers_, app, disk, log_enable_>>

\* LoggerHandler::Destory: of one handler after the other, the thread is stopped ...
StopHandler(l) ==
  /\ app = "handlers"
  /\ l \in DOMAIN handlers_ /\ ~handlers_[l].is_stop_write_
  /\ \A k \in DOMAIN handlers_ : handlers_[k].is_stop_write_ => handlers_[k].joined
  /\ handlers_' = [handlers_ EXCEPT ![l].is_stop_write_ = TRUE]
  /\ UNCHANGED <<app, disk, log_enable_>>

AllClosed(files) == [t \in Types |-> [files[t] EXCEPT !.fp = FALSE]]

\* ... and joined when it has written what it took, and the files are closed.
JoinHandler(l) ==
  /\ app = "handlers"
  /\ l \in DOMAIN handlers_ /\ handlers_[l].is_stop_write_ /\ ~handlers_[l].joined
  /\ handlers_[l].queue = <<>>
  /\ handlers_' = [handlers_ EXCEPT ![l].joined = TRUE, ![l].files = AllClosed(@)]
  /\ UNCHANGED <<app, disk, log_enable_>>

ClearHandlers ==
  /\ app = "handlers"
  /\ \A l \in DOMAIN handlers_ : handlers_[l].joined
  /\ handlers_' = <<>>
  /\ app' = "stopall"
  /\ UNCHANGED <<disk, log_enable_>>

\* StopAllLogger asks the lidars to end the log of type 0, which they may never hear.
StopAllLogger ==
  /\ app = "stopall"
  /\ app' = "show"
  /\ UNCHANGED <<handlers_, disk, log_enable_>>

\* Mutation: the files are left as they are.
ShowHiddenNone == /\ app = "show" /\ app' = "disable" /\ UNCHANGED <<handlers_, disk, log_enable_>>

ShowHidden ==
  /\ app = "show"
  /\ disk' = IF log_enable_ THEN RenameAll(disk) ELSE disk
  /\ app' = "disable"
  /\ UNCHANGED <<handlers_, log_enable_>>

\* ... and is_destroy_ is set, for good.
Disable ==
  /\ app = "disable"
  /\ log_enable_' = FALSE
  /\ app' = "done"
  /\ UNCHANGED <<handlers_, disk>>

Destory ==
  /\ \/ StopCycle \/ JoinCycle
     \/ \E l \in Lidars : StopHandler(l) \/ JoinHandler(l)
     \/ ClearHandlers \/ StopAllLogger \/ ShowHidden \/ Disable
  /\ UNCHANGED <<limit, cycle, devices_info_, now, lidars, network, down, owed,
                 broken, lateCreate>>

-----------------------------------------------------------------------------
Init ==
  /\ app = "off" /\ log_enable_ = FALSE
  /\ limit = [t \in Types |-> (IF t = 0 THEN 150 ELSE 50) * PacketsPerMb]
  /\ cycle = Cycle("off", 0, {})
  /\ devices_info_ = {} /\ handlers_ = <<>>
  /\ disk \in LeftOver /\ now = 1
  /\ source \in [Lidars -> Pushing]
  /\ sent = 0 /\ late = {} /\ down = FALSE
  /\ owed = {} /\ inOrder = Lidars /\ broken = {} /\ lateCreate = FALSE

Next ==
  /\ ~down
  /\ \/ Start \/ CycleDelete \/ Destory
     \/ \E l \in Lidars :
          \/ AddDevice(l) \/ Writer(l)
          \/ app \notin {"off", "failed"} /\ Lidar(l)

Spec == Init /\ [][Next]_vars

\* Threads run, and the shutdown does once it was asked for; nothing is said of
\* lidars, of the network or of the application.
FairSpec ==
  /\ Spec
  /\ WF_vars(~down /\ CycleDelete)
  /\ WF_vars(~down /\ app # "on" /\ Destory)
  /\ \A l \in Lidars : WF_vars(~down /\ Writer(l))

-----------------------------------------------------------------------------
(* Properties *)

LogPackets ==
  [type : Types, index : Int, trans : Int, flag : {"create", "transfer", "end"}]

Handlers ==
  [queue_ : Seq(LogPackets), queue : Seq(LogPackets), is_stop_write_ : BOOLEAN,
   joined : BOOLEAN,
   files : [Types -> [fp : BOOLEAN, time : Nat, index : Int, trans : Int]]]

\* Types.
TypeOK ==
  /\ app \in {"off", "failed", "on", "cycle", "handlers", "stopall", "show", "disable",
             "done"}
  /\ limit \in [Types -> Nat] /\ log_enable_ \in BOOLEAN
  /\ cycle \in [pc : {"off", "wait", "remove", "after", "done"}, type : Types,
                list : SUBSET Files]
  /\ devices_info_ \subseteq Lidars
  /\ DOMAIN handlers_ \subseteq Lidars /\ handlers_ \in [DOMAIN handlers_ -> Handlers]
  /\ disk \subseteq Files /\ now \in Nat
  /\ source \in [Lidars -> [Types -> Sources]] /\ sent \in Nat
  /\ late \subseteq Lidars \X LogPackets /\ down \in BOOLEAN
  /\ owed \subseteq [lidar : Lidars, type : Types, index : Int, trans : Int,
                    flag : {"create", "transfer"}]
  /\ inOrder \subseteq Lidars /\ broken \subseteq Lidars \X Types \X Int
  /\ lateCreate \in BOOLEAN

\* However packets are delayed or repeated, a file never holds a packet before
\* one that the lidar had pushed earlier into it, and one of an earlier run stays as it
\* was left (if a file is asked for during the shutdown, a new handler may go on with
\* one that was left open in the same second).
IsLeft(f) == \E g \in UNION LeftOver : NameOf(g) = NameOf(f) /\ g.data = f.data
LogInOrder == ~lateCreate => \A f \in disk : IsLeft(f) \/ Ordered(f.data)

Waits(o) ==
  /\ o.lidar \in DOMAIN handlers_
  /\ LET h == handlers_[o.lidar]
     IN  \E i \in DOMAIN (h.queue \o h.queue_) :
           (h.queue \o h.queue_)[i] = Packet(o.type, o.index, o.trans, o.flag)

\* A packet taken from a lidar whose packets keep their order (and which was told
\* that it was taken) waits for the writing thread or is in its file, unless that
\* could not be made or was removed to free space.
TakenIsLogged ==
  (app = "on" /\ ~down) =>
    \A o \in owed :
      (o.lidar \in inOrder /\ <<o.lidar, o.type, o.index>> \notin broken) =>
        \/ Waits(o)
        \/ \E f \in disk : /\ <<f.lidar, f.type, f.index>> = <<o.lidar, o.type, o.index>>
                           /\ \E i \in DOMAIN f.data : f.data[i] = o.trans

\* What a lidar gives away is logged, and in its order.
LogFaithful == LogInOrder /\ TakenIsLogged

\* When the shutdown is over no file has its name hidden, unless a lidar began one
\* while the shutdown was under way.
FilesShown ==
  (app = "done" /\ cycle.pc = "done" /\ ~lateCreate) => \A f \in disk : f.shown

\* Logs that need more than their share are removed until they do not, or until
\* only unfinished ones are left.
SpaceFreed ==
  \A t \in Types :
    (app = "on" /\ log_enable_ /\ TooLarge(t) /\ Named(t) # {}) ~>
      (~TooLarge(t) \/ Named(t) = {} \/ app # "on" \/ down)

\* A shutdown ends, unless a writing thread has met a packet older than the last
\* one it wrote, with which it stays for ever.
ShutdownEnds ==
  (app = "cycle") ~> (app = "done" \/ down \/ \E l \in DOMAIN handlers_ : Stale(l))
================================================================================
