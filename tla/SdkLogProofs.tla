------------------------------ MODULE SdkLogProofs ------------------------------
(***************************************************************************)
(* Proofs about SdkLog, for any lidars, configurations, files an earlier   *)
(* run has left, and numbers of packets, faults and seconds: the variables *)
(* keep their types; a file never holds a packet before one that the lidar *)
(* had pushed earlier into it, and a packet taken from a lidar whose       *)
(* packets keep their order waits or is in its file; and no file has its   *)
(* name hidden when the log has been shut down.                            *)
(***************************************************************************)
EXTENDS SdkLog, SequenceTheorems, TLAPS

FileRec == [fp : BOOLEAN, time : Nat, index : Int, trans : Int]

-----------------------------------------------------------------------------
(* Files *)

\* A renamed file is one that there was, and only those of another name are still hidden.
LEMMA RenameFrom ==
  ASSUME NEW files \in SUBSET Files, NEW name, NEW g \in Rename(files, name)
  PROVE  /\ g \in Files
         /\ \E f \in files : /\ g.data = f.data /\ NameOf(g) = NameOf(f)
                             /\ g = f \/ (g.shown /\ NameOf(f) = name)
         /\ ~g.shown => g \in files /\ NameOf(g) # name
<1>1. CASE g \in files
  <2>1. ~g.shown => NameOf(g) # name
    <3> SUFFICES ASSUME ~g.shown, NameOf(g) = name PROVE FALSE
      OBVIOUS
    <3>1. \E f \in files : NameOf(f) = name /\ ~f.shown
      BY <1>1
    <3>2. PICK f \in files : g = [f EXCEPT !.shown = TRUE]
      BY <3>1 DEF Rename
    <3> QED BY <3>2 DEF Files
  <2> QED BY <1>1, <2>1
<1>2. CASE g \notin files
  <2>1. PICK f \in files : g = [f EXCEPT !.shown = TRUE] /\ NameOf(f) = name
    BY <1>2 DEF Rename
  <2>2. /\ g \in Files /\ g.shown /\ g.data = f.data
        /\ NameOf(g) = NameOf(f)
    BY <2>1 DEF Files, NameOf
  <2> QED BY <2>1, <2>2
<1> QED BY <1>1, <1>2

\* A file that is not replaced is there afterwards, as it was or with its name.
Renamed(from, to, name) ==
  \A f \in from :
    NameOf(f) # name \/ ~f.shown =>
      \E g \in to : /\ g.data = f.data /\ NameOf(g) = NameOf(f)
                    /\ g = f \/ (g.shown /\ NameOf(f) = name)

LEMMA RenameKeeps ==
  ASSUME NEW files \in SUBSET Files, NEW name
  PROVE  Renamed(files, Rename(files, name), name)
<1> SUFFICES ASSUME NEW f \in files, NameOf(f) # name \/ ~f.shown
             PROVE  \E g \in Rename(files, name) :
                      /\ g.data = f.data /\ NameOf(g) = NameOf(f)
                      /\ g = f \/ (g.shown /\ NameOf(f) = name)
  BY DEF Renamed
<1>1. CASE NameOf(f) # name
  BY <1>1 DEF Rename
<1>2. CASE NameOf(f) = name /\ ~f.shown
  <2>1. [f EXCEPT !.shown = TRUE] \in Rename(files, name)
    BY <1>2 DEF Rename
  <2>2. LET g == [f EXCEPT !.shown = TRUE]
        IN  g.data = f.data /\ NameOf(g) = NameOf(f) /\ g.shown
    BY DEF Files, NameOf
  <2> QED BY <1>2, <2>1, <2>2
<1> QED BY <1>1, <1>2

LEMMA RenameAllFrom ==
  ASSUME NEW files \in SUBSET Files, NEW g \in RenameAll(files)
  PROVE  g \in Files /\ g.shown /\ \E f \in files : g.data = f.data /\ NameOf(g) = NameOf(f)
<1>1. CASE g \in files /\ g.shown
  BY <1>1
<1>2. CASE ~(g \in files /\ g.shown)
  <2>1. g \in {[f EXCEPT !.shown = TRUE] : f \in {h \in files : ~h.shown}}
    BY <1>2 DEF RenameAll
  <2>2. PICK f \in files : g = [f EXCEPT !.shown = TRUE]
    BY <2>1
  <2>3. f \in Files
    OBVIOUS
  <2>4. g \in Files /\ g.shown /\ g.data = f.data /\ NameOf(g) = NameOf(f)
    BY <2>2, <2>3 DEF Files, NameOf
  <2> QED BY <2>4
<1> QED BY <1>1, <1>2

Names == Lidars \X Types \X Nat \X Int

\* Of what Append1 leaves, a file that was not there is the open one with one more packet.
LEMMA AppendFrom ==
  ASSUME NEW files \in SUBSET Files, NEW name \in Names, NEW n \in Int,
         NEW g \in Append1(files, name, n)
  PROVE  /\ g \in Files
         /\ g \in files \/ /\ ~g.shown /\ NameOf(g) = name
                           /\ \/ g.data = <<n>>
                              \/ \E f \in files : /\ ~f.shown /\ NameOf(f) = name
                                                  /\ g.data = Append(f.data, n)
<1> DEFINE open == {f \in files : NameOf(f) = name /\ ~f.shown}
<1>1. CASE open # {} /\ g \notin files
  <2>1. PICK f \in open : g = [f EXCEPT !.data = Append(@, n)]
    BY <1>1 DEF Append1
  <2>2. f.data \in Seq(Int) /\ f \in Files
    BY DEF Files
  <2>3. Append(f.data, n) \in Seq(Int)
    BY <2>2
  <2>4. g \in Files /\ ~g.shown /\ NameOf(g) = NameOf(f) /\ g.data = Append(f.data, n)
    BY <2>1, <2>2, <2>3 DEF Files, NameOf
  <2> QED BY <2>4
<1>2. CASE open = {} /\ g \notin files
  <2>1. g = [lidar |-> name[1], type |-> name[2], time |-> name[3], index |-> name[4],
             shown |-> FALSE, data |-> <<n>>]
    BY <1>2 DEF Append1
  <2>2. <<n>> \in Seq(Int)
    OBVIOUS
  <2>3. /\ name[1] \in Lidars /\ name[2] \in Types /\ name[3] \in Nat /\ name[4] \in Int
        /\ name = <<name[1], name[2], name[3], name[4]>>
    BY DEF Names
  <2> QED BY <2>1, <2>2, <2>3 DEF Files, NameOf
<1>3. CASE g \in files
  BY <1>3
<1> QED BY <1>1, <1>2, <1>3

\* Nothing is lost by it, and the packet is in an open file.
Grown(from, to) ==
  \A f \in from : \E g \in to : /\ NameOf(g) = NameOf(f) /\ g.shown = f.shown
                                /\ \A k \in DOMAIN f.data :
                                     k \in DOMAIN g.data /\ g.data[k] = f.data[k]
InFile(to, name, n) ==
  \E g \in to : NameOf(g) = name /\ ~g.shown /\ \E k \in DOMAIN g.data : g.data[k] = n

LEMMA AppendKeeps ==
  ASSUME NEW files \in SUBSET Files, NEW name \in Names, NEW n \in Int
  PROVE  Grown(files, Append1(files, name, n)) /\ InFile(Append1(files, name, n), name, n)
<1> DEFINE new == Append1(files, name, n)
           open == {f \in files : NameOf(f) = name /\ ~f.shown}
           More(f) == [f EXCEPT !.data = Append(@, n)]
<1>1. \A f \in files : f \notin open => f \in new
  BY DEF Append1
<1>2. ASSUME NEW f \in open
      PROVE  /\ More(f) \in new
             /\ NameOf(More(f)) = name /\ ~More(f).shown
             /\ More(f).data = Append(f.data, n)
             /\ \A k \in DOMAIN f.data : k \in DOMAIN More(f).data /\ More(f).data[k] = f.data[k]
             /\ \E k \in DOMAIN More(f).data : More(f).data[k] = n
  <2>1. More(f) \in new
    BY DEF Append1
  <2>2. f \in Files /\ f.data \in Seq(Int)
    BY DEF Files
  <2>3. NameOf(More(f)) = name /\ ~More(f).shown /\ More(f).data = Append(f.data, n)
    BY <2>2 DEF Files, NameOf
  <2>4. /\ \A k \in DOMAIN f.data :
             k \in DOMAIN Append(f.data, n) /\ Append(f.data, n)[k] = f.data[k]
        /\ Len(f.data) + 1 \in DOMAIN Append(f.data, n)
        /\ Append(f.data, n)[Len(f.data) + 1] = n
    BY <2>2
  <2> QED BY <2>1, <2>3, <2>4
<1>3. ASSUME NEW f \in files
      PROVE  \E g \in new : /\ NameOf(g) = NameOf(f) /\ g.shown = f.shown
                            /\ \A k \in DOMAIN f.data :
                                 k \in DOMAIN g.data /\ g.data[k] = f.data[k]
  <2>1. CASE f \in open
    <3>0. f \in Files /\ ~f.shown
      BY <2>1
    <3>1. f.shown = FALSE /\ More(f).shown = FALSE
      BY <3>0 DEF Files
    <3>2. NameOf(More(f)) = NameOf(f)
      BY <2>1, <1>2
    <3> HIDE DEF More, new, open
    <3> QED BY <2>1, <3>1, <3>2, <1>2
  <2>2. CASE f \notin open
    BY <2>2, <1>1
  <2> QED BY <2>1, <2>2
<1>4. \E g \in new : /\ NameOf(g) = name /\ ~g.shown
                     /\ \E k \in DOMAIN g.data : g.data[k] = n
  <2>1. CASE open # {}
    BY <2>1, <1>2
  <2>2. CASE open = {}
    <3> DEFINE g == [lidar |-> name[1], type |-> name[2], time |-> name[3],
                     index |-> name[4], shown |-> FALSE, data |-> <<n>>]
    <3>1. g \in new
      BY <2>2 DEF Append1
    <3>2. name = <<name[1], name[2], name[3], name[4]>>
      BY DEF Names
    <3>4. NameOf(g) = name /\ ~g.shown /\ g.data = <<n>>
      BY <3>2 DEF NameOf
    <3>3. 1 \in DOMAIN <<n>> /\ <<n>>[1] = n
      OBVIOUS
    <3> QED BY <3>1, <3>3, <3>4
  <2> QED BY <2>1, <2>2
<1> QED BY <1>3, <1>4 DEF Grown, InFile

-----------------------------------------------------------------------------
(* Handlers *)

HandlersTyped ==
  DOMAIN handlers_ \subseteq Lidars /\ handlers_ \in [DOMAIN handlers_ -> Handlers]

\* What the end of a round of Write changes.
LEMMA WrittenChanges ==
  ASSUME HandlersTyped, NEW l \in DOMAIN handlers_, handlers_[l].queue # <<>>,
         NEW file \in FileRec, Written(l, file)
  PROVE  LET h == handlers_[l]
             g == handlers_'[l]
         IN  /\ HandlersTyped' /\ DOMAIN handlers_' = DOMAIN handlers_
             /\ \A k \in DOMAIN handlers_ : k # l => handlers_'[k] = handlers_[k]
             /\ Head(h.queue) \in LogPackets
             /\ g.queue = Tail(h.queue) /\ g.queue_ = h.queue_
             /\ g.is_stop_write_ = h.is_stop_write_ /\ g.joined = h.joined
             /\ g.files = [h.files EXCEPT ![Head(h.queue).type] = file]
<1> DEFINE h == handlers_[l]
           t == Head(h.queue).type
           g == [h EXCEPT !.queue = Tail(@), !.files[t] = file]
<1>1. h \in Handlers /\ l \in Lidars
  BY DEF HandlersTyped
<1>2. Head(h.queue) \in LogPackets /\ Tail(h.queue) \in Seq(LogPackets)
  BY <1>1 DEF Handlers
<1>3. t \in Types
  BY <1>2 DEF LogPackets
<1>4. /\ g.queue = Tail(h.queue) /\ g.queue_ = h.queue_
      /\ g.is_stop_write_ = h.is_stop_write_ /\ g.joined = h.joined
      /\ g.files = [h.files EXCEPT ![t] = file]
      /\ g \in Handlers
  BY <1>1, <1>2, <1>3 DEF Handlers, FileRec
<1>5. handlers_' = [handlers_ EXCEPT ![l] = g]
  BY DEF Written
<1> HIDE DEF g, h
<1> QED BY <1>1, <1>2, <1>4, <1>5 DEF HandlersTyped, h, t

\* LoggerHandler::StoreLogBag puts a packet behind the others.
LEMMA StoredChanges ==
  ASSUME HandlersTyped, NEW l \in DOMAIN handlers_, NEW p \in LogPackets,
         handlers_' = Stored(l, p)
  PROVE  LET h == handlers_[l]
             g == handlers_'[l]
         IN  /\ HandlersTyped' /\ DOMAIN handlers_' = DOMAIN handlers_
             /\ \A k \in DOMAIN handlers_ : k # l => handlers_'[k] = handlers_[k]
             /\ g.queue = h.queue /\ g.queue_ = Append(h.queue_, p)
             /\ g.is_stop_write_ = h.is_stop_write_ /\ g.joined = h.joined
             /\ g.files = h.files
<1> DEFINE h == handlers_[l]
           g == [h EXCEPT !.queue_ = Append(@, p)]
<1>1. h \in Handlers /\ l \in Lidars
  BY DEF HandlersTyped
<1>2. Append(h.queue_, p) \in Seq(LogPackets)
  BY <1>1 DEF Handlers
<1>4. /\ g.queue = h.queue /\ g.queue_ = Append(h.queue_, p)
      /\ g.is_stop_write_ = h.is_stop_write_ /\ g.joined = h.joined
      /\ g.files = h.files
      /\ g \in Handlers
  BY <1>1, <1>2 DEF Handlers
<1>5. handlers_' = [handlers_ EXCEPT ![l] = g]
  BY DEF Stored
<1> HIDE DEF g, h
<1> QED BY <1>1, <1>2, <1>4, <1>5 DEF HandlersTyped, h

Made(l, p) ==
  [k \in DOMAIN handlers_ \cup {l} |->
     IF k = l THEN [NewHandler EXCEPT !.queue_ = <<p>>] ELSE handlers_[k]]

\* A new handler has the packet for which it is made, and no file.
LEMMA NewChanges ==
  ASSUME HandlersTyped, NEW l \in Lidars, l \notin DOMAIN handlers_, NEW p \in LogPackets,
         handlers_' = Made(l, p)
  PROVE  LET g == handlers_'[l]
         IN  /\ HandlersTyped' /\ DOMAIN handlers_' = DOMAIN handlers_ \cup {l}
             /\ \A k \in DOMAIN handlers_ : handlers_'[k] = handlers_[k]
             /\ g.queue = <<>> /\ g.queue_ = <<p>>
             /\ g.is_stop_write_ = FALSE /\ g.joined = FALSE
             /\ \A t \in Types : g.files[t].fp = FALSE
<1> DEFINE g == [NewHandler EXCEPT !.queue_ = <<p>>]
<1>1. <<p>> \in Seq(LogPackets) /\ <<>> \in Seq(LogPackets)
  OBVIOUS
<1>2. /\ g.queue = <<>> /\ g.queue_ = <<p>>
      /\ g.is_stop_write_ = FALSE /\ g.joined = FALSE
      /\ \A t \in Types : g.files[t].fp = FALSE
      /\ g \in Handlers
  <2> DEFINE none == [t \in Types |-> [fp |-> FALSE, time |-> 0, index |-> 0, trans |-> 0]]
  <2>1. none \in [Types -> FileRec] /\ \A t \in Types : none[t].fp = FALSE
    BY DEF FileRec
  <2>2. NewHandler = [queue_ |-> <<>>, queue |-> <<>>, is_stop_write_ |-> FALSE,
                      joined |-> FALSE, files |-> none]
    BY DEF NewHandler
  <2> HIDE DEF none
  <2>3. NewHandler \in Handlers
    BY <1>1, <2>1, <2>2 DEF Handlers, FileRec
  <2> QED BY <1>1, <2>1, <2>2, <2>3 DEF Handlers
<1> HIDE DEF g
<1>3. handlers_' = [k \in DOMAIN handlers_ \cup {l} |-> IF k = l THEN g ELSE handlers_[k]]
  BY DEF g, Made
<1>4. HandlersTyped'
  BY <1>2, <1>3 DEF HandlersTyped
<1> QED BY <1>2, <1>3, <1>4 DEF g

\* What Write does, packet by packet: the handler's file, the files, those that could
\* not be made.
Closed(l, t) ==
  IF handlers_[l].files[t].fp THEN Rename(disk, CurrentName(l, t)) ELSE disk

LEMMA WriteCases ==
  ASSUME TypeOK, NEW l \in DOMAIN handlers_, Write(l)
  PROVE  LET p == Head(handlers_[l].queue)
             old == handlers_[l].files[p.type]
         IN  /\ handlers_[l].queue # <<>> /\ p \in LogPackets
             /\ \E new \in FileRec :
                  /\ Written(l, new)
                  /\ \/ /\ p.flag = "create" /\ new.time \in Nat
                        /\ new.fp /\ new.index = p.index /\ new.trans = p.trans
                        /\ disk' = Append1(Closed(l, p.type),
                                           <<l, p.type, new.time, p.index>>, p.trans)
                        /\ now' \in Nat /\ broken' = broken
                     \/ /\ p.flag = "create" /\ broken' = broken \cup {<<l, p.type, p.index>>}
                        /\ now' = now
                        /\ \/ new = old /\ disk' = disk
                           \/ ~new.fp /\ disk' = Closed(l, p.type)
                     \/ /\ p.flag = "transfer" /\ now' = now /\ broken' = broken
                        /\ old.index # p.index /\ new = old /\ disk' = disk
                     \/ /\ p.flag = "transfer" /\ now' = now /\ broken' = broken
                        /\ old.index = p.index /\ p.trans >= old.trans
                        /\ new = [old EXCEPT !.trans = p.trans]
                        /\ disk' = IF old.fp
                                   THEN Append1(disk, <<l, p.type, old.time, old.index>>, p.trans)
                                   ELSE disk
                     \/ /\ p.flag = "end" /\ now' = now /\ broken' = broken
                        /\ ~new.fp /\ disk' = Closed(l, p.type)
<1> DEFINE h == handlers_[l]
           p == Head(h.queue)
           old == h.files[p.type]
<1>1. h \in Handlers /\ now \in Nat
  BY DEF TypeOK
<1>2. h.queue # <<>> /\ p \in LogPackets
  BY <1>1 DEF Write, Handlers
<1>3. p.type \in Types /\ p.index \in Int /\ p.trans \in Int
  BY <1>2 DEF LogPackets
<1>4. old \in FileRec
  BY <1>1, <1>3 DEF Handlers, FileRec
<1>5. CASE CreateFile(l, p)
  <2>1. PICK s \in now .. MaxTime :
          /\ now' = s
          /\ disk' = Append1(Closed(l, p.type), <<l, p.type, s, p.index>>, p.trans)
          /\ Written(l, [fp |-> TRUE, time |-> s, index |-> p.index, trans |-> p.trans])
          /\ p.flag = "create" /\ broken' = broken
    BY <1>5 DEF CreateFile, Closed, GetCurFormatTime
  <2> DEFINE new == [fp |-> TRUE, time |-> s, index |-> p.index, trans |-> p.trans]
  <2>2. s \in Nat
    BY <1>1, BoundAssumption
  <2>3. new \in FileRec
    BY <1>3, <2>2 DEF FileRec
  <2>4. new.fp /\ new.time = s /\ new.index = p.index /\ new.trans = p.trans
    OBVIOUS
  <2> HIDE DEF new
  <2> QED BY <1>2, <2>1, <2>2, <2>3, <2>4 DEF new
<1>6. CASE CreateFileFails(l, p)
  <2> DEFINE shut == [fp |-> FALSE, time |-> now, index |-> p.index, trans |-> p.trans]
  <2>1. shut \in FileRec /\ ~shut.fp
    BY <1>1, <1>3 DEF FileRec
  <2>2. /\ p.flag = "create" /\ now' = now
        /\ broken' = broken \cup {<<l, p.type, p.index>>}
        /\ \/ Written(l, old) /\ disk' = disk
           \/ Written(l, shut) /\ disk' = Closed(l, p.type)
    BY <1>6 DEF CreateFileFails, Closed
  <2> HIDE DEF shut
  <2> QED BY <1>2, <1>4, <2>1, <2>2
<1>7. CASE WriteFile(l, p)
  <2>1. [old EXCEPT !.trans = p.trans] \in FileRec
    BY <1>3, <1>4 DEF FileRec
  <2>2. /\ p.flag = "transfer" /\ now' = now /\ broken' = broken
        /\ \/ old.index # p.index /\ Written(l, old) /\ disk' = disk
           \/ /\ old.index = p.index /\ Written(l, [old EXCEPT !.trans = p.trans])
              /\ disk' = IF old.fp THEN Append1(disk, CurrentName(l, p.type), p.trans)
                         ELSE disk
    BY <1>7 DEF WriteFile
  <2>3. p.trans >= old.trans
    BY <1>2, <1>3, <1>4, <2>2 DEF Write, Stale, FileRec
  <2>4. CurrentName(l, p.type) = <<l, p.type, old.time, old.index>>
    BY DEF CurrentName
  <2> HIDE DEF old
  <2> QED BY <1>2, <1>4, <2>1, <2>2, <2>3, <2>4 DEF old
<1>8. CASE StopFile(l, p)
  <2> DEFINE shut == [old EXCEPT !.fp = FALSE, !.trans = p.trans]
  <2>1. shut \in FileRec /\ ~shut.fp
    BY <1>3, <1>4 DEF FileRec
  <2>2. /\ p.flag = "end" /\ now' = now /\ broken' = broken
        /\ Written(l, shut) /\ disk' = Closed(l, p.type)
    BY <1>8 DEF StopFile, Closed
  <2> HIDE DEF shut
  <2> QED BY <1>2, <2>1, <2>2
<1> QED BY <1>5, <1>6, <1>7, <1>8 DEF Write

-----------------------------------------------------------------------------
(* Types *)

LEMMA ClosedType ==
  ASSUME TypeOK, NEW l \in DOMAIN handlers_, NEW t \in Types
  PROVE  Closed(l, t) \in SUBSET Files
<1>1. disk \in SUBSET Files
  BY DEF TypeOK
<1> QED BY <1>1, RenameFrom DEF Closed

\* What a lidar may push, and what then is the last packet of the type.
LEMMA PacketTypes ==
  ASSUME TypeOK, NEW l \in Lidars, NEW t \in Types, NEW p \in NextPackets(l, t)
  PROVE  /\ p \in LogPackets /\ p.type = t
         /\ \/ /\ p.flag \in {"transfer", "end"} /\ source[l][t].open
               /\ p.index = source[l][t].index
            \/ p.flag = "create" /\ ~source[l][t].open /\ p.index = source[l][t].index + 1
<1> DEFINE s == source[l][t]
<1>1. s.index \in Int /\ s.trans \in Int /\ s.open \in BOOLEAN
  BY DEF TypeOK, Sources
<1>2. CASE s.open
  BY <1>1, <1>2 DEF NextPackets, Packet, LogPackets
<1>3. CASE ~s.open
  <2>1. PICK n \in {0, s.trans + 1} : p = Packet(t, s.index + 1, n, "create")
    BY <1>3 DEF NextPackets
  <2>2. n \in Int
    BY <1>1, <2>1
  <2> QED BY <1>1, <1>3, <2>1, <2>2 DEF Packet, LogPackets
<1> QED BY <1>2, <1>3

LEMMA HandlerType ==
  ASSUME TypeOK, NEW l \in Lidars, NEW p \in LogPackets, Handler(l, p)
  PROVE  /\ HandlersTyped'
         /\ owed' \subseteq [lidar : Lidars, type : Types, index : Int, trans : Int,
                             flag : {"create", "transfer"}]
         /\ down' \in BOOLEAN /\ lateCreate' \in BOOLEAN
<1>1. HandlersTyped
  BY DEF TypeOK, HandlersTyped
<1>2. HandlersTyped'
  <2>1. CASE handlers_' = handlers_
    BY <1>1, <2>1 DEF HandlersTyped
  <2>2. CASE l \in DOMAIN handlers_ /\ handlers_' = Stored(l, p)
    BY <1>1, <2>2, StoredChanges
  <2>3. CASE l \notin DOMAIN handlers_ /\ handlers_' # handlers_
    BY <1>1, <2>3, NewChanges
       DEF Handler, OnLoggerCreate, OnLoggerStopped, OnLoggerTransfer, Made
  <2> QED BY <2>1, <2>2, <2>3 DEF Handler, OnLoggerCreate, OnLoggerStopped, OnLoggerTransfer
<1>3. owed' \subseteq owed \cup Owed(l, p) /\ down' \in BOOLEAN /\ lateCreate' \in BOOLEAN
  BY DEF Handler, OnLoggerCreate, OnLoggerStopped, OnLoggerTransfer, TypeOK
<1>4. Owed(l, p) \subseteq [lidar : Lidars, type : Types, index : Int, trans : Int,
                            flag : {"create", "transfer"}]
  BY DEF Owed, LogPackets
<1> QED BY <1>2, <1>3, <1>4 DEF TypeOK

LEMMA PushedType ==
  ASSUME TypeOK, NEW l \in Lidars, NEW p \in LogPackets, Pushed(l, p)
  PROVE  source' \in [Lidars -> [Types -> Sources]] /\ sent' \in Nat
<1>1. p.type \in Types /\ p.index \in Int /\ p.trans \in Int
  BY DEF LogPackets
<1>2. [index |-> p.index, trans |-> p.trans, open |-> p.flag # "end"] \in Sources
  BY <1>1 DEF Sources
<1> QED BY <1>1, <1>2 DEF Pushed, TypeOK

LEMMA LimitsType ==
  ASSUME NEW c \in Nat
  PROVE  Limits(c) \in [Types -> Nat]
BY DEF Limits, Wide, Types

LEMMA InitType == Init => TypeOK
<1> SUFFICES ASSUME Init PROVE TypeOK
  OBVIOUS
<1>1. limit \in [Types -> Nat]
  BY BoundAssumption DEF Init
<1>2. HandlersTyped
  BY DEF Init, HandlersTyped
<1>3. disk \subseteq Files
  BY TypeAssumption DEF Init
<1>4. source \in [Lidars -> [Types -> Sources]]
  BY TypeAssumption DEF Init
<1>5. cycle \in [pc : {"off", "wait", "remove", "after", "done"}, type : Types,
                 list : SUBSET Files]
  BY DEF Init, Cycle, Types
<1> QED BY <1>1, <1>2, <1>3, <1>4, <1>5 DEF Init, TypeOK, HandlersTyped

LEMMA TypeStep == TypeOK /\ [Next]_vars => TypeOK'
<1> SUFFICES ASSUME TypeOK, [Next]_vars PROVE TypeOK'
  OBVIOUS
<1> USE DEF vars, host, lidars, network
<1>1. HandlersTyped
  BY DEF TypeOK, HandlersTyped
<1>2. CASE Start
  <2>1. limit' \in [Types -> Nat]
    <3>1. CASE limit' = limit
      BY <3>1 DEF TypeOK
    <3>2. CASE InitEnabled
      <4>1. PICK c \in Configs : limit' = [t \in Types |-> Limits(c.cache)[t] * PacketsPerMb]
        BY <3>2 DEF InitEnabled
      <4>2. c.cache \in Nat
        BY TypeAssumption
      <4>3. \A t \in Types : Limits(c.cache)[t] \in Nat
        BY <4>2, LimitsType
      <4>4. \A t \in Types : Limits(c.cache)[t] * PacketsPerMb \in Nat
        BY <4>3, BoundAssumption
      <4> QED BY <4>1, <4>4
    <3> QED BY <1>2, <3>1, <3>2 DEF Start, InitDisabled, InitFails
  <2>2. disk' \subseteq Files
    BY <1>2, RenameAllFrom DEF Start, InitDisabled, InitFails, InitEnabled, TypeOK
  <2>3. cycle' \in [pc : {"off", "wait", "remove", "after", "done"}, type : Types,
                    list : SUBSET Files]
    BY <1>2 DEF Start, InitDisabled, InitFails, InitEnabled, TypeOK, Cycle, Types
  <2>4. app' \in {"on", "failed"} /\ log_enable_' \in {log_enable_, TRUE}
    BY <1>2 DEF Start, InitDisabled, InitFails, InitEnabled
  <2>5. UNCHANGED <<devices_info_, handlers_, now, source, sent, late, inOrder, down, owed,
                    broken, lateCreate>>
    BY <1>2 DEF Start
  <2>6. app' \in {"off", "failed", "on", "cycle", "handlers", "stopall", "show", "disable",
                 "done"} /\ log_enable_' \in BOOLEAN
    BY <2>4 DEF TypeOK
  <2> QED BY <2>1, <2>2, <2>3, <2>4, <2>5, <2>6 DEF TypeOK
<1>3. CASE CycleDelete
  <2>1. disk' \subseteq disk /\ owed' \subseteq owed
    BY <1>3 DEF CycleDelete, Wake, RemoveOldest, Enough, After
  <2>2. \A t \in Types : Look(t) \in [pc : {"remove", "after"}, type : Types, list : SUBSET Files]
    BY DEF Look, Cycle, Named, FilesOf, TypeOK
  <2>3. cycle' \in [pc : {"off", "wait", "remove", "after", "done"}, type : Types,
                    list : SUBSET Files]
    <3>1. CASE Wake \/ After
      BY <3>1, <2>2 DEF Wake, After, NextRound, Cycle, Types
    <3>2. CASE RemoveOldest \/ Enough
      BY <3>2 DEF RemoveOldest, Enough, Cycle, TypeOK
    <3> QED BY <1>3, <3>1, <3>2 DEF CycleDelete
  <2> QED BY <1>3, <2>1, <2>3 DEF CycleDelete, TypeOK
<1>4. CASE Destory
  <2>1. HandlersTyped'
    <3>1. CASE UNCHANGED handlers_
      BY <1>1, <3>1 DEF HandlersTyped
    <3>2. CASE ClearHandlers
      BY <3>2 DEF ClearHandlers, HandlersTyped
    <3>3. ASSUME NEW l \in Lidars, StopHandler(l) \/ JoinHandler(l)
          PROVE  HandlersTyped'
      <4>1. CASE StopHandler(l)
        BY <1>1, <4>1 DEF StopHandler, HandlersTyped, Handlers
      <4>2. CASE JoinHandler(l)
        <5>1. l \in DOMAIN handlers_
          BY <4>2 DEF JoinHandler
        <5>2. handlers_[l] \in Handlers
          BY <1>1, <5>1 DEF HandlersTyped
        <5>3. AllClosed(handlers_[l].files) \in [Types -> FileRec]
          BY <5>2 DEF AllClosed, Handlers, FileRec
        <5>4. handlers_' = [handlers_ EXCEPT ![l].joined = TRUE, ![l].files = AllClosed(@)]
          BY <4>2 DEF JoinHandler
        <5> QED BY <1>1, <5>1, <5>2, <5>3, <5>4 DEF HandlersTyped, Handlers, FileRec
      <4> QED BY <3>3, <4>1, <4>2
    <3> QED BY <1>4, <3>1, <3>2, <3>3
         DEF Destory, StopCycle, JoinCycle, StopAllLogger, ShowHidden, Disable
  <2>2. disk' \subseteq Files
    <3>1. disk' = disk \/ disk' = RenameAll(disk)
      BY <1>4, Zenon DEF Destory, StopCycle, JoinCycle, StopHandler, JoinHandler,
         ClearHandlers, StopAllLogger, ShowHidden, Disable
    <3> QED BY <3>1, RenameAllFrom DEF TypeOK
  <2>3. /\ app' \in {"on", "cycle", "handlers", "stopall", "show", "disable", "done"}
        /\ log_enable_' \in BOOLEAN
    BY <1>4 DEF Destory, StopCycle, JoinCycle, StopHandler, JoinHandler,
       ClearHandlers, StopAllLogger, ShowHidden, Disable, TypeOK
  <2> QED BY <1>4, <2>1, <2>2, <2>3 DEF Destory, TypeOK, HandlersTyped
<1>5. ASSUME NEW l \in Lidars, AddDevice(l)
      PROVE  TypeOK'
  BY <1>5 DEF AddDevice, TypeOK
<1>6. ASSUME NEW l \in DOMAIN handlers_, Take(l)
      PROVE  TypeOK'
  <2>1. HandlersTyped'
    BY <1>1, <1>6 DEF Take, HandlersTyped, Handlers
  <2> QED BY <1>6, <2>1 DEF Take, TypeOK, HandlersTyped
<1>7. ASSUME NEW l \in DOMAIN handlers_, Write(l)
      PROVE  TypeOK'
  <2> DEFINE p == Head(handlers_[l].queue)
             old == handlers_[l].files[p.type]
  <2>1. handlers_[l].queue # <<>> /\ p \in LogPackets /\ p.type \in Types /\ p.index \in Int
        /\ p.trans \in Int /\ l \in Lidars
    BY <1>7, WriteCases DEF LogPackets, TypeOK
  <2>2. PICK new \in FileRec : Written(l, new)
    BY <1>7, WriteCases
  <2>3. HandlersTyped'
    BY <1>1, <2>1, <2>2, WrittenChanges
  <2>4. old \in FileRec
    BY <2>1 DEF TypeOK, Handlers, FileRec
  <2>5. disk \in SUBSET Files /\ Closed(l, p.type) \in SUBSET Files
    BY <2>1, ClosedType DEF TypeOK
  <2>6. /\ now' \in Nat /\ broken' \subseteq Lidars \X Types \X Int
        /\ disk' \subseteq Files
    <3>1. \A s \in Nat : Append1(Closed(l, p.type), <<l, p.type, s, p.index>>, p.trans)
                           \subseteq Files
      <4>1. \A s \in Nat : <<l, p.type, s, p.index>> \in Names
        BY <2>1 DEF Names
      <4> QED BY <2>1, <2>5, <4>1, AppendFrom
    <3>2. Append1(disk, <<l, p.type, old.time, old.index>>, p.trans) \subseteq Files
      <4>1. <<l, p.type, old.time, old.index>> \in Names
        BY <2>1, <2>4 DEF Names, FileRec
      <4> QED BY <2>1, <2>5, <4>1, AppendFrom
    <3>3. now \in Nat /\ broken \subseteq Lidars \X Types \X Int
          /\ broken \cup {<<l, p.type, p.index>>} \subseteq Lidars \X Types \X Int
      BY <2>1 DEF TypeOK
    <3> HIDE DEF p, old
    <3> QED BY <1>7, <2>5, <3>1, <3>2, <3>3, WriteCases DEF p, old
  <2> QED BY <1>7, <2>3, <2>6 DEF Write, TypeOK, HandlersTyped
<1>8. ASSUME NEW l \in Lidars, Lidar(l)
      PROVE  TypeOK'
  <2>1. ASSUME NEW t \in Types, NEW p \in NextPackets(l, t), Push(l, p) \/ PushAway(l, p)
        PROVE  TypeOK'
    <3>1. p \in LogPackets
      BY PacketTypes
    <3>2. source' \in [Lidars -> [Types -> Sources]] /\ sent' \in Nat
      BY <2>1, <3>1, PushedType DEF Push, PushAway
    <3>3. late' \subseteq Lidars \X LogPackets
      BY <2>1, <3>1 DEF Push, PushAway, Kept, TypeOK
    <3>4. CASE Push(l, p)
      BY <3>1, <3>2, <3>3, <3>4, HandlerType DEF Push, TypeOK, HandlersTyped
    <3>5. CASE PushAway(l, p)
      BY <3>2, <3>3, <3>5 DEF PushAway, TypeOK
    <3> QED BY <2>1, <3>4, <3>5
  <2>2. ASSUME NEW e \in late, ComesLate(l, e[2])
        PROVE  TypeOK'
    <3>1. e[2] \in LogPackets
      BY DEF TypeOK
    <3>2. /\ HandlersTyped'
          /\ owed' \subseteq [lidar : Lidars, type : Types, index : Int, trans : Int,
                              flag : {"create", "transfer"}]
          /\ down' \in BOOLEAN /\ lateCreate' \in BOOLEAN
      BY <2>2, <3>1, HandlerType DEF ComesLate
    <3> QED BY <2>2, <3>2 DEF ComesLate, TypeOK, HandlersTyped
  <2> QED BY <1>8, <2>1, <2>2 DEF Lidar
<1>9. CASE UNCHANGED vars
  BY <1>9 DEF TypeOK
<1> QED BY <1>2, <1>3, <1>4, <1>5, <1>6, <1>7, <1>8, <1>9 DEF Next, Writer

\* Handlers, files and packets keep their types, whatever comes over the network.
THEOREM TypeCorrect == Spec => []TypeOK
BY InitType, TypeStep, PTL DEF Spec
-----------------------------------------------------------------------------
(* What makes the properties inductive *)

\* While the log is shut down: handlers go for good, and so do hidden names, unless
\* a lidar begins a file.
ShutInv ==
  /\ app \in {"off", "failed"} => DOMAIN handlers_ = {} /\ cycle.pc = "off"
  /\ cycle.pc # "off" /\ app # "done" => log_enable_
  /\ app \in {"off", "done"} => ~log_enable_
  /\ app \in {"stopall", "show", "disable", "done"} /\ ~lateCreate => DOMAIN handlers_ = {}
  /\ app \in {"disable", "done"} /\ ~lateCreate /\ cycle.pc # "off" =>
       \A f \in disk : f.shown

\* What the manager does with a packet.
LEMMA HandlerCases ==
  ASSUME NEW l \in Lidars, NEW p \in LogPackets, Handler(l, p)
  PROVE  \/ UNCHANGED <<handlers_, down, owed, lateCreate>>
         \/ /\ log_enable_ /\ owed' = owed \cup Owed(l, p)
            /\ p.flag # "create" => lateCreate' = lateCreate
            /\ p.flag = "create" =>
                 lateCreate' = (lateCreate \/ app \in {"handlers", "stopall", "show", "disable"})
            /\ \/ l \in DOMAIN handlers_ /\ handlers_' = Stored(l, p) /\ down' = down
               \/ /\ l \notin DOMAIN handlers_ /\ p.flag = "create"
                  /\ handlers_' = Made(l, p) /\ down' = down
               \/ l \notin DOMAIN handlers_ /\ handlers_' = handlers_ /\ down'
               \/ /\ l \notin DOMAIN handlers_ /\ p.flag # "create"
                  /\ handlers_' = handlers_ /\ down' = down
<1>1. CASE ~log_enable_
  BY <1>1 DEF Handler
<1>2. CASE log_enable_ /\ OnLoggerCreate(l, p)
  BY <1>2 DEF Handler, OnLoggerCreate, OnLoggerStopped, OnLoggerTransfer, Made
<1>3. CASE log_enable_ /\ OnLoggerStopped(l, p)
  BY <1>3 DEF Handler, OnLoggerCreate, OnLoggerStopped, OnLoggerTransfer
<1>4. CASE log_enable_ /\ OnLoggerTransfer(l, p)
  BY <1>4 DEF Handler, OnLoggerCreate, OnLoggerStopped, OnLoggerTransfer
<1> QED BY <1>1, <1>2, <1>3, <1>4 DEF Handler

LEMMA ShutInit == Init => ShutInv
BY DEF Init, ShutInv, Cycle

LEMMA ShutStep == TypeOK /\ ShutInv /\ [Next]_vars => ShutInv'
<1> SUFFICES ASSUME TypeOK, ShutInv, [Next]_vars PROVE ShutInv'
  OBVIOUS
<1> USE DEF vars, host, lidars, network
<1>1. CASE Start
  BY <1>1 DEF Start, InitDisabled, InitFails, InitEnabled, ShutInv, Cycle
<1>2. CASE CycleDelete
  <2>1. cycle.pc # "off" /\ disk' \subseteq disk /\ UNCHANGED <<app, log_enable_, handlers_, lateCreate>>
    BY <1>2 DEF CycleDelete, Wake, RemoveOldest, Enough, After
  <2> QED BY <2>1 DEF ShutInv
<1>3. CASE Destory
  <2>1. CASE ShowHidden
    <3>1. app = "show" /\ app' = "disable" /\ disk' = IF log_enable_ THEN RenameAll(disk) ELSE disk
      BY <2>1 DEF ShowHidden
    <3>2. UNCHANGED <<handlers_, cycle, log_enable_, lateCreate>>
      BY <1>3, <2>1 DEF Destory, ShowHidden
    <3>3. \A f \in RenameAll(disk) : f.shown
      BY RenameAllFrom DEF TypeOK
    <3> QED BY <3>1, <3>2, <3>3 DEF ShutInv
  <2>2. CASE StopCycle \/ JoinCycle \/ ClearHandlers \/ StopAllLogger \/ Disable
    BY <1>3, <2>2 DEF Destory, StopCycle, JoinCycle, ClearHandlers, StopAllLogger, Disable,
       ShutInv
  <2>3. CASE \E l \in Lidars : StopHandler(l) \/ JoinHandler(l)
    BY <1>3, <2>3 DEF Destory, StopHandler, JoinHandler, ShutInv
  <2> QED BY <1>3, <2>1, <2>2, <2>3 DEF Destory
<1>4. ASSUME NEW l \in Lidars, AddDevice(l)
      PROVE  ShutInv'
  BY <1>4 DEF AddDevice, ShutInv
<1>5. ASSUME NEW l \in DOMAIN handlers_, Take(l) \/ Write(l)
      PROVE  ShutInv'
  <2>1. DOMAIN handlers_' = DOMAIN handlers_ /\ DOMAIN handlers_ # {}
    BY <1>5 DEF Take, Write, CreateFile, CreateFileFails, WriteFile, StopFile, Written
  <2>2. UNCHANGED <<app, cycle, log_enable_, lateCreate>>
    BY <1>5 DEF Take, Write
  <2> QED BY <2>1, <2>2 DEF ShutInv
<1>6. ASSUME NEW l \in Lidars, app \notin {"off", "failed"}, Lidar(l)
      PROVE  ShutInv'
  <2>1. UNCHANGED <<app, cycle, log_enable_, disk>>
    BY <1>6 DEF Lidar, Push, PushAway, ComesLate
  <2>2. ASSUME NEW p \in LogPackets, Handler(l, p)
        PROVE  ShutInv'
    <3>1. handlers_' = handlers_ /\ (lateCreate => lateCreate') => ShutInv'
      BY <2>1 DEF ShutInv
    <3>2. DOMAIN Stored(l, p) = DOMAIN handlers_
      BY DEF Stored
    <3>3. log_enable_ /\ DOMAIN handlers_' = DOMAIN handlers_ /\ (lateCreate => lateCreate')
          => ShutInv'
      BY <2>1 DEF ShutInv
    <3>4. log_enable_ /\ lateCreate' = (lateCreate \/ app \in {"handlers", "stopall", "show", "disable"})
          => ShutInv'
      BY <1>6, <2>1 DEF ShutInv
    <3> QED BY <2>2, <3>1, <3>2, <3>3, <3>4, HandlerCases
  <2>3. CASE UNCHANGED <<handlers_, lateCreate>>
    BY <2>1, <2>3 DEF ShutInv
  <2>4. ASSUME NEW t \in Types, NEW p \in NextPackets(l, t), Push(l, p) \/ PushAway(l, p)
        PROVE  ShutInv'
    <3>1. p \in LogPackets
      BY PacketTypes
    <3> QED BY <2>2, <2>3, <2>4, <3>1 DEF Push, PushAway
  <2>5. ASSUME NEW e \in late, ComesLate(l, e[2])
        PROVE  ShutInv'
    <3>1. e[2] \in LogPackets
      BY DEF TypeOK
    <3> QED BY <2>2, <2>5, <3>1 DEF ComesLate
  <2> QED BY <1>6, <2>4, <2>5 DEF Lidar
<1>7. CASE UNCHANGED vars
  BY <1>7 DEF ShutInv
<1> QED BY <1>1, <1>2, <1>3, <1>4, <1>5, <1>6, <1>7 DEF Next, Writer

\* FilesShown: when the log is shut down, and no file was begun meanwhile, no file has
\* its name hidden (LoggerManager::Destory, ChangeHiddenFiles).
THEOREM HiddenAreShown == Spec => []FilesShown
<1>1. ShutInv => FilesShown
  BY DEF ShutInv, FilesShown
<1>2. TypeOK /\ ShutInv /\ [Next]_vars => TypeOK' /\ ShutInv'
  BY TypeStep, ShutStep
<1> QED BY InitType, ShutInit, <1>1, <1>2, PTL DEF Spec

-----------------------------------------------------------------------------
(* The order of what is in a file *)

\* A hidden file belongs to a handler that has it open, and ends with the last packet
\* that this has written, or with an older one.
OpenIn(f, l) ==
  LET file == handlers_[l].files[f.type]
  IN  /\ file.fp /\ NameOf(f) = CurrentName(l, f.type) /\ Ordered(f.data)
      /\ \A i \in DOMAIN f.data : f.data[i] <= file.trans

Right(f) == IsLeft(f) \/ Ordered(f.data)

HiddenInv ==
  ~lateCreate =>
    /\ \A f \in disk : Right(f)
    /\ log_enable_ /\ app \in {"on", "cycle"} =>
         \A f \in disk : ~f.shown => f.lidar \in DOMAIN handlers_
    /\ \A l \in DOMAIN handlers_ :
         /\ handlers_[l].joined => handlers_[l].queue = <<>> /\ handlers_[l].is_stop_write_
         /\ ~handlers_[l].joined => \A f \in disk : ~f.shown /\ f.lidar = l => OpenIn(f, l)

LEMMA OrderedAppend ==
  ASSUME NEW data \in Seq(Int), NEW m \in Int, NEW n \in Int, m <= n,
         Ordered(data), \A i \in DOMAIN data : data[i] <= m
  PROVE  Ordered(Append(data, n)) /\ \A i \in DOMAIN Append(data, n) : Append(data, n)[i] <= n
<1>1. /\ Len(Append(data, n)) = Len(data) + 1 /\ Len(data) \in Nat
      /\ \A i \in 1 .. Len(data) : Append(data, n)[i] = data[i] /\ data[i] <= n /\ data[i] \in Int
      /\ Append(data, n)[Len(data) + 1] = n
  OBVIOUS
<1>2. \A i \in DOMAIN Append(data, n) : Append(data, n)[i] <= n
  BY <1>1
<1>3. ASSUME NEW i \in 1 .. Len(data)
      PROVE  Append(data, n)[i] <= Append(data, n)[i + 1]
  BY <1>1 DEF Ordered
<1> QED BY <1>1, <1>2, <1>3 DEF Ordered

\* Once the file that a handler had open is renamed, it has no hidden one of the type.
LEMMA ClosedFrom ==
  ASSUME TypeOK, HiddenInv, ~lateCreate, NEW l \in DOMAIN handlers_, ~handlers_[l].joined,
         NEW t \in Types, NEW g \in Closed(l, t)
  PROVE  /\ g \in Files /\ \E f \in disk : g.data = f.data /\ NameOf(g) = NameOf(f)
         /\ ~g.shown => g \in disk /\ ~(g.lidar = l /\ g.type = t)
<1>1. disk \in SUBSET Files
  BY DEF TypeOK
<1>2. CASE handlers_[l].files[t].fp
  <2>1. g \in Rename(disk, CurrentName(l, t))
    BY <1>2 DEF Closed
  <2>2. /\ g \in Files /\ \E f \in disk : g.data = f.data /\ NameOf(g) = NameOf(f)
        /\ ~g.shown => g \in disk /\ NameOf(g) # CurrentName(l, t)
    BY <1>1, <2>1, RenameFrom
  <2>3. g \in disk /\ ~g.shown /\ g.lidar = l /\ g.type = t => NameOf(g) = CurrentName(l, t)
    BY DEF HiddenInv, OpenIn
  <2> QED BY <2>2, <2>3
<1>3. CASE ~handlers_[l].files[t].fp
  <2>1. g \in disk
    BY <1>3 DEF Closed
  <2>2. ~g.shown /\ g.lidar = l /\ g.type = t => FALSE
    BY <1>3, <2>1 DEF HiddenInv, OpenIn
  <2> QED BY <1>1, <2>1, <2>2
<1> QED BY <1>2, <1>3

\* The file that a handler is writing.
Fits(g, l, t, file) ==
  /\ NameOf(g) = <<l, t, file.time, file.index>> /\ file.fp /\ Ordered(g.data)
  /\ \A i \in DOMAIN g.data : g.data[i] <= file.trans

LEMMA AppendHidden ==
  ASSUME NEW files \in SUBSET Files, NEW name \in Names, NEW n \in Int, NEW m \in Int,
         m <= n,
         \A f \in files : ~f.shown /\ NameOf(f) = name =>
                            Ordered(f.data) /\ \A k \in DOMAIN f.data : f.data[k] <= m,
         NEW g \in Append1(files, name, n)
  PROVE  \/ g \in files
         \/ /\ NameOf(g) = name /\ Ordered(g.data)
            /\ \A k \in DOMAIN g.data : g.data[k] <= n
<1>1. CASE g \in files
  BY <1>1
<1>2. CASE g \notin files
  <2>1. /\ ~g.shown /\ NameOf(g) = name
        /\ \/ g.data = <<n>>
           \/ \E f \in files : /\ ~f.shown /\ NameOf(f) = name
                               /\ g.data = Append(f.data, n)
    BY <1>2, AppendFrom
  <2>2. CASE g.data = <<n>>
    BY <2>1, <2>2 DEF Ordered
  <2>3. ASSUME NEW f \in files, ~f.shown, NameOf(f) = name, g.data = Append(f.data, n)
        PROVE  Ordered(g.data) /\ \A k \in DOMAIN g.data : g.data[k] <= n
    <3>1. f.data \in Seq(Int)
      BY DEF Files
    <3> QED BY <2>3, <3>1, OrderedAppend
  <2> QED BY <2>1, <2>2, <2>3
<1> QED BY <1>1, <1>2

LEMMA WriteHidden ==
  ASSUME TypeOK, HiddenInv, NEW l \in DOMAIN handlers_, Write(l)
  PROVE  HiddenInv'
<1> SUFFICES ASSUME ~lateCreate PROVE HiddenInv'
  BY DEF HiddenInv, Write
<1> DEFINE p == Head(handlers_[l].queue)
           t == p.type
           old == handlers_[l].files[t]
<1>1. /\ HandlersTyped /\ l \in Lidars /\ handlers_[l] \in Handlers
      /\ handlers_[l].queue # <<>> /\ p \in LogPackets
  BY WriteCases DEF TypeOK, HandlersTyped
<1>2. t \in Types /\ p.index \in Int /\ p.trans \in Int /\ old \in FileRec
  BY <1>1 DEF LogPackets, Handlers, FileRec
<1>3. ~handlers_[l].joined
  BY <1>1 DEF HiddenInv
<1>4. /\ disk \in SUBSET Files /\ Closed(l, t) \in SUBSET Files
      /\ \A f \in disk : Right(f)
      /\ \A f \in disk : ~f.shown /\ f.lidar = l => OpenIn(f, l)
  BY <1>2, <1>3, ClosedType DEF TypeOK, HiddenInv
<1>5. \A f \in disk : ~f.shown /\ f.lidar = l /\ f.type = t => Fits(f, l, t, old)
  BY <1>4 DEF OpenIn, NameOf, CurrentName, Fits
<1>6. \A g \in Closed(l, t) : /\ Right(g)
                              /\ ~g.shown => g \in disk /\ ~(g.lidar = l /\ g.type = t)
  <2>1. \A g \in Closed(l, t) :
          /\ \E f \in disk : g.data = f.data /\ NameOf(g) = NameOf(f)
          /\ ~g.shown => g \in disk /\ ~(g.lidar = l /\ g.type = t)
    BY <1>2, <1>3, ClosedFrom
  <2> QED BY <1>4, <2>1 DEF Right, IsLeft
<1>7. \E new \in FileRec :
        /\ Written(l, new)
        /\ \A g \in disk' : /\ Right(g)
                            /\ ~g.shown => \/ g \in disk /\ ~(g.lidar = l /\ g.type = t)
                                           \/ Fits(g, l, t, new)
  <2> DEFINE Good(new) ==
        \A g \in disk' : /\ Right(g)
                         /\ ~g.shown => \/ g \in disk /\ ~(g.lidar = l /\ g.type = t)
                                        \/ Fits(g, l, t, new)
  <2>1. PICK new \in FileRec :
          /\ Written(l, new)
          /\ \/ /\ p.flag = "create" /\ new.time \in Nat
                /\ new.fp /\ new.index = p.index /\ new.trans = p.trans
                /\ disk' = Append1(Closed(l, t), <<l, t, new.time, p.index>>, p.trans)
             \/ disk' = disk /\ new = old
             \/ disk' = Closed(l, t)
             \/ /\ p.trans >= old.trans /\ new = [old EXCEPT !.trans = p.trans]
                /\ disk' = IF old.fp
                           THEN Append1(disk, <<l, t, old.time, old.index>>, p.trans)
                           ELSE disk
    BY <1>2, WriteCases
  <2>2. CASE /\ new.time \in Nat
             /\ new.fp /\ new.index = p.index /\ new.trans = p.trans
             /\ disk' = Append1(Closed(l, t), <<l, t, new.time, p.index>>, p.trans)
    <3> DEFINE name == <<l, t, new.time, p.index>>
    <3>1. name \in Names
      BY <1>1, <1>2, <2>2 DEF Names
    <3>2. \A f \in Closed(l, t) : ~f.shown /\ NameOf(f) = name =>
                                    /\ Ordered(f.data)
                                    /\ \A k \in DOMAIN f.data : f.data[k] <= p.trans
      BY <1>6 DEF NameOf
    <3>3. p.trans <= p.trans
      BY <1>2
    <3>4. \A g \in Append1(Closed(l, t), name, p.trans) :
            \/ g \in Closed(l, t)
            \/ /\ NameOf(g) = name /\ Ordered(g.data)
               /\ \A k \in DOMAIN g.data : g.data[k] <= p.trans
      <4> HIDE DEF name, t, p
      <4> QED BY <1>2, <1>4, <3>1, <3>2, <3>3, AppendHidden
    <3>5. Good(new)
      BY <1>6, <2>2, <3>4 DEF Fits, Right
    <3> QED BY <2>1, <3>5
  <2>3. CASE disk' = disk /\ new = old
    BY <1>4, <1>5, <2>1, <2>3
  <2>4. CASE disk' = Closed(l, t)
    BY <1>6, <2>1, <2>4
  <2>5. CASE p.trans >= old.trans /\ new = [old EXCEPT !.trans = p.trans]
    <3>1. /\ new.fp = old.fp /\ new.time = old.time /\ new.index = old.index
          /\ new.trans = p.trans /\ old.trans \in Int /\ old.time \in Nat /\ old.index \in Int
          /\ old.trans <= p.trans
      BY <1>2, <2>5 DEF FileRec
    <3>2. \A f \in disk : ~f.shown /\ f.lidar = l /\ f.type = t => Fits(f, l, t, new)
      <4> SUFFICES ASSUME NEW f \in disk, ~f.shown /\ f.lidar = l /\ f.type = t
                   PROVE  Fits(f, l, t, new)
        OBVIOUS
      <4>1. Fits(f, l, t, old) /\ f.data \in Seq(Int)
        BY <1>4, <1>5 DEF Files
      <4> QED BY <1>2, <3>1, <4>1 DEF Fits
    <3>3. ASSUME NEW g \in Append1(disk, <<l, t, old.time, old.index>>, p.trans), old.fp
          PROVE  g \in disk \/ Fits(g, l, t, new)
      <4> DEFINE name == <<l, t, old.time, old.index>>
      <4>1. \A f \in disk : ~f.shown /\ NameOf(f) = name =>
                              /\ Ordered(f.data)
                              /\ \A k \in DOMAIN f.data : f.data[k] <= old.trans
        BY <1>5 DEF Fits, NameOf
      <4>2. name \in Names /\ g \in Append1(disk, name, p.trans)
        BY <1>1, <1>2, <3>1, <3>3 DEF Names
      <4>3. \/ g \in disk
            \/ /\ NameOf(g) = name /\ Ordered(g.data)
               /\ \A k \in DOMAIN g.data : g.data[k] <= p.trans
        <5> HIDE DEF name, t, p, old
        <5> QED BY <1>2, <1>4, <3>1, <4>1, <4>2, AppendHidden
      <4> QED BY <3>1, <3>3, <4>3 DEF Fits
    <3>4. CASE ~old.fp /\ disk' = disk
      BY <1>4, <2>1, <3>2, <3>4
    <3>5. CASE old.fp /\ disk' = Append1(disk, <<l, t, old.time, old.index>>, p.trans)
      BY <1>4, <2>1, <3>2, <3>3, <3>5 DEF Fits, Right
    <3> QED BY <2>1, <2>2, <2>3, <2>4, <3>4, <3>5
  <2> HIDE DEF Good, p, t, old
  <2> QED BY <2>1, <2>2, <2>3, <2>4, <2>5
<1>8. PICK new \in FileRec :
        /\ Written(l, new)
        /\ \A g \in disk' : /\ Right(g)
                            /\ ~g.shown => \/ g \in disk /\ ~(g.lidar = l /\ g.type = t)
                                           \/ Fits(g, l, t, new)
  BY <1>7
<1>9. /\ DOMAIN handlers_' = DOMAIN handlers_
      /\ \A k \in DOMAIN handlers_ : k # l => handlers_'[k] = handlers_[k]
      /\ handlers_'[l].joined = handlers_[l].joined
      /\ handlers_'[l].files = [handlers_[l].files EXCEPT ![t] = new]
  BY <1>1, <1>8, WrittenChanges
<1>10. handlers_'[l].files[t] = new
       /\ \A u \in Types : u # t => handlers_'[l].files[u] = handlers_[l].files[u]
  BY <1>1, <1>2, <1>9 DEF Handlers
<1>11. UNCHANGED <<app, log_enable_, lateCreate>>
  BY DEF Write, host
<1>12. \A g \in disk' : ~g.shown =>
         \/ g \in disk /\ ~(g.lidar = l /\ g.type = t)
         \/ g.lidar = l /\ g.type = t /\ OpenIn(g, l)'
  BY <1>8, <1>10 DEF Fits, OpenIn, NameOf, CurrentName
<1>13. ASSUME NEW g \in disk, ~g.shown, ~(g.lidar = l /\ g.type = t),
              NEW k \in DOMAIN handlers_, g.lidar = k, OpenIn(g, k)
       PROVE  OpenIn(g, k)'
  <2>1. handlers_'[k].files[g.type] = handlers_[k].files[g.type]
    BY <1>4, <1>9, <1>10, <1>13 DEF Files
  <2> QED BY <1>13, <2>1 DEF OpenIn, NameOf, CurrentName
<1>14. ASSUME NEW k \in DOMAIN handlers_
       PROVE  /\ handlers_'[k].joined = handlers_[k].joined
              /\ handlers_'[k].joined => handlers_'[k].queue = <<>> /\ handlers_'[k].is_stop_write_
  BY <1>3, <1>9 DEF HiddenInv
<1>15. ASSUME NEW k \in DOMAIN handlers_, ~handlers_'[k].joined, NEW g \in disk', ~g.shown,
              g.lidar = k
       PROVE  OpenIn(g, k)'
  <2>1. g \in disk => OpenIn(g, k)
    BY <1>14, <1>15 DEF HiddenInv
  <2> QED BY <1>12, <1>13, <1>15, <2>1
<1>16. log_enable_ /\ app \in {"on", "cycle"} =>
         \A g \in disk' : ~g.shown => g.lidar \in DOMAIN handlers_
  BY <1>12 DEF HiddenInv
<1> QED BY <1>8, <1>9, <1>11, <1>14, <1>15, <1>16 DEF HiddenInv

LEMMA HiddenInit == Init => HiddenInv
BY DEF Init, HiddenInv, Right, IsLeft

\* Only a lidar that has no hidden file gets a new handler.
LEMMA HandlerHidden ==
  ASSUME TypeOK, ShutInv, HiddenInv, app \notin {"off", "failed"},
         NEW l \in Lidars, NEW p \in LogPackets, Handler(l, p),
         UNCHANGED <<app, log_enable_, disk>>
  PROVE  HiddenInv'
<1>1. HandlersTyped
  BY DEF TypeOK, HandlersTyped
<1>2. CASE UNCHANGED <<handlers_, lateCreate>>
  BY <1>2 DEF HiddenInv, OpenIn, CurrentName
<1>3. CASE UNCHANGED handlers_ /\ (lateCreate => lateCreate')
  BY <1>3 DEF HiddenInv, OpenIn, CurrentName
<1>4. CASE l \in DOMAIN handlers_ /\ handlers_' = Stored(l, p) /\ (lateCreate => lateCreate')
  <2>1. /\ DOMAIN handlers_' = DOMAIN handlers_
        /\ \A k \in DOMAIN handlers_ :
             /\ handlers_'[k].queue = handlers_[k].queue
             /\ handlers_'[k].is_stop_write_ = handlers_[k].is_stop_write_
             /\ handlers_'[k].joined = handlers_[k].joined
             /\ handlers_'[k].files = handlers_[k].files
    BY <1>1, <1>4, StoredChanges
  <2> QED BY <1>4, <2>1 DEF HiddenInv, OpenIn, CurrentName
<1>5. CASE /\ l \notin DOMAIN handlers_ /\ handlers_' = Made(l, p) /\ log_enable_
           /\ lateCreate' = (lateCreate \/ app \in {"handlers", "stopall", "show", "disable"})
  <2> SUFFICES ASSUME ~lateCreate' PROVE HiddenInv'
    BY DEF HiddenInv
  <2>1. app \in {"on", "cycle"} /\ ~lateCreate
    BY <1>5 DEF ShutInv, TypeOK
  <2>2. \A f \in disk : ~f.shown => f.lidar # l /\ f.lidar \in DOMAIN handlers_
    BY <1>5, <2>1 DEF HiddenInv
  <2>3. /\ DOMAIN handlers_' = DOMAIN handlers_ \cup {l}
        /\ \A k \in DOMAIN handlers_ : handlers_'[k] = handlers_[k]
        /\ handlers_'[l].joined = FALSE
    BY <1>1, <1>5, NewChanges
  <2>4. ASSUME NEW k \in DOMAIN handlers_'
        PROVE  /\ handlers_'[k].joined => handlers_'[k].queue = <<>> /\ handlers_'[k].is_stop_write_
               /\ ~handlers_'[k].joined => \A f \in disk : ~f.shown /\ f.lidar = k => OpenIn(f, k)'
    <3>1. CASE k = l
      BY <2>2, <2>3, <3>1
    <3>2. CASE k \in DOMAIN handlers_
      BY <2>1, <2>3, <3>2 DEF HiddenInv, OpenIn, CurrentName
    <3> QED BY <2>3, <3>1, <3>2
  <2>5. \A f \in disk : Right(f)
    BY <2>1 DEF HiddenInv
  <2> QED BY <2>2, <2>3, <2>4, <2>5 DEF HiddenInv
<1> QED BY <1>2, <1>3, <1>4, <1>5, HandlerCases

LEMMA HiddenStep == TypeOK /\ ShutInv /\ HiddenInv /\ [Next]_vars => HiddenInv'
<1> SUFFICES ASSUME TypeOK, ShutInv, HiddenInv, [Next]_vars PROVE HiddenInv'
  OBVIOUS
<1> USE DEF vars, host, lidars, network
<1>1. HandlersTyped
  BY DEF TypeOK, HandlersTyped
<1>2. \A f \in RenameAll(disk) : f.shown /\ ((\A g \in disk : Right(g)) => Right(f))
  BY RenameAllFrom DEF TypeOK, Right, IsLeft
<1>3. CASE Start
  <2>1. DOMAIN handlers_ = {} /\ UNCHANGED <<handlers_, lateCreate>>
    BY <1>3 DEF Start, InitDisabled, InitFails, InitEnabled, ShutInv
  <2>2. \/ disk' = disk /\ (log_enable_' = FALSE \/ app' = "failed")
        \/ disk' = RenameAll(disk)
    BY <1>3 DEF Start, InitDisabled, InitFails, InitEnabled, ShutInv
  <2> QED BY <1>2, <2>1, <2>2 DEF HiddenInv
<1>4. CASE CycleDelete
  <2>1. disk' \subseteq disk /\ UNCHANGED <<app, log_enable_, handlers_, lateCreate>>
    BY <1>4 DEF CycleDelete, Wake, RemoveOldest, Enough, After
  <2> QED BY <2>1 DEF HiddenInv, OpenIn, CurrentName
<1>5. CASE Destory
  <2>1. CASE StopCycle \/ JoinCycle \/ StopAllLogger \/ Disable
    <3>1. /\ UNCHANGED <<disk, handlers_, lateCreate>>
          /\ log_enable_' /\ app' \in {"on", "cycle"} => log_enable_ /\ app \in {"on", "cycle"}
      BY <1>5, <2>1 DEF Destory, StopCycle, JoinCycle, StopAllLogger, Disable
    <3> QED BY <3>1 DEF HiddenInv, OpenIn, CurrentName
  <2>2. CASE ClearHandlers
    BY <1>5, <2>2 DEF Destory, ClearHandlers, HiddenInv
  <2>3. CASE ShowHidden
    <3>1. /\ app = "show" /\ app' = "disable" /\ disk' \in {disk, RenameAll(disk)}
          /\ UNCHANGED <<handlers_, log_enable_, lateCreate>>
      BY <1>5, <2>3 DEF Destory, ShowHidden
    <3> QED BY <1>2, <3>1 DEF HiddenInv, OpenIn, CurrentName
  <2>4. ASSUME NEW l \in Lidars, StopHandler(l) \/ JoinHandler(l)
        PROVE  HiddenInv'
    <3>1. l \in DOMAIN handlers_ /\ handlers_[l] \in Handlers
      BY <1>1, <2>4 DEF StopHandler, JoinHandler, HandlersTyped
    <3>2. UNCHANGED <<app, disk, log_enable_, lateCreate>>
      BY <1>5, <2>4 DEF Destory, StopHandler, JoinHandler
    <3>3. CASE StopHandler(l)
      <4>1. /\ DOMAIN handlers_' = DOMAIN handlers_
            /\ \A k \in DOMAIN handlers_ :
                 /\ handlers_'[k].queue = handlers_[k].queue
                 /\ handlers_[k].is_stop_write_ => handlers_'[k].is_stop_write_
                 /\ handlers_'[k].joined = handlers_[k].joined
                 /\ handlers_'[k].files = handlers_[k].files
        BY <1>1, <3>1, <3>3 DEF StopHandler, HandlersTyped, Handlers
      <4> QED BY <3>2, <4>1 DEF HiddenInv, OpenIn, CurrentName
    <3>4. CASE JoinHandler(l)
      <4>1. /\ handlers_[l].is_stop_write_ /\ handlers_[l].queue = <<>>
            /\ handlers_' = [handlers_ EXCEPT ![l].joined = TRUE, ![l].files = AllClosed(@)]
        BY <3>4 DEF JoinHandler
      <4>2. /\ DOMAIN handlers_' = DOMAIN handlers_
            /\ \A k \in DOMAIN handlers_ : k # l => handlers_'[k] = handlers_[k]
            /\ handlers_'[l].joined /\ handlers_'[l].queue = <<>> /\ handlers_'[l].is_stop_write_
        BY <3>1, <4>1 DEF HandlersTyped, Handlers
      <4>3. ASSUME NEW k \in DOMAIN handlers_'
            PROVE  ~lateCreate =>
                   /\ handlers_'[k].joined => handlers_'[k].queue = <<>> /\ handlers_'[k].is_stop_write_
                   /\ ~handlers_'[k].joined => \A f \in disk : ~f.shown /\ f.lidar = k => OpenIn(f, k)'
        BY <3>2, <4>2, <4>3 DEF HiddenInv, OpenIn, CurrentName
      <4> QED BY <3>2, <4>2, <4>3 DEF HiddenInv
    <3> QED BY <2>4, <3>3, <3>4
  <2> QED BY <1>5, <2>1, <2>2, <2>3, <2>4 DEF Destory
<1>6. ASSUME NEW l \in Lidars, AddDevice(l)
      PROVE  HiddenInv'
  BY <1>6 DEF AddDevice, HiddenInv, OpenIn, CurrentName
<1>7. ASSUME NEW l \in DOMAIN handlers_, Take(l)
      PROVE  HiddenInv'
  <2>1. /\ DOMAIN handlers_' = DOMAIN handlers_
        /\ \A k \in DOMAIN handlers_ :
             /\ k # l => handlers_'[k].queue = handlers_[k].queue
             /\ handlers_'[k].is_stop_write_ = handlers_[k].is_stop_write_
             /\ handlers_'[k].joined = handlers_[k].joined
             /\ handlers_'[k].files = handlers_[k].files
        /\ ~handlers_[l].is_stop_write_
    BY <1>1, <1>7 DEF Take, HandlersTyped, Handlers
  <2>2. UNCHANGED <<app, disk, log_enable_, lateCreate>>
    BY <1>7 DEF Take
  <2> QED BY <2>1, <2>2 DEF HiddenInv, OpenIn, CurrentName
<1>8. ASSUME NEW l \in DOMAIN handlers_, Write(l)
      PROVE  HiddenInv'
  BY <1>8, WriteHidden
<1>9. ASSUME NEW l \in Lidars, app \notin {"off", "failed"}, Lidar(l)
      PROVE  HiddenInv'
  <2>1. UNCHANGED <<app, log_enable_, disk>>
    BY <1>9 DEF Lidar, Push, PushAway, ComesLate
  <2>2. ASSUME NEW t \in Types, NEW p \in NextPackets(l, t), Push(l, p) \/ PushAway(l, p)
        PROVE  HiddenInv'
    <3>1. p \in LogPackets
      BY PacketTypes
    <3>2. CASE Push(l, p)
      BY <1>9, <2>1, <3>1, <3>2, HandlerHidden DEF Push
    <3>3. CASE PushAway(l, p)
      BY <3>3 DEF PushAway, HiddenInv, OpenIn, CurrentName
    <3> QED BY <2>2, <3>2, <3>3
  <2>3. ASSUME NEW e \in late, ComesLate(l, e[2])
        PROVE  HiddenInv'
    <3>1. e[2] \in LogPackets
      BY DEF TypeOK
    <3> QED BY <1>9, <2>1, <2>3, <3>1, HandlerHidden DEF ComesLate
  <2> QED BY <1>9, <2>2, <2>3 DEF Lidar
<1>10. CASE UNCHANGED vars
  BY <1>10 DEF HiddenInv, OpenIn, CurrentName
<1> QED BY <1>3, <1>4, <1>5, <1>6, <1>7, <1>8, <1>9, <1>10 DEF Next, Writer

LEMMA InOrder == HiddenInv => LogInOrder
BY DEF HiddenInv, Right, LogInOrder

-----------------------------------------------------------------------------
(* What is owed to a file is on its way to it, or in it *)

\* The packets a handler has still to write.
Coming(l) == handlers_[l].queue \o handlers_[l].queue_

\* Of a lidar whose packets keep their order, with what a handler has to write, the
\* last packets that the lidar pushed and the files that are open: what comes belongs
\* to files that follow each other, none of which is ahead of the lidar or behind the
\* file that is open.
NotAhead(q, last) ==
  \A k \in DOMAIN q :
    /\ q[k].index <= last[q[k].type].index
    /\ q[k].flag = "end" /\ last[q[k].type].open => q[k].index < last[q[k].type].index
InRow(q) ==
  \A j, k \in DOMAIN q :
    j < k /\ q[j].type = q[k].type =>
      /\ q[j].index <= q[k].index
      /\ q[j].flag = "end" \/ q[k].flag = "create" => q[j].index < q[k].index
NotBehind(q, last, files) ==
  \A t \in Types :
    files[t].fp =>
      /\ files[t].index <= last[t].index
      /\ \A k \in DOMAIN q :
           q[k].type = t => /\ files[t].index <= q[k].index
                            /\ q[k].flag = "create" => files[t].index < q[k].index
InTurn(q, last, files) == NotAhead(q, last) /\ InRow(q) /\ NotBehind(q, last, files)

\* The file of a packet is open, or is still to be created.
IsOpen(o, files) == files[o.type].fp /\ files[o.type].index = o.index
Creates(p, o) == p.flag = "create" /\ p.type = o.type /\ p.index = o.index
ToCreate(o, q) == \E k \in DOMAIN q : Creates(q[k], o)

\* A packet waits, behind that which creates its file if that is not open, ...
WaitsInTurn(o, q, files) ==
  \E k \in DOMAIN q :
    /\ q[k] = Packet(o.type, o.index, o.trans, o.flag)
    /\ o.flag = "create" \/ IsOpen(o, files) \/ \E j \in 1 .. k - 1 : Creates(q[j], o)

\* ... or it is in a file, which if it has its name will not be renamed again.
OnDisk(o, f, q, files) ==
  /\ f.lidar = o.lidar /\ f.type = o.type /\ f.index = o.index
  /\ \E i \in DOMAIN f.data : f.data[i] = o.trans
  /\ f.shown => ~IsOpen(o, files) /\ ~ToCreate(o, q)

\* What a lidar still adds to a file is not pushed into nothing.
Begun(o, q, last, files) ==
  o.index = last[o.type].index /\ last[o.type].open => IsOpen(o, files) \/ ToCreate(o, q)

OwedInv(o) ==
  LET q == Coming(o.lidar)
      files == handlers_[o.lidar].files
      last == source[o.lidar]
  IN  /\ o.index <= last[o.type].index
      /\ <<o.lidar, o.type, o.index>> \notin broken =>
           /\ WaitsInTurn(o, q, files) \/ \E f \in disk : OnDisk(o, f, q, files)
           /\ Begun(o, q, last, files)

TakenInv ==
  /\ app = "off" => owed = {}
  /\ app = "on" /\ ~down =>
       /\ \A o \in owed : o.lidar \in DOMAIN handlers_
       /\ \A l \in inOrder \cap DOMAIN handlers_ :
            InTurn(Coming(l), source[l], handlers_[l].files)
       /\ \A o \in owed : o.lidar \in inOrder => OwedInv(o)

Owes == [lidar : Lidars, type : Types, index : Int, trans : Int, flag : {"create", "transfer"}]

\* A lidar pushes a packet: it goes on with the file it began last, or begins another.
Moves(last, next, p) ==
  /\ \A t \in Types : t # p.type => next[t] = last[t]
  /\ next[p.type].index = p.index
  /\ next[p.type].open <=> p.flag # "end"
  /\ \/ last[p.type].open /\ p.flag # "create" /\ p.index = last[p.type].index
     \/ p.flag = "create" /\ p.index = last[p.type].index + 1

LEMMA Items ==
  ASSUME NEW q \in Seq(LogPackets)
  PROVE  \A k \in DOMAIN q : q[k] \in LogPackets
OBVIOUS

LEMMA MoveTurn ==
  ASSUME NEW q \in Seq(LogPackets), NEW last \in [Types -> Sources],
         NEW next \in [Types -> Sources], NEW files \in [Types -> FileRec],
         NEW p \in LogPackets, Moves(last, next, p), InTurn(q, last, files)
  PROVE  InTurn(q, next, files)
<1>1. \A t \in Types : last[t].index \in Int /\ next[t].index \in Int /\ files[t].index \in Int
  BY DEF Sources, FileRec
<1>2. p.type \in Types /\ p.index \in Int
  BY DEF LogPackets
<1>3. \A k \in DOMAIN q : q[k].type \in Types /\ q[k].index \in Int
  BY Items DEF LogPackets
<1>4. \A t \in Types : last[t].index <= next[t].index
  BY <1>1, <1>2 DEF Moves
<1>5. NotAhead(q, next)
  <2> SUFFICES ASSUME NEW k \in DOMAIN q
               PROVE  /\ q[k].index <= next[q[k].type].index
                      /\ q[k].flag = "end" /\ next[q[k].type].open =>
                           q[k].index < next[q[k].type].index
    BY DEF NotAhead
  <2>1. /\ q[k].index <= last[q[k].type].index
        /\ q[k].flag = "end" /\ last[q[k].type].open => q[k].index < last[q[k].type].index
    BY DEF InTurn, NotAhead
  <2>2. CASE q[k].type # p.type
    BY <1>3, <2>1, <2>2 DEF Moves
  <2>3. CASE q[k].type = p.type
    BY <1>1, <1>2, <1>3, <2>1, <2>3 DEF Moves
  <2> QED BY <2>2, <2>3
<1>6. NotBehind(q, next, files)
  <2> SUFFICES ASSUME NEW t \in Types, files[t].fp
               PROVE  files[t].index <= next[t].index
    BY DEF InTurn, NotBehind
  <2>1. files[t].index <= last[t].index
    BY DEF InTurn, NotBehind
  <2> QED BY <1>1, <1>4, <2>1
<1> QED BY <1>5, <1>6 DEF InTurn

LEMMA Appended ==
  ASSUME NEW q \in Seq(LogPackets), NEW p \in LogPackets
  PROVE  /\ Append(q, p) \in Seq(LogPackets)
         /\ DOMAIN q = 1 .. Len(q) /\ Len(q) \in Nat
         /\ DOMAIN Append(q, p) = 1 .. Len(q) + 1
         /\ \A k \in DOMAIN q : k \in DOMAIN Append(q, p) /\ Append(q, p)[k] = q[k]
         /\ Append(q, p)[Len(q) + 1] = p
OBVIOUS

LEMMA PushTurn ==
  ASSUME NEW q \in Seq(LogPackets), NEW last \in [Types -> Sources],
         NEW next \in [Types -> Sources], NEW files \in [Types -> FileRec],
         NEW p \in LogPackets, Moves(last, next, p), InTurn(q, last, files)
  PROVE  InTurn(Append(q, p), next, files)
<1> DEFINE r == Append(q, p)
           n == Len(q) + 1
<1>1. \A t \in Types : last[t].index \in Int /\ next[t].index \in Int /\ files[t].index \in Int
  BY DEF Sources, FileRec
<1>2. p.type \in Types /\ p.index \in Int
  BY DEF LogPackets
<1>3. \A k \in DOMAIN q : q[k].type \in Types /\ q[k].index \in Int
  BY Items DEF LogPackets
<1>4. InTurn(q, next, files)
  BY MoveTurn
<1>5. /\ r[n] = p /\ \A k \in DOMAIN q : r[k] = q[k]
      /\ \A k \in DOMAIN r : k \in DOMAIN q \/ k = n
      /\ \A k \in DOMAIN q : ~(n < k)
  BY Appended
<1> HIDE DEF r, n
<1>6. NotAhead(r, next)
  <2>1. p.index <= next[p.type].index /\ (p.flag = "end" => ~next[p.type].open)
    BY <1>2 DEF Moves
  <2> QED BY <1>4, <1>5, <2>1 DEF InTurn, NotAhead
<1>7. ASSUME NEW j \in DOMAIN q, q[j].type = p.type
      PROVE  /\ q[j].index <= p.index
             /\ q[j].flag = "end" \/ p.flag = "create" => q[j].index < p.index
  <2>1. /\ q[j].index <= last[p.type].index
        /\ q[j].flag = "end" /\ last[p.type].open => q[j].index < last[p.type].index
    BY <1>7 DEF InTurn, NotAhead
  <2> QED BY <1>1, <1>2, <1>3, <2>1 DEF Moves
<1>8. InRow(r)
  <2> SUFFICES ASSUME NEW j \in DOMAIN r, NEW k \in DOMAIN r, j < k, r[j].type = r[k].type
               PROVE  /\ r[j].index <= r[k].index
                      /\ r[j].flag = "end" \/ r[k].flag = "create" => r[j].index < r[k].index
    BY DEF InRow
  <2>1. CASE k \in DOMAIN q /\ j \in DOMAIN q
    BY <1>4, <1>5, <2>1 DEF InTurn, InRow
  <2>2. CASE k = n /\ j \in DOMAIN q
    BY <1>5, <1>7, <2>2
  <2>3. n \notin DOMAIN q /\ ~(n < n)
    BY Appended DEF n
  <2> QED BY <1>5, <2>1, <2>2, <2>3
<1>9. NotBehind(r, next, files)
  <2> SUFFICES ASSUME NEW t \in Types, files[t].fp
               PROVE  /\ files[t].index <= next[t].index
                      /\ \A k \in DOMAIN r :
                           r[k].type = t => /\ files[t].index <= r[k].index
                                            /\ r[k].flag = "create" => files[t].index < r[k].index
    BY DEF NotBehind
  <2>1. /\ files[t].index <= next[t].index /\ files[t].index <= last[t].index
        /\ \A k \in DOMAIN q :
             q[k].type = t => /\ files[t].index <= q[k].index
                              /\ q[k].flag = "create" => files[t].index < q[k].index
    BY <1>4 DEF InTurn, NotBehind
  <2>2. p.type = t => /\ files[t].index <= p.index
                      /\ p.flag = "create" => files[t].index < p.index
    BY <1>1, <1>2, <2>1 DEF Moves
  <2> QED BY <1>5, <2>1, <2>2
<1> QED BY <1>6, <1>8, <1>9 DEF InTurn, r

LEMMA Tailed ==
  ASSUME NEW q \in Seq(LogPackets), q # <<>>
  PROVE  /\ Tail(q) \in Seq(LogPackets) /\ q[1] \in LogPackets
         /\ 1 \in DOMAIN q /\ DOMAIN q = 1 .. Len(q) /\ Len(q) \in Nat
         /\ \A k \in DOMAIN Tail(q) :
              k \in Nat /\ 1 < k + 1 /\ k + 1 \in DOMAIN q /\ Tail(q)[k] = q[k + 1]
         /\ \A k \in DOMAIN q : k # 1 => k - 1 \in DOMAIN Tail(q) /\ Tail(q)[k - 1] = q[k]
OBVIOUS

\* A handler takes a packet off and writes it.
LEMMA WriteTurn ==
  ASSUME NEW q \in Seq(LogPackets), q # <<>>, NEW last \in [Types -> Sources],
         NEW files \in [Types -> FileRec], NEW next \in [Types -> FileRec],
         InTurn(q, last, files),
         \A t \in Types : t # q[1].type => next[t] = files[t],
         LET new == next[q[1].type]
             old == files[q[1].type]
         IN  new.fp => \/ q[1].flag = "create" /\ new.index = q[1].index
                       \/ old.fp /\ new.index = old.index
  PROVE  InTurn(Tail(q), last, next)
<1> DEFINE r == Tail(q)
<1>1. /\ q[1] \in LogPackets /\ 1 \in DOMAIN q
      /\ \A k \in DOMAIN r : k + 1 \in DOMAIN q /\ r[k] = q[k + 1] /\ 1 < k + 1
      /\ \A j, k \in DOMAIN r : j < k => j + 1 < k + 1
  BY Tailed
<1> HIDE DEF r
<1>2. NotAhead(r, last)
  BY <1>1 DEF InTurn, NotAhead
<1>3. InRow(r)
  <2> SUFFICES ASSUME NEW j \in DOMAIN r, NEW k \in DOMAIN r, j < k, r[j].type = r[k].type
               PROVE  /\ r[j].index <= r[k].index
                      /\ r[j].flag = "end" \/ r[k].flag = "create" => r[j].index < r[k].index
    BY DEF InRow
  <2>1. j + 1 \in DOMAIN q /\ k + 1 \in DOMAIN q /\ j + 1 < k + 1
        /\ r[j] = q[j + 1] /\ r[k] = q[k + 1]
    BY <1>1
  <2> QED BY <2>1 DEF InTurn, InRow
<1>4. NotBehind(r, last, next)
  <2> SUFFICES ASSUME NEW t \in Types, next[t].fp
               PROVE  /\ next[t].index <= last[t].index
                      /\ \A k \in DOMAIN r :
                           r[k].type = t => /\ next[t].index <= r[k].index
                                            /\ r[k].flag = "create" => next[t].index < r[k].index
    BY DEF NotBehind
  <2>1. CASE files[t].fp /\ next[t].index = files[t].index
    BY <1>1, <2>1 DEF InTurn, NotBehind
  <2>2. CASE t = q[1].type /\ next[t].index = q[1].index
    <3>1. next[t].index <= last[t].index
      BY <1>1, <2>2 DEF InTurn, NotAhead
    <3>2. ASSUME NEW k \in DOMAIN r, r[k].type = t
          PROVE  /\ next[t].index <= r[k].index
                 /\ r[k].flag = "create" => next[t].index < r[k].index
      BY <1>1, <2>2, <3>2 DEF InTurn, InRow
    <3> QED BY <3>1, <3>2
  <2> QED BY <2>1, <2>2
<1> QED BY <1>2, <1>3, <1>4 DEF InTurn, r

\* Pushing a packet leaves what was owed on its way, ...
LEMMA PushOwed ==
  ASSUME NEW q \in Seq(LogPackets), NEW last \in [Types -> Sources],
         NEW next \in [Types -> Sources], NEW files \in [Types -> FileRec],
         NEW p \in LogPackets, Moves(last, next, p),
         NEW o \in Owes, o.index <= last[o.type].index
  PROVE  LET r == Append(q, p) IN
         /\ o.index <= next[o.type].index
         /\ WaitsInTurn(o, q, files) => WaitsInTurn(o, r, files)
         /\ \A f : OnDisk(o, f, q, files) => OnDisk(o, f, r, files)
         /\ Begun(o, q, last, files) => Begun(o, q, next, files) /\ Begun(o, r, next, files)
<1> DEFINE r == Append(q, p)
           n == Len(q) + 1
<1>1. \A t \in Types : last[t].index \in Int /\ next[t].index \in Int
  BY DEF Sources
<1>2. p.type \in Types /\ p.index \in Int /\ o.type \in Types /\ o.index \in Int
  BY DEF LogPackets, Owes
<1>3. /\ r[n] = p /\ \A k \in DOMAIN q : k \in DOMAIN r /\ r[k] = q[k]
      /\ \A k \in DOMAIN r : k \in DOMAIN q \/ k = n
      /\ DOMAIN q = 1 .. Len(q) /\ Len(q) \in Nat
  BY Appended
<1> HIDE DEF r, n
<1>4. o.index <= next[o.type].index
  BY <1>1, <1>2 DEF Moves
<1>5. ToCreate(o, q) => ToCreate(o, r)
  BY <1>3 DEF ToCreate
<1>6. ~Creates(p, o)
  BY <1>1, <1>2 DEF Creates, Moves
<1>7. ToCreate(o, r) => ToCreate(o, q)
  BY <1>3, <1>6 DEF ToCreate
<1>8. ASSUME WaitsInTurn(o, q, files)
      PROVE  WaitsInTurn(o, r, files)
  <2>1. PICK k \in DOMAIN q :
          /\ q[k] = Packet(o.type, o.index, o.trans, o.flag)
          /\ o.flag = "create" \/ IsOpen(o, files) \/ \E j \in 1 .. k - 1 : Creates(q[j], o)
    BY <1>8 DEF WaitsInTurn
  <2>2. k \in DOMAIN r /\ r[k] = q[k] /\ \A j \in 1 .. k - 1 : r[j] = q[j]
    BY <1>3
  <2> QED BY <2>1, <2>2 DEF WaitsInTurn
<1>9. ASSUME o.index = next[o.type].index, next[o.type].open
      PROVE  o.index = last[o.type].index /\ last[o.type].open
  BY <1>1, <1>2, <1>9 DEF Moves
<1> QED BY <1>4, <1>5, <1>7, <1>8, <1>9 DEF OnDisk, Begun, r

\* ... and what is owed from then on waits.
LEMMA PushOwedNew ==
  ASSUME NEW q \in Seq(LogPackets), NEW last \in [Types -> Sources],
         NEW next \in [Types -> Sources], NEW files \in [Types -> FileRec],
         NEW p \in LogPackets, Moves(last, next, p),
         NEW o \in Owes, p = Packet(o.type, o.index, o.trans, o.flag),
         \/ o.flag = "create"
         \/ \E c \in Owes : c.type = o.type /\ c.index = o.index /\ Begun(c, q, last, files)
  PROVE  LET r == Append(q, p) IN
         /\ o.index <= next[o.type].index
         /\ WaitsInTurn(o, r, files)
         /\ Begun(o, r, next, files)
<1> DEFINE r == Append(q, p)
           n == Len(q) + 1
<1>1. /\ p.type = o.type /\ p.index = o.index /\ p.flag = o.flag
      /\ o.type \in Types /\ o.index \in Int
  BY DEF Packet, Owes
<1>2. /\ r[n] = p /\ n \in DOMAIN r /\ \A k \in DOMAIN q : k \in DOMAIN r /\ r[k] = q[k]
      /\ DOMAIN q = 1 .. Len(q) /\ Len(q) \in Nat /\ 1 .. n - 1 = DOMAIN q
  BY Appended
<1> HIDE DEF r, n
<1>3. o.index <= next[o.type].index
  BY <1>1 DEF Moves
<1>4. CASE o.flag = "create"
  <2>1. Creates(p, o)
    BY <1>1, <1>4 DEF Creates
  <2> QED BY <1>2, <1>3, <1>4, <2>1 DEF WaitsInTurn, Begun, ToCreate, r
<1>5. CASE o.flag # "create"
  <2>1. PICK c \in Owes : c.type = o.type /\ c.index = o.index /\ Begun(c, q, last, files)
    BY <1>5
  <2>2. last[o.type].open /\ o.index = last[o.type].index
    BY <1>1, <1>5 DEF Moves
  <2>3. IsOpen(o, files) \/ ToCreate(o, q)
    BY <2>1, <2>2 DEF Begun, IsOpen, ToCreate, Creates
  <2>4. IsOpen(o, files) \/ \E j \in 1 .. n - 1 : Creates(r[j], o)
    BY <1>2, <2>3 DEF ToCreate
  <2>5. ToCreate(o, q) => ToCreate(o, r)
    BY <1>2 DEF ToCreate
  <2> QED BY <1>2, <1>3, <2>3, <2>4, <2>5 DEF WaitsInTurn, Begun, r
<1> QED BY <1>4, <1>5

\* A packet that is not the first goes on waiting, unless the file it waits for is closed.
LEMMA TailWaits ==
  ASSUME NEW q \in Seq(LogPackets), q # <<>>, NEW o \in Owes,
         NEW files \in [Types -> FileRec], NEW next \in [Types -> FileRec],
         WaitsInTurn(o, q, files)
  PROVE  \/ /\ q[1] = Packet(o.type, o.index, o.trans, o.flag)
            /\ o.flag = "create" \/ IsOpen(o, files)
         \/ \E k \in DOMAIN q : /\ 1 < k /\ q[k].type = o.type /\ q[k].index = o.index
                                /\ ~Creates(q[1], o) /\ IsOpen(o, files) /\ ~IsOpen(o, next)
         \/ Creates(q[1], o) /\ ~IsOpen(o, next)
         \/ WaitsInTurn(o, Tail(q), next)
<1> DEFINE r == Tail(q)
<1>1. PICK k \in DOMAIN q :
        /\ q[k] = Packet(o.type, o.index, o.trans, o.flag)
        /\ o.flag = "create" \/ IsOpen(o, files) \/ \E j \in 1 .. k - 1 : Creates(q[j], o)
  BY DEF WaitsInTurn
<1>2. /\ DOMAIN q = 1 .. Len(q) /\ Len(q) \in Nat
      /\ \A j \in DOMAIN q : j # 1 => j - 1 \in DOMAIN r /\ r[j - 1] = q[j]
  BY Tailed
<1>3. CASE k = 1
  BY <1>1, <1>3
<1>4. CASE k # 1
  <2>1. k - 1 \in DOMAIN r /\ r[k - 1] = Packet(o.type, o.index, o.trans, o.flag) /\ 1 < k
    BY <1>1, <1>2, <1>4
  <2>2. q[k].type = o.type /\ q[k].index = o.index
    BY <1>1 DEF Packet
  <2>3. o.flag = "create" \/ IsOpen(o, next) => WaitsInTurn(o, r, next)
    BY <2>1 DEF WaitsInTurn
  <2>4. ASSUME NEW j \in 1 .. k - 1, Creates(q[j], o), j # 1
        PROVE  WaitsInTurn(o, r, next)
    <3>1. j - 1 \in 1 .. (k - 1) - 1 /\ r[j - 1] = q[j]
      BY <1>2, <2>4
    <3> QED BY <2>1, <2>4, <3>1 DEF WaitsInTurn
  <2> HIDE DEF r
  <2>5. CASE o.flag = "create"
    BY <2>3, <2>5 DEF r
  <2>6. CASE IsOpen(o, files)
    BY <2>1, <2>2, <2>3, <2>6 DEF r
  <2>7. CASE \E j \in 1 .. k - 1 : Creates(q[j], o)
    BY <2>3, <2>4, <2>7 DEF r
  <2> QED BY <1>1, <2>5, <2>6, <2>7
<1> QED BY <1>3, <1>4

\* The first packet p that waits is taken off: the file of its type goes from old to new,
\* and the files on the disk from from to to.
Shut(from, to, l, t, old) ==
  IF old.fp THEN Renamed(from, to, <<l, t, old.time, old.index>>) ELSE to = from
Taken(l, p, old, new, from, to) ==
  \/ /\ p.flag = "create" /\ new.fp /\ new.index = p.index
     /\ \E mid : Shut(from, mid, l, p.type, old) /\ Grown(mid, to)
     /\ InFile(to, <<l, p.type, new.time, p.index>>, p.trans)
  \/ p.flag = "create" /\ <<l, p.type, p.index>> \in broken' /\ new = old /\ to = from
  \/ /\ p.flag = "create" /\ <<l, p.type, p.index>> \in broken'
     /\ ~new.fp /\ Shut(from, to, l, p.type, old)
  \/ p.flag = "transfer" /\ old.index # p.index /\ new = old /\ to = from
  \/ /\ p.flag = "transfer" /\ old.index = p.index /\ new.fp = old.fp /\ new.index = old.index
     /\ IF old.fp THEN Grown(from, to) /\ InFile(to, <<l, p.type, old.time, old.index>>, p.trans)
        ELSE to = from
  \/ p.flag = "end" /\ ~new.fp /\ Shut(from, to, l, p.type, old)

LEMMA GrownOnDisk ==
  ASSUME NEW from, NEW to, NEW o, NEW r, NEW next, Grown(from, to),
         NEW f \in from, OnDisk(o, f, r, next)
  PROVE  \E g \in to : OnDisk(o, g, r, next)
<1>1. PICK g \in to : /\ NameOf(g) = NameOf(f) /\ g.shown = f.shown
                      /\ \A k \in DOMAIN f.data : k \in DOMAIN g.data /\ g.data[k] = f.data[k]
  BY DEF Grown
<1>2. g.lidar = f.lidar /\ g.type = f.type /\ g.index = f.index
  BY <1>1 DEF NameOf
<1>3. \E i \in DOMAIN g.data : g.data[i] = o.trans
  BY <1>1 DEF OnDisk
<1>4. g.shown => f.shown
  BY <1>1
<1> QED BY <1>2, <1>3, <1>4 DEF OnDisk

LEMMA WriteOwed ==
  ASSUME NEW q \in Seq(LogPackets), q # <<>>, NEW last \in [Types -> Sources],
         NEW files \in [Types -> FileRec], NEW next \in [Types -> FileRec],
         InTurn(q, last, files),
         \A t \in Types : t # q[1].type => next[t] = files[t],
         NEW o \in Owes, <<o.lidar, o.type, o.index>> \notin broken', NEW from, NEW to,
         Taken(o.lidar, q[1], files[q[1].type], next[q[1].type], from, to),
         o.index <= last[o.type].index,
         WaitsInTurn(o, q, files) \/ \E f \in from : OnDisk(o, f, q, files),
         Begun(o, q, last, files)
  PROVE  /\ WaitsInTurn(o, Tail(q), next) \/ \E f \in to : OnDisk(o, f, Tail(q), next)
         /\ Begun(o, Tail(q), last, next)
<1> DEFINE r == Tail(q)
           p == q[1]
           old == files[p.type]
           new == next[p.type]
<1>1. /\ p \in LogPackets /\ 1 \in DOMAIN q
      /\ \A k \in DOMAIN r : k + 1 \in DOMAIN q /\ r[k] = q[k + 1] /\ 1 < k + 1
      /\ \A k \in DOMAIN q : k # 1 => k - 1 \in DOMAIN r /\ r[k - 1] = q[k]
      /\ \A k \in DOMAIN q : k # 1 => 1 < k
  BY Tailed
<1>2. /\ p.type \in Types /\ p.index \in Int /\ p.flag \in {"create", "transfer", "end"}
      /\ o.type \in Types /\ o.index \in Int /\ o.flag \in {"create", "transfer"}
      /\ \A t \in Types : last[t].index \in Int /\ files[t].index \in Int /\ next[t].index \in Int
      /\ \A k \in DOMAIN q : q[k].index \in Int
  BY <1>1, Items DEF LogPackets, Owes, Sources, FileRec
<1>3. /\ o.type # p.type => (IsOpen(o, files) <=> IsOpen(o, next)) /\ ~Creates(p, o)
      /\ Creates(p, o) => o.type = p.type /\ o.index = p.index /\ p.flag = "create"
  BY <1>2 DEF IsOpen, Creates
<1>4. Taken(o.lidar, p, old, new, from, to)
  OBVIOUS
<1>5. Creates(p, o) => <<o.lidar, p.type, p.index>> \notin broken'
  BY <1>3
<1> HIDE DEF r, p
<1>6. ASSUME o.type = p.type, IsOpen(o, files), p.flag # "transfer"
      PROVE  /\ \A k \in DOMAIN q : 1 < k /\ q[k].type = o.type =>
                  o.index # q[k].index
             /\ ~Creates(p, o)
             /\ o.index = last[o.type].index => ~last[o.type].open
  <2>1. /\ files[o.type].fp /\ files[o.type].index = o.index
        /\ o.index <= p.index /\ (p.flag = "create" => o.index < p.index)
    BY <1>1, <1>2, <1>6 DEF IsOpen, InTurn, NotBehind, p
  <2>2. /\ \A k \in DOMAIN q :
             1 < k /\ q[k].type = o.type =>
               /\ p.index <= q[k].index
               /\ p.flag = "end" => p.index < q[k].index
        /\ p.index <= last[o.type].index
        /\ p.flag = "end" /\ last[o.type].open => p.index < last[o.type].index
    BY <1>1, <1>6 DEF InTurn, InRow, NotAhead, p
  <2>3. p.flag = "create" \/ p.flag = "end"
    BY <1>2, <1>6
  <2>4. \A k \in DOMAIN q : 1 < k /\ q[k].type = o.type => o.index # q[k].index
    BY <1>2, <2>1, <2>2, <2>3
  <2>5. ~Creates(p, o)
    BY <1>2, <2>1 DEF Creates
  <2>6. o.index = last[o.type].index => ~last[o.type].open
    BY <1>2, <2>1, <2>2, <2>3
  <2> QED BY <2>4, <2>5, <2>6
<1>7. p.flag = "transfer" => (IsOpen(o, files) <=> IsOpen(o, next))
  BY <1>2, <1>3, <1>4 DEF Taken, IsOpen
<1>8. Creates(p, o) => IsOpen(o, next) /\ InFile(to, <<o.lidar, p.type, new.time, p.index>>, p.trans)
  BY <1>2, <1>3, <1>4, <1>5 DEF Taken, IsOpen
<1>9. IsOpen(o, next) => IsOpen(o, files) \/ Creates(p, o)
  BY <1>2, <1>3, <1>4 DEF Taken, IsOpen, Creates
<1>10. ToCreate(o, r) => \E k \in DOMAIN q : 1 < k /\ Creates(q[k], o)
  BY <1>1 DEF ToCreate
<1>11. ToCreate(o, q) => Creates(p, o) \/ ToCreate(o, r)
  BY <1>1 DEF ToCreate, p
<1>12. ~IsOpen(o, files) /\ ~ToCreate(o, q) => ~IsOpen(o, next) /\ ~ToCreate(o, r)
  BY <1>1, <1>9, <1>10 DEF ToCreate, p
<1>13. Begun(o, r, last, next)
  BY <1>3, <1>6, <1>7, <1>8, <1>11 DEF Begun
<1>14. ASSUME WaitsInTurn(o, q, files)
       PROVE  WaitsInTurn(o, r, next) \/ \E f \in to : OnDisk(o, f, r, next)
  <2>1. CASE p = Packet(o.type, o.index, o.trans, o.flag) /\ (o.flag = "create" \/ IsOpen(o, files))
    <3>1. p.type = o.type /\ p.index = o.index /\ p.trans = o.trans /\ p.flag = o.flag
      BY <2>1 DEF Packet
    <3>2. \E s : InFile(to, <<o.lidar, p.type, s, p.index>>, p.trans)
      <4>1. CASE o.flag = "create"
        BY <1>8, <3>1, <4>1 DEF Creates
      <4>2. CASE o.flag = "transfer" /\ IsOpen(o, files)
        BY <1>4, <3>1, <4>2 DEF Taken, IsOpen
      <4> QED BY <1>2, <2>1, <4>1, <4>2
    <3>3. PICK s : InFile(to, <<o.lidar, p.type, s, p.index>>, p.trans)
      BY <3>2
    <3>4. PICK g \in to : /\ NameOf(g) = <<o.lidar, p.type, s, p.index>> /\ ~g.shown
                          /\ \E k \in DOMAIN g.data : g.data[k] = p.trans
      BY <3>3 DEF InFile
    <3>5. g.lidar = o.lidar /\ g.type = o.type /\ g.index = o.index
      BY <3>1, <3>4 DEF NameOf
    <3> QED BY <3>1, <3>4, <3>5 DEF OnDisk
  <2>2. ASSUME NEW k \in DOMAIN q, 1 < k, q[k].type = o.type, q[k].index = o.index,
               IsOpen(o, files), ~IsOpen(o, next)
        PROVE  FALSE
    BY <1>3, <1>6, <1>7, <2>2
  <2>3. \/ /\ p = Packet(o.type, o.index, o.trans, o.flag)
           /\ o.flag = "create" \/ IsOpen(o, files)
        \/ \E k \in DOMAIN q : /\ 1 < k /\ q[k].type = o.type /\ q[k].index = o.index
                               /\ ~Creates(p, o) /\ IsOpen(o, files) /\ ~IsOpen(o, next)
        \/ Creates(p, o) /\ ~IsOpen(o, next)
        \/ WaitsInTurn(o, r, next)
    BY <1>14, TailWaits DEF p, r
  <2> QED BY <1>8, <2>1, <2>2, <2>3
<1>15. ASSUME NEW f \in from, OnDisk(o, f, q, files)
       PROVE  \E g \in to : OnDisk(o, g, r, next)
  <2>1. OnDisk(o, f, r, next)
    BY <1>12, <1>15 DEF OnDisk
  <2>2. ASSUME o.type = p.type, IsOpen(o, files), p.flag # "transfer",
               ~new.fp \/ (p.flag = "create" /\ new.index = p.index)
        PROVE  ~IsOpen(o, next) /\ ~ToCreate(o, r)
    <3>1. ~ToCreate(o, r)
      BY <1>6, <1>10, <2>2 DEF Creates
    <3>2. ~IsOpen(o, next)
      BY <1>6, <2>2 DEF Creates, IsOpen
    <3> QED BY <3>1, <3>2
  <2>3. ASSUME NEW mid, Shut(from, mid, o.lidar, p.type, old), p.flag # "transfer",
               ~new.fp \/ (p.flag = "create" /\ new.index = p.index)
        PROVE  \E g \in mid : OnDisk(o, g, r, next)
    <3> DEFINE name == <<o.lidar, p.type, old.time, old.index>>
    <3>1. old.fp /\ NameOf(f) = name => o.type = p.type /\ IsOpen(o, files)
      BY <1>15 DEF OnDisk, NameOf, IsOpen
    <3>2. ~f.shown \/ ~(old.fp /\ NameOf(f) = name)
      BY <1>15, <3>1 DEF OnDisk
    <3>3. PICK g \in mid : /\ g.data = f.data /\ NameOf(g) = NameOf(f)
                           /\ g = f \/ (old.fp /\ NameOf(f) = name)
      BY <2>3, <3>2 DEF Shut, Renamed
    <3>4. g.lidar = f.lidar /\ g.type = f.type /\ g.index = f.index
      BY <3>3 DEF NameOf
    <3>5. g.shown => ~IsOpen(o, next) /\ ~ToCreate(o, r)
      BY <1>12, <1>15, <2>2, <2>3, <3>1, <3>3 DEF OnDisk
    <3> QED BY <1>15, <3>3, <3>4, <3>5 DEF OnDisk
  <2>4. CASE to = from
    BY <2>1, <2>4
  <2>5. CASE Grown(from, to)
    BY <2>1, <2>5, GrownOnDisk
  <2>6. CASE /\ p.flag = "create" /\ new.fp /\ new.index = p.index
             /\ \E mid : Shut(from, mid, o.lidar, p.type, old) /\ Grown(mid, to)
    <3>1. PICK mid : Shut(from, mid, o.lidar, p.type, old) /\ Grown(mid, to)
      BY <2>6
    <3>2. PICK g \in mid : OnDisk(o, g, r, next)
      BY <2>3, <2>6, <3>1
    <3> QED BY <3>1, <3>2, GrownOnDisk
  <2>7. CASE p.flag # "transfer" /\ ~new.fp /\ Shut(from, to, o.lidar, p.type, old)
    BY <2>3, <2>7
  <2> QED BY <1>4, <2>4, <2>5, <2>6, <2>7 DEF Taken
<1> QED BY <1>13, <1>14, <1>15 DEF r, p

LEMMA Joined ==
  ASSUME NEW q \in Seq(LogPackets), NEW r \in Seq(LogPackets)
  PROVE  /\ q \o r \in Seq(LogPackets)
         /\ q # <<>> => /\ q \o r # <<>> /\ (q \o r)[1] = Head(q)
                        /\ Tail(q) \o r = Tail(q \o r)
         /\ <<>> \o r = r /\ r \o <<>> = r
         /\ \A p \in LogPackets : q \o Append(r, p) = Append(q \o r, p)
<1>1. q \o r \in Seq(LogPackets) /\ <<>> \o r = r /\ r \o <<>> = r
  OBVIOUS
<1>2. \A p \in LogPackets : q \o Append(r, p) = Append(q \o r, p)
  OBVIOUS
<1>3. ASSUME q # <<>>
      PROVE  q \o r # <<>> /\ (q \o r)[1] = Head(q) /\ Tail(q) \o r = Tail(q \o r)
  BY <1>3
<1> QED BY <1>1, <1>2, <1>3

LEMMA ComingType ==
  ASSUME HandlersTyped, NEW l \in DOMAIN handlers_
  PROVE  /\ handlers_[l].queue \in Seq(LogPackets) /\ handlers_[l].queue_ \in Seq(LogPackets)
         /\ Coming(l) \in Seq(LogPackets) /\ handlers_[l].files \in [Types -> FileRec]
<1>1. handlers_[l] \in Handlers
  BY DEF HandlersTyped
<1>2. /\ handlers_[l].queue \in Seq(LogPackets) /\ handlers_[l].queue_ \in Seq(LogPackets)
      /\ handlers_[l].files \in [Types -> FileRec]
  BY <1>1 DEF Handlers, FileRec
<1> QED BY <1>2, Joined DEF Coming

LEMMA ClosedShut ==
  ASSUME TypeOK, NEW l \in DOMAIN handlers_, NEW t \in Types
  PROVE  Shut(disk, Closed(l, t), l, t, handlers_[l].files[t])
<1>1. disk \in SUBSET Files /\ CurrentName(l, t) = <<l, t, handlers_[l].files[t].time,
                                                    handlers_[l].files[t].index>>
  BY DEF TypeOK, CurrentName
<1>2. Renamed(disk, Rename(disk, CurrentName(l, t)), CurrentName(l, t))
  BY <1>1, RenameKeeps
<1> QED BY <1>1, <1>2 DEF Shut, Closed

\* What Write does, in the terms of WriteOwed.
LEMMA WriteTaken ==
  ASSUME TypeOK, NEW l \in DOMAIN handlers_, Write(l)
  PROVE  LET p == Head(handlers_[l].queue)
             old == handlers_[l].files[p.type]
         IN  \E new \in FileRec : Written(l, new) /\ Taken(l, p, old, new, disk, disk')
<1> DEFINE p == Head(handlers_[l].queue)
           t == p.type
           old == handlers_[l].files[t]
<1>1. /\ l \in Lidars /\ handlers_[l] \in Handlers /\ disk \in SUBSET Files
      /\ handlers_[l].queue # <<>> /\ p \in LogPackets
  BY WriteCases DEF TypeOK
<1>2. t \in Types /\ p.index \in Int /\ p.trans \in Int /\ old \in FileRec
  BY <1>1 DEF LogPackets, Handlers, FileRec
<1>3. /\ Closed(l, t) \in SUBSET Files
      /\ Shut(disk, Closed(l, t), l, t, old)
  BY <1>2, ClosedType, ClosedShut
<1>4. PICK new \in FileRec :
        /\ Written(l, new)
        /\ \/ /\ p.flag = "create" /\ new.time \in Nat
              /\ new.fp /\ new.index = p.index /\ new.trans = p.trans
              /\ disk' = Append1(Closed(l, t), <<l, t, new.time, p.index>>, p.trans)
              /\ now' \in Nat /\ broken' = broken
           \/ /\ p.flag = "create" /\ broken' = broken \cup {<<l, t, p.index>>}
              /\ now' = now
              /\ \/ new = old /\ disk' = disk
                 \/ ~new.fp /\ disk' = Closed(l, t)
           \/ /\ p.flag = "transfer" /\ now' = now /\ broken' = broken
              /\ old.index # p.index /\ new = old /\ disk' = disk
           \/ /\ p.flag = "transfer" /\ now' = now /\ broken' = broken
              /\ old.index = p.index /\ p.trans >= old.trans
              /\ new = [old EXCEPT !.trans = p.trans]
              /\ disk' = IF old.fp
                         THEN Append1(disk, <<l, t, old.time, old.index>>, p.trans)
                         ELSE disk
           \/ /\ p.flag = "end" /\ now' = now /\ broken' = broken
              /\ ~new.fp /\ disk' = Closed(l, t)
  BY WriteCases
<1>5. CASE /\ p.flag = "create" /\ new.time \in Nat
           /\ new.fp /\ new.index = p.index
           /\ disk' = Append1(Closed(l, t), <<l, t, new.time, p.index>>, p.trans)
  <2> DEFINE name == <<l, t, new.time, p.index>>
  <2>1. name \in Names
    BY <1>1, <1>2, <1>5 DEF Names
  <2>2. disk' = Append1(Closed(l, t), name, p.trans)
    BY <1>5
  <2>3. Grown(Closed(l, t), disk') /\ InFile(disk', name, p.trans)
    <3> HIDE DEF name, t
    <3> QED BY <1>2, <1>3, <2>1, <2>2, AppendKeeps
  <2> QED BY <1>3, <1>4, <1>5, <2>3 DEF Taken
<1>6. CASE /\ p.flag = "create"
           /\ broken' = broken \cup {<<l, t, p.index>>}
           /\ \/ new = old /\ disk' = disk
              \/ ~new.fp /\ disk' = Closed(l, t)
  BY <1>3, <1>4, <1>6 DEF Taken
<1>7. CASE p.flag = "transfer" /\ old.index # p.index /\ new = old /\ disk' = disk
  BY <1>4, <1>7 DEF Taken
<1>8. CASE /\ p.flag = "transfer" /\ old.index = p.index /\ new = [old EXCEPT !.trans = p.trans]
           /\ disk' = IF old.fp
                      THEN Append1(disk, <<l, t, old.time, old.index>>, p.trans)
                      ELSE disk
  <2> DEFINE name == <<l, t, old.time, old.index>>
  <2>1. name \in Names /\ new.fp = old.fp /\ new.index = old.index
    BY <1>1, <1>2, <1>8 DEF Names, FileRec
  <2>2. old.fp => Grown(disk, disk') /\ InFile(disk', name, p.trans)
    <3> SUFFICES ASSUME old.fp PROVE Grown(disk, disk') /\ InFile(disk', name, p.trans)
      OBVIOUS
    <3>1. disk' = Append1(disk, name, p.trans)
      BY <1>8
    <3> HIDE DEF name
    <3> QED BY <1>1, <1>2, <2>1, <3>1, AppendKeeps
  <2> QED BY <1>4, <1>8, <2>1, <2>2 DEF Taken
<1>9. CASE p.flag = "end" /\ ~new.fp /\ disk' = Closed(l, t)
  BY <1>3, <1>4, <1>9 DEF Taken
<1> HIDE DEF old, t, p
<1> QED BY <1>4, <1>5, <1>6, <1>7, <1>8, <1>9, Zenon DEF old, t, p

\* Files of other lidars are left alone.
LEMMA OthersOnDisk ==
  ASSUME NEW l, NEW p, NEW old, NEW new, NEW from, NEW to, Taken(l, p, old, new, from, to),
         NEW o, o.lidar # l, NEW q, NEW files, NEW f \in from, OnDisk(o, f, q, files)
  PROVE  \E g \in to : OnDisk(o, g, q, files)
<1>1. \A t, s, i : NameOf(f) # <<l, t, s, i>>
  BY DEF OnDisk, NameOf
<1>2. ASSUME NEW mid, Shut(from, mid, l, p.type, old)
      PROVE  f \in mid
  BY <1>1, <1>2 DEF Shut, Renamed
<1>3. CASE Grown(from, to)
  BY <1>3, GrownOnDisk
<1>4. ASSUME NEW mid, f \in mid, Grown(mid, to)
      PROVE  \E g \in to : OnDisk(o, g, q, files)
  BY <1>4, GrownOnDisk
<1>5. CASE f \in to
  BY <1>5
<1> QED BY <1>2, <1>3, <1>4, <1>5 DEF Taken

LEMMA TakenWrite ==
  ASSUME TypeOK, TakenInv, NEW l \in DOMAIN handlers_, Write(l)
  PROVE  TakenInv'
<1> DEFINE p == Head(handlers_[l].queue)
           q == Coming(l)
           old == handlers_[l].files
           next == handlers_'[l].files
<1>1. UNCHANGED <<app, down, owed, inOrder, source>>
  BY DEF Write, host, lidars, network
<1> SUFFICES ASSUME app = "on", ~down
             PROVE  /\ \A o \in owed : o.lidar \in DOMAIN handlers_'
                    /\ \A k \in inOrder \cap DOMAIN handlers_' :
                         InTurn(Coming(k)', source[k], handlers_'[k].files)
                    /\ \A o \in owed : o.lidar \in inOrder => OwedInv(o)'
  BY <1>1 DEF TakenInv
<1>2. PICK new \in FileRec : /\ Written(l, new)
                             /\ Taken(l, p, old[p.type], new, disk, disk')
  BY WriteTaken
<1>3. HandlersTyped /\ l \in Lidars /\ handlers_[l].queue # <<>> /\ p \in LogPackets
  BY WriteCases DEF TypeOK, HandlersTyped
<1>4. /\ DOMAIN handlers_' = DOMAIN handlers_ /\ HandlersTyped'
      /\ \A k \in DOMAIN handlers_ : k # l => handlers_'[k] = handlers_[k]
      /\ handlers_'[l].queue = Tail(handlers_[l].queue)
      /\ handlers_'[l].queue_ = handlers_[l].queue_
      /\ next = [old EXCEPT ![p.type] = new]
  BY <1>2, <1>3, WrittenChanges
<1>5. /\ q \in Seq(LogPackets) /\ q # <<>> /\ q[1] = p /\ Coming(l)' = Tail(q)
      /\ old \in [Types -> FileRec] /\ next \in [Types -> FileRec] /\ p.type \in Types
      /\ source[l] \in [Types -> Sources]
  <2>1. /\ handlers_[l].queue \in Seq(LogPackets) /\ handlers_[l].queue_ \in Seq(LogPackets)
        /\ q \in Seq(LogPackets) /\ old \in [Types -> FileRec]
    BY <1>3, ComingType
  <2>2. /\ q # <<>> /\ q[1] = p
        /\ Tail(handlers_[l].queue) \o handlers_[l].queue_ = Tail(q)
    BY <1>3, <2>1, Joined DEF Coming
  <2>3. Coming(l)' = Tail(q)
    BY <1>4, <2>2 DEF Coming
  <2>4. next \in [Types -> FileRec] /\ p.type \in Types /\ source[l] \in [Types -> Sources]
    BY <1>2, <1>3, <1>4, <2>1 DEF LogPackets, TypeOK
  <2> QED BY <2>1, <2>2, <2>3, <2>4
<1>6. /\ next[q[1].type] = new /\ \A t \in Types : t # q[1].type => next[t] = old[t]
  BY <1>4, <1>5
<1>7. \A k \in DOMAIN handlers_ : k # l => Coming(k)' = Coming(k)
  BY <1>4 DEF Coming
<1> HIDE DEF q, old, next, p
<1>8. ASSUME NEW k \in inOrder, k \in DOMAIN handlers_
      PROVE  InTurn(Coming(k)', source[k], handlers_'[k].files)
  <2>1. InTurn(Coming(k), source[k], handlers_[k].files)
    BY <1>8 DEF TakenInv
  <2>2. CASE k # l
    BY <1>4, <1>7, <1>8, <2>1, <2>2
  <2>3. CASE k = l
    <3>1. InTurn(q, source[l], old)
      BY <2>1, <2>3 DEF q, old
    <3>2. next[q[1].type].fp =>
            \/ q[1].flag = "create" /\ next[q[1].type].index = q[1].index
            \/ old[q[1].type].fp /\ next[q[1].type].index = old[q[1].type].index
      BY <1>2, <1>5, <1>6 DEF Taken
    <3>3. InTurn(Tail(q), source[l], next)
      BY <1>5, <1>6, <3>1, <3>2, WriteTurn
    <3> QED BY <1>5, <2>3, <3>3 DEF next
  <2> QED BY <2>2, <2>3
<1>9. ASSUME NEW o \in owed, o.lidar \in inOrder
      PROVE  OwedInv(o)'
  <2>1. o.lidar \in DOMAIN handlers_ /\ OwedInv(o) /\ o \in Owes
    BY <1>9 DEF TakenInv, TypeOK, Owes
  <2>2. broken \subseteq broken'
    BY DEF Write, CreateFile, CreateFileFails, WriteFile, StopFile
  <2>3. CASE o.lidar # l
    <3>1. \A f \in disk : OnDisk(o, f, Coming(o.lidar), handlers_[o.lidar].files) =>
            \E g \in disk' : OnDisk(o, g, Coming(o.lidar), handlers_[o.lidar].files)
      BY <1>2, <2>3, OthersOnDisk
    <3>2. Coming(o.lidar)' = Coming(o.lidar) /\ handlers_'[o.lidar] = handlers_[o.lidar]
      BY <1>4, <1>7, <2>1, <2>3
    <3> QED BY <1>1, <2>1, <2>2, <3>1, <3>2 DEF OwedInv
  <2>4. CASE o.lidar = l
    <3>1. /\ InTurn(q, source[l], old) /\ o.index <= source[l][o.type].index
          /\ <<o.lidar, o.type, o.index>> \notin broken =>
               /\ WaitsInTurn(o, q, old) \/ \E f \in disk : OnDisk(o, f, q, old)
               /\ Begun(o, q, source[l], old)
      BY <1>9, <2>1, <2>4 DEF TakenInv, OwedInv, q, old
    <3>2. ASSUME <<o.lidar, o.type, o.index>> \notin broken'
          PROVE  /\ WaitsInTurn(o, Tail(q), next) \/ \E f \in disk' : OnDisk(o, f, Tail(q), next)
                 /\ Begun(o, Tail(q), source[l], next)
      <4>1. Taken(o.lidar, q[1], old[q[1].type], next[q[1].type], disk, disk')
        BY <1>2, <1>5, <1>6, <2>4
      <4> QED BY <1>5, <1>6, <2>1, <2>2, <3>1, <3>2, <4>1, WriteOwed
    <3> QED BY <1>1, <1>5, <2>4, <3>1, <3>2 DEF OwedInv, next
  <2> QED BY <2>3, <2>4
<1> QED BY <1>4, <1>8, <1>9, Zenon DEF TakenInv

LEMMA PushedMoves ==
  ASSUME TypeOK, NEW l \in Lidars, NEW t \in Types, NEW p \in NextPackets(l, t), Pushed(l, p)
  PROVE  /\ Moves(source[l], source'[l], p)
         /\ \A k \in Lidars : k # l => source'[k] = source[k]
         /\ source[l] \in [Types -> Sources] /\ source'[l] \in [Types -> Sources]
<1> DEFINE s == [index |-> p.index, trans |-> p.trans, open |-> p.flag # "end"]
<1>1. /\ p \in LogPackets /\ p.type = t
      /\ \/ /\ p.flag \in {"transfer", "end"} /\ source[l][t].open
            /\ p.index = source[l][t].index
         \/ p.flag = "create" /\ ~source[l][t].open /\ p.index = source[l][t].index + 1
  BY PacketTypes
<1>2. source \in [Lidars -> [Types -> Sources]] /\ source' \in [Lidars -> [Types -> Sources]]
  BY <1>1, PushedType DEF TypeOK
<1>3. source' = [source EXCEPT ![l][p.type] = s]
  BY DEF Pushed
<1>4. /\ \A k \in Lidars : k # l => source'[k] = source[k]
      /\ \A u \in Types : u # t => source'[l][u] = source[l][u]
      /\ source'[l][t] = s
  BY <1>1, <1>2, <1>3
<1>5. s.index = p.index /\ (s.open <=> p.flag # "end")
  OBVIOUS
<1>6. Moves(source[l], source'[l], p)
  BY <1>1, <1>4, <1>5 DEF Moves
<1> QED BY <1>2, <1>4, <1>6

\* What holds of the other lidars when the manager gets a packet of one.
LEMMA HandlerOthers ==
  ASSUME TypeOK, TakenInv, app = "on", ~down, ~down', NEW l \in Lidars, NEW p \in LogPackets,
         Handler(l, p)
  PROVE  /\ \A k \in DOMAIN handlers_' : k # l => k \in DOMAIN handlers_ /\ handlers_'[k] = handlers_[k]
         /\ \A k \in DOMAIN handlers_ : k \in DOMAIN handlers_' /\ (k # l => handlers_'[k] = handlers_[k])
         /\ \A o \in owed' : /\ o \in owed \/ (o \in Owed(l, p) /\ o.lidar = l)
                             /\ o.lidar \in DOMAIN handlers_'
<1>1. HandlersTyped /\ \A o \in owed : o.lidar \in DOMAIN handlers_
  BY DEF TypeOK, HandlersTyped, TakenInv
<1>2. \A o \in Owed(l, p) :
        o.lidar = l /\ (p.flag # "create" => \E c \in owed : c.lidar = l)
  BY DEF Owed
<1>3. CASE UNCHANGED <<handlers_, owed>>
  BY <1>1, <1>3
<1>4. CASE l \in DOMAIN handlers_ /\ handlers_' = Stored(l, p) /\ owed' = owed \cup Owed(l, p)
  <2>1. /\ DOMAIN handlers_' = DOMAIN handlers_
        /\ \A k \in DOMAIN handlers_ : k # l => handlers_'[k] = handlers_[k]
    BY <1>1, <1>4, StoredChanges
  <2> QED BY <1>1, <1>2, <1>4, <2>1
<1>5. CASE l \notin DOMAIN handlers_ /\ handlers_' = Made(l, p) /\ owed' = owed \cup Owed(l, p)
  <2>1. /\ DOMAIN handlers_' = DOMAIN handlers_ \cup {l}
        /\ \A k \in DOMAIN handlers_ : handlers_'[k] = handlers_[k]
    BY <1>1, <1>5, NewChanges
  <2> QED BY <1>1, <1>2, <1>5, <2>1
<1>6. CASE /\ l \notin DOMAIN handlers_ /\ p.flag # "create" /\ handlers_' = handlers_
           /\ owed' = owed \cup Owed(l, p)
  BY <1>1, <1>2, <1>6
<1> QED BY <1>3, <1>4, <1>5, <1>6, HandlerCases

LEMMA OwedKept ==
  ASSUME NEW o, OwedInv(o), Coming(o.lidar)' = Coming(o.lidar),
         handlers_'[o.lidar].files = handlers_[o.lidar].files,
         source'[o.lidar] = source[o.lidar], UNCHANGED <<disk, broken>>
  PROVE  OwedInv(o)'
BY DEF OwedInv

\* A packet that comes late is of a lidar whose packets no longer keep their order.
LEMMA TakenLate ==
  ASSUME TypeOK, TakenInv, app # "off", NEW l \in Lidars, NEW p \in LogPackets, ComesLate(l, p)
  PROVE  TakenInv'
<1>1. /\ UNCHANGED <<app, disk, source, broken>> /\ inOrder' = inOrder \ {l} /\ Handler(l, p)
      /\ down => down'
  BY DEF ComesLate, host, lidars, Handler, OnLoggerCreate, OnLoggerStopped, OnLoggerTransfer
<1> SUFFICES ASSUME app = "on", ~down, ~down'
             PROVE  /\ \A o \in owed' : o.lidar \in DOMAIN handlers_'
                    /\ \A k \in inOrder' \cap DOMAIN handlers_' :
                         InTurn(Coming(k)', source'[k], handlers_'[k].files)
                    /\ \A o \in owed' : o.lidar \in inOrder' => OwedInv(o)'
  BY <1>1 DEF TakenInv
<1>2. /\ \A k \in DOMAIN handlers_' : k # l => k \in DOMAIN handlers_ /\ handlers_'[k] = handlers_[k]
      /\ \A o \in owed' : /\ o \in owed \/ o.lidar = l
                          /\ o.lidar \in DOMAIN handlers_'
  BY <1>1, HandlerOthers
<1>3. \A k \in inOrder' \cap DOMAIN handlers_' :
        InTurn(Coming(k)', source'[k], handlers_'[k].files)
  BY <1>1, <1>2 DEF TakenInv, Coming
<1>4. ASSUME NEW o \in owed', o.lidar \in inOrder'
      PROVE  OwedInv(o)'
  <2>1. /\ o \in owed /\ o.lidar # l /\ o.lidar \in inOrder
        /\ handlers_'[o.lidar] = handlers_[o.lidar]
    BY <1>1, <1>2, <1>4
  <2>2. Coming(o.lidar)' = Coming(o.lidar) /\ OwedInv(o)
    BY <2>1 DEF Coming, TakenInv
  <2> QED BY <1>1, <2>1, <2>2, OwedKept
<1> QED BY <1>2, <1>3, <1>4

\* A packet is pushed, and lost, kept for later or not looked at.
LEMMA TakenAway ==
  ASSUME TypeOK, TakenInv, NEW l \in Lidars, NEW t \in Types, NEW p \in NextPackets(l, t),
         Pushed(l, p), down => down',
         UNCHANGED <<app, handlers_, disk, inOrder, owed, broken>>
  PROVE  TakenInv'
<1>1. UNCHANGED <<app, handlers_, disk, inOrder, owed, broken>>
  OBVIOUS
<1>2. /\ p \in LogPackets /\ Moves(source[l], source'[l], p)
      /\ \A k \in Lidars : k # l => source'[k] = source[k]
      /\ source[l] \in [Types -> Sources] /\ source'[l] \in [Types -> Sources]
  BY PacketTypes, PushedMoves
<1>3. HandlersTyped
  BY DEF TypeOK, HandlersTyped
<1> SUFFICES ASSUME app = "on", ~down
             PROVE  /\ \A k \in inOrder \cap DOMAIN handlers_ :
                         InTurn(Coming(k), source'[k], handlers_[k].files)
                    /\ \A o \in owed : o.lidar \in inOrder => OwedInv(o)'
  BY <1>1 DEF TakenInv, Coming
<1>4. ASSUME NEW k \in inOrder, k \in DOMAIN handlers_
      PROVE  InTurn(Coming(k), source'[k], handlers_[k].files)
  <2>1. InTurn(Coming(k), source[k], handlers_[k].files) /\ k \in Lidars
    BY <1>4 DEF TakenInv, TypeOK
  <2>2. Coming(k) \in Seq(LogPackets) /\ handlers_[k].files \in [Types -> FileRec]
    BY <1>3, <1>4, ComingType
  <2>3. CASE k = l
    BY <1>2, <2>1, <2>2, <2>3, MoveTurn
  <2>4. CASE k # l
    BY <1>2, <2>1, <2>4
  <2> QED BY <2>3, <2>4
<1>5. ASSUME NEW o \in owed, o.lidar \in inOrder
      PROVE  OwedInv(o)'
  <2>1. OwedInv(o) /\ o.lidar \in DOMAIN handlers_ /\ o \in Owes /\ o.lidar \in Lidars
    BY <1>5 DEF TakenInv, TypeOK, Owes
  <2>2. Coming(o.lidar)' = Coming(o.lidar)
    BY <1>1 DEF Coming
  <2>3. CASE o.lidar # l
    BY <1>1, <1>2, <2>1, <2>2, <2>3, OwedKept
  <2>4. CASE o.lidar = l
    <3>1. /\ Coming(l) \in Seq(LogPackets) /\ handlers_[l].files \in [Types -> FileRec]
          /\ o.index <= source[l][o.type].index
      BY <1>3, <2>1, <2>4, ComingType DEF OwedInv
    <3>2. /\ o.index <= source'[l][o.type].index
          /\ Begun(o, Coming(l), source[l], handlers_[l].files) =>
               Begun(o, Coming(l), source'[l], handlers_[l].files)
      BY <1>2, <2>1, <3>1, PushOwed
    <3> QED BY <1>1, <2>1, <2>2, <2>4, <3>2 DEF OwedInv
  <2> QED BY <2>3, <2>4
<1> QED BY <1>4, <1>5

\* A packet is pushed, and the manager gets it at once.
LEMMA TakenPush ==
  ASSUME TypeOK, TakenInv, app # "off", NEW l \in Lidars, NEW t \in Types,
         NEW p \in NextPackets(l, t), Push(l, p)
  PROVE  TakenInv'
<1>1. /\ UNCHANGED <<app, disk, inOrder, broken>> /\ Pushed(l, p) /\ Handler(l, p)
      /\ down => down'
  BY DEF Push, host, Handler, OnLoggerCreate, OnLoggerStopped, OnLoggerTransfer
<1>2. /\ p \in LogPackets /\ Moves(source[l], source'[l], p)
      /\ \A k \in Lidars : k # l => source'[k] = source[k]
      /\ source[l] \in [Types -> Sources] /\ source'[l] \in [Types -> Sources]
  BY <1>1, PacketTypes, PushedMoves
<1>3. HandlersTyped
  BY DEF TypeOK, HandlersTyped
<1> SUFFICES ASSUME app = "on", ~down, ~down'
             PROVE  TakenInv'
  BY <1>1 DEF TakenInv
<1>4. /\ \A k \in DOMAIN handlers_' : k # l => k \in DOMAIN handlers_ /\ handlers_'[k] = handlers_[k]
      /\ \A o \in owed' : /\ o \in owed \/ (o \in Owed(l, p) /\ o.lidar = l)
                          /\ o.lidar \in DOMAIN handlers_'
  BY <1>1, <1>2, HandlerOthers
<1>5. owed' \subseteq Owes /\ HandlersTyped'
  BY <1>1, <1>2, HandlerType DEF Owes
<1>6. ASSUME l \in DOMAIN handlers_' /\ l \in inOrder =>
                 InTurn(Coming(l)', source'[l], handlers_'[l].files),
             \A o \in owed' : o.lidar = l /\ l \in inOrder => OwedInv(o)'
      PROVE  TakenInv'
  <2>1. ASSUME NEW k \in inOrder, k \in DOMAIN handlers_'
        PROVE  InTurn(Coming(k)', source'[k], handlers_'[k].files)
    <3>1. CASE k = l
      BY <1>6, <2>1, <3>1
    <3>2. CASE k # l
      <4>1. k \in DOMAIN handlers_ /\ handlers_'[k] = handlers_[k] /\ k \in Lidars
        BY <1>4, <2>1, <3>2 DEF TypeOK
      <4>2. Coming(k)' = Coming(k) /\ source'[k] = source[k]
        BY <1>2, <3>2, <4>1 DEF Coming
      <4> QED BY <2>1, <4>1, <4>2 DEF TakenInv
    <3> QED BY <3>1, <3>2
  <2>2. ASSUME NEW o \in owed', o.lidar \in inOrder
        PROVE  OwedInv(o)'
    <3>1. CASE o.lidar = l
      BY <1>6, <2>2, <3>1
    <3>2. CASE o.lidar # l
      <4>1. /\ o \in owed /\ o.lidar \in Lidars /\ o.lidar \in DOMAIN handlers_
            /\ handlers_'[o.lidar] = handlers_[o.lidar]
        BY <1>4, <1>5, <2>2, <3>2 DEF Owes
      <4>2. Coming(o.lidar)' = Coming(o.lidar) /\ source'[o.lidar] = source[o.lidar] /\ OwedInv(o)
        BY <1>2, <2>2, <3>2, <4>1 DEF Coming, TakenInv
      <4> QED BY <1>1, <4>1, <4>2, OwedKept
    <3> QED BY <3>1, <3>2
  <2> QED BY <1>1, <1>4, <2>1, <2>2 DEF TakenInv
<1>7. \A o \in Owed(l, p) :
        /\ p = Packet(o.type, o.index, o.trans, o.flag)
        /\ o.flag = "create" \/ \E c \in owed : /\ c.lidar = l /\ c.type = o.type
                                               /\ c.index = o.index
  <2> SUFFICES ASSUME NEW o \in Owed(l, p)
               PROVE  /\ p = Packet(o.type, o.index, o.trans, o.flag)
                      /\ o.flag = "create" \/ \E c \in owed : /\ c.lidar = l /\ c.type = o.type
                                                             /\ c.index = o.index
    OBVIOUS
  <2>1. /\ o = [lidar |-> l, type |-> p.type, index |-> p.index, trans |-> p.trans, flag |-> p.flag]
        /\ \/ p.flag = "create"
           \/ \E c \in owed : c.lidar = l /\ c.type = p.type /\ c.index = p.index
    BY DEF Owed
  <2>2. o.type = p.type /\ o.index = p.index /\ o.trans = p.trans /\ o.flag = p.flag
    BY <2>1
  <2>3. p = [type |-> p.type, index |-> p.index, trans |-> p.trans, flag |-> p.flag]
    BY <1>2 DEF LogPackets
  <2> QED BY <2>1, <2>2, <2>3 DEF Packet
<1>8. CASE UNCHANGED <<handlers_, owed>>
  BY <1>1, <1>8, TakenAway
<1>9. CASE l \in DOMAIN handlers_ /\ handlers_' = Stored(l, p)
  <2> DEFINE q == Coming(l)
             files == handlers_[l].files
  <2>1. /\ handlers_'[l].queue = handlers_[l].queue
        /\ handlers_'[l].queue_ = Append(handlers_[l].queue_, p)
        /\ handlers_'[l].files = files
    BY <1>2, <1>3, <1>9, StoredChanges
  <2>2. /\ handlers_[l].queue \in Seq(LogPackets) /\ handlers_[l].queue_ \in Seq(LogPackets)
        /\ q \in Seq(LogPackets) /\ files \in [Types -> FileRec]
    BY <1>3, <1>9, ComingType
  <2>3. Coming(l)' = Append(q, p)
    <3>1. handlers_[l].queue \o Append(handlers_[l].queue_, p)
            = Append(handlers_[l].queue \o handlers_[l].queue_, p)
      BY <1>2, <2>2, Joined
    <3> QED BY <2>1, <3>1 DEF Coming
  <2> HIDE DEF q
  <2>4. ASSUME l \in inOrder
        PROVE  InTurn(Coming(l)', source'[l], handlers_'[l].files)
    <3>1. InTurn(q, source[l], files)
      BY <1>9, <2>4 DEF TakenInv, q
    <3> QED BY <1>2, <2>1, <2>2, <2>3, <3>1, PushTurn
  <2>5. ASSUME NEW o \in owed', o.lidar = l, l \in inOrder
        PROVE  OwedInv(o)'
    <3>1. CASE o \in owed
      <4>1. /\ o \in Owes /\ o.index <= source[l][o.type].index
            /\ <<l, o.type, o.index>> \notin broken =>
                 /\ WaitsInTurn(o, q, files) \/ \E f \in disk : OnDisk(o, f, q, files)
                 /\ Begun(o, q, source[l], files)
        BY <1>5, <2>5, <3>1 DEF TakenInv, OwedInv, q
      <4>2. /\ o.index <= source'[l][o.type].index
            /\ WaitsInTurn(o, q, files) => WaitsInTurn(o, Append(q, p), files)
            /\ \A f : OnDisk(o, f, q, files) => OnDisk(o, f, Append(q, p), files)
            /\ Begun(o, q, source[l], files) => Begun(o, Append(q, p), source'[l], files)
        BY <1>2, <2>2, <4>1, PushOwed
      <4> QED BY <1>1, <2>1, <2>3, <2>5, <4>1, <4>2 DEF OwedInv
    <3>2. CASE o \in Owed(l, p)
      <4>1. o \in Owes /\ p = Packet(o.type, o.index, o.trans, o.flag)
        BY <1>5, <1>7, <3>2
      <4>2. <<l, o.type, o.index>> \in broken
            \/ o.flag = "create"
            \/ \E c \in Owes : c.type = o.type /\ c.index = o.index /\ Begun(c, q, source[l], files)
        <5>1. ASSUME NEW c \in owed, c.lidar = l, c.type = o.type, c.index = o.index
              PROVE  /\ c \in Owes
                     /\ <<l, o.type, o.index>> \notin broken => Begun(c, q, source[l], files)
          BY <2>5, <5>1 DEF TakenInv, OwedInv, q, TypeOK, Owes
        <5> QED BY <1>7, <3>2, <5>1
      <4>3. o.index <= source'[l][o.type].index
        <5>1. p.type = o.type /\ p.index = o.index /\ o.index \in Int
          BY <4>1 DEF Packet, Owes
        <5>2. source'[l][p.type].index = p.index
          BY <1>2 DEF Moves
        <5> QED BY <5>1, <5>2
      <4>4. <<l, o.type, o.index>> \notin broken =>
              /\ WaitsInTurn(o, Append(q, p), files)
              /\ Begun(o, Append(q, p), source'[l], files)
        BY <1>2, <2>2, <4>1, <4>2, PushOwedNew
      <4> QED BY <1>1, <2>1, <2>3, <2>5, <4>3, <4>4 DEF OwedInv
    <3> QED BY <1>4, <2>5, <3>1, <3>2
  <2> QED BY <1>6, <2>4, <2>5
<1>10. CASE l \notin DOMAIN handlers_ /\ p.flag = "create" /\ handlers_' = Made(l, p)
  <2> DEFINE q == <<>>
             files == handlers_'[l].files
  <2>1. /\ handlers_'[l].queue = <<>> /\ handlers_'[l].queue_ = <<p>>
        /\ l \in DOMAIN handlers_'
        /\ \A u \in Types : ~files[u].fp
    BY <1>2, <1>3, <1>10, NewChanges
  <2>2. /\ <<>> \in Seq(LogPackets) /\ Append(<<>>, p) = <<p>> /\ <<>> \o <<p>> = <<p>>
    BY <1>2
  <2>3. Coming(l)' = Append(<<>>, p)
    BY <2>1, <2>2 DEF Coming
  <2>4. files \in [Types -> FileRec]
    BY <1>5, <2>1 DEF HandlersTyped, Handlers, FileRec
  <2> HIDE DEF files
  <2>5. InTurn(<<>>, source[l], files)
    BY <2>1 DEF InTurn, NotAhead, InRow, NotBehind
  <2>6. InTurn(Coming(l)', source'[l], files)
    BY <1>2, <2>2, <2>3, <2>4, <2>5, PushTurn
  <2>7. ASSUME NEW o \in owed', o.lidar = l, l \in inOrder
        PROVE  OwedInv(o)'
    <3>1. o \in Owed(l, p) /\ o \in Owes
      BY <1>4, <1>5, <1>10, <2>7 DEF TakenInv
    <3>2. p = Packet(o.type, o.index, o.trans, o.flag) /\ o.flag = "create"
      BY <1>7, <1>10, <3>1 DEF Packet
    <3>3. /\ o.index <= source'[l][o.type].index
          /\ WaitsInTurn(o, Append(<<>>, p), files)
          /\ Begun(o, Append(<<>>, p), source'[l], files)
      BY <1>2, <2>2, <2>4, <3>1, <3>2, PushOwedNew
    <3> QED BY <2>3, <2>7, <3>3 DEF OwedInv, files
  <2> QED BY <1>6, <2>6, <2>7 DEF files
<1>11. CASE l \notin DOMAIN handlers_ /\ p.flag # "create" /\ handlers_' = handlers_
  <2>1. \A o \in owed' : o \in owed
    BY <1>4, <1>11
  <2>2. owed \subseteq owed'
    BY <1>1, <1>2, HandlerCases
  <2> QED BY <1>8, <1>11, <2>1, <2>2
<1> QED BY <1>1, <1>2, <1>8, <1>9, <1>10, <1>11, HandlerCases

\* The deleting thread removes nothing that is owed to a file that it leaves.
LEMMA TakenRemove ==
  ASSUME TypeOK, TakenInv, CycleDelete
  PROVE  TakenInv'
<1>1. UNCHANGED <<app, handlers_, source, inOrder, down, broken>>
  BY DEF CycleDelete, host, lidars, network
<1>2. \A k : Coming(k)' = Coming(k)
  BY <1>1 DEF Coming
<1>3. /\ owed' \subseteq owed
      /\ \A o \in owed' : \A f \in disk :
           <<f.lidar, f.type, f.index>> = <<o.lidar, o.type, o.index>> => f \in disk'
  <2>1. CASE RemoveOldest
    <3>1. PICK f \in cycle.list :
            /\ disk' = disk \ {g \in disk : g.shown /\ NameOf(g) = NameOf(f)}
            /\ owed' = {o \in owed : <<o.lidar, o.type, o.index>> # <<f.lidar, f.type, f.index>>}
      BY <2>1 DEF RemoveOldest
    <3>2. \A g \in disk : NameOf(g) = NameOf(f) =>
            <<g.lidar, g.type, g.index>> = <<f.lidar, f.type, f.index>>
      BY DEF NameOf
    <3> QED BY <3>1, <3>2
  <2>2. CASE Wake \/ Enough \/ After
    BY <2>2 DEF Wake, Enough, After
  <2> QED BY <2>1, <2>2 DEF CycleDelete
<1>4. ASSUME NEW o \in owed', OwedInv(o)
      PROVE  OwedInv(o)'
  <2>1. \A f \in disk : \A q, files : OnDisk(o, f, q, files) => f \in disk'
    BY <1>3 DEF OnDisk
  <2> QED BY <1>1, <1>2, <1>4, <2>1 DEF OwedInv
<1> QED BY <1>1, <1>2, <1>3, <1>4 DEF TakenInv

LEMMA TakenInit == Init => TakenInv
BY DEF Init, TakenInv

LEMMA TakenStep == TypeOK /\ ShutInv /\ TakenInv /\ [Next]_vars => TakenInv'
<1> SUFFICES ASSUME TypeOK, ShutInv, TakenInv, [Next]_vars PROVE TakenInv'
  OBVIOUS
<1> USE DEF vars, host, lidars, network
<1>1. HandlersTyped
  BY DEF TypeOK, HandlersTyped
<1>2. CASE Start
  BY <1>2 DEF Start, InitDisabled, InitFails, InitEnabled, ShutInv, TakenInv
<1>3. CASE CycleDelete
  BY <1>3, TakenRemove
<1>4. CASE Destory
  <2>1. app' \notin {"off", "on"}
    BY <1>4 DEF Destory, StopCycle, JoinCycle, StopHandler, JoinHandler,
       ClearHandlers, StopAllLogger, ShowHidden, Disable
  <2> QED BY <2>1 DEF TakenInv
<1>5. ASSUME NEW l \in Lidars, AddDevice(l)
      PROVE  TakenInv'
  <2>1. UNCHANGED <<app, handlers_, source, inOrder, down, broken, disk, owed>>
    BY <1>5 DEF AddDevice
  <2>2. (\A k : Coming(k)' = Coming(k)) /\ \A o : OwedInv(o)' = OwedInv(o)
    BY <2>1 DEF Coming, OwedInv
  <2> QED BY <2>1, <2>2 DEF TakenInv
<1>6. ASSUME NEW l \in DOMAIN handlers_, Take(l)
      PROVE  TakenInv'
  <2>1. UNCHANGED <<app, source, inOrder, down, broken, disk, owed>>
    BY <1>6 DEF Take
  <2>2. /\ handlers_[l].queue = <<>> /\ DOMAIN handlers_' = DOMAIN handlers_
        /\ \A k \in DOMAIN handlers_ :
             /\ k # l => handlers_'[k] = handlers_[k]
             /\ handlers_'[k].files = handlers_[k].files
        /\ handlers_'[l].queue = handlers_[l].queue_ /\ handlers_'[l].queue_ = <<>>
    BY <1>1, <1>6 DEF Take, HandlersTyped, Handlers
  <2>3. \A k \in DOMAIN handlers_ : Coming(k)' = Coming(k)
    <3>1. Coming(l)' = Coming(l)
      BY <1>1, <2>2, ComingType, Joined DEF Coming
    <3> QED BY <2>2, <3>1 DEF Coming
  <2>4. \A o \in owed : o.lidar \in DOMAIN handlers_ /\ OwedInv(o) => OwedInv(o)'
    BY <2>1, <2>2, <2>3 DEF OwedInv
  <2> QED BY <2>1, <2>2, <2>3, <2>4 DEF TakenInv
<1>7. ASSUME NEW l \in DOMAIN handlers_, Write(l)
      PROVE  TakenInv'
  BY <1>7, TakenWrite
<1>8. ASSUME NEW l \in Lidars, app \notin {"off", "failed"}, Lidar(l)
      PROVE  TakenInv'
  <2>1. ASSUME NEW t \in Types, NEW p \in NextPackets(l, t), Push(l, p) \/ PushAway(l, p)
        PROVE  TakenInv'
    <3>1. CASE Push(l, p)
      BY <1>8, <3>1, TakenPush
    <3>2. CASE PushAway(l, p)
      BY <3>2, TakenAway DEF PushAway
    <3> QED BY <2>1, <3>1, <3>2
  <2>2. ASSUME NEW e \in late, ComesLate(l, e[2])
        PROVE  TakenInv'
    <3>1. e[2] \in LogPackets
      BY DEF TypeOK
    <3> QED BY <1>8, <2>2, <3>1, TakenLate
  <2> QED BY <1>8, <2>1, <2>2 DEF Lidar
<1>9. CASE UNCHANGED vars
  <2>1. (\A k : Coming(k)' = Coming(k)) /\ \A o : OwedInv(o)' = OwedInv(o)
    BY <1>9 DEF Coming, OwedInv
  <2> QED BY <1>9, <2>1 DEF TakenInv
<1> QED BY <1>2, <1>3, <1>4, <1>5, <1>6, <1>7, <1>8, <1>9 DEF Next, Writer

LEMMA Logged == TypeOK /\ TakenInv => TakenIsLogged
<1> SUFFICES ASSUME TypeOK, TakenInv, app = "on", ~down, NEW o \in owed, o.lidar \in inOrder,
                    <<o.lidar, o.type, o.index>> \notin broken
             PROVE  \/ Waits(o)
                    \/ \E f \in disk : /\ <<f.lidar, f.type, f.index>> = <<o.lidar, o.type, o.index>>
                                       /\ \E i \in DOMAIN f.data : f.data[i] = o.trans
  BY DEF TakenIsLogged
<1>1. o.lidar \in DOMAIN handlers_ /\ OwedInv(o)
  BY DEF TakenInv
<1> DEFINE q == Coming(o.lidar)
           files == handlers_[o.lidar].files
<1>2. WaitsInTurn(o, q, files) \/ \E f \in disk : OnDisk(o, f, q, files)
  BY <1>1 DEF OwedInv
<1>3. WaitsInTurn(o, q, files) => Waits(o)
  BY <1>1 DEF WaitsInTurn, Waits, Coming
<1> QED BY <1>2, <1>3 DEF OnDisk

\* LogFaithful: however packets are delayed or repeated a file never holds one before
\* one that the lidar had pushed earlier into it, and what is taken from a lidar whose
\* packets keep their order waits or is in its file (LoggerHandler::Write, CreateFile,
\* WriteFile, StopFile; LoggerManager::Handler and CycleDelete).
THEOREM LogIsFaithful == Spec => []LogFaithful
<1> DEFINE IInv == TypeOK /\ ShutInv /\ HiddenInv /\ TakenInv
<1>1. Init => IInv
  BY InitType, ShutInit, HiddenInit, TakenInit
<1>2. IInv /\ [Next]_vars => IInv'
  BY TypeStep, ShutStep, HiddenStep, TakenStep
<1>3. IInv => LogFaithful
  BY InOrder, Logged DEF LogFaithful
<1> HIDE DEF IInv
<1> QED BY <1>1, <1>2, <1>3, PTL DEF Spec
================================================================================
