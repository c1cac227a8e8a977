--------------------------------- MODULE SdkCore ---------------------------------
(***************************************************************************)
(* How the SDK starts, finds lidars, hands out what they send and stops    *)
(* (sdk_core/): parse_cfg_file.cpp and params_check.cpp read the           *)
(* configuration, device_manager.cpp opens the sockets, searches for       *)
(* lidars once a second and routes what is received, base/ has the threads  *)
(* that poll the sockets, and data_handler.cpp calls the application with   *)
(* points and IMU data.                                                    *)
(*                                                                         *)
(* A session works from a configuration file, or without one ("view"), in  *)
(* which case the ports are asked of the lidars.  A polling thread receives  *)
(* a packet and handles it in two steps, between which the application may *)
(* be stopping the SDK.  The commands themselves are in SdkCommands, the   *)
(* logs in SdkLog.                                                         *)
(***************************************************************************)
EXTENDS Integers, FiniteSets, SequencesExt

CONSTANTS
  Lidars, TypeOf,  \* lidars that are switched on, and what they are
  Address,         \* of each: the address it has
  Sampling,        \* of them: those that send points
  InLoader,        \* of them: those whose loader runs, and not their application
  NetOf,           \* the network segment of every address
  HostIp,          \* address for a session without a file
  Documents,       \* what the file may hold
  LogEnabled,      \* whether LoggerManager keeps a log
  MaxPoll,         \* sockets a thread can poll, OPEN_MAX_POLL and the pipe
  Observers,       \* what the application may register for points and IMU data
  MaxFaults        \* bound: sockets that cannot be made

ASSUME TypeAssumption ==
  /\ TypeOf \in [Lidars -> {"HAP", "Mid360"}]
  /\ Address \in [Lidars -> STRING] /\ HostIp \in STRING
  /\ Sampling \subseteq Lidars /\ InLoader \subseteq Lidars
  /\ {Address[l] : l \in Lidars} \cup {HostIp} \subseteq DOMAIN NetOf
ASSUME BoundAssumption == MaxPoll \in Nat /\ MaxFaults \in Nat

-----------------------------------------------------------------------------
\* A map with a value for a key that it has not: insert, which keeps what is there.
Inserted(f, k, v) == [x \in DOMAIN f \cup {k} |-> IF x \in DOMAIN f THEN f[x] ELSE v]

IsMap(f, keys, values) == DOMAIN f \subseteq keys /\ f \in [DOMAIN f -> values]

(* Ports *)

kDetectionPort == 56000
kHostDebugPointCloudPort == 44332
kPaHostFaultPort == 42867
kPaLidarFaultPort == 10001
kLogPort == 0

Mid360Ports == [cmd |-> 56100, push |-> 56200, point |-> 56300, imu |-> 56400, log |-> 56500]

-----------------------------------------------------------------------------
(* ParseCfgFile: a document is the part of the file that is looked at.  A    *)
(* section has "lidar_net_info" (ports) and "host_net_info" (hosts); NoPorts *)
(* stands for one that lacks a member or has one of another type.            *)

NoPorts == [none |-> TRUE]
Refused == [ok |-> FALSE]

\* Addresses: with that of no lidar and that of all.
Ips == STRING \cup {"", "255.255.255.255"}
Ports == [cmd : Nat, push : Nat, point : Nat, imu : Nat, log : Nat]
Hosts ==
  [ip : Ips, lidar_ip : Seq(Ips), multicast_ip : Seq(Nat), ports : Ports \cup {NoPorts}]
Sections ==
  {section \in [form : STRING, ports : Ports \cup {NoPorts}, hosts : Seq(Hosts)] :
     section.form = "object" => section.hosts # <<>>}
ASSUME DocumentAssumption ==
  Documents \subseteq [valid : BOOLEAN, master_sdk : STRING, lidar_log : STRING,
                      HAP : Sections, MID360 : Sections]

\* LivoxLidarCfg, and what is made of a document.
Cfgs ==
  [device_type : {"HAP", "Mid360"}, lidar_ip : Ips, lidar : Ports, host_ip : Ips,
   host : Ports, multicast_ip : Seq(Nat)]
Results ==
  {Refused} \cup [ok : {TRUE}, types : Seq(Cfgs), customs : Seq(Cfgs), master : BOOLEAN]

\* ParseTypeLidarCfg, for the lidar at an address or, with "", for a type.
Complete(section, host) == section.ports # NoPorts /\ host.ip # "" /\ host.ports # NoPorts
LidarCfg(type, section, host, ip) ==
  [device_type |-> type, lidar_ip |-> ip, lidar |-> section.ports,
   host_ip |-> host.ip, host |-> host.ports, multicast_ip |-> host.multicast_ip]

\* One entry of an array: for the lidars it lists, or for all others of the type.
\* "none" in a list stands for what is no string.
NoList == <<"">>
AddHost(r, type, section, host) ==
  IF ~r.ok THEN r
  ELSE IF host.lidar_ip = <<>> THEN r
  ELSE IF ~Complete(section, host) \/ "none" \in ToSet(host.lidar_ip) THEN Refused
  ELSE IF host.lidar_ip = NoList
  THEN [r EXCEPT !.types = Append(@, LidarCfg(type, section, host, ""))]
  ELSE [r EXCEPT !.customs = @ \o [i \in DOMAIN host.lidar_ip |->
                                    LidarCfg(type, section, host, host.lidar_ip[i])]]

\* ParseNewLidarCfg reads an array, ParseOldLidarCfg an object.
ParseLidarCfg(r, type, section) ==
  CASE section.form = "absent" -> r
    [] section.form = "array" ->
         LET after[i \in 0 .. Len(section.hosts)] ==
               IF i = 0 THEN r ELSE AddHost(after[i - 1], type, section, section.hosts[i])
         IN  after[Len(section.hosts)]
    [] section.form = "object" ->
         AddHost(r, type, section, [section.hosts[1] EXCEPT !.lidar_ip = NoList])
    [] OTHER -> Refused

Parse(doc) ==
  IF ~doc.valid \/ doc.master_sdk = "bad" \/ doc.lidar_log = "bad" THEN Refused
  ELSE LET start == [ok |-> TRUE, types |-> <<>>, customs |-> <<>>,
                     master |-> doc.master_sdk # "false"]
           hap == ParseLidarCfg(start, "HAP", doc.HAP)
       IN  IF hap.ok THEN ParseLidarCfg(hap, "Mid360", doc.MID360) ELSE Refused

-----------------------------------------------------------------------------
(* ParamsCheck *)

CheckLidarIp(r) ==
  /\ \A i \in DOMAIN r.customs : r.customs[i].lidar_ip # ""
  /\ \A i, j \in DOMAIN r.customs :
       i # j => r.customs[i].lidar_ip # r.customs[j].lidar_ip

IsMulticast(ip) == Len(ip) = 4 /\ ip[1] \in 224 .. 239 /\ ip # <<224, 0, 0, 0>>
CheckLidarMulticastIp(r) ==
  \A cfg \in ToSet(r.types) \cup ToSet(r.customs) :
    cfg.multicast_ip # <<>> => IsMulticast(cfg.multicast_ip)

\* CheckPort: the ports of a Mid-360 are what they are.
Corrected(cfg) ==
  IF cfg.device_type = "Mid360" THEN [cfg EXCEPT !.lidar = Mid360Ports] ELSE cfg
CheckLidarPort(r) ==
  [r EXCEPT !.types = [i \in DOMAIN r.types |-> Corrected(r.types[i])],
            !.customs = [i \in DOMAIN r.customs |-> Corrected(r.customs[i])]]

Check(r) ==
  /\ r.types # <<>> \/ r.customs # <<>>
  /\ CheckLidarIp(r)
  /\ CheckLidarMulticastIp(r)

-----------------------------------------------------------------------------
VARIABLES
  app,        \* where the application's call is
  is_view_,
  framework,  \* sdk_framework_cfg_ptr_: "null", "master" or "slave"
  cfgs,       \* custom_lidars_cfg_ptr_, type_lidars_cfg_map_ and custom_lidars_cfg_map_
  net,        \* sockets, and the maps and sets that hold them
  descriptors,\* sockets each polling thread polls
  io,         \* what each polling thread is doing
  detect,     \* the searching thread: "off", "run" or "ended"
  stop,       \* is_stop_detection_
  searched,   \* whether a search was sent
  devices_,   \* GeneralCommandHandler: lidars that answered, and their firmware
  view,       \* view_devices_ and view_lidars_info_
  observers_, \* observers of points and IMU data
  up,         \* of DeviceManager and GeneralCommandHandler, which have their comm_port_
  faults,     \* sockets that could not be made
  down,       \* whether the program has crashed
  strayed     \* history: whether a lidar was added after the sockets were closed

config == <<is_view_, framework, cfgs>>
lidarVars == <<devices_, view>>
vars == <<app, config, net, descriptors, io, detect, stop, searched, lidarVars, observers_, up,
          faults, down, strayed>>

Threads == {"detection", "cmd", "data"}
Starting == {"off", "threads", "channels", "thread", "started", "failed"}
Stopping == app \notin Starting \cup {"on"}
SocketsAreClosed == Stopping /\ app # "close"

-----------------------------------------------------------------------------
(* Sockets.  They are numbered in the order in which they are made; each has a *)
(* key, and the map channel_info_ holds one for each key.                      *)

NoNet ==
  [socks |-> <<>>, open |-> {}, ok |-> TRUE, channel_info_ |-> <<>>,
   custom_command_channel_ |-> <<>>, detection |-> {}, command_channel_ |-> {},
   data_channel_ |-> {}, socket_vec_ |-> {}, vec_broadcast_socket_ |-> {},
   tasks |-> [t \in Threads |-> <<>>]]

Keys == Ips \X Nat
IsNet(n) ==
  /\ n \in [socks : Seq(Keys), open : SUBSET Nat, ok : BOOLEAN,
            channel_info_ : {n.channel_info_},
            custom_command_channel_ : {n.custom_command_channel_}, detection : SUBSET Nat,
            command_channel_ : SUBSET Nat, data_channel_ : SUBSET Nat, socket_vec_ : SUBSET Nat,
            vec_broadcast_socket_ : SUBSET Nat,
            tasks : [Threads -> Seq({"add", "remove"} \X Nat)]]
  /\ IsMap(n.channel_info_, Keys, Nat) /\ IsMap(n.custom_command_channel_, Keys, Nat)

\* What is to be opened: a socket for a key, of the thread that polls it.
Kinds == {"detection", "search", "command", "broadcast", "data", "viewdata"}
Channel(ip, port, kind) == [key |-> <<ip, port>>, kind |-> kind]
ThreadOf(kind) ==
  CASE kind \in {"detection", "search"} -> "detection"
    [] kind \in {"data", "viewdata"} -> "data"
    [] OTHER -> "cmd"

\* AddDelegate posts a task to the loop of the thread.
Post(n, thread, task, s) == [n EXCEPT !.tasks[thread] = Append(@, <<task, s>>)]

\* CreateSocket, and what is kept of the socket; bad is the one that fails.
Opened(n, c, bad) ==
  LET s == Len(n.socks) + 1
      m == [n EXCEPT
        !.socks = Append(@, c.key), !.open = @ \cup {s},
        !.channel_info_ = IF c.kind \in {"broadcast", "search"} THEN @ ELSE Inserted(@, c.key, s),
        !.custom_command_channel_ =
          IF c.kind \in {"command", "detection"} THEN Inserted(@, c.key, s) ELSE @,
        !.detection = IF c.kind \in {"detection", "search"} THEN @ \cup {s} ELSE @,
        !.command_channel_ = IF c.kind = "command" THEN @ \cup {s} ELSE @,
        !.data_channel_ = IF c.kind = "data" THEN @ \cup {s} ELSE @,
        !.socket_vec_ = IF c.kind \in {"command", "data", "viewdata"} THEN @ \cup {s} ELSE @,
        !.vec_broadcast_socket_ = IF c.kind = "broadcast" THEN @ \cup {s} ELSE @]
  IN  IF s = bad THEN [n EXCEPT !.socks = Append(@, c.key), !.ok = FALSE]
      ELSE Post(m, ThreadOf(c.kind), "add", s)

\* CreateCmdSocketAndAddDelegate and CreateDataSocketAndAddDelegate: no socket for an
\* address or port that is not given, nor, as in CreateViewDataChannel, a second one
\* for a key.
Unwanted(c) ==
  \/ c.kind \in {"command", "data"} /\ (c.key[1] = "" \/ c.key[2] = kLogPort)
  \/ c.kind = "data" /\ c.key[2] = kDetectionPort
Shared(n, c) == c.kind \in {"command", "data", "viewdata"} /\ c.key \in DOMAIN n.channel_info_

\* Mutation: every lidar has sockets of its own.
OpenChannelAlways(n, c, bad) == IF ~n.ok \/ Unwanted(c) THEN n ELSE Opened(n, c, bad)

OpenChannel(n, c, bad) ==
  IF ~n.ok \/ Unwanted(c) THEN n
  ELSE IF Shared(n, c)
  THEN [n EXCEPT !.custom_command_channel_ =
          IF c.kind = "command" THEN Inserted(@, c.key, n.channel_info_[c.key]) ELSE @]
  ELSE Opened(n, c, bad)
\* One after the other, up to the first that fails.
OpenChannels(n, channels, bad) ==
  LET after[i \in 0 .. Len(channels)] ==
        IF i = 0 THEN {n} ELSE {OpenChannel(m, channels[i], bad) : m \in after[i - 1]}
  IN  after[Len(channels)]

\* CreateDetectionChannel: a broadcast socket and one of the host's.
DetectionChannels(ip) ==
  <<Channel("255.255.255.255", kDetectionPort, "search"),
    Channel(ip, kDetectionPort, "detection")>>

\* CreateDataChannel and CreateCommandChannel.
DataChannels(cfg) ==
  <<Channel(cfg.host_ip, cfg.host.point, "data"), Channel(cfg.host_ip, cfg.host.imu, "data"),
    Channel(cfg.host_ip, kHostDebugPointCloudPort, "data")>>
CommandChannels(cfg) ==
  (IF framework = "master" THEN <<Channel(cfg.host_ip, cfg.host.cmd, "command")>> ELSE <<>>) \o
  <<Channel(cfg.host_ip, cfg.host.push, "command")>> \o
  (IF cfg.device_type = "PA" THEN <<Channel(cfg.host_ip, kPaHostFaultPort, "command")>> ELSE <<>>) \o
  (IF cfg.device_type = "Mid360"
   THEN <<Channel("255.255.255.255", cfg.host.push, "broadcast")>> ELSE <<>>) \o
  (IF LogEnabled THEN <<Channel(cfg.host_ip, cfg.host.log, "command")>> ELSE <<>>)
ChannelsOf(list) == FlattenSeq([i \in DOMAIN list |-> DataChannels(list[i]) \o CommandChannels(list[i])])

\* None fails, or one of those to be made.
Outcomes(n, channels) ==
  UNION {OpenChannels(n, cs, bad) : cs \in {channels},
           bad \in {0} \cup IF faults < MaxFaults THEN (Len(n.socks) + 1) .. (Len(n.socks) + 2)
                            ELSE {}}
Counted(n) == faults' = IF n.ok THEN faults ELSE faults + 1

-----------------------------------------------------------------------------
(* The threads that poll: IOLoop and MultipleIOEpoll *)

Idle == [pc |-> "poll"]
Off == [pc |-> "off"]

\* PollSetAdd refuses a closed socket, and one too many.
Polled(set, task) ==
  CASE task[1] = "add" /\ task[2] \in net.open /\ Cardinality(set) + 1 < MaxPoll ->
         set \cup {task[2]}
    [] task[1] = "remove" -> set \ {task[2]}
    [] OTHER -> set

PolledAfter(set, tasks) ==
  LET after[i \in 0 .. Len(tasks)] ==
        IF i = 0 THEN set ELSE Polled(after[i - 1], tasks[i])
  IN  after[Len(tasks)]

\* Loop: all pending tasks, when no packet is being handled.
RunTasks(t) ==
  /\ io[t] = Idle
  /\ net.tasks[t] # <<>>
  /\ descriptors' = [descriptors EXCEPT ![t] = PolledAfter(@, net.tasks[t])]
  /\ net' = [net EXCEPT !.tasks[t] = <<>>]
  /\ UNCHANGED <<app, config, io, detect, stop, searched, lidarVars, observers_, up, faults, down,
                 strayed>>

\* A packet of a lidar from one of its ports, received by a socket that is polled.
Receive(t, s, l, port) ==
  /\ io[t] = Idle
  /\ s \in descriptors[t] \cap net.open
  /\ io' = [io EXCEPT ![t] = [pc |-> "got", lidar |-> l, port |-> port]]
  /\ UNCHANGED <<app, config, net, descriptors, detect, stop, searched, lidarVars, observers_, up,
                 faults, down, strayed>>

-----------------------------------------------------------------------------
(* DeviceManager::OnData, for a packet that was received *)

Done(t) == io' = [io EXCEPT ![t] = Idle]
Nothing == UNCHANGED <<config, net, lidarVars, faults, down, strayed>>
Crash == down' = TRUE /\ UNCHANGED <<config, net, lidarVars, faults, strayed>>

\* Points and IMU data are for DataHandler.
IsData(l, port) ==
  IF is_view_ THEN port \in view[l].ports
  ELSE /\ Address[l] \in DOMAIN cfgs.map
       /\ port \in {cfgs.map[Address[l]].lidar.imu, cfgs.map[Address[l]].lidar.point}

\* What GeneralCommandHandler is given.
IsCommand(l, port) ==
  \/ is_view_
  \/ /\ Address[l] \in DOMAIN cfgs.map
     /\ LET lidar == cfgs.map[Address[l]].lidar
        IN  port \in {kDetectionPort, lidar.cmd, lidar.push, lidar.log, kPaLidarFaultPort}

\* The answer to a search of a lidar that no entry names, but one of its type.
IsNew(l, port) ==
  ~is_view_ /\ Address[l] \notin DOMAIN cfgs.map /\ port = kDetectionPort

\* Mutation: the new entry is not among those for which sockets are made.
AddLidarUnlisted(l) ==
  LET cfg == [cfgs.type_map[TypeOf[l]] EXCEPT !.lidar_ip = Address[l]]
      list == Append(cfgs.list, cfg)
  IN  \E n \in Outcomes(net, ChannelsOf(cfgs.list)) :
        /\ cfgs' = [cfgs EXCEPT !.list = list, !.map = Inserted(@, Address[l], cfg),
                                !.type_map[TypeOf[l]] = cfg]
        /\ net' = [n EXCEPT !.ok = TRUE]
        /\ Counted(n)
        /\ strayed' = (strayed \/ SocketsAreClosed)
        /\ UNCHANGED <<is_view_, framework, lidarVars, down>>

\* It has an entry of its own from now on, and the sockets of all entries are made
\* as far as they are not there; the answer itself is not looked at further.
AddLidar(l) ==
  LET cfg == [cfgs.type_map[TypeOf[l]] EXCEPT !.lidar_ip = Address[l]]
      list == Append(cfgs.list, cfg)
  IN  \E n \in Outcomes(net, ChannelsOf(list)) :
        /\ cfgs' = [cfgs EXCEPT !.list = list, !.map = Inserted(@, Address[l], cfg),
                                !.type_map[TypeOf[l]] = cfg]
        /\ net' = [n EXCEPT !.ok = TRUE]
        /\ Counted(n)
        /\ strayed' = (strayed \/ SocketsAreClosed)
        /\ UNCHANGED <<is_view_, framework, lidarVars, down>>

FindLidar(l) ==
  IF "manager" \notin up THEN Crash
  ELSE IF TypeOf[l] \notin DOMAIN cfgs.type_map THEN Nothing
  ELSE IF cfgs.null THEN Crash
  ELSE AddLidar(l)

\* GeneralCommandHandler::HandleDetectionData: the first answer of a lidar makes it
\* known, and its firmware is asked for; later ones go to HandleDetectionData of
\* DeviceManager.  Without a configuration file there is no framework to look at.
FirstAnswer(l) ==
  IF framework = "null" THEN Crash
  ELSE /\ devices_' = [devices_ EXCEPT ![l] = IF framework = "master" THEN "asked" ELSE "known"]
       /\ UNCHANGED <<config, net, view, faults, down, strayed>>

\* HandleDetectionData in a session without a file: the ports are asked for, then set.
LaterAnswer(l) ==
  /\ view' = IF ~is_view_ THEN view
             ELSE [view EXCEPT ![l].seen = TRUE,
                               ![l].asked = @ \/ (devices_[l] = "application" /\ ~view[l].is_get),
                               ![l].setting = @ \/ (/\ framework = "master"
                                                    /\ devices_[l] = "application"
                                                    /\ view[l].is_get /\ ~view[l].is_set)]
  /\ UNCHANGED <<config, net, devices_, faults, down, strayed>>

\* The first three bytes of the addresses of lidar and host must be the same, if
\* there is no file.
VerifyNetSegment(l) == is_view_ => NetOf[Address[l]] = NetOf[HostIp]

Answered(l) ==
  IF ~VerifyNetSegment(l) THEN Nothing
  ELSE IF devices_[l] = "none" THEN FirstAnswer(l)
  ELSE LaterAnswer(l)

OnData(t) ==
  /\ io[t].pc = "got"
  /\ LET l == io[t].lidar  port == io[t].port
     IN  CASE IsData(l, port) ->
                io' = [io EXCEPT ![t].pc = "callback"] /\ Nothing
           [] ~IsData(l, port) /\ IsCommand(l, port) ->
                io' = [io EXCEPT ![t].pc = "handler"] /\ Nothing
           [] IsNew(l, port) -> FindLidar(l) /\ Done(t)
           [] OTHER -> Nothing /\ Done(t)
  /\ UNCHANGED <<app, descriptors, detect, stop, searched, observers_, up>>

\* GeneralCommandHandler::Handler; what commands and messages do is in SdkCommands.
Handler(t) ==
  /\ io[t].pc = "handler"
  /\ IF "general" \notin up THEN Crash
     ELSE IF io[t].port = kDetectionPort THEN Answered(io[t].lidar)
     ELSE Nothing
  /\ Done(t)
  /\ UNCHANGED <<app, descriptors, detect, stop, searched, observers_, up>>

-----------------------------------------------------------------------------
(* DataHandler *)

\* mutex_ is held while the observers are called.
MutexFree == \A t \in Threads : io[t].pc # "observers"

\* Handle: the callbacks with no lock, then the lock, and one observer after the other.
Observing(left) == IF left = {} THEN Idle ELSE [pc |-> "observers", left |-> left]

LockObservers(t) ==
  /\ io[t].pc = "callback" /\ MutexFree
  /\ io' = [io EXCEPT ![t] = Observing(observers_)]
  /\ UNCHANGED <<app, config, net, descriptors, detect, stop, searched, lidarVars, observers_,
                 up, faults, down, strayed>>

CallObserver(t) ==
  /\ io[t].pc = "observers"
  /\ \E o \in io[t].left : io' = [io EXCEPT ![t] = Observing(io[t].left \ {o})]
  /\ UNCHANGED <<app, config, net, descriptors, detect, stop, searched, lidarVars, observers_,
                 up, faults, down, strayed>>

AddPointCloudObserver(o) ==
  /\ MutexFree
  /\ observers_' = observers_ \cup {o}
  /\ UNCHANGED <<app, config, net, descriptors, io, detect, stop, searched, lidarVars, up,
                 faults, down, strayed>>

RemovePointCloudObserver(o) ==
  /\ o \in observers_ /\ MutexFree
  /\ observers_' = observers_ \ {o}
  /\ UNCHANGED <<app, config, net, descriptors, io, detect, stop, searched, lidarVars, up,
                 faults, down, strayed>>

-----------------------------------------------------------------------------
(* The search, and what lidars answer *)

\* DetectionLidars: the flag, then Detection.
DetectionLidars ==
  /\ detect = "run"
  /\ IF stop THEN detect' = "ended" /\ UNCHANGED searched
     ELSE searched' = TRUE /\ UNCHANGED detect
  /\ UNCHANGED <<app, config, net, descriptors, io, stop, lidarVars, observers_, up, faults, down,
                 strayed>>

\* A lidar answers a search, to the socket from which it came.
Answer(l) ==
  /\ searched
  /\ \E s \in net.detection : net.socks[s][1] # "255.255.255.255" /\ Receive("detection", s, l, kDetectionPort)

\* What else a lidar that was found sends: messages to sockets of commands, points to
\* those of data.
Send(l) ==
  /\ devices_[l] # "none" /\ l \in Sampling
  /\ \/ \E s \in descriptors["cmd"] : Receive("cmd", s, l, Mid360Ports.push)
     \/ \E s \in descriptors["data"] : Receive("data", s, l, Mid360Ports.point)

\* QueryFwTypeCallback, in the end: the firmware is told, or an application is assumed.
FwType(l) ==
  /\ devices_[l] = "asked"
  /\ devices_' = [devices_ EXCEPT ![l] = IF l \in InLoader THEN "loader" ELSE "application"]
  /\ UNCHANGED <<app, config, net, descriptors, io, detect, stop, searched, view, observers_,
                 up, faults, down, strayed>>

\* AddViewLidar: sockets for the ports a lidar reports, which it is then told to use.
ViewChannels(l) ==
  <<Channel(HostIp, Mid360Ports.point + 1, "viewdata"), Channel(HostIp, Mid360Ports.imu + 1, "viewdata")>>
AddViewLidar(l) ==
  /\ is_view_ /\ "general" \in up /\ view[l].asked /\ view[l].seen
  /\ ~view[l].is_get
  /\ \E n \in Outcomes(net, ViewChannels(l)) :
       /\ net' = [n EXCEPT !.ok = TRUE]
       /\ Counted(n)
       /\ view' = [view EXCEPT ![l].asked = FALSE, ![l].is_get = TRUE,
                               ![l].setting = framework = "master",
                               ![l].ports = {Mid360Ports.point, Mid360Ports.imu}]
  /\ strayed' = (strayed \/ SocketsAreClosed)
  /\ UNCHANGED <<app, config, descriptors, io, detect, stop, searched, devices_, observers_, up, down>>

\* UpdateViewLidarCfgCallback
UpdateViewLidarCfgCallback(l) ==
  /\ is_view_ /\ "general" \in up /\ view[l].setting
  /\ view' = [view EXCEPT ![l].setting = FALSE, ![l].is_set = view[l].seen]
  /\ UNCHANGED <<app, config, net, descriptors, io, detect, stop, searched, devices_, observers_, up,
                 faults, down, strayed>>

Lidar(l) ==
  \/ Answer(l) \/ Send(l) \/ FwType(l)
  \/ AddViewLidar(l) \/ UpdateViewLidarCfgCallback(l)

-----------------------------------------------------------------------------
(* LivoxLidarSdkInit; what is refused changes nothing *)

Without(host) == [list |-> <<>>, map |-> <<>>, type_map |-> <<>>, null |-> TRUE, host |-> host]
NoCfgs == Without("")
NoView == [seen |-> FALSE, asked |-> FALSE, is_get |-> FALSE, setting |-> FALSE,
           is_set |-> FALSE, ports |-> {}]

\* GetLidarConfigMap: of two entries for a type the last one counts.
LastOf(types, type) == types[Max({i \in DOMAIN types : types[i].device_type = type})]
GetLidarConfigMap(r) ==
  [list |-> r.customs, null |-> FALSE,
   map |-> [ip \in {r.customs[i].lidar_ip : i \in DOMAIN r.customs} |->
              r.customs[Max({i \in DOMAIN r.customs : r.customs[i].lidar_ip = ip})]],
   type_map |-> [type \in {r.types[i].device_type : i \in DOMAIN r.types} |-> LastOf(r.types, type)],
   host |-> IF r.types # <<>> THEN r.types[1].host_ip ELSE r.customs[1].host_ip]

\* DeviceManager::Init with a file ...
InitFile(doc) ==
  LET r == Parse(doc)
  IN  /\ app = "off" /\ r.ok /\ Check(r)
      /\ is_view_' = FALSE
      /\ framework' = IF r.master THEN "master" ELSE "slave"
      /\ cfgs' = GetLidarConfigMap(CheckLidarPort(r))
      /\ up' = {"manager", "general"}
      /\ app' = "threads"
      /\ UNCHANGED <<net, descriptors, io, detect, stop, searched, lidarVars, observers_, faults,
                     down, strayed>>

\* ... and with an address; what an earlier session left of the framework stays.
InitView ==
  /\ app = "off"
  /\ is_view_' = TRUE
  /\ cfgs' = Without(HostIp)
  /\ up' = {"manager", "general"}
  /\ app' = "threads"
  /\ UNCHANGED <<framework, net, descriptors, io, detect, stop, searched, lidarVars, observers_,
                 faults, down, strayed>>

CreateIOThread ==
  /\ app = "threads"
  /\ io' = [t \in Threads |-> Idle]
  /\ app' = "channels"
  /\ UNCHANGED <<config, net, descriptors, detect, stop, searched, lidarVars, observers_, up, faults,
                 down, strayed>>

\* After a socket that cannot be made the threads stay, and Uninit does nothing.
CreateChannel ==
  /\ app = "channels"
  /\ \E n \in Outcomes(net, DetectionChannels(cfgs.host) \o ChannelsOf(cfgs.list)) :
       /\ net' = [n EXCEPT !.ok = TRUE]
       /\ Counted(n)
       /\ app' = IF n.ok THEN "thread" ELSE "failed"
  /\ UNCHANGED <<config, descriptors, io, detect, stop, searched, lidarVars, observers_, up, down,
                 strayed>>

\* The searching thread is started before it is told not to stop.
StartDetection ==
  /\ app = "thread"
  /\ detect' = "run"
  /\ app' = "started"
  /\ UNCHANGED <<config, net, descriptors, io, stop, searched, lidarVars, observers_, up, faults,
                 down, strayed>>
LetDetectionRun ==
  /\ app = "started"
  /\ stop' = FALSE
  /\ app' = "on"
  /\ UNCHANGED <<config, net, descriptors, io, detect, searched, lidarVars, observers_, up, faults,
                 down, strayed>>

-----------------------------------------------------------------------------
(* LivoxLidarSdkUninit, after LoggerManager *)

Removals(sockets) == SetToSeq({<<"remove", s>> : s \in sockets})
RemoveDelegates ==
  /\ app = "on"
  /\ net' = [net EXCEPT
       !.tasks["detection"] = @ \o Removals(net.detection),
       !.tasks["cmd"] = @ \o Removals(net.command_channel_ \cup net.vec_broadcast_socket_),
       !.tasks["data"] = @ \o Removals(net.data_channel_)]
  /\ app' = "close"
  /\ UNCHANGED <<config, descriptors, io, detect, stop, searched, lidarVars, observers_, up, faults,
                 down, strayed>>

\* Mutation: the sockets for broadcast messages are forgotten.
CloseSocketsSome ==
  /\ app = "close"
  /\ net' = [net EXCEPT !.open = @ \ net.socket_vec_, !.socket_vec_ = {},
                        !.vec_broadcast_socket_ = {}]
  /\ app' = "join"
  /\ UNCHANGED <<config, descriptors, io, detect, stop, searched, lidarVars, observers_, up, faults,
                 down, strayed>>

CloseSockets ==
  /\ app = "close"
  /\ net' = [net EXCEPT !.open = @ \ (net.socket_vec_ \cup net.vec_broadcast_socket_),
                        !.socket_vec_ = {}, !.vec_broadcast_socket_ = {}]
  /\ app' = "join"
  /\ UNCHANGED <<config, descriptors, io, detect, stop, searched, lidarVars, observers_, up, faults,
                 down, strayed>>

\* Mutation: the thread is joined without being told to stop.
StopDetectionUntold ==
  /\ app = "join"
  /\ app' = "joining"
  /\ UNCHANGED <<stop, config, net, descriptors, io, detect, searched, lidarVars, observers_, up, faults,
                 down, strayed>>

StopDetection ==
  /\ app = "join"
  /\ stop' = TRUE
  /\ app' = "joining"
  /\ UNCHANGED <<config, net, descriptors, io, detect, searched, lidarVars, observers_, up, faults,
                 down, strayed>>

JoinDetection ==
  /\ app = "joining" /\ detect = "ended"
  /\ net' = [net EXCEPT !.open = @ \ net.detection, !.detection = {}]
  /\ detect' = "off"
  /\ app' = "cfgs"
  /\ UNCHANGED <<config, descriptors, io, stop, searched, lidarVars, observers_, up, faults, down,
                 strayed>>

\* The lists are dropped before the maps that lead to them.
DropCfgs ==
  /\ app = "cfgs"
  /\ cfgs' = [cfgs EXCEPT !.null = TRUE, !.list = <<>>]
  /\ app' = "maps"
  /\ UNCHANGED <<is_view_, framework, net, descriptors, io, detect, stop, searched, lidarVars,
                 observers_, up, faults, down, strayed>>

ClearMaps ==
  /\ app = "maps"
  /\ cfgs' = NoCfgs
  /\ net' = [net EXCEPT !.channel_info_ = <<>>, !.custom_command_channel_ = <<>>,
                        !.command_channel_ = {}, !.data_channel_ = {}]
  /\ up' = up \ {"manager"}
  /\ is_view_' = FALSE
  /\ view' = [l \in Lidars |-> NoView]
  /\ app' = "data"
  /\ UNCHANGED <<framework, descriptors, io, detect, stop, searched, devices_, observers_, faults,
                 down, strayed>>

\* DataHandler::Destory
ClearObservers ==
  /\ app = "data" /\ MutexFree
  /\ observers_' = {}
  /\ app' = "general"
  /\ UNCHANGED <<config, net, descriptors, io, detect, stop, searched, lidarVars, up,
                 faults, down, strayed>>

\* GeneralCommandHandler::Destory
ClearDevices ==
  /\ app = "general"
  /\ devices_' = [l \in Lidars |-> "none"]
  /\ up' = {}
  /\ app' = "ended"
  /\ UNCHANGED <<config, net, descriptors, io, detect, stop, searched, view, observers_, faults, down,
                 strayed>>

-----------------------------------------------------------------------------
\* The first session of a process, or one after a session with a file.
Init ==
  /\ app = "off" /\ is_view_ = FALSE /\ cfgs = NoCfgs /\ net = NoNet
  /\ \/ framework = "null" /\ stop = FALSE
     \/ framework = "master" /\ stop = TRUE
  /\ descriptors = [t \in Threads |-> {}]
  /\ io = [t \in Threads |-> Off]
  /\ detect = "off" /\ searched = FALSE
  /\ devices_ = [l \in Lidars |-> "none"]
  /\ view = [l \in Lidars |-> NoView]
  /\ observers_ = {}
  /\ up = {} /\ faults = 0 /\ down = FALSE /\ strayed = FALSE

IoStates ==
  [pc : {"poll", "off"}] \cup [pc : {"got", "handler", "callback"}, lidar : Lidars, port : Nat]
  \cup [pc : {"observers"}, left : SUBSET Observers]
Views ==
  [seen : BOOLEAN, asked : BOOLEAN, is_get : BOOLEAN, setting : BOOLEAN, is_set : BOOLEAN,
   ports : SUBSET Nat]

TypeOK ==
  /\ app \in Starting \cup {"on", "close", "join", "joining", "cfgs", "maps", "data", "general",
                            "ended"}
  /\ is_view_ \in BOOLEAN /\ framework \in {"null", "master", "slave"}
  /\ cfgs \in [list : Seq(Cfgs), map : {cfgs.map}, type_map : {cfgs.type_map},
              null : BOOLEAN, host : Ips]
  /\ IsMap(cfgs.map, Ips, Cfgs) /\ IsMap(cfgs.type_map, {"HAP", "Mid360"}, Cfgs)
  /\ IsNet(net)
  /\ descriptors \in [Threads -> SUBSET Nat]
  /\ io \in [Threads -> IoStates]
  /\ detect \in {"off", "run", "ended"}
  /\ stop \in BOOLEAN /\ searched \in BOOLEAN
  /\ devices_ \in [Lidars -> {"none", "known", "asked", "loader", "application"}]
  /\ view \in [Lidars -> Views]
  /\ observers_ \subseteq Observers /\ up \subseteq {"manager", "general"}
  /\ faults \in Nat /\ down \in BOOLEAN /\ strayed \in BOOLEAN

Thread(t) == OnData(t) \/ Handler(t) \/ LockObservers(t) \/ CallObserver(t)
InitSteps == CreateIOThread \/ CreateChannel \/ StartDetection \/ LetDetectionRun
UninitSteps ==
  \/ CloseSockets \/ StopDetection \/ JoinDetection \/ DropCfgs \/ ClearMaps
  \/ ClearObservers \/ ClearDevices

\* A program that crashed does nothing more.
Next ==
  /\ ~down
  /\ \/ \E doc \in Documents : InitFile(doc)
     \/ InitView \/ InitSteps
     \/ RemoveDelegates \/ UninitSteps
     \/ \E o \in Observers : AddPointCloudObserver(o) \/ RemovePointCloudObserver(o)
     \/ DetectionLidars
     \/ \E t \in Threads : RunTasks(t) \/ Thread(t)
     \/ \E l \in Lidars : Lidar(l)

\* A loop runs its tasks after every poll.
Fairness ==
  /\ SF_vars(~down /\ UninitSteps)
  /\ WF_vars(~down /\ DetectionLidars)
  /\ \A t \in Threads : SF_vars(~down /\ RunTasks(t)) /\ WF_vars(~down /\ Thread(t))

Spec == Init /\ [][Next]_vars /\ Fairness

-----------------------------------------------------------------------------
(* Properties *)

\* However lidars are found and whatever fails, no two entries are for one lidar, and
\* no two sockets that are open share an address and port, but for those that listen to
\* broadcasts: two would take each other's packets.
OneEach ==
  /\ \A i, j \in DOMAIN cfgs.list : i # j => cfgs.list[i].lidar_ip # cfgs.list[j].lidar_ip
  /\ \A s, t \in net.open :
       s # t /\ net.socks[s] = net.socks[t] => net.socks[s][1] = "255.255.255.255"

\* When Uninit has returned no socket is left open, unless a lidar was found while it was
\* already closing them.
SocketsClosed == app = "ended" /\ ~strayed => net.open = {}

\* SendCommand: the socket from which commands to a lidar are sent.
GetCmdChannel(l) ==
  LET key == <<cfgs.map[Address[l]].host_ip, cfgs.map[Address[l]].host.cmd>>
  IN  IF Address[l] \in DOMAIN cfgs.map /\ key \in DOMAIN net.custom_command_channel_
      THEN {net.custom_command_channel_[key]} ELSE net.detection

\* A lidar is served when it has an entry, is known, its points and its messages reach
\* sockets that are polled and there is one for its commands.
PolledOn(ip, port, t) ==
  <<ip, port>> \in DOMAIN net.channel_info_ /\ net.channel_info_[<<ip, port>>] \in descriptors[t]
Served(l) ==
  /\ devices_[l] # "none" /\ Address[l] \in DOMAIN cfgs.map
  /\ LET cfg == cfgs.map[Address[l]]
     IN  /\ PolledOn(cfg.host_ip, cfg.host.point, "data")
         /\ PolledOn(cfg.host_ip, cfg.host.imu, "data")
         /\ PolledOn(cfg.host_ip, cfg.host.push, "cmd")
  /\ GetCmdChannel(l) \cap net.open # {}

Answering(l) == io["detection"].pc = "got" /\ io["detection"].lidar = l
Configured(l) ==
  ~is_view_ /\ (Address[l] \in DOMAIN cfgs.map \/ TypeOf[l] \in DOMAIN cfgs.type_map)

\* A lidar that the file names, or whose type it names, and whose answers keep coming is
\* served in the end and for good, if no socket fails and the SDK is not stopped.
Connected ==
  \A l \in Lidars :
    []<>Answering(l) /\ <>[](Configured(l) /\ ~Stopping /\ faults = 0) => <>[]Served(l)

\* An Uninit returns, whatever lidars send meanwhile, unless the program crashes.
UninitEnds == Stopping ~> (app = "ended" \/ down)
================================================================================
