------------------------------ MODULE SdkCommands ------------------------------
(***************************************************************************)
(* The commands with which an application reads and sets the parameters of *)
(* lidars, and the messages in which lidars report them                    *)
(* (sdk_core/command_handler/): command_impl.cpp and build_request.cpp     *)
(* build the requests, general_command_handler.cpp keeps the commands that *)
(* wait for an answer, hap_command_handler.cpp and                         *)
(* mid360_command_handler.cpp send them, and parse_lidar_state_info.cpp    *)
(* turns what a lidar pushes into what the application is told.            *)
(*                                                                         *)
(* A packet is a sequence of numbers: two for the header (how many keys,   *)
(* and a reserved one), then for each item its key, its length and its     *)
(* bytes, as SdkPacket holds them.  Lidars are found before (LidarSetup);  *)
(* a thread makes one call at a time, and the network may keep a message    *)
(* for ever, let others overtake it or deliver an answer twice.            *)
(***************************************************************************)
EXTENDS Integers, FiniteSets, SequencesExt

CONSTANTS
  Lidars,
  TypeOf,     \* dev_type of each: "HAP", "Mid360" or "PA"
  Apps,       \* threads of the application
  Offered,    \* the calls these make, of those listed below
  Held,       \* the keys the lidars hold
  HostIps,    \* addresses in the configuration and in calls
  MulticastIp,\* an address, or <<>> for none
  MaxCalls,   \* bound: calls made
  MaxPushes   \* bound: reports of the lidars

ASSUME LidarAssumption == TypeOf \in [Lidars -> {"HAP", "Mid360", "PA"}]
ASSUME BoundAssumption == MaxCalls \in Nat /\ MaxPushes \in Nat

-----------------------------------------------------------------------------
(* Keys *)

Code ==
  [PclDataType |-> 0, PatternMode |-> 1, DualEmitEn |-> 2, PointSendEn |-> 3,
   LidarIpCfg |-> 4, StateInfoHostIpCfg |-> 5, LidarPointDataHostIpCfg |-> 6,
   LidarImuHostIpCfg |-> 7, CtlHostIpCfg |-> 8, LogHostIpCfg |-> 9,
   VehicleSpeed |-> 16, EnvironmentTemp |-> 17, InstallAttitude |-> 18,
   BlindSpotSet |-> 19, FrameRate |-> 20, FovCfg0 |-> 21, FovCfg1 |-> 22,
   FovCfgEn |-> 23, DetectMode |-> 24, FuncIoCfg |-> 25,
   WorkModeAfterBoot |-> 32, WorkMode |-> 26, GlassHeat |-> 27,
   ImuDataEn |-> 28, FusaEn |-> 29, ForceHeatEn |-> 30, LogParamSet |-> 32767,
   Sn |-> 32768, ProductInfo |-> 32769, VersionApp |-> 32770,
   VersionLoader |-> 32771, VersionHardware |-> 32772, Mac |-> 32773,
   CurWorkState |-> 32774, CoreTemp |-> 32775, PowerUpCnt |-> 32776,
   LocalTimeNow |-> 32777, LastSyncTime |-> 32778, TimeOffset |-> 32779,
   TimeSyncType |-> 32780, StatusCode |-> 32781, LidarDiagStatus |-> 32782,
   LidarFlashStatus |-> 32783, FwType |-> 32784, HmsCode |-> 32785,
   CurGlassHeatState |-> 32786, RoiMode |-> 65534]

ASSUME KeyAssumption == IsFiniteSet(Held) /\ Held \subseteq DOMAIN Code

Key(c) ==
  IF \E k \in DOMAIN Code : Code[k] = c THEN CHOOSE k \in DOMAIN Code : Code[k] = c
  ELSE "none"

\* Keys in the order of their codes.
InOrder(keys) ==
  [i \in 1 .. Cardinality(keys) |->
     CHOOSE k \in keys : Cardinality({j \in keys : Code[j] < Code[k]}) = i - 1]

Item(k, v) == [key |-> k, value |-> v]

\* The keys, their lengths and their values behind the header.
Piece(item) == <<Code[item.key], Len(item.value)>> \o item.value
Tlv(items) ==
  LET after[i \in 0 .. Len(items)] ==
        IF i = 0 THEN <<Len(items), 0>> ELSE after[i - 1] \o Piece(items[i])
  IN  after[Len(items)]

\* A map with a value for a key, whether it has one or not.
Replaced(f, k, v) == [x \in DOMAIN f \cup {k} |-> IF x = k THEN v ELSE f[x]]
\* Maps that have no key in common.
Merged(maps) ==
  [x \in UNION {DOMAIN f : f \in maps} |-> (CHOOSE f \in maps : x \in DOMAIN f)[x]]

-----------------------------------------------------------------------------
(* Addresses *)

\* IpToU8: four numbers, none over 256; 256 is stored as zero.
IpToU8(ip) == [i \in DOMAIN ip |-> ip[i] % 256]
IsIp(ip) == Len(ip) = 4 /\ \A i \in DOMAIN ip : ip[i] >= 0 /\ ip[i] <= 256

\* The configuration has an address of the host, and one for all if any.
ASSUME AddressAssumption ==
  /\ HostIps \subseteq Seq(Int) /\ \E ip \in HostIps : IsIp(ip)
  /\ MulticastIp \in Seq(Int) /\ (MulticastIp = <<>> \/ IsIp(MulticastIp))

\* Little endian, two bytes.
Port(p) == <<p % 256, p \div 256>>

\* HostIpInfoValue and LivoxLidarIpInfoValue.
HostAddress(ip, hostPort, lidarPort) ==
  IpToU8(ip) \o Port(hostPort) \o Port(lidarPort)
LidarAddress(ip, netMask, gateway) ==
  IpToU8(ip) \o IpToU8(netMask) \o IpToU8(gateway)

HostPort == [state |-> 56201, point |-> 56301, imu |-> 56401]
LidarPort(type) ==
  CASE type = "HAP"    -> [cmd |-> 56000, push |-> 56000, log |-> 59000,
                           point |-> 57000, imu |-> 58000]
    [] type = "Mid360" -> [cmd |-> 56100, push |-> 56200, log |-> 56500,
                           point |-> 56300, imu |-> 56400]
    [] type = "PA"     -> [cmd |-> 9347, push |-> 10001, log |-> 1002,
                           point |-> 10000, imu |-> 0]

-----------------------------------------------------------------------------
(* What the application can ask for *)

\* A call: its command, the port it is sent to, and the packets it may carry.
CallOf(id, port, packets) == [id |-> id, port |-> port, packets |-> packets]

\* Packets that set one key to one of some values.
Sets(k, values) == CallOf("WorkModeControl", "cmd", {<<Item(k, v)>> : v \in values})
Byte(bs) == {<<b>> : b \in bs}
Block(n) == {[i \in 1 .. n |-> b] : b \in {0, 1}}

\* Of the data types, that of the IMU is a switch of its own.
SensingCalls ==
  [SetLivoxLidarPclDataType    |->
     CallOf("WorkModeControl", "cmd", {<<Item("ImuDataEn", <<1>>)>>} \cup
                                      {<<Item("PclDataType", v)>> : v \in Byte(1 .. 3)}),
   SetLivoxLidarScanPattern    |-> Sets("PatternMode", Byte(0 .. 2)),
   SetLivoxLidarDualEmit       |-> Sets("DualEmitEn", Byte({0, 1})),
   EnableLivoxLidarPointSend   |-> Sets("PointSendEn", Byte({0})),
   DisableLivoxLidarPointSend  |-> Sets("PointSendEn", Byte({1}))]

\* The requests with addresses; nothing is sent if an address is refused.
SetHostIp(k, p) ==
  Sets(k, {HostAddress(ip, HostPort[p] + 1, HostPort[p]) :
             ip \in {i \in HostIps : IsIp(i)}})
SetLidarIp ==
  Sets("LidarIpCfg", {LidarAddress(ip, <<255, 255, 255, 0>>, ip) :
                        ip \in {i \in HostIps : IsIp(i)}})

AddressCalls ==
  [SetLivoxLidarIp                 |-> SetLidarIp,
   SetLivoxLidarStateInfoHostIPCfg |-> SetHostIp("StateInfoHostIpCfg", "state"),
   SetLivoxLidarPointDataHostIPCfg |-> SetHostIp("LidarPointDataHostIpCfg", "point"),
   SetLivoxLidarImuDataHostIPCfg   |-> SetHostIp("LidarImuHostIpCfg", "imu")]

MountingCalls ==
  [SetLivoxLidarInstallAttitude |-> Sets("InstallAttitude", Block(24)),
   SetLivoxLidarFovCfg0         |-> Sets("FovCfg0", Block(20)),
   SetLivoxLidarFovCfg1         |-> Sets("FovCfg1", Block(20)),
   EnableLivoxLidarFov          |-> Sets("FovCfgEn", Byte(0 .. 3)),
   DisableLivoxLidarFov         |-> Sets("FovCfgEn", Byte({0}))]
DetectionCalls ==
  [SetLivoxLidarDetectMode      |-> Sets("DetectMode", Byte({0, 1})),
   SetLivoxLidarFuncIOCfg       |-> Sets("FuncIoCfg", Block(4)),
   SetLivoxLidarBlindSpot       |-> Sets("BlindSpotSet", Block(4))]

ModeCalls ==
  [SetLivoxLidarWorkMode          |-> Sets("WorkMode", Byte({1, 2})),
   EnableLivoxLidarGlassHeat      |-> Sets("GlassHeat", Byte({1})),
   DisableLivoxLidarGlassHeat     |-> Sets("GlassHeat", Byte({0})),
   SetLivoxLidarGlassHeat         |-> Sets("GlassHeat", Byte({0, 1, 2, 3}))]
SwitchCalls ==
  [EnableLivoxLidarImuData        |-> Sets("ImuDataEn", Byte({1})),
   DisableLivoxLidarImuData       |-> Sets("ImuDataEn", Byte({0})),
   EnableLivoxLidarFusaFunciont   |-> Sets("FusaEn", Byte({1})),
   DisableLivoxLidarFusaFunciont  |-> Sets("FusaEn", Byte({0}))]

HeatingCalls ==
  [StartForcedHeating             |-> Sets("ForceHeatEn", Byte({1})),
   StopForcedHeating              |-> Sets("ForceHeatEn", Byte({0}))]

BootAndLogCalls ==
  [SetLivoxLidarLogParam          |-> Sets("LogParamSet", Block(2)),
   SetLivoxLidarWorkModeAfterBoot |-> Sets("WorkModeAfterBoot", Byte({0, 1, 2}))]

\* Commands that set no key.
Plain(id, port) == CallOf(id, port, {<<>>})
DeviceCalls ==
  [LivoxLidarRequestReset        |-> Plain("ResetDevice", "cmd"),
   SetLivoxLidarDebugPointCloud  |-> Plain("DebugPointCloudControl", "log"),
   SetLivoxLidarRmcSyncTime      |-> Plain("SetPPSSync", "cmd")]
UpgradeCalls ==
  [LivoxLidarStartUpgrade        |-> Plain("GeneralRequestUpgrade", "cmd"),
   LivoxLidarXferFirmware        |-> Plain("GeneralXferFirmware", "cmd"),
   LivoxLidarCompleteXferFirmware |-> Plain("GeneralCompleteXferFirmware", "cmd"),
   LivoxLidarGetUpgradeProgress  |-> Plain("GeneralRequestUpgradeProgress", "cmd"),
   LivoxLidarRequestFirmwareInfo |-> Plain("GeneralRequestFirmwareInfo", "cmd"),
   LivoxLidarRequestReboot       |-> Plain("RebootDevice", "cmd")]

\* GetQueryLidarInternalInfoKeys: all that a lidar of a type can be asked for.
HapInfoKeys ==
  {"PclDataType", "PatternMode", "DualEmitEn", "PointSendEn", "LidarIpCfg",
   "LidarPointDataHostIpCfg", "LidarImuHostIpCfg", "LogHostIpCfg",
   "InstallAttitude", "BlindSpotSet", "WorkMode", "GlassHeat", "ImuDataEn",
   "FusaEn", "ForceHeatEn", "Sn", "ProductInfo", "VersionApp", "VersionLoader",
   "VersionHardware", "Mac", "CurWorkState", "StatusCode", "LidarDiagStatus",
   "LidarFlashStatus", "FwType", "CurGlassHeatState"}
Mid360InfoKeys ==
  {"PclDataType", "PatternMode", "LidarIpCfg", "StateInfoHostIpCfg",
   "LidarPointDataHostIpCfg", "LidarImuHostIpCfg", "InstallAttitude", "FovCfg0",
   "FovCfg1", "FovCfgEn", "DetectMode", "FuncIoCfg", "WorkMode", "ImuDataEn",
   "Sn", "ProductInfo", "VersionApp", "VersionLoader", "VersionHardware", "Mac",
   "CurWorkState", "CoreTemp", "PowerUpCnt", "LocalTimeNow", "LastSyncTime",
   "TimeOffset", "TimeSyncType", "LidarDiagStatus", "FwType", "HmsCode"}

\* A query names its keys, in the order of their codes, without values.
Query(keys) ==
  CallOf("GetInternalInfo", "cmd",
         {[i \in 1 .. Cardinality(keys) |-> Item(InOrder(keys)[i], <<>>)]})
QueryCalls(type) ==
  [QueryLivoxLidarInternalInfo   |->
     Query(IF type = "HAP" THEN HapInfoKeys ELSE Mid360InfoKeys),
   QueryLivoxLidarFwType         |-> Query({"FwType"}),
   QueryLivoxLidarFirmwareVer    |-> Query({"VersionApp"})]

Api ==
  [type \in {"HAP", "Mid360"} |->
     Merged({SensingCalls, AddressCalls, MountingCalls, DetectionCalls, ModeCalls, SwitchCalls,
             HeatingCalls, BootAndLogCalls, DeviceCalls, UpgradeCalls, QueryCalls(type)})]

ASSUME OfferedAssumption == \A type \in DOMAIN Api : Offered \subseteq DOMAIN Api[type]

-----------------------------------------------------------------------------
(* What the SDK itself sends to a lidar that is found *)

HostIp == CHOOSE ip \in HostIps : IsIp(ip)
SendTo == IF MulticastIp = <<>> THEN HostIp ELSE MulticastIp

HostItem(k, ip, p, type) ==
  Item(k, HostAddress(ip, HostPort[p], LidarPort(type)[IF p = "state" THEN "push" ELSE p]))

\* BuildUpdateViewLidarCfgRequest; a PA has no IMU.
ViewCfg(type) ==
  <<HostItem("LidarPointDataHostIpCfg", HostIp, "point", type)>> \o
  IF type = "PA" THEN <<>>
  ELSE <<HostItem("LidarImuHostIpCfg", HostIp, "imu", type)>>

\* BuildUpdateLidarCfgRequest
LidarCfg(type) ==
  <<HostItem("LidarPointDataHostIpCfg", SendTo, "point", type)>> \o
  IF type = "PA" THEN <<>>
  ELSE <<HostItem("LidarImuHostIpCfg", SendTo, "imu", type)>>

\* BuildUpdateMid360LidarCfgRequest
Mid360LidarCfg ==
  <<HostItem("StateInfoHostIpCfg", SendTo, "state", "Mid360"),
    HostItem("LidarPointDataHostIpCfg", SendTo, "point", "Mid360"),
    HostItem("LidarImuHostIpCfg", SendTo, "imu", "Mid360")>>

-----------------------------------------------------------------------------
(* From a packet to what the application is told *)

\* The keys whose bytes are copied as they are.
CopiedSettings ==
  {"PclDataType", "PatternMode", "DualEmitEn", "PointSendEn", "VehicleSpeed",
   "EnvironmentTemp", "InstallAttitude", "BlindSpotSet", "FrameRate", "FovCfg0",
   "FovCfg1", "FovCfgEn", "DetectMode", "FuncIoCfg", "WorkMode", "GlassHeat",
   "ImuDataEn", "FusaEn"}
CopiedState ==
  {"Sn", "ProductInfo", "VersionApp", "VersionLoader", "VersionHardware", "Mac",
   "CurWorkState", "CoreTemp", "PowerUpCnt", "LocalTimeNow", "LastSyncTime",
   "TimeOffset", "TimeSyncType", "StatusCode", "LidarDiagStatus",
   "LidarFlashStatus", "FwType", "HmsCode", "RoiMode"}
HostAddressKeys ==
  {"StateInfoHostIpCfg", "LidarPointDataHostIpCfg", "LidarImuHostIpCfg",
   "CtlHostIpCfg", "LogHostIpCfg"}

\* n bytes of a packet behind an offset.
Bytes(data, off, n) == [i \in 1 .. n |-> data[off + i]]
Word(data, off) == data[off + 1] + 256 * data[off + 2]

\* ParseLidarIpAddr; ParseStateInfoHostIPCfg, ParsePointCloudHostIpCfg,
\* ParseImuDataHostIpCfg and ParseIpCfg.
ParseLidarIpAddr(data, off) ==
  <<Bytes(data, off, 4), Bytes(data, off + 4, 4), Bytes(data, off + 8, 4)>>
\* Mutation: the second port is read without moving the offset over the first.
ParseHostIpCfgStuck(data, off) ==
  <<Bytes(data, off, 4), Word(data, off + 4), Word(data, off + 4)>>
ParseHostIpCfg(data, off) ==
  <<Bytes(data, off, 4), Word(data, off + 4), Word(data, off + 6)>>

\* One item at an offset: what info has of it.
ParseItem(k, data, off, len) ==
  CASE k \in CopiedSettings \cup CopiedState -> Bytes(data, off, len)
    [] k = "LidarIpCfg"                       -> ParseLidarIpAddr(data, off)
    [] k \in HostAddressKeys                  -> ParseHostIpCfg(data, off)

Understood == CopiedSettings \cup CopiedState \cup HostAddressKeys \cup {"LidarIpCfg"}

\* ParseStateInfo: as many items as the header says; an item needs its key, its
\* length and one byte at least.
ParseOne(data, st) ==
  IF ~st.ok \/ st.off + 3 > Len(data) THEN [st EXCEPT !.ok = FALSE]
  ELSE LET k == Key(data[st.off + 1])
           len == data[st.off + 2]
       IN  [ok |-> TRUE, off |-> st.off + 2 + len,
            info |-> IF k \in Understood
                     THEN Replaced(st.info, k, ParseItem(k, data, st.off + 2, len))
                     ELSE st.info]
ParseStateInfo(data) ==
  LET after[i \in 0 .. data[1]] ==
        IF i = 0 THEN [ok |-> TRUE, off |-> 2, info |-> <<>>] ELSE ParseOne(data, after[i - 1])
  IN  after[data[1]]

\* LivoxLidarStateInfoToJson has a member for each key of the mask; its integers
\* and addresses are written as they were parsed.
SwitchesWritten ==
  {"FovCfg1", "FovCfgEn", "DetectMode", "FuncIoCfg", "WorkMode", "GlassHeat", "ImuDataEn",
   "FusaEn"}
SettingsWritten ==
  (CopiedSettings \ SwitchesWritten) \cup HostAddressKeys \cup {"LidarIpCfg"}
StateWritten == CopiedState
Json(info) ==
  Restrict(info, DOMAIN info \cap (SettingsWritten \cup SwitchesWritten \cup StateWritten))

\* Parse leaves the text empty when the packet is too short.
Parse(data) ==
  LET parsed == ParseStateInfo(data)
  IN  IF parsed.ok THEN Json(parsed.info) ELSE <<>>

-----------------------------------------------------------------------------
VARIABLES
  is_view,     \* the SDK was started to look at lidars, without their list
  seq,         \* GenerateSeq
  commands,    \* commands_: the calls that wait for an answer
  calls,       \* history: the calls made
  outcomes,    \* history: how the callback of each was called
  thread,      \* the steps a thread has left of its call
  devices_,    \* lidars the device's handler has configured
  is_update_cfg, \* lidars reported to the application
  net,         \* messages under way
  device,      \* what the lidars hold
  applied,     \* history: calls whose request a lidar has carried out
  pushes,      \* how many reports there were
  pushed,      \* history: what a lidar held when it sent the last report handled
  told         \* what the application was told then

sdkVars == <<seq, commands, calls, outcomes, thread, devices_, is_update_cfg>>
lidarVars == <<device, applied, pushes>>
toldVars == <<pushed, told>>
vars == <<is_view, sdkVars, net, lidarVars, toldVars>>

Threads == Apps \cup {"det"}
Idle == [todo |-> <<>>, call |-> 0]

\* A lidar holds some value of the right length for each key.
Length(k) ==
  CASE k \in HostAddressKeys              -> 8
    [] k = "LidarIpCfg"                   -> 12
    [] k = "InstallAttitude"              -> 24
    [] k \in {"FovCfg0", "FovCfg1"}       -> 20
    [] k \in {"BlindSpotSet", "FuncIoCfg"} -> 4
    [] k = "StatusCode"                   -> 32
    [] k \in {"Sn", "HmsCode"}            -> 16
    [] OTHER                              -> 1
Zero(k) == [i \in 1 .. Length(k) |-> 0]

Init ==
  /\ is_view \in BOOLEAN
  /\ seq = 1
  /\ commands = {}
  /\ calls = <<>> /\ outcomes = <<>>
  /\ thread = [t \in Threads |-> Idle]
  /\ devices_ = {} /\ is_update_cfg = {}
  /\ net = {}
  /\ device = [h \in Lidars |-> [k \in Held |-> Zero(k)]]
  /\ applied = {}
  /\ pushes = 0
  /\ pushed = [h \in Lidars |-> <<>>] /\ told = [h \in Lidars |-> <<>>]

\* Sequence numbers of 16 bits.
MaxSeq == 65535
GetSeq == IF seq = MaxSeq THEN 1 ELSE seq + 1

Touches(c, h, k) ==
  calls[c].h = h /\ \E i \in DOMAIN calls[c].items : calls[c].items[i].key = k
Answered(c) == ToSet(outcomes[c]) \cap {"Success", "Refused"} # {}

\* A call enters the history; it is settled if all before it on the same keys
\* had their answers.
Record(t, h, id, port, items) ==
  /\ calls' = Append(calls,
       [by |-> t, h |-> h, id |-> id, port |-> port, items |-> items, seq |-> GetSeq,
        settled |-> \A c \in DOMAIN calls, i \in DOMAIN items :
                      Touches(c, h, items[i].key) => Answered(c)])
  /\ outcomes' = Append(outcomes, <<>>)
  /\ seq' = GetSeq

\* SendCommand of the general handler lets the device's handler send and adds
\* to the table after; the handler of the HAP has added before.
\* Mutation: the command is not added after it was sent.
StepsUntabled(type) == IF type = "HAP" THEN <<"add", "send">> ELSE <<"send">>
Steps(type) == IF type = "HAP" THEN <<"add", "send", "add">> ELSE <<"send", "add">>

\* A call of the application.  There is no handler for a PA: the call fails.
Invoke(t) ==
  \E h \in Lidars :
    /\ t \in Apps
    /\ thread[t] = Idle /\ Len(calls) < MaxCalls
    /\ IF TypeOf[h] = "PA"
       THEN /\ Record(t, h, "none", "cmd", <<>>)
            /\ UNCHANGED thread
       ELSE \E name \in Offered : LET call == Api[TypeOf[h]][name] IN
            \E items \in call.packets :
              /\ Record(t, h, call.id, call.port, items)
              /\ thread' = [thread EXCEPT ![t] = [todo |-> Steps(TypeOf[h]),
                                                  call |-> Len(calls) + 1]]
    /\ UNCHANGED <<is_view, commands, devices_, is_update_cfg, net, lidarVars, toldVars>>

\* SetViewLidar and SetCustomLidar.
CfgOf(h) ==
  CASE is_view                           -> ViewCfg(TypeOf[h])
    [] ~is_view /\ TypeOf[h] = "Mid360"  -> Mid360LidarCfg
    [] ~is_view /\ TypeOf[h] # "Mid360"  -> LidarCfg(TypeOf[h])

\* A handler sets up a lidar until it has told that it is.
CfgWanted(h) == TypeOf[h] # "PA" /\ h \notin devices_

\* UpdateLidarCfg of the handlers, at an answer to a broadcast.
UpdateLidarCfg ==
  \E h \in Lidars :
    /\ CfgWanted(h)
    /\ thread["det"] = Idle /\ Len(calls) < MaxCalls
    /\ is_view \/ h \notin is_update_cfg
    /\ Record("det", h, "WorkModeControl", "cmd", CfgOf(h))
    /\ thread' = [thread EXCEPT !["det"] = [todo |-> <<"add", "send">>,
                                            call |-> Len(calls) + 1]]
    /\ UNCHANGED <<is_view, commands, devices_, is_update_cfg, net, lidarVars, toldVars>>

\* The thread makes the next step of its call.
Does(t, step) == thread[t] # Idle /\ Head(thread[t].todo) = step
Goes(t) ==
  thread' = [thread EXCEPT ![t] = IF Len(@.todo) = 1 THEN Idle
                                  ELSE [todo |-> Tail(@.todo), call |-> @.call]]

Calls(cs, status) ==
  outcomes' = [c \in DOMAIN outcomes |-> IF c \in cs THEN Append(outcomes[c], status)
                                         ELSE outcomes[c]]

AddCommand(t) ==
  /\ Does(t, "add")
  /\ commands' = commands \cup {thread[t].call}
  /\ Goes(t)
  /\ UNCHANGED <<is_view, seq, calls, outcomes, devices_, is_update_cfg, net, lidarVars,
                 toldVars>>

\* A query is packed without the lengths of values.
Packed(id, items) ==
  IF id = "GetInternalInfo"
  THEN <<Len(items), 0>> \o [i \in DOMAIN items |-> Code[items[i].key]]
  ELSE Tlv(items)

Message(to, h, s, id, port, data, ok, shown) ==
  [to |-> to, h |-> h, seq |-> s, id |-> id, port |-> port, data |-> data, ok |-> ok,
   shown |-> shown]

Sent(call) ==
  Message("lidar", call.h, call.seq, call.id, LidarPort(TypeOf[call.h])[call.port],
          Packed(call.id, call.items), TRUE, <<>>)

\* If the message cannot be sent, the callback is called at once; what is left
\* to do is done all the same.
SendCommand(t) ==
  /\ Does(t, "send")
  /\ \/ net' = net \cup {Sent(calls[thread[t].call])} /\ UNCHANGED outcomes
     \/ Calls({thread[t].call}, "SendFailed") /\ UNCHANGED net
  /\ Goes(t)
  /\ UNCHANGED <<is_view, seq, commands, calls, devices_, is_update_cfg, lidarVars, toldVars>>

-----------------------------------------------------------------------------
(* The lidar *)

\* The values in a packet that sets keys.
ValueOne(data, st) ==
  LET len == data[st.off + 2]
  IN  [off |-> st.off + 2 + len,
       set |-> Replaced(st.set, Key(data[st.off + 1]), Bytes(data, st.off + 2, len))]
ValuesIn(data) ==
  LET after[i \in 0 .. data[1]] ==
        IF i = 0 THEN [off |-> 2, set |-> <<>>] ELSE ValueOne(data, after[i - 1])
  IN  after[data[1]].set

\* It carries out a command that reaches it at the port for it, or refuses it.
Serve ==
  \E m \in net, ok \in BOOLEAN :
    /\ m.to = "lidar"
    /\ m.port \in {LidarPort(TypeOf[m.h]).cmd, LidarPort(TypeOf[m.h]).log}
    /\ LET set == IF m.id = "WorkModeControl" THEN ValuesIn(m.data) ELSE <<>>
       IN  /\ ok \/ m.id = "WorkModeControl"
           /\ device' = IF ok THEN [device EXCEPT ![m.h] =
                                      [k \in Held |-> IF k \in DOMAIN set THEN set[k] ELSE @[k]]]
                        ELSE device
           /\ applied' = IF ok THEN applied \cup
                                      {c \in DOMAIN calls : calls[c].seq = m.seq}
                         ELSE applied
    /\ net' = (net \ {m}) \cup
                {Message("host", m.h, m.seq, m.id, m.port, <<>>, ok, <<>>)}
    /\ UNCHANGED <<is_view, sdkVars, pushes, toldVars>>

\* It reports all it holds.
Push ==
  \E h \in Lidars :
    /\ pushes < MaxPushes
    /\ pushes' = pushes + 1
    /\ LET ks == InOrder(Held)
       IN  net' = net \cup
             {Message("host", h, 0, "PushMsg", LidarPort(TypeOf[h]).push,
                      Tlv([i \in DOMAIN ks |-> Item(ks[i], device[h][ks[i]])]),
                      TRUE, device[h])}
    /\ UNCHANGED <<is_view, sdkVars, device, applied, toldVars>>

-----------------------------------------------------------------------------
(* The thread that receives *)

\* Mutation: the answer is given to a command of the same kind.
MatchById(m) == {c \in commands : calls[c].h = m.h /\ calls[c].id = m.id}
Match(m) == {c \in commands : calls[c].seq = m.seq}

\* UpdateLidarCallback of the two handlers: the HAP is reported even if it
\* refuses the addresses.
Reports(type, ok) == ok \/ type = "HAP"

\* An answer to a command that is in the table; others are dropped.  It may come
\* again.
HandleAck ==
  \E m \in net :
    /\ m.to = "host" /\ m.id # "PushMsg"
    /\ net' \in {net, net \ {m}}
    /\ LET cs == Match(m)
           cfg == {c \in cs : calls[c].by = "det"}
       IN  /\ commands' = commands \ cs
           /\ Calls(cs, IF m.ok THEN "Success" ELSE "Refused")
           /\ devices_' = IF m.ok THEN devices_ \cup {calls[c].h : c \in cfg}
                          ELSE devices_
           /\ is_update_cfg' = is_update_cfg \cup
                {h \in {calls[c].h : c \in cfg} : Reports(TypeOf[h], m.ok)}
    /\ UNCHANGED <<is_view, seq, calls, thread, lidarVars, toldVars>>

\* OnCommandCmd looks at the port; there is no handler for a PA.
Heard(m) == TypeOf[m.h] # "PA" /\ m.port = LidarPort(TypeOf[m.h]).push

HandlePush ==
  \E m \in net :
    /\ m.to = "host" /\ m.id = "PushMsg"
    /\ net' = net \ {m}
    /\ IF Heard(m)
       THEN /\ told' = [told EXCEPT ![m.h] = Parse(m.data)]
            /\ pushed' = [pushed EXCEPT ![m.h] = m.shown]
       ELSE UNCHANGED toldVars
    /\ UNCHANGED <<is_view, sdkVars, lidarVars>>

\* CommandsHandle: commands whose second is over.
CommandsHandle ==
  \E cs \in SUBSET commands :
    /\ cs # {}
    /\ commands' = commands \ cs
    /\ Calls(cs, "Timeout")
    /\ UNCHANGED <<is_view, seq, calls, thread, devices_, is_update_cfg, net, lidarVars,
                   toldVars>>

-----------------------------------------------------------------------------
Step(t) == AddCommand(t) \/ SendCommand(t)
Next ==
  \/ \E t \in Apps : Invoke(t)
  \/ UpdateLidarCfg
  \/ \E t \in Threads : Step(t)
  \/ Serve \/ Push
  \/ HandleAck \/ HandlePush \/ CommandsHandle

Spec == Init /\ [][Next]_vars

\* Threads end their calls, and every 50 ms one looks for commands that are
\* overdue; the network and the lidars owe nothing.
Fairness == (\A t \in Threads : WF_vars(Step(t))) /\ WF_vars(CommandsHandle)
FairSpec == Spec /\ Fairness

-----------------------------------------------------------------------------
(* Properties *)

\* A command that was answered with success has the effect it was meant to
\* have: if all earlier commands for the same parameter of the lidar had been
\* answered before it was sent, and none came after it, the lidar holds its
\* value.
AckedHeld ==
  \A c \in DOMAIN calls :
    (calls[c].settled /\ "Success" \in ToSet(outcomes[c])) =>
      \A i \in DOMAIN calls[c].items :
        LET k == calls[c].items[i].key
        IN  (k \in Held /\ calls[c].id = "WorkModeControl"
             /\ \A d \in DOMAIN calls : d > c => ~Touches(d, calls[c].h, k)) =>
              device[calls[c].h][k] = calls[c].items[i].value

\* A Mid360 that the application hears of has taken the addresses its data is
\* to be sent to.
ReportedConfigured ==
  \A h \in is_update_cfg :
    TypeOf[h] = "Mid360" => \E c \in applied : calls[c].by = "det" /\ calls[c].h = h

\* What the SDK calls a success was one for the lidar.
AnswersTrue == AckedHeld /\ ReportedConfigured

\* What a value says: addresses, and ports of two bytes.
Meaning(k, v) ==
  CASE k = "LidarIpCfg"       -> <<SubSeq(v, 1, 4), SubSeq(v, 5, 8), SubSeq(v, 9, 12)>>
    [] k \in HostAddressKeys  -> <<SubSeq(v, 1, 4), v[5] + 256 * v[6], v[7] + 256 * v[8]>>
    [] OTHER                  -> v

\* The keys that ParseStateInfo passes over.
Unparsed == {"WorkModeAfterBoot", "ForceHeatEn", "LogParamSet", "CurGlassHeatState"}

\* What the application is told of a lidar is what the lidar held when it sent
\* its report, for every key the report has and the SDK knows.
InfoFaithful ==
  \A h \in Lidars :
    told[h] = [k \in DOMAIN pushed[h] \ Unparsed |-> Meaning(k, pushed[h][k])]

\* The callback of every command that was sent, or could not be, is called.
CallsAnswered ==
  \A c \in 1 .. MaxCalls :
    (c \in DOMAIN calls /\ calls[c].id # "none") ~>
    (c \in DOMAIN calls /\ outcomes[c] # <<>>)
================================================================================
