------------------------------ MODULE LidarSetup -------------------------------
(***************************************************************************)
(* How a lidar is found and configured, up to the state in which the       *)
(* driver publishes its point clouds: the command table of the SDK         *)
(* (sdk_core/command_handler/general_command_handler.cpp and               *)
(* mid360_command_handler.cpp) and the callbacks of the driver             *)
(* (call_back/livox_lidar_callback.cpp), over UDP.                         *)
(*                                                                         *)
(* The SDK has one thread for the answers to commands ("cmd"), one for the *)
(* answers to its broadcasts ("det") and one for data; each of them also   *)
(* looks for commands that have timed out and calls their callbacks, so a  *)
(* retry may be sent by one thread while another receives the answers.     *)
(*                                                                         *)
(* One lidar: lidars share no more than the table, the sequence numbers    *)
(* and the counter of failed queries.  A thread's list todo is what is     *)
(* left of the calls it is in the middle of.                               *)
(***************************************************************************)
EXTENDS Naturals, SequencesExt

CONSTANTS
  Threads,      \* the threads of the SDK, "cmd" and "det" among them
  Settings,     \* what lidar_configs sets, in the order it is sent
  Others,       \* and what is sent after that: attitude, work mode, IMU
  MaxFwRetries, \* 10
  MaxMishaps    \* bound: lost, refused or repeated messages, slow answers

ASSUME ThreadAssumption == {"cmd", "det"} \subseteq Threads /\ "free" \notin Threads
ASSUME SettingAssumption ==
  /\ Settings \in Seq({"dataType", "scanPattern", "blindSpot", "dualEmit"})
  /\ IsInjective(Settings)
ASSUME OtherAssumption == Others \in Seq({"attitude", "workMode", "imu"})
ASSUME BoundAssumption == MaxFwRetries \in Nat /\ MaxMishaps \in Nat

\* The flags of set_bits.
Bits == ToSet(Settings)
Kinds == {"fwType", "hostCfg"} \cup Bits \cup ToSet(Others)

VARIABLES
  device,       \* DeviceInfo and the sets of devices, as the set of its flags
  fwFailures,   \* count, of QueryFwTypeCallback
  seq,          \* GenerateSeq
  commands,     \* commands_
  todo,         \* the calls each thread has still to make
  config_mutex_,
  set_bits,
  sampling,     \* connect_state = kConnectStateSampling
  requests,     \* commands on their way to the lidar
  answers,      \* and its answers on theirs
  loader,       \* the lidar is in loader mode
  applied,      \* what the lidar has done
  refused,      \* history: what it has answered with an error
  mishaps

deviceVars == <<device, fwFailures>>
configVars == <<config_mutex_, set_bits, sampling>>
lidarVars == <<requests, answers, loader, applied, refused>>
vars == <<deviceVars, seq, commands, todo, configVars, lidarVars, mishaps>>

Call(op, kind, s) == [op |-> op, kind |-> kind, seq |-> s]
Send(kind) == Call("send", kind, 0)

Init ==
  /\ device = {} /\ fwFailures = 0
  /\ seq = 0
  /\ commands = {}
  /\ todo = [t \in Threads |-> <<>>]
  /\ config_mutex_ = "free" /\ set_bits = {} /\ sampling = FALSE
  /\ requests = {} /\ answers = {}
  /\ loader \in BOOLEAN
  /\ applied = {} /\ refused = {}
  /\ mishaps = 0

Idle(t) == todo[t] = <<>>

\* Thread t makes the first of its calls; more are the calls that one makes.
Makes(t, op) == ~Idle(t) /\ Head(todo[t]).op = op
Calls(t, more) == todo' = [todo EXCEPT ![t] = more \o Tail(@)]

\* What can happen MaxMishaps times.
Mishap(n) == mishaps + n <= MaxMishaps /\ mishaps' = mishaps + n

-----------------------------------------------------------------------------
(* The network and the lidar *)

Request(s, kind) == [seq |-> s, kind |-> kind]
InFlight(c) == c \in requests \/ \E a \in answers : a.seq = c.seq

Serve ==
  \E r \in requests, ok \in BOOLEAN :
    /\ requests' = requests \ {r}
    /\ answers' = answers \cup {[seq |-> r.seq, kind |-> r.kind, ok |-> ok]}
    /\ IF ok THEN /\ applied' = applied \cup {r.kind}
                  /\ UNCHANGED <<refused, mishaps>>
             ELSE /\ refused' = refused \cup {r.kind}
                  /\ Mishap(1)
                  /\ UNCHANGED applied
    /\ UNCHANGED <<deviceVars, seq, commands, todo, configVars, loader>>

Lose ==
  /\ \/ \E r \in requests : requests' = requests \ {r} /\ UNCHANGED answers
     \/ \E a \in answers : answers' = answers \ {a} /\ UNCHANGED requests
  /\ Mishap(1)
  /\ UNCHANGED <<deviceVars, seq, commands, todo, configVars, loader, applied,
                 refused>>

-----------------------------------------------------------------------------
(* The command table *)

GetSeq == seq + 1

\* SendCommand of the general handler sends first and adds to the table after.
SendFirst(t) ==
  /\ Makes(t, "send") /\ Head(todo[t]).kind # "hostCfg"
  /\ seq' = GetSeq
  /\ LET kind == Head(todo[t]).kind
     IN  /\ requests' = requests \cup {Request(seq', kind)}
         /\ Calls(t, <<Call("add", kind, seq')>>)
  /\ UNCHANGED <<deviceVars, commands, configVars, answers, loader, applied,
                 refused, mishaps>>

AddCommand(t) ==
  /\ Makes(t, "add")
  /\ commands' = commands \cup {Request(Head(todo[t]).seq, Head(todo[t]).kind)}
  /\ Calls(t, <<>>)
  /\ UNCHANGED <<deviceVars, seq, configVars, lidarVars, mishaps>>

\* SendCommand with a port, of the device's own handler, adds first.
AddFirst(t) ==
  /\ Makes(t, "send") /\ Head(todo[t]).kind = "hostCfg"
  /\ seq' = GetSeq
  /\ commands' = commands \cup {Request(seq', "hostCfg")}
  /\ requests' = requests \cup {Request(seq', "hostCfg")}
  /\ Calls(t, <<>>)
  /\ UNCHANGED <<deviceVars, configVars, answers, loader, applied, refused, mishaps>>

\* Mutation: the command stays in the table.
AnsweredKept(c) == commands
Answered(c) == commands \ {c}

\* An answer without an entry in the table is dropped.  It may be delivered
\* again.
Deliver(a) ==
  LET c == Request(a.seq, a.kind)
      early == \E t \in Threads : Call("add", c.kind, c.seq) \in ToSet(todo[t])
  IN  /\ Idle("cmd")
      /\ \/ answers' = answers \ {a}
            /\ IF early THEN Mishap(1) ELSE UNCHANGED mishaps
         \/ UNCHANGED answers /\ ~early /\ c \in commands /\ Mishap(1)
      /\ IF c \in commands
           THEN /\ commands' = Answered(c)
                /\ todo' = [todo EXCEPT !["cmd"] =
                     <<Call(IF a.ok THEN "done" ELSE "refused", c.kind, c.seq)>>]
           ELSE UNCHANGED <<commands, todo>>
      /\ UNCHANGED <<deviceVars, seq, configVars, requests, loader, applied, refused>>

\* CommandsHandle takes the commands that have expired out of the table, in the
\* order of their numbers, and calls their callbacks.
InOrder(cs) ==
  {order \in [1..Cardinality(cs) -> cs] :
     \A j, k \in 1..Cardinality(cs) : j < k => order[j].seq < order[k].seq}

Expire(t, expired) ==
  /\ Idle(t) /\ expired # {}
  /\ Mishap(Cardinality({c \in expired : InFlight(c)}))
  /\ commands' = commands \ expired
  /\ \E order \in InOrder(expired) :
       todo' = [todo EXCEPT ![t] = [k \in 1..Cardinality(expired) |->
                  Call("timeout", order[k].kind, order[k].seq)]]
  /\ UNCHANGED <<deviceVars, seq, configVars, lidarVars>>

-----------------------------------------------------------------------------
(* The callbacks *)

Now(t, op, kinds) == Makes(t, op) /\ Head(todo[t]).kind \in kinds

\* The one command the general handler has of its own.
QueryFwType == <<Send("fwType")>>

\* QueryFwTypeCallback.  Once there have been too many failures it takes the
\* lidar for one in application mode, without a look at the answer.
FwTypeGivenUp(t) ==
  /\ fwFailures > MaxFwRetries
  /\ fwFailures' = 0
  /\ device' = device \cup {"fwKnown"}
  /\ Calls(t, <<>>)

\* Mutation: the query is not repeated.
FwTypeDropped(t) ==
  /\ fwFailures <= MaxFwRetries
  /\ fwFailures' = fwFailures + 1
  /\ Calls(t, <<>>)
  /\ UNCHANGED device

FwTypeFailed(t) ==
  /\ fwFailures <= MaxFwRetries
  /\ fwFailures' = fwFailures + 1
  /\ Calls(t, QueryFwType)
  /\ UNCHANGED device

FwTypeGot(t) ==
  /\ fwFailures <= MaxFwRetries
  /\ fwFailures' = 0
  /\ device' = device \cup {"fwKnown"} \cup (IF loader THEN {"loaderMode"} ELSE {})
  /\ Calls(t, <<>>)

QueryFwTypeCallback(t) ==
  /\ \/ /\ \E op \in {"done", "refused", "timeout"} : Now(t, op, {"fwType"})
        /\ FwTypeGivenUp(t)
     \/ /\ Now(t, "refused", {"fwType"}) \/ Now(t, "timeout", {"fwType"})
        /\ FwTypeFailed(t)
     \/ Now(t, "done", {"fwType"}) /\ FwTypeGot(t)
  /\ UNCHANGED <<seq, commands, configVars, lidarVars, mishaps>>

\* UpdateLidarCallback of the device's handler.
UpdateLidarCallback(t) ==
  /\ \/ /\ Now(t, "done", {"hostCfg"})
        /\ device' = device \cup {"customised"}
        /\ Calls(t, <<Call("infoChange", "hostCfg", 0)>>)
     \/ /\ Now(t, "refused", {"hostCfg"}) \/ Now(t, "timeout", {"hostCfg"})
        /\ Calls(t, <<>>)
        /\ UNCHANGED device
  /\ UNCHANGED <<fwFailures, seq, commands, configVars, lidarVars, mishaps>>

\* What LidarInfoChangeCallback of the driver does for a lidar of the config.
SetAndSend ==
  [k \in 1..2 * Len(Settings) |->
     IF k % 2 = 1 THEN Call("setBit", Settings[(k + 1) \div 2], 0)
                  ELSE Send(Settings[k \div 2])]
LidarInfoChangeCallback ==
  <<Call("lock", "all", 0)>> \o SetAndSend \o <<Call("unlock", "all", 0)>>
    \o [k \in 1..Len(Others) |-> Send(Others[k])]

LivoxLidarInfoChange(t) ==
  /\ Makes(t, "infoChange")
  /\ device' = device \cup {"updated", "called"}
  /\ Calls(t, IF "called" \in device THEN <<>> ELSE LidarInfoChangeCallback)
  /\ UNCHANGED <<fwFailures, seq, commands, configVars, lidarVars, mishaps>>

\* Mutation: config_mutex_ is not waited for.
CanLockAlways == TRUE
CanLock == config_mutex_ = "free"

LockConfig(t) ==
  /\ Makes(t, "lock") /\ CanLock
  /\ config_mutex_' = t
  /\ Calls(t, <<>>)
  /\ UNCHANGED <<deviceVars, seq, commands, set_bits, sampling, lidarVars, mishaps>>

UnlockConfig(t) ==
  /\ Makes(t, "unlock")
  /\ config_mutex_' = "free"
  /\ Calls(t, <<>>)
  /\ UNCHANGED <<deviceVars, seq, commands, set_bits, sampling, lidarVars, mishaps>>

SetBit(t) ==
  /\ Makes(t, "setBit")
  /\ set_bits' = set_bits \cup {Head(todo[t]).kind}
  /\ Calls(t, <<>>)
  /\ UNCHANGED <<deviceVars, seq, commands, config_mutex_, sampling, lidarVars,
                 mishaps>>

\* SetDataTypeCallback and its like.  The SDK gives every answer the status of
\* a success, and the driver looks at nothing else.
SettingAnswered(t) ==
  /\ Now(t, "done", Bits) \/ Now(t, "refused", Bits)
  /\ CanLock
  /\ set_bits' = set_bits \ {Head(todo[t]).kind}
  /\ sampling' = (sampling \/ set_bits' = {})
  /\ Calls(t, <<>>)
  /\ UNCHANGED <<deviceVars, seq, commands, config_mutex_, lidarVars, mishaps>>

\* SetAttitudeCallback, WorkModeChangedCallback, EnableLivoxLidarImuDataCallback.
OthersAnswered(t) ==
  /\ \E op \in {"done", "refused"} : Now(t, op, ToSet(Others))
  /\ Calls(t, <<>>)
  /\ UNCHANGED <<deviceVars, seq, commands, configVars, lidarVars, mishaps>>

\* All of them send the command again when it has timed out, but that of the
\* IMU: it returns before, as there is no response with a timeout, and the
\* "try again" after that is never reached.
Retried == Kinds \ {"imu"}

CommandTimedOut(t) ==
  /\ Now(t, "timeout", Kinds \ {"fwType", "hostCfg"})
  /\ LET kind == Head(todo[t]).kind
     IN  Calls(t, IF kind \in Retried THEN <<Send(kind)>> ELSE <<>>)
  /\ UNCHANGED <<deviceVars, seq, commands, configVars, lidarVars, mishaps>>

-----------------------------------------------------------------------------
(* The answers to the broadcasts *)

Wanted == "updated" \notin device /\ "fwKnown" \in device
            /\ device \cap {"loaderMode", "customised"} = {}

HandleDetectionData ==
  /\ Idle("det")
  /\ \/ /\ "known" \notin device
        /\ device' = {"known"}
        /\ todo' = [todo EXCEPT !["det"] = QueryFwType]
        /\ UNCHANGED mishaps
     \/ /\ "known" \in device
        /\ Mishap(IF Wanted /\ \E c \in commands : c.kind = "hostCfg" THEN 1 ELSE 0)
        /\ todo' = [todo EXCEPT !["det"] =
             (IF Wanted THEN <<Send("hostCfg")>> ELSE <<>>)
               \o (IF {"fwKnown", "loaderMode"} \subseteq device
                     THEN <<Call("infoChange", "hostCfg", 0)>> ELSE <<>>)]
        /\ UNCHANGED device
  /\ UNCHANGED <<fwFailures, seq, commands, configVars, lidarVars>>

-----------------------------------------------------------------------------
Step(t) ==
  \/ SendFirst(t) \/ AddCommand(t) \/ AddFirst(t)
  \/ QueryFwTypeCallback(t) \/ UpdateLidarCallback(t) \/ LivoxLidarInfoChange(t)
  \/ LockConfig(t) \/ SetBit(t) \/ UnlockConfig(t)
  \/ SettingAnswered(t) \/ OthersAnswered(t) \/ CommandTimedOut(t)

Next ==
  \/ \E t \in Threads : Step(t)
  \/ \E t \in Threads, expired \in SUBSET commands : Expire(t, expired)
  \/ \E a \in answers : Deliver(a)
  \/ HandleDetectionData
  \/ Serve \/ Lose

Spec == Init /\ [][Next]_vars

\* The threads run, a lidar that is connected answers, the broadcasts are
\* repeated every second and the table is looked through every 50 ms.
Overdue == {c \in commands : ~InFlight(c)}
FairSpec ==
  /\ Spec
  /\ \A t \in Threads : WF_vars(Step(t))
  /\ WF_vars(HandleDetectionData)
  /\ WF_vars(Serve) /\ WF_vars(\E a \in answers : Deliver(a))
  /\ WF_vars(\E t \in Threads : Expire(t, Overdue))

-----------------------------------------------------------------------------
CallsUpTo(s) ==
  [op : {"add", "done", "refused", "timeout"}, kind : Kinds, seq : 1..s]
    \cup [op : {"send"}, kind : Kinds, seq : {0}]
    \cup [op : {"setBit"}, kind : Bits, seq : {0}]
    \cup [op : {"infoChange"}, kind : {"hostCfg"}, seq : {0}]
    \cup [op : {"lock", "unlock"}, kind : {"all"}, seq : {0}]

TypeOK ==
  /\ device \subseteq {"known", "fwKnown", "loaderMode", "customised", "updated",
                       "called"}
  /\ fwFailures \in 0..(MaxFwRetries + 1) /\ seq \in Nat /\ mishaps \in 0..MaxMishaps
  /\ commands \subseteq [seq : 1..seq, kind : Kinds]
  /\ todo \in [Threads -> Seq(CallsUpTo(seq))]
  /\ config_mutex_ \in Threads \cup {"free"}
  /\ set_bits \subseteq Bits /\ sampling \in BOOLEAN
  /\ requests \subseteq [seq : 1..seq, kind : Kinds]
  /\ answers \subseteq [seq : 1..seq, kind : Kinds, ok : BOOLEAN]
  /\ loader \in BOOLEAN
  /\ applied \subseteq Kinds /\ refused \subseteq Kinds

\* A command gets one callback: an answer to it, or its timeout, takes it out
\* of the table before the callback is called, so that a late answer, a
\* repeated one or another thread's look at the table finds nothing.
Outcomes(t) == {k \in DOMAIN todo[t] : todo[t][k].op \in {"done", "refused", "timeout"}}
OneOutcome ==
  \A t \in Threads : \A k \in Outcomes(t) :
    /\ \A c \in commands : c.seq # todo[t][k].seq
    /\ \A u \in Threads : \A j \in Outcomes(u) :
         todo[u][j].seq = todo[t][k].seq => u = t /\ j = k

\* A lidar whose point clouds are published has had every setting of its
\* configuration answered: that the bits of set_bits are all clear is not seen
\* in between two of them, while the callback is setting them.
SamplingConfigured == sampling => Bits \subseteq applied \cup refused

\* A lidar on the network comes to be sampling, and gets every setting, its
\* attitude and its work mode, in spite of messages that are lost or late.
SetUp ==
  <>[](sampling /\ Bits \cup (ToSet(Others) \ {"imu"}) \subseteq applied \cup refused)

==============================================================================
