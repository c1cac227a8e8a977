------------------------------ MODULE SdkCoreProofs -----------------------------
(***************************************************************************)
(* Proofs about SdkCore, for any lidars, addresses, documents and numbers  *)
(* of sockets a thread can poll.                                           *)
(*                                                                         *)
(* All follow from one inductive invariant, CoreInv: entries and sockets   *)
(* have their types; the list has no two entries for one lidar; the        *)
(* sockets that are open are those channel_info_ has, as long as there is  *)
(* a DeviceManager; and all of them are in a set from which Uninit closes. *)
(* What functions along 0 .. n do (the channels of a configuration, opened *)
(* one by one; the entries of a file; the tasks of a thread) is proved by  *)
(* induction over the set of the numbers for which it holds.               *)
(***************************************************************************)
EXTENDS SdkCore, FiniteSetTheorems, SequenceTheorems, WellFoundedInduction, TLAPS

-----------------------------------------------------------------------------
(* Induction, and functions defined along 0 .. n *)

\* Induction over a set of numbers, from the least one left out of it.
Smaller == {pair \in Nat \X Nat : pair[1] < pair[2]}

LEMMA Induction ==
  ASSUME NEW S \in SUBSET Nat, 0 \in S, \A n \in S : n + 1 \in S
  PROVE  S = Nat
<1> DEFINE T == Nat \ S
<1>1. SUFFICES ASSUME T # {} PROVE FALSE
  OBVIOUS
<1>2. IsWellFoundedOn(Smaller, Nat)
  BY NatLessThanWellFounded DEF OpToRel, Smaller
<1>3. PICK x \in T : \A y \in T : <<y, x>> \notin Smaller
  <2>1. T \subseteq Nat
    OBVIOUS
  <2> HIDE DEF T
  <2> QED BY <1>1, <1>2, <2>1, WFMin
<1>4. x # 0 /\ x - 1 \in Nat /\ x - 1 < x
  OBVIOUS
<1>5. x - 1 \in S
  <2> SUFFICES ASSUME x - 1 \in T PROVE FALSE
    BY <1>4
  <2>1. <<x - 1, x>> \in Nat \X Nat /\ <<x - 1, x>>[1] < <<x - 1, x>>[2]
    BY <1>4
  <2> QED BY <1>3, <2>1 DEF Smaller
<1> QED BY <1>4, <1>5

\* What holds at 0 and is kept from each number to the next holds up to n.
LEMMA Along ==
  ASSUME NEW V, NEW n \in Nat, NEW g, g[0] \in V,
         \A k \in 1 .. n : g[k - 1] \in V => g[k] \in V
  PROVE  \A k \in 0 .. n : g[k] \in V
<1> DEFINE S == {k \in Nat : k <= n => g[k] \in V}
<1>1. 0 \in S
  OBVIOUS
<1>2. ASSUME NEW k \in S PROVE k + 1 \in S
  <2>1. SUFFICES ASSUME k + 1 <= n PROVE g[k + 1] \in V
    OBVIOUS
  <2>2. k <= n /\ k + 1 \in 1 .. n /\ (k + 1) - 1 = k
    BY <2>1
  <2> QED BY <2>2
<1>3. S = Nat
  <2>1. S \subseteq Nat
    OBVIOUS
  <2> HIDE DEF S
  <2> QED BY <1>1, <1>2, <2>1, Induction
<1>4. \A k \in 0 .. n : k \in S
  BY <1>3
<1> QED BY <1>4

\* A function whose value at each number is made from the one before exists.
IsRun(g, b, op, n) == g[0] = b /\ \A k \in 1 .. n : g[k] = op[<<g[k - 1], k>>]

LEMMA Steps ==
  ASSUME NEW V, NEW n \in Nat, NEW b \in V, NEW op \in [V \X (1 .. n) -> V]
  PROVE  \E g \in [0 .. n -> V] : IsRun(g, b, op, n)
<1> DEFINE Upto(k) == \E g \in [0 .. k -> V] :
                        g[0] = b /\ \A j \in 1 .. k : g[j] = op[<<g[j - 1], j>>]
           S == {k \in Nat : k <= n => Upto(k)}
<1>1. 0 \in S
  <2>1. [j \in 0 .. 0 |-> b] \in [0 .. 0 -> V]
    OBVIOUS
  <2>2. [j \in 0 .. 0 |-> b][0] = b /\ \A j \in 1 .. 0 : FALSE
    OBVIOUS
  <2>3. Upto(0)
    BY <2>1, <2>2
  <2> QED BY <2>3
<1>2. ASSUME NEW k \in S PROVE k + 1 \in S
  <2>1. k \in Nat /\ k + 1 \in Nat
    OBVIOUS
  <2>2. SUFFICES ASSUME k + 1 <= n PROVE Upto(k + 1)
    BY <2>1
  <2>3. k <= n /\ k + 1 \in 1 .. n
    BY <2>1, <2>2
  <2>4. PICK g \in [0 .. k -> V] :
          g[0] = b /\ \A j \in 1 .. k : g[j] = op[<<g[j - 1], j>>]
    BY <2>3
  <2> DEFINE h == [j \in 0 .. k + 1 |-> IF j = k + 1 THEN op[<<g[k], k + 1>>] ELSE g[j]]
  <2>5. h \in [0 .. k + 1 -> V]
    BY <2>1, <2>3
  <2>6. h[0] = b
    BY <2>1, <2>4
  <2>7. ASSUME NEW j \in 1 .. k + 1 PROVE h[j] = op[<<h[j - 1], j>>]
    <3>1. CASE j = k + 1
      <4>1. j - 1 = k /\ k \in 0 .. k + 1 /\ k + 1 \in 0 .. k + 1 /\ k # k + 1
        BY <2>1, <3>1
      <4>2. h[k + 1] = op[<<g[k], k + 1>>] /\ h[k] = g[k]
        BY <4>1
      <4> HIDE DEF h
      <4> QED BY <3>1, <4>1, <4>2
    <3>2. CASE j # k + 1
      BY <2>1, <2>4, <3>2
    <3> QED BY <3>1, <3>2
  <2> HIDE DEF h
  <2> QED BY <2>5, <2>6, <2>7
<1>3. S = Nat
  <2>1. S \subseteq Nat
    OBVIOUS
  <2> HIDE DEF S
  <2> QED BY <1>1, <1>2, <2>1, Induction
<1>4. n \in S
  <2> HIDE DEF S
  <2> QED BY <1>3
<1>5. Upto(n)
  BY <1>4
<1> QED BY <1>5 DEF IsRun

-----------------------------------------------------------------------------
(* Sockets *)

Channels == [key : Keys, kind : Kinds]

\* Sockets that are kept are among those that were made.
Made(n) ==
  /\ n.open \subseteq 1 .. Len(n.socks)
  /\ n.detection \subseteq 1 .. Len(n.socks)
  /\ n.command_channel_ \subseteq 1 .. Len(n.socks)
  /\ n.data_channel_ \subseteq 1 .. Len(n.socks)
  /\ n.vec_broadcast_socket_ \subseteq 1 .. Len(n.socks)
NetOK(n) == IsNet(n) /\ Made(n)

\* A socket that is open is the one that channel_info_ has for its key, unless
\* it listens to broadcasts.
Broadcast(key) == key[1] = "255.255.255.255"
Keyed(n) ==
  \A s \in n.open : ~Broadcast(n.socks[s]) =>
    n.socks[s] \in DOMAIN n.channel_info_ /\ n.channel_info_[n.socks[s]] = s

\* A socket that is open is in one of the sets from which Uninit closes.
Kept(n) == n.open \subseteq n.socket_vec_ \cup n.vec_broadcast_socket_ \cup n.detection

LEMMA InsertedMap ==
  ASSUME NEW keys, NEW values, NEW f, IsMap(f, keys, values), NEW k \in keys, NEW v \in values
  PROVE  /\ IsMap(Inserted(f, k, v), keys, values)
         /\ DOMAIN Inserted(f, k, v) = DOMAIN f \cup {k}
         /\ \A x \in DOMAIN f : Inserted(f, k, v)[x] = f[x]
         /\ k \notin DOMAIN f => Inserted(f, k, v)[k] = v
BY DEF IsMap, Inserted

\* What Opened changes, for a socket that can be made.
LEMMA OpenedFields ==
  ASSUME NEW n, IsNet(n), NEW c \in Channels, NEW bad, Len(n.socks) + 1 # bad
  PROVE  LET o == Opened(n, c, bad)
             s == Len(n.socks) + 1
         IN  /\ IsNet(o)
             /\ o.socks = Append(n.socks, c.key)
             /\ o.open = n.open \cup {s}
             /\ o.ok = n.ok
             /\ o.channel_info_ = IF c.kind \in {"broadcast", "search"} THEN n.channel_info_
                                  ELSE Inserted(n.channel_info_, c.key, s)
             /\ o.detection = IF c.kind \in {"detection", "search"} THEN n.detection \cup {s}
                              ELSE n.detection
             /\ o.command_channel_ \subseteq n.command_channel_ \cup {s}
             /\ o.data_channel_ \subseteq n.data_channel_ \cup {s}
             /\ o.socket_vec_ = IF c.kind \in {"command", "data", "viewdata"}
                                THEN n.socket_vec_ \cup {s} ELSE n.socket_vec_
             /\ o.vec_broadcast_socket_ = IF c.kind = "broadcast"
                                          THEN n.vec_broadcast_socket_ \cup {s}
                                          ELSE n.vec_broadcast_socket_
<1> DEFINE s == Len(n.socks) + 1
           info == IF c.kind \in {"broadcast", "search"} THEN n.channel_info_
                   ELSE Inserted(n.channel_info_, c.key, s)
           commands == IF c.kind \in {"command", "detection"}
                       THEN Inserted(n.custom_command_channel_, c.key, s)
                       ELSE n.custom_command_channel_
           detection == IF c.kind \in {"detection", "search"} THEN n.detection \cup {s}
                        ELSE n.detection
           command == IF c.kind = "command" THEN n.command_channel_ \cup {s}
                      ELSE n.command_channel_
           data == IF c.kind = "data" THEN n.data_channel_ \cup {s} ELSE n.data_channel_
           vec == IF c.kind \in {"command", "data", "viewdata"} THEN n.socket_vec_ \cup {s}
                  ELSE n.socket_vec_
           broadcast == IF c.kind = "broadcast" THEN n.vec_broadcast_socket_ \cup {s}
                        ELSE n.vec_broadcast_socket_
           thread == ThreadOf(c.kind)
           tasks == [n.tasks EXCEPT ![thread] = Append(@, <<"add", s>>)]
           o == [socks |-> Append(n.socks, c.key), open |-> n.open \cup {s}, ok |-> n.ok,
                 channel_info_ |-> info, custom_command_channel_ |-> commands,
                 detection |-> detection, command_channel_ |-> command,
                 data_channel_ |-> data, socket_vec_ |-> vec,
                 vec_broadcast_socket_ |-> broadcast, tasks |-> tasks]
<1>1. s \in Nat /\ c.key \in Keys /\ c.kind \in Kinds
  BY DEF IsNet, Channels
<1>2. Opened(n, c, bad) = o
  BY DEF Opened, Post, IsNet
<1>3. IsMap(info, Keys, Nat) /\ IsMap(commands, Keys, Nat)
  BY <1>1, InsertedMap DEF IsNet
<1>4. thread \in Threads
  BY <1>1 DEF ThreadOf, Threads, Kinds
<1>5. tasks \in [Threads -> Seq({"add", "remove"} \X Nat)]
  <2>1. n.tasks \in [Threads -> Seq({"add", "remove"} \X Nat)]
    BY DEF IsNet
  <2>2. <<"add", s>> \in {"add", "remove"} \X Nat
    BY <1>1
  <2>3. Append(n.tasks[thread], <<"add", s>>) \in Seq({"add", "remove"} \X Nat)
    BY <1>4, <2>1, <2>2
  <2> HIDE DEF thread
  <2> QED BY <2>1, <2>3
<1>6. /\ n.open \cup {s} \in SUBSET Nat /\ detection \in SUBSET Nat
      /\ command \in SUBSET Nat /\ data \in SUBSET Nat /\ vec \in SUBSET Nat
      /\ broadcast \in SUBSET Nat /\ Append(n.socks, c.key) \in Seq(Keys) /\ n.ok \in BOOLEAN
  BY <1>1 DEF IsNet
<1>7. command \subseteq n.command_channel_ \cup {s} /\ data \subseteq n.data_channel_ \cup {s}
  OBVIOUS
<1>8. IsNet(o)
  <2> HIDE DEF s, info, commands, detection, command, data, vec, broadcast, thread, tasks
  <2> QED BY <1>3, <1>5, <1>6 DEF IsNet
<1> HIDE DEF command, data, commands, tasks
<1> QED BY <1>2, <1>7, <1>8

\* A channel is opened, or the sockets and what is kept of them stay as they are.
Same(n, o) ==
  /\ o.open = n.open /\ o.channel_info_ = n.channel_info_ /\ o.detection = n.detection
  /\ o.command_channel_ = n.command_channel_ /\ o.data_channel_ = n.data_channel_
  /\ o.socket_vec_ = n.socket_vec_ /\ o.vec_broadcast_socket_ = n.vec_broadcast_socket_
  /\ \E key \in Keys : o.socks \in {n.socks, Append(n.socks, key)}

LEMMA OpenChannelCases ==
  ASSUME NEW n, IsNet(n), NEW c \in Channels, NEW bad
  PROVE  LET o == OpenChannel(n, c, bad)
         IN  /\ IsNet(o)
             /\ \/ Same(n, o)
                \/ o = Opened(n, c, bad) /\ ~Shared(n, c) /\ Len(n.socks) + 1 # bad
<1> DEFINE o == OpenChannel(n, c, bad)
<1>1. c.key \in Keys
  BY DEF Channels
<1>2. CASE ~n.ok \/ Unwanted(c)
  BY <1>1, <1>2 DEF OpenChannel, Same
<1>3. CASE ~(~n.ok \/ Unwanted(c)) /\ Shared(n, c)
  <2> DEFINE commands == IF c.kind = "command"
                         THEN Inserted(n.custom_command_channel_, c.key, n.channel_info_[c.key])
                         ELSE n.custom_command_channel_
  <2>1. o = [n EXCEPT !.custom_command_channel_ = commands]
    BY <1>3 DEF OpenChannel, IsNet
  <2>2. n.channel_info_[c.key] \in Nat
    BY <1>3 DEF Shared, IsNet, IsMap
  <2>3. IsMap(commands, Keys, Nat)
    BY <1>1, <2>2, InsertedMap DEF IsNet
  <2> HIDE DEF commands
  <2>4. IsNet(o)
    BY <2>1, <2>3 DEF IsNet
  <2>5. Same(n, o)
    BY <1>1, <2>1 DEF Same, IsNet
  <2> QED BY <2>4, <2>5
<1>4. CASE ~(~n.ok \/ Unwanted(c)) /\ ~Shared(n, c)
  <2>1. o = Opened(n, c, bad)
    BY <1>4 DEF OpenChannel
  <2>2. CASE Len(n.socks) + 1 = bad
    <3>1. o = [n EXCEPT !.socks = Append(@, c.key), !.ok = FALSE]
      BY <2>1, <2>2 DEF Opened, IsNet
    <3>2. Append(n.socks, c.key) \in Seq(Keys)
      BY <1>1 DEF IsNet
    <3>3. IsNet(o)
      BY <3>1, <3>2 DEF IsNet
    <3>4. Same(n, o)
      BY <1>1, <3>1 DEF Same, IsNet
    <3> QED BY <3>3, <3>4
  <2>3. CASE Len(n.socks) + 1 # bad
    <3>1. IsNet(Opened(n, c, bad))
      BY <2>3, OpenedFields
    <3> HIDE DEF o
    <3>2. IsNet(o)
      BY <2>1, <3>1
    <3> QED BY <1>4, <2>1, <2>3, <3>2 DEF o
  <2> QED BY <2>2, <2>3
<1> QED BY <1>2, <1>3, <1>4

\* The length of a sequence of sockets grows, and the ones it has stay.
LEMMA SocksGrow ==
  ASSUME NEW socks \in Seq(Keys), NEW key \in Keys
  PROVE  /\ Append(socks, key) \in Seq(Keys)
         /\ Len(Append(socks, key)) = Len(socks) + 1
         /\ \A s \in 1 .. Len(socks) : Append(socks, key)[s] = socks[s]
         /\ Append(socks, key)[Len(socks) + 1] = key
OBVIOUS

LEMMA OpenChannelKeeps ==
  ASSUME NEW n, NetOK(n), NEW c \in Channels, NEW bad,
         Broadcast(c.key) \/ c.kind \notin {"broadcast", "search"},
         c.kind = "detection" => n.channel_info_ = <<>>
  PROVE  LET o == OpenChannel(n, c, bad)
         IN  /\ NetOK(o)
             /\ Keyed(n) => Keyed(o)
             /\ Kept(n) => Kept(o)
             /\ c.kind = "search" /\ n.channel_info_ = <<>> => o.channel_info_ = <<>>
<1> DEFINE o == OpenChannel(n, c, bad)
           s == Len(n.socks) + 1
<1>1. IsNet(o) /\ c.key \in Keys /\ c.kind \in Kinds /\ n.socks \in Seq(Keys)
  BY OpenChannelCases DEF NetOK, Channels, IsNet
<1>2. Len(n.socks) \in Nat
  BY <1>1
<1>3. CASE Same(n, o)
  <2>1. /\ Len(o.socks) >= Len(n.socks) /\ Len(o.socks) \in Nat
        /\ \A t \in 1 .. Len(n.socks) : o.socks[t] = n.socks[t]
    BY <1>1, <1>2, <1>3, SocksGrow DEF Same
  <2>2. \A t \in 1 .. Len(n.socks) : t \in 1 .. Len(o.socks)
    BY <1>2, <2>1
  <2>3. Made(o)
    BY <1>3, <2>2 DEF Same, Made, NetOK
  <2>4. Keyed(n) => Keyed(o)
    BY <1>3, <2>1 DEF Same, Keyed, Made, NetOK
  <2>5. Kept(n) => Kept(o)
    BY <1>3 DEF Same, Kept
  <2> QED BY <1>1, <1>3, <2>3, <2>4, <2>5 DEF NetOK, Same
<1>4. CASE o = Opened(n, c, bad) /\ ~Shared(n, c) /\ Len(n.socks) + 1 # bad
  <2>1. /\ o.socks = Append(n.socks, c.key)
        /\ o.open = n.open \cup {s}
        /\ o.channel_info_ = IF c.kind \in {"broadcast", "search"} THEN n.channel_info_
                             ELSE Inserted(n.channel_info_, c.key, s)
        /\ o.detection = IF c.kind \in {"detection", "search"} THEN n.detection \cup {s}
                         ELSE n.detection
        /\ o.command_channel_ \subseteq n.command_channel_ \cup {s}
        /\ o.data_channel_ \subseteq n.data_channel_ \cup {s}
        /\ o.socket_vec_ = IF c.kind \in {"command", "data", "viewdata"}
                           THEN n.socket_vec_ \cup {s} ELSE n.socket_vec_
        /\ o.vec_broadcast_socket_ = IF c.kind = "broadcast"
                                     THEN n.vec_broadcast_socket_ \cup {s}
                                     ELSE n.vec_broadcast_socket_
    <3> HIDE DEF o
    <3> QED BY <1>4, OpenedFields DEF NetOK
  <2> HIDE DEF o
  <2>2. /\ Len(o.socks) = s /\ o.socks[s] = c.key
        /\ \A t \in 1 .. Len(n.socks) : o.socks[t] = n.socks[t]
    BY <1>1, <2>1, SocksGrow
  <2>3. \A t \in 1 .. Len(n.socks) : t \in 1 .. s
    BY <1>2
  <2>4. s \in 1 .. s /\ s \in Nat
    BY <1>2
  <2>5. Made(o)
    <3> HIDE DEF s
    <3> QED BY <2>1, <2>2, <2>3, <2>4 DEF Made, NetOK
  <2>6. ASSUME Keyed(n) PROVE Keyed(o)
    <3>1. IsMap(n.channel_info_, Keys, Nat) /\ n.open \subseteq 1 .. Len(n.socks)
      BY DEF NetOK, IsNet, Made
    <3>2. CASE c.kind \in {"broadcast", "search"}
      BY <2>1, <2>2, <2>6, <3>1, <3>2 DEF Keyed
    <3>3. CASE c.kind \notin {"broadcast", "search"}
      <4>1. c.key \notin DOMAIN n.channel_info_
        <5>1. CASE c.kind = "detection"
          BY <5>1
        <5>2. CASE c.kind # "detection"
          BY <1>1, <1>4, <3>3, <5>2 DEF Shared, Kinds
        <5> QED BY <5>1, <5>2
      <4>2. /\ DOMAIN o.channel_info_ = DOMAIN n.channel_info_ \cup {c.key}
            /\ \A x \in DOMAIN n.channel_info_ : o.channel_info_[x] = n.channel_info_[x]
            /\ o.channel_info_[c.key] = s
        <5>1. o.channel_info_ = Inserted(n.channel_info_, c.key, s)
          BY <2>1, <3>3
        <5> HIDE DEF s
        <5>2. /\ DOMAIN Inserted(n.channel_info_, c.key, s) = DOMAIN n.channel_info_ \cup {c.key}
              /\ \A x \in DOMAIN n.channel_info_ :
                   Inserted(n.channel_info_, c.key, s)[x] = n.channel_info_[x]
              /\ Inserted(n.channel_info_, c.key, s)[c.key] = s
          BY <4>1 DEF Inserted
        <5> QED BY <5>1, <5>2
      <4> QED BY <2>1, <2>2, <2>6, <3>1, <4>2 DEF Keyed
    <3> QED BY <3>2, <3>3
  <2>7. Kept(n) => Kept(o)
    BY <1>1, <2>1 DEF Kept, Kinds
  <2>8. c.kind = "search" => o.channel_info_ = n.channel_info_
    BY <2>1
  <2>9. NetOK(o)
    BY <1>1, <2>5 DEF NetOK
  <2>10. c.kind = "search" /\ n.channel_info_ = <<>> => o.channel_info_ = <<>>
    BY <2>8
  <2> QED BY <2>6, <2>7, <2>9, <2>10 DEF o
<1> QED
  <2>1. Same(n, o) \/ (o = Opened(n, c, bad) /\ ~Shared(n, c) /\ Len(n.socks) + 1 # bad)
    BY OpenChannelCases DEF NetOK
  <2> QED BY <1>3, <1>4, <2>1

\* All nets, as a set.
AllMaps == UNION {[keys -> Nat] : keys \in SUBSET Keys}
Nets ==
  [socks : Seq(Keys), open : SUBSET Nat, ok : BOOLEAN, channel_info_ : AllMaps,
   custom_command_channel_ : AllMaps, detection : SUBSET Nat,
   command_channel_ : SUBSET Nat, data_channel_ : SUBSET Nat, socket_vec_ : SUBSET Nat,
   vec_broadcast_socket_ : SUBSET Nat, tasks : [Threads -> Seq({"add", "remove"} \X Nat)]]

LEMMA IsNetInNets == \A n : IsNet(n) <=> n \in Nets
<1>1. \A f : IsMap(f, Keys, Nat) <=> f \in AllMaps
  BY DEF IsMap, AllMaps
<1>2. ASSUME NEW n, IsNet(n) PROVE n \in Nets
  BY <1>1, <1>2 DEF IsNet, Nets
<1>3. ASSUME NEW n \in Nets PROVE IsNet(n)
  <2>1. IsMap(n.channel_info_, Keys, Nat) /\ IsMap(n.custom_command_channel_, Keys, Nat)
    BY <1>1 DEF Nets
  <2> QED BY <2>1 DEF IsNet, Nets
<1> QED BY <1>2, <1>3

\* The sets of nets there are as the channels are opened.
OpeningRun(g, n, channels, bad) ==
  /\ g[0] = {n}
  /\ \A k \in 1 .. Len(channels) :
       g[k] = {OpenChannel(m, channels[k], bad) : m \in g[k - 1]}
  /\ OpenChannels(n, channels, bad) = g[Len(channels)]

LEMMA OpenChannelsRun ==
  ASSUME NEW n, IsNet(n), NEW channels \in Seq(Channels), NEW bad
  PROVE  \E g : OpeningRun(g, n, channels, bad)
<1> DEFINE N == Len(channels)
           V == SUBSET Nets
           opened(ms, k) == {OpenChannel(m, channels[k], bad) : m \in ms}
           op == [p \in V \X (1 .. N) |-> opened(p[1], p[2])]
           b == {n}
           Loop(g) == [i \in 0 .. N |-> IF i = 0 THEN b ELSE opened(g[i - 1], i)]
           after == CHOOSE g : g = Loop(g)
<1>1. N \in Nat /\ b \in V
  BY IsNetInNets
<1>2. ASSUME NEW ms \in V, NEW k \in 1 .. N PROVE opened(ms, k) \in V
  <2>1. channels[k] \in Channels
    OBVIOUS
  <2>2. \A m \in ms : IsNet(m)
    BY IsNetInNets
  <2>3. \A m \in ms : IsNet(OpenChannel(m, channels[k], bad))
    BY <2>1, <2>2, OpenChannelCases
  <2> QED BY <2>3, IsNetInNets
<1>3. OpenChannels(n, channels, bad) = after[N]
  BY DEF OpenChannels
<1> HIDE DEF N, V, b, opened
<1>4. op \in [V \X (1 .. N) -> V]
  BY <1>2
<1>5. \A ms \in V, k \in 1 .. N : op[<<ms, k>>] = opened(ms, k)
  OBVIOUS
<1> HIDE DEF op
<1>6. PICK g \in [0 .. N -> V] :
        g[0] = b /\ \A k \in 1 .. N : g[k] = op[<<g[k - 1], k>>]
  <2>1. \E g \in [0 .. N -> V] : IsRun(g, b, op, N)
    BY <1>1, <1>4, Steps
  <2> QED BY <2>1 DEF IsRun
<1>7. \A k \in 1 .. N : k - 1 \in 0 .. N
  BY <1>1
<1>8. \A k \in 1 .. N : g[k] = opened(g[k - 1], k)
  BY <1>5, <1>6, <1>7
<1>9. g = Loop(g)
  <2>1. \A k \in 0 .. N : g[k] = IF k = 0 THEN b ELSE opened(g[k - 1], k)
    BY <1>1, <1>6, <1>8
  <2> QED BY <1>6, <2>1
<1>10. after = Loop(after)
  BY <1>9
<1> HIDE DEF after
<1>11. after[0] = b /\ \A k \in 1 .. N : after[k] = opened(after[k - 1], k)
  BY <1>1, <1>10
<1> QED BY <1>3, <1>11 DEF opened, b, N, OpeningRun

\* Channels that listen to broadcasts have the address of broadcasts.
Proper(c) == c.kind \in {"broadcast", "search"} => Broadcast(c.key)

\* Channels in a list: one for the host's own port comes second, after the one
\* that searches, and only if there is none yet.
Fit(n, channels) ==
  /\ channels \in Seq(Channels)
  /\ \A k \in 1 .. Len(channels) :
       /\ Proper(channels[k])
       /\ channels[k].kind = "detection" =>
            k = 2 /\ channels[1].kind = "search" /\ n.channel_info_ = <<>>

LEMMA OpenChannelsKeep ==
  ASSUME NEW n, NetOK(n), NEW channels, Fit(n, channels), NEW bad,
         NEW o \in OpenChannels(n, channels, bad)
  PROVE  /\ NetOK(o)
         /\ Keyed(n) => Keyed(o)
         /\ Kept(n) => Kept(o)
<1> DEFINE N == Len(channels)
<1>1. channels \in Seq(Channels) /\ N \in Nat /\ IsNet(n)
  BY DEF Fit, NetOK
<1> HIDE DEF N
<1>2. PICK g : /\ g[0] = {n}
               /\ \A k \in 1 .. Len(channels) :
                    g[k] = {OpenChannel(m, channels[k], bad) : m \in g[k - 1]}
               /\ OpenChannels(n, channels, bad) = g[Len(channels)]
  <2>1. \E g : OpeningRun(g, n, channels, bad)
    BY <1>1, OpenChannelsRun
  <2> QED BY <2>1 DEF OpeningRun
<1> USE DEF N
<1> DEFINE Good(k, m) ==
             /\ NetOK(m)
             /\ Keyed(n) => Keyed(m)
             /\ Kept(n) => Kept(m)
             /\ k <= 1 /\ channels[1].kind = "search" /\ n.channel_info_ = <<>> =>
                  m.channel_info_ = <<>>
           S == {k \in Nat : k <= N => \A m \in g[k] : Good(k, m)}
<1>3. 0 \in S
  BY <1>2
<1>4. ASSUME NEW k \in S PROVE k + 1 \in S
  <2>1. SUFFICES ASSUME k + 1 <= N, NEW m \in g[k + 1] PROVE Good(k + 1, m)
    OBVIOUS
  <2>2. k \in Nat /\ k <= N /\ k + 1 \in 1 .. N /\ (k + 1) - 1 = k
    BY <1>1, <2>1
  <2>3. PICK p \in g[k] : m = OpenChannel(p, channels[k + 1], bad)
    BY <1>2, <2>1, <2>2
  <2>4. Good(k, p)
    BY <2>2
  <2> DEFINE c == channels[k + 1]
  <2>5. /\ c \in Channels /\ Proper(c)
        /\ c.kind = "detection" =>
             k + 1 = 2 /\ channels[1].kind = "search" /\ n.channel_info_ = <<>>
    BY <1>1, <2>2 DEF Fit
  <2>6. Broadcast(c.key) \/ c.kind \notin {"broadcast", "search"}
    BY <2>5 DEF Proper
  <2>7. c.kind = "detection" => p.channel_info_ = <<>>
    <3>1. k + 1 = 2 => k <= 1
      BY <2>2
    <3> QED BY <2>4, <2>5, <3>1
  <2>8. k + 1 <= 1 => k <= 1 /\ c = channels[1]
    BY <2>2
  <2> HIDE DEF c
  <2>9. m = OpenChannel(p, c, bad)
    BY <2>3 DEF c
  <2>10. /\ NetOK(m) /\ (Keyed(p) => Keyed(m)) /\ (Kept(p) => Kept(m))
         /\ c.kind = "search" /\ p.channel_info_ = <<>> => m.channel_info_ = <<>>
    BY <2>4, <2>5, <2>6, <2>7, <2>9, OpenChannelKeeps
  <2> QED BY <2>4, <2>8, <2>10
<1>5. N \in S
  <2>1. S \subseteq Nat
    OBVIOUS
  <2> HIDE DEF S
  <2> QED BY <1>1, <1>3, <1>4, <2>1, Induction
<1>6. \A m \in g[N] : Good(N, m)
  BY <1>1, <1>5
<1> QED BY <1>2, <1>6

-----------------------------------------------------------------------------
(* The channels of a list of entries *)

\* FlattenSeq is a sequence of what the sequences have.
LEMMA Flattened ==
  ASSUME NEW T, NEW seqs \in Seq(Seq(T))
  PROVE  FlattenSeq(seqs) \in Seq(T)
<1> DEFINE N == Len(seqs)
           V == Seq(T)
           next(s, k) == IF k = 1 THEN seqs[k] ELSE s \o seqs[k]
           op == [p \in V \X (1 .. N) |-> next(p[1], p[2])]
           b == <<>>
           Loop(g) == [i \in 1 .. N |-> next(g[i - 1], i)]
           flatten == CHOOSE g : g = Loop(g)
<1>1. CASE N = 0
  <2>1. seqs = <<>>
    BY <1>1
  <2> QED BY <2>1 DEF FlattenSeq
<1>2. CASE N # 0
  <2>1. N \in Nat /\ N \in 1 .. N /\ b \in V
    BY <1>2
  <2>2. \A s \in V, k \in 1 .. N : next(s, k) \in V
    OBVIOUS
  <2>3. FlattenSeq(seqs) = flatten[N]
    BY <1>2 DEF FlattenSeq
  <2>4. \A x, y : next(x, 1) = next(y, 1)
    OBVIOUS
  <2> HIDE DEF N, V, b, next
  <2>5. op \in [V \X (1 .. N) -> V]
    BY <2>2
  <2>6. \A s \in V, k \in 1 .. N : op[<<s, k>>] = next(s, k)
    OBVIOUS
  <2> HIDE DEF op
  <2>7. PICK g \in [0 .. N -> V] : IsRun(g, b, op, N)
    BY <2>1, <2>5, Steps
  <2>8. \A k \in 1 .. N : k - 1 \in 0 .. N /\ k \in 0 .. N
    BY <2>1
  <2>9. \A k \in 1 .. N : g[k] = next(g[k - 1], k)
    BY <2>6, <2>7, <2>8 DEF IsRun
  <2> DEFINE h == [i \in 1 .. N |-> g[i]]
  <2>10. ASSUME NEW k \in 1 .. N PROVE h[k] = next(h[k - 1], k)
    <3>1. CASE k = 1
      BY <2>4, <2>9, <3>1
    <3>2. CASE k # 1
      <4>1. k - 1 \in 1 .. N
        BY <2>1, <3>2
      <4> QED BY <2>9, <4>1
    <3> QED BY <3>1, <3>2
  <2>11. h = Loop(h)
    <3>1. DOMAIN h = 1 .. N
      OBVIOUS
    <3> HIDE DEF h
    <3>2. h = [i \in 1 .. N |-> h[i]]
      BY <3>1 DEF h
    <3> QED BY <2>10, <3>2
  <2>12. flatten = Loop(flatten)
    <3> HIDE DEF h
    <3> QED BY <2>11
  <2> HIDE DEF flatten, h
  <2>13. \A k \in 1 .. N : flatten[k] = next(flatten[k - 1], k)
    BY <2>12
  <2> DEFINE f == [k \in 0 .. N |-> IF k = 0 THEN b ELSE flatten[k]]
  <2>14. f[0] \in V
    BY <2>1
  <2>15. ASSUME NEW k \in 1 .. N, f[k - 1] \in V PROVE f[k] \in V
    <3>1. f[k] = flatten[k] /\ k \in Nat
      BY <2>1
    <3>2. CASE k = 1
      <4>1. flatten[1] = next(flatten[1 - 1], 1) /\ next(flatten[1 - 1], 1) = next(b, 1)
        BY <2>4, <2>13, <3>2
      <4>2. next(b, 1) \in V
        BY <2>1, <2>2, <3>2
      <4> QED BY <3>1, <3>2, <4>1, <4>2
    <3>3. CASE k # 1
      <4>1. k - 1 \in 1 .. N /\ k - 1 # 0 /\ k - 1 \in 0 .. N
        BY <2>1, <3>3
      <4>2. f[k - 1] = flatten[k - 1]
        BY <4>1
      <4> HIDE DEF f
      <4> QED BY <2>2, <2>13, <2>15, <3>1, <4>2
    <3> QED BY <3>2, <3>3
  <2>16. f[N] \in V
    <3>1. N \in 0 .. N
      BY <2>1
    <3> HIDE DEF f
    <3> QED BY <2>1, <2>14, <2>15, <3>1, Along
  <2>17. f[N] = flatten[N]
    BY <1>2, <2>1
  <2> QED BY <2>3, <2>16, <2>17 DEF V
<1> QED BY <1>1, <1>2

\* Channels for points and commands.
Others == {c \in Channels : Proper(c) /\ c.kind \notin {"detection", "search"}}

LEMMA ChannelsOfOthers ==
  ASSUME NEW list \in Seq(Cfgs)
  PROVE  ChannelsOf(list) \in Seq(Others)
<1>1. ASSUME NEW ip \in Ips, NEW port \in Nat, NEW kind \in {"command", "data", "viewdata"}
      PROVE  Channel(ip, port, kind) \in Others
  BY DEF Channel, Others, Channels, Keys, Kinds, Proper
<1>2. ASSUME NEW port \in Nat
      PROVE  Channel("255.255.255.255", port, "broadcast") \in Others
  <2> DEFINE key == <<"255.255.255.255", port>>
             c == [key |-> key, kind |-> "broadcast"]
  <2>1. key \in Keys
    BY DEF Keys, Ips
  <2>2. key[1] = "255.255.255.255"
    OBVIOUS
  <2> HIDE DEF key
  <2>3. c \in Channels /\ c.key = key /\ c.kind = "broadcast"
    BY <2>1 DEF Channels, Kinds
  <2>4. c \in Others
    BY <2>2, <2>3 DEF Others, Proper, Broadcast
  <2> QED BY <2>4 DEF Channel, key
<1>3. ASSUME NEW cfg \in Cfgs PROVE DataChannels(cfg) \o CommandChannels(cfg) \in Seq(Others)
  <2>1. /\ cfg.host_ip \in Ips /\ cfg.host.point \in Nat /\ cfg.host.imu \in Nat
        /\ cfg.host.cmd \in Nat /\ cfg.host.push \in Nat /\ cfg.host.log \in Nat
    BY DEF Cfgs, Ports
  <2>2. DataChannels(cfg) \in Seq(Others)
    <3>1. /\ Channel(cfg.host_ip, cfg.host.point, "data") \in Others
          /\ Channel(cfg.host_ip, cfg.host.imu, "data") \in Others
      BY <1>1, <2>1
    <3>2. Channel(cfg.host_ip, kHostDebugPointCloudPort, "data") \in Others
      <4>1. kHostDebugPointCloudPort \in Nat
        BY DEF kHostDebugPointCloudPort
      <4> QED BY <1>1, <2>1, <4>1
    <3> QED BY <3>1, <3>2 DEF DataChannels
  <2> DEFINE a == IF framework = "master"
                  THEN <<Channel(cfg.host_ip, cfg.host.cmd, "command")>> ELSE <<>>
             b == <<Channel(cfg.host_ip, cfg.host.push, "command")>>
             c == IF cfg.device_type = "PA"
                  THEN <<Channel(cfg.host_ip, kPaHostFaultPort, "command")>> ELSE <<>>
             d == IF cfg.device_type = "Mid360"
                  THEN <<Channel("255.255.255.255", cfg.host.push, "broadcast")>> ELSE <<>>
             e == IF LogEnabled THEN <<Channel(cfg.host_ip, cfg.host.log, "command")>> ELSE <<>>
  <2>3. a \in Seq(Others) /\ b \in Seq(Others) /\ c \in Seq(Others) /\ e \in Seq(Others)
    <3>1. kPaHostFaultPort \in Nat
      BY DEF kPaHostFaultPort
    <3>2. /\ Channel(cfg.host_ip, cfg.host.cmd, "command") \in Others
          /\ Channel(cfg.host_ip, cfg.host.push, "command") \in Others
          /\ Channel(cfg.host_ip, cfg.host.log, "command") \in Others
          /\ Channel(cfg.host_ip, kPaHostFaultPort, "command") \in Others
      BY <1>1, <2>1, <3>1
    <3> QED BY <3>2
  <2>4. d \in Seq(Others)
    BY <1>2, <2>1
  <2>5. CommandChannels(cfg) = a \o b \o c \o d \o e
    BY DEF CommandChannels
  <2> HIDE DEF a, b, c, d, e
  <2> QED BY <2>2, <2>3, <2>4, <2>5
<1>4. [i \in DOMAIN list |-> DataChannels(list[i]) \o CommandChannels(list[i])]
        \in Seq(Seq(Others))
  <2>1. \A i \in 1 .. Len(list) : list[i] \in Cfgs
    OBVIOUS
  <2>2. DOMAIN list = 1 .. Len(list) /\ Len(list) \in Nat
    OBVIOUS
  <2>3. [i \in 1 .. Len(list) |-> DataChannels(list[i]) \o CommandChannels(list[i])]
          \in [1 .. Len(list) -> Seq(Others)]
    BY <1>3, <2>1
  <2> QED BY <2>2, <2>3, IsASeq
<1> QED BY <1>4, Flattened DEF ChannelsOf

-----------------------------------------------------------------------------
(* What is read from a file *)

LEMMA ResultsOk ==
  ASSUME NEW r \in Results
  PROVE  /\ r.ok \in BOOLEAN
         /\ r.ok => r \in [ok : {TRUE}, types : Seq(Cfgs), customs : Seq(Cfgs), master : BOOLEAN]
<1>1. Refused.ok = FALSE
  BY DEF Refused
<1>2. r = Refused \/
      r \in [ok : {TRUE}, types : Seq(Cfgs), customs : Seq(Cfgs), master : BOOLEAN]
  BY DEF Results
<1> QED BY <1>1, <1>2

LEMMA AddHostType ==
  ASSUME NEW r \in Results, NEW type \in {"HAP", "Mid360"}, NEW section \in Sections,
         NEW host \in Hosts
  PROVE  AddHost(r, type, section, host) \in Results
<1>1. CASE ~r.ok \/ host.lidar_ip = <<>>
  BY <1>1 DEF AddHost
<1>2. CASE r.ok /\ host.lidar_ip # <<>> /\
           (~Complete(section, host) \/ "none" \in ToSet(host.lidar_ip))
  BY <1>2 DEF AddHost, Results
<1>3. CASE r.ok /\ host.lidar_ip # <<>> /\ Complete(section, host)
           /\ "none" \notin ToSet(host.lidar_ip)
  <2>1. r \in [ok : {TRUE}, types : Seq(Cfgs), customs : Seq(Cfgs), master : BOOLEAN]
    BY <1>3, ResultsOk
  <2>2. /\ section.ports \in Ports /\ host.ports \in Ports /\ host.ip \in Ips
        /\ host.multicast_ip \in Seq(Nat) /\ host.lidar_ip \in Seq(Ips)
    BY <1>3 DEF Complete, Sections, Hosts
  <2>3. ASSUME NEW ip \in Ips PROVE LidarCfg(type, section, host, ip) \in Cfgs
    BY <2>2 DEF LidarCfg, Cfgs
  <2>4. CASE host.lidar_ip = NoList
    <3>1. AddHost(r, type, section, host)
            = [r EXCEPT !.types = Append(@, LidarCfg(type, section, host, ""))]
      BY <1>3, <2>4 DEF AddHost
    <3>2. LidarCfg(type, section, host, "") \in Cfgs
      <4>1. "" \in Ips
        BY DEF Ips
      <4> QED BY <2>3, <4>1
    <3> DEFINE types == Append(r.types, LidarCfg(type, section, host, ""))
    <3>3. types \in Seq(Cfgs)
      <4>1. r.types \in Seq(Cfgs)
        BY <2>1
      <4> QED BY <3>2, <4>1, AppendProperties
    <3>5. AddHost(r, type, section, host) = [r EXCEPT !.types = types]
      BY <2>1, <3>1
    <3> HIDE DEF types
    <3>4. AddHost(r, type, section, host)
            \in [ok : {TRUE}, types : Seq(Cfgs), customs : Seq(Cfgs), master : BOOLEAN]
      BY <2>1, <3>3, <3>5
    <3> QED BY <3>4 DEF Results
  <2>5. CASE host.lidar_ip # NoList
    <3> DEFINE new == [i \in DOMAIN host.lidar_ip |->
                         LidarCfg(type, section, host, host.lidar_ip[i])]
    <3>1. AddHost(r, type, section, host) = [r EXCEPT !.customs = @ \o new]
      BY <1>3, <2>5 DEF AddHost
    <3>2. new \in Seq(Cfgs)
      <4>1. /\ DOMAIN host.lidar_ip = 1 .. Len(host.lidar_ip) /\ Len(host.lidar_ip) \in Nat
            /\ \A i \in 1 .. Len(host.lidar_ip) : host.lidar_ip[i] \in Ips
        BY <2>2
      <4>2. new \in [1 .. Len(host.lidar_ip) -> Cfgs]
        BY <2>3, <4>1
      <4> QED BY <4>1, <4>2, IsASeq
    <3> HIDE DEF new
    <3>3. r.customs \o new \in Seq(Cfgs)
      BY <2>1, <3>2
    <3>4. AddHost(r, type, section, host)
            \in [ok : {TRUE}, types : Seq(Cfgs), customs : Seq(Cfgs), master : BOOLEAN]
      BY <2>1, <3>1, <3>3
    <3> QED BY <3>4 DEF Results
  <2> QED BY <2>4, <2>5
<1>4. r.ok \in BOOLEAN
  BY ResultsOk
<1> QED BY <1>1, <1>2, <1>3, <1>4

LEMMA ParseLidarCfgType ==
  ASSUME NEW r \in Results, NEW type \in {"HAP", "Mid360"}, NEW section \in Sections
  PROVE  ParseLidarCfg(r, type, section) \in Results
<1> DEFINE hosts == section.hosts
           N == Len(hosts)
           added(s, k) == AddHost(s, type, section, hosts[k])
           op == [p \in Results \X (1 .. N) |-> added(p[1], p[2])]
           Loop(g) == [i \in 0 .. N |-> IF i = 0 THEN r ELSE added(g[i - 1], i)]
           after == CHOOSE g : g = Loop(g)
<1>1. hosts \in Seq(Hosts) /\ N \in Nat /\ \A k \in 1 .. N : hosts[k] \in Hosts
  BY DEF Sections
<1>2. \A s \in Results, k \in 1 .. N : added(s, k) \in Results
  BY <1>1, AddHostType
<1>3. after[N] \in Results
  <2> HIDE DEF N, added
  <2>1. op \in [Results \X (1 .. N) -> Results]
    BY <1>2
  <2>2. \A s \in Results, k \in 1 .. N : op[<<s, k>>] = added(s, k)
    OBVIOUS
  <2> HIDE DEF op
  <2>3. PICK g \in [0 .. N -> Results] : IsRun(g, r, op, N)
    BY <1>1, <2>1, Steps
  <2>4. \A k \in 1 .. N : k - 1 \in 0 .. N
    BY <1>1
  <2>5. g[0] = r /\ \A k \in 1 .. N : g[k] = added(g[k - 1], k)
    BY <2>2, <2>3, <2>4 DEF IsRun
  <2>6. g = Loop(g)
    <3>1. \A k \in 0 .. N : g[k] = IF k = 0 THEN r ELSE added(g[k - 1], k)
      BY <1>1, <2>5
    <3> QED BY <2>3, <3>1
  <2>7. after = Loop(after)
    BY <2>6
  <2> HIDE DEF after
  <2>8. after[0] = r /\ \A k \in 1 .. N : after[k] = added(after[k - 1], k)
    BY <1>1, <2>7
  <2>9. \A k \in 1 .. N : after[k - 1] \in Results => after[k] \in Results
    BY <1>2, <2>8
  <2>10. N \in 0 .. N /\ after[0] \in Results
    BY <1>1, <2>8
  <2> QED BY <1>1, <2>9, <2>10, Along
<1>4. CASE section.form = "array"
  BY <1>3, <1>4 DEF ParseLidarCfg
<1>5. CASE section.form = "absent"
  BY <1>5 DEF ParseLidarCfg
<1>6. CASE section.form = "object"
  <2> DEFINE host == [section.hosts[1] EXCEPT !.lidar_ip = NoList]
  <2>1. section.hosts[1] \in Hosts
    BY <1>1, <1>6 DEF Sections
  <2>2. NoList \in Seq(Ips)
    BY DEF NoList, Ips
  <2>3. host \in Hosts
    BY <2>1, <2>2 DEF Hosts
  <2>4. ParseLidarCfg(r, type, section) = AddHost(r, type, section, host)
    BY <1>6 DEF ParseLidarCfg
  <2> QED BY <2>3, <2>4, AddHostType
<1>7. CASE section.form \notin {"array", "absent", "object"}
  BY <1>7 DEF ParseLidarCfg, Results
<1> QED BY <1>4, <1>5, <1>6, <1>7

LEMMA ParseType == ASSUME NEW doc \in Documents PROVE Parse(doc) \in Results
<1> DEFINE start == [ok |-> TRUE, types |-> <<>>, customs |-> <<>>,
                     master |-> doc.master_sdk # "false"]
           hap == ParseLidarCfg(start, "HAP", doc.HAP)
<1>1. doc.HAP \in Sections /\ doc.MID360 \in Sections
  BY DocumentAssumption
<1>2. start \in Results
  BY DEF Results
<1>3. hap \in Results
  BY <1>1, <1>2, ParseLidarCfgType
<1>4. ParseLidarCfg(hap, "Mid360", doc.MID360) \in Results
  BY <1>1, <1>3, ParseLidarCfgType
<1>5. Refused \in Results
  BY DEF Results
<1> HIDE DEF Results
<1> QED BY <1>4, <1>5 DEF Parse

\* A set of indices has a greatest one.
LEMMA GreatestIndex ==
  ASSUME NEW n \in Nat, NEW T \in SUBSET (1 .. n), T # {}
  PROVE  Max(T) \in T
<1>1. SUFFICES \E x \in T : \A y \in T : x >= y
  BY DEF Max
<1>2. SUFFICES ASSUME \A x \in T : \E y \in T : ~(x >= y) PROVE FALSE
  OBVIOUS
<1> DEFINE U == {k \in Nat : \E y \in T : y >= k}
<1>3. 0 \in U
  <2>1. PICK y \in T : TRUE
    OBVIOUS
  <2>2. y >= 0
    BY <2>1
  <2> QED BY <2>2
<1>4. ASSUME NEW k \in U PROVE k + 1 \in U
  <2>1. PICK x \in T : x >= k
    OBVIOUS
  <2>2. PICK y \in T : ~(x >= y)
    BY <1>2
  <2> QED BY <2>1, <2>2
<1>5. U = Nat
  <2>1. U \subseteq Nat
    OBVIOUS
  <2> HIDE DEF U
  <2> QED BY <1>3, <1>4, <2>1, Induction
<1>6. n + 1 \in U
  <2> HIDE DEF U
  <2> QED BY <1>5
<1> QED BY <1>6

-----------------------------------------------------------------------------
(* The entries *)

CfgsType(c) ==
  /\ c \in [list : Seq(Cfgs), map : {c.map}, type_map : {c.type_map}, null : BOOLEAN, host : Ips]
  /\ IsMap(c.map, Ips, Cfgs) /\ IsMap(c.type_map, {"HAP", "Mid360"}, Cfgs)

\* The list has no two entries for one lidar, and none that the map has not.
Distinct(list) ==
  \A i, j \in DOMAIN list : i # j => list[i].lidar_ip # list[j].lidar_ip
Listed(c) == \A i \in DOMAIN c.list : c.list[i].lidar_ip \in DOMAIN c.map

LEMMA CorrectedType ==
  ASSUME NEW cfg \in Cfgs
  PROVE  Corrected(cfg) \in Cfgs /\ Corrected(cfg).lidar_ip = cfg.lidar_ip
<1>1. Mid360Ports \in Ports
  BY DEF Mid360Ports, Ports
<1> HIDE DEF Ports
<1> QED BY <1>1 DEF Corrected, Cfgs

LEMMA ConfigMap ==
  ASSUME NEW r \in Results, r.ok, Check(r)
  PROVE  LET c == GetLidarConfigMap(CheckLidarPort(r))
         IN  CfgsType(c) /\ Distinct(c.list) /\ Listed(c)
<1> DEFINE q == CheckLidarPort(r)
           c == GetLidarConfigMap(q)
           R == [ok : {TRUE}, types : Seq(Cfgs), customs : Seq(Cfgs), master : BOOLEAN]
           types == [i \in DOMAIN r.types |-> Corrected(r.types[i])]
           customs == [i \in DOMAIN r.customs |-> Corrected(r.customs[i])]
<1>1. r \in R
  BY ResultsOk
<1>2. r.types \in Seq(Cfgs) /\ r.customs \in Seq(Cfgs)
  BY <1>1
<1>3. /\ DOMAIN r.types = 1 .. Len(r.types) /\ Len(r.types) \in Nat
      /\ \A i \in DOMAIN r.types : r.types[i] \in Cfgs
      /\ DOMAIN r.customs = 1 .. Len(r.customs) /\ Len(r.customs) \in Nat
      /\ \A i \in DOMAIN r.customs : r.customs[i] \in Cfgs
  BY <1>2
<1>4. types \in [1 .. Len(r.types) -> Cfgs] /\ customs \in [1 .. Len(r.customs) -> Cfgs]
  BY <1>3, CorrectedType
<1>5. types \in Seq(Cfgs) /\ customs \in Seq(Cfgs)
  BY <1>3, <1>4, IsASeq
<1>6. q = [r EXCEPT !.types = types, !.customs = customs]
  BY DEF CheckLidarPort
<1>7. \A i \in DOMAIN customs : customs[i].lidar_ip = r.customs[i].lidar_ip
  BY <1>3, CorrectedType
<1>8. DOMAIN types = DOMAIN r.types /\ DOMAIN customs = DOMAIN r.customs
  OBVIOUS
<1>9. /\ \A i \in DOMAIN customs : customs[i] \in Cfgs
      /\ \A i \in DOMAIN types : types[i] \in Cfgs
  BY <1>3, <1>4
<1> HIDE DEF types, customs
<1>10. q.types = types /\ q.customs = customs
  BY <1>1, <1>6
<1> DEFINE ips == {customs[i].lidar_ip : i \in DOMAIN customs}
           names == {types[i].device_type : i \in DOMAIN types}
           map == [ip \in ips |-> customs[Max({i \in DOMAIN customs : customs[i].lidar_ip = ip})]]
           type_map == [type \in names |->
                          types[Max({i \in DOMAIN types : types[i].device_type = type})]]
           host == IF types # <<>> THEN types[1].host_ip ELSE customs[1].host_ip
<1>11. c = [list |-> customs, null |-> FALSE, map |-> map, type_map |-> type_map, host |-> host]
  <2> HIDE DEF q
  <2> QED BY <1>10 DEF GetLidarConfigMap, LastOf
<1>12. ips \subseteq Ips /\ names \subseteq {"HAP", "Mid360"}
  BY <1>9 DEF Cfgs
<1>13. ASSUME NEW ip \in ips PROVE map[ip] \in Cfgs
  <2> DEFINE T == {i \in DOMAIN customs : customs[i].lidar_ip = ip}
  <2>1. T # {} /\ T \in SUBSET (1 .. Len(r.customs))
    BY <1>3, <1>8
  <2>2. map[ip] = customs[Max(T)]
    OBVIOUS
  <2>3. Max(T) \in T
    <3> HIDE DEF T
    <3> QED BY <1>3, <2>1, GreatestIndex
  <2> QED BY <1>9, <2>2, <2>3
<1>14. ASSUME NEW type \in names PROVE type_map[type] \in Cfgs
  <2> DEFINE T == {i \in DOMAIN types : types[i].device_type = type}
  <2>1. T # {} /\ T \in SUBSET (1 .. Len(r.types))
    BY <1>3, <1>8
  <2>2. type_map[type] = types[Max(T)]
    OBVIOUS
  <2>3. Max(T) \in T
    <3> HIDE DEF T
    <3> QED BY <1>3, <2>1, GreatestIndex
  <2> QED BY <1>9, <2>2, <2>3
<1>15. IsMap(map, Ips, Cfgs) /\ IsMap(type_map, {"HAP", "Mid360"}, Cfgs)
  <2>1. DOMAIN map = ips /\ DOMAIN type_map = names
    OBVIOUS
  <2>2. map \in [ips -> Cfgs]
    BY <1>13
  <2>3. type_map \in [names -> Cfgs]
    BY <1>14
  <2> HIDE DEF map, type_map
  <2> QED BY <1>12, <2>1, <2>2, <2>3 DEF IsMap
<1>16. host \in Ips
  <2>1. r.types # <<>> \/ r.customs # <<>>
    BY DEF Check
  <2>2. types # <<>> \/ customs # <<>>
    BY <1>2, <1>3, <1>5, <1>8, <2>1
  <2>3. CASE types # <<>>
    <3>1. 1 \in DOMAIN types
      BY <1>5, <2>3
    <3> QED BY <1>9, <2>3, <3>1 DEF Cfgs
  <2>4. CASE types = <<>>
    <3>1. 1 \in DOMAIN customs
      BY <1>5, <2>2, <2>4
    <3> QED BY <1>9, <2>4, <3>1 DEF Cfgs
  <2> QED BY <2>3, <2>4
<1>17. \A i \in DOMAIN customs : customs[i].lidar_ip \in DOMAIN map
  OBVIOUS
<1>18. Distinct(customs)
  BY <1>7, <1>8 DEF Distinct, Check, CheckLidarIp
<1> HIDE DEF map, type_map, host, q
<1>19. CfgsType(c)
  <2> HIDE DEF c
  <2> QED BY <1>5, <1>11, <1>15, <1>16 DEF CfgsType
<1>20. Distinct(c.list) /\ Listed(c)
  <2> HIDE DEF c
  <2> QED BY <1>11, <1>17, <1>18 DEF Listed
<1> QED BY <1>19, <1>20 DEF q

-----------------------------------------------------------------------------
(* The tasks of a thread *)

Tasks == {"add", "remove"} \X Nat

LEMMA PolledType ==
  ASSUME NEW set \in SUBSET Nat, NEW tasks \in Seq(Tasks)
  PROVE  PolledAfter(set, tasks) \in SUBSET Nat
<1> DEFINE N == Len(tasks)
           V == SUBSET Nat
           next(s, k) == Polled(s, tasks[k])
           op == [p \in V \X (1 .. N) |-> next(p[1], p[2])]
           Loop(g) == [i \in 0 .. N |-> IF i = 0 THEN set ELSE next(g[i - 1], i)]
           after == CHOOSE g : g = Loop(g)
<1>1. N \in Nat /\ \A k \in 1 .. N : tasks[k] \in Tasks
  OBVIOUS
<1>2. ASSUME NEW s \in V, NEW k \in 1 .. N PROVE next(s, k) \in V
  <2>1. tasks[k][2] \in Nat
    BY <1>1 DEF Tasks
  <2> QED BY <2>1 DEF Polled
<1>3. PolledAfter(set, tasks) = after[N]
  BY DEF PolledAfter
<1>4. set \in V
  OBVIOUS
<1> HIDE DEF N, V, next
<1>5. op \in [V \X (1 .. N) -> V]
  BY <1>2
<1>6. \A s \in V, k \in 1 .. N : op[<<s, k>>] = next(s, k)
  OBVIOUS
<1> HIDE DEF op
<1>7. PICK g \in [0 .. N -> V] : IsRun(g, set, op, N)
  BY <1>1, <1>4, <1>5, Steps
<1>8. \A k \in 1 .. N : k - 1 \in 0 .. N
  BY <1>1
<1>9. g[0] = set /\ \A k \in 1 .. N : g[k] = next(g[k - 1], k)
  BY <1>6, <1>7, <1>8 DEF IsRun
<1>10. g = Loop(g)
  <2>1. \A k \in 0 .. N : g[k] = IF k = 0 THEN set ELSE next(g[k - 1], k)
    BY <1>1, <1>9
  <2> QED BY <1>7, <2>1
<1>11. after = Loop(after)
  BY <1>10
<1> HIDE DEF after
<1>12. after[0] = set /\ \A k \in 1 .. N : after[k] = next(after[k - 1], k)
  BY <1>1, <1>11
<1>13. \A k \in 1 .. N : after[k - 1] \in V => after[k] \in V
  BY <1>2, <1>12
<1>14. N \in 0 .. N /\ after[0] \in V
  BY <1>1, <1>4, <1>12
<1>15. after[N] \in V
  BY <1>1, <1>13, <1>14, Along
<1> QED BY <1>3, <1>15 DEF V

\* A finite set can be listed.
LEMMA Listing ==
  ASSUME NEW T, IsFiniteSet(T)
  PROVE  SetToSeq(T) \in Seq(T)
<1>1. Cardinality(T) \in Nat /\ ExistsBijection(1 .. Cardinality(T), T)
  BY FS_CardinalityType
<1>2. PICK f \in Bijection(1 .. Cardinality(T), T) : TRUE
  BY <1>1 DEF ExistsBijection
<1>3. f \in [1 .. Cardinality(T) -> T] /\ IsInjective(f)
  BY <1>2 DEF Bijection, Injection, IsInjective
<1>4. SetToSeq(T) \in [1 .. Cardinality(T) -> T]
  BY <1>3 DEF SetToSeq
<1> QED BY <1>1, <1>4, IsASeq

LEMMA RemovalsType ==
  ASSUME NEW n \in Nat, NEW sockets \in SUBSET (1 .. n)
  PROVE  Removals(sockets) \in Seq(Tasks)
<1> DEFINE T == {<<"remove", s>> : s \in sockets}
           f == [s \in sockets |-> <<"remove", s>>]
<1>1. IsFiniteSet(sockets)
  <2>1. IsFiniteSet(1 .. n)
    <3>1. 1 \in Int /\ n \in Int
      OBVIOUS
    <3> QED BY <3>1, FS_Interval
  <2> DEFINE S == 1 .. n
  <2>2. sockets \in SUBSET S /\ IsFiniteSet(S)
    BY <2>1
  <2> HIDE DEF S
  <2> QED BY <2>2, FS_Subset
<1>2. f \in Surjection(sockets, T)
  BY DEF Surjection
<1>3. IsFiniteSet(T)
  <2> HIDE DEF f, T
  <2> QED BY <1>1, <1>2, FS_Surjection
<1>4. SetToSeq(T) \in Seq(T)
  <2> HIDE DEF T
  <2> QED BY <1>3, Listing
<1>5. T \subseteq Tasks
  BY DEF Tasks
<1>6. SetToSeq(T) \in Seq(Tasks)
  <2> HIDE DEF T
  <2> QED BY <1>4, <1>5, SeqMonotonic
<1> QED BY <1>6 DEF Removals

-----------------------------------------------------------------------------
(* The inductive invariant *)

\* The variables that hold neither entries nor sockets have their types.
OtherTypes ==
  /\ app \in Starting \cup {"on", "close", "join", "joining", "cfgs", "maps", "data", "general",
                            "ended"}
  /\ is_view_ \in BOOLEAN /\ framework \in {"null", "master", "slave"}
  /\ descriptors \in [Threads -> SUBSET Nat]
  /\ io \in [Threads -> IoStates]
  /\ detect \in {"off", "run", "ended"}
  /\ stop \in BOOLEAN /\ searched \in BOOLEAN
  /\ devices_ \in [Lidars -> {"none", "known", "asked", "loader", "application"}]
  /\ view \in [Lidars -> Views]
  /\ observers_ \subseteq Observers /\ up \subseteq {"manager", "general"}
  /\ faults \in Nat /\ down \in BOOLEAN /\ strayed \in BOOLEAN

Entries(c) == CfgsType(c) /\ Distinct(c.list) /\ Listed(c)

\* No two open sockets have one key, but for those that listen to broadcasts.
OneSocket(n) ==
  \A s, t \in n.open : s # t /\ n.socks[s] = n.socks[t] => Broadcast(n.socks[s])
Sound(n) == NetOK(n) /\ OneSocket(n)

\* Before CreateChannel nothing is open, polled or asked for.
Early ==
  app \in {"off", "threads", "channels"} =>
    /\ net = NoNet
    /\ \A t \in Threads : descriptors[t] = {} /\ io[t].pc \in {"poll", "off"}
    /\ \A l \in Lidars : ~view[l].asked

\* While DeviceManager is up, and only then, sockets are opened, and channel_info_
\* has those that are open.
Managed ==
  /\ "manager" \in up => Keyed(net)
  /\ is_view_ => "manager" \in up
  /\ app \in {"data", "general", "ended"} => "manager" \notin up

\* What is left open on the way through Uninit.
Closing ==
  /\ ~SocketsAreClosed => Kept(net)
  /\ ~strayed /\ app \in {"join", "joining"} => net.open \subseteq net.detection
  /\ ~strayed /\ app \in {"cfgs", "maps", "data", "general", "ended"} => net.open = {}

CoreInv == OtherTypes /\ Entries(cfgs) /\ Sound(net) /\ Early /\ Managed /\ Closing

LEMMA KeyedOne == ASSUME NEW n, Keyed(n) PROVE OneSocket(n)
BY DEF Keyed, OneSocket

LEMMA NoNetSound == Sound(NoNet) /\ Keyed(NoNet) /\ Kept(NoNet)
<1>1. NoNet.open = {} /\ NoNet.socks = <<>> /\ NoNet.detection = {}
      /\ NoNet.command_channel_ = {} /\ NoNet.data_channel_ = {}
      /\ NoNet.vec_broadcast_socket_ = {} /\ NoNet.channel_info_ = <<>>
  BY DEF NoNet
<1>2. IsNet(NoNet)
  <2>1. DOMAIN <<>> = {} /\ IsMap(<<>>, Keys, Nat)
    BY DEF IsMap
  <2>2. [t \in Threads |-> <<>>] \in [Threads -> Seq({"add", "remove"} \X Nat)]
    OBVIOUS
  <2> QED BY <2>1, <2>2 DEF IsNet, NoNet
<1> HIDE DEF NoNet
<1> QED BY <1>1, <1>2 DEF Sound, NetOK, Made, OneSocket, Keyed, Kept

LEMMA NoCfgsEntries ==
  ASSUME NEW host \in Ips
  PROVE  Entries(Without(host))
<1>1. IsMap(<<>>, Ips, Cfgs) /\ IsMap(<<>>, {"HAP", "Mid360"}, Cfgs)
  BY DEF IsMap
<1> DEFINE c == Without(host)
<1>2. CfgsType(c)
  BY <1>1 DEF CfgsType, Without
<1>3. Distinct(c.list) /\ Listed(c)
  BY DEF Distinct, Listed, Without
<1> QED BY <1>2, <1>3 DEF Entries

\* A step that leaves entries, sockets, the session and who is up as they are.
LEMMA Quiet ==
  ASSUME CoreInv, UNCHANGED <<app, config, net, up, strayed>>, OtherTypes', Early'
  PROVE  CoreInv'
BY DEF CoreInv, Managed, Closing, SocketsAreClosed, Stopping, config

LEMMA InitInv == Init => CoreInv
<1> SUFFICES ASSUME Init PROVE CoreInv
  OBVIOUS
<1>1. OtherTypes
  <2>1. Off \in IoStates
    BY DEF Off, IoStates
  <2>2. NoView \in Views
    BY DEF NoView, Views
  <2> QED BY <2>1, <2>2 DEF Init, OtherTypes, Starting
<1>2. Entries(cfgs)
  <2>1. "" \in Ips
    BY DEF Ips
  <2> QED BY <2>1, NoCfgsEntries DEF Init, NoCfgs
<1>3. Early
  BY DEF Init, Early, Off, NoView
<1>4. Sound(net) /\ Keyed(net) /\ Kept(net)
  BY NoNetSound DEF Init
<1>5. Managed
  BY <1>4 DEF Init, Managed
<1>6. Closing
  BY <1>4 DEF Init, Closing
<1> QED BY <1>1, <1>2, <1>3, <1>4, <1>5, <1>6 DEF CoreInv

-----------------------------------------------------------------------------
(* LivoxLidarSdkInit keeps it *)

LEMMA InitFileInv ==
  ASSUME CoreInv, NEW doc \in Documents, InitFile(doc)
  PROVE  CoreInv'
<1> DEFINE r == Parse(doc)
<1>1. /\ app = "off" /\ r.ok /\ Check(r)
      /\ is_view_' = FALSE
      /\ framework' \in {"master", "slave"}
      /\ cfgs' = GetLidarConfigMap(CheckLidarPort(r))
      /\ up' = {"manager", "general"}
      /\ app' = "threads"
      /\ UNCHANGED <<net, descriptors, io, detect, stop, searched, lidarVars, observers_, faults,
                     down, strayed>>
  BY DEF InitFile
<1>2. r \in Results
  BY ParseType
<1> HIDE DEF r
<1>3. Entries(cfgs')
  BY <1>1, <1>2, ConfigMap DEF Entries
<1>4. OtherTypes'
  BY <1>1 DEF CoreInv, OtherTypes, Starting, lidarVars
<1>5. Early' /\ net = NoNet
  BY <1>1 DEF CoreInv, Early, lidarVars
<1>6. Managed'
  BY <1>1, <1>5, NoNetSound DEF Managed
<1>7. Closing'
  BY <1>1, <1>5, NoNetSound DEF Closing
<1> QED BY <1>1, <1>3, <1>4, <1>5, <1>6, <1>7 DEF CoreInv

LEMMA InitViewInv == ASSUME CoreInv, InitView PROVE CoreInv'
<1>1. HostIp \in Ips
  BY TypeAssumption DEF Ips
<1>2. Entries(cfgs')
  BY <1>1, NoCfgsEntries DEF InitView
<1>3. OtherTypes'
  BY DEF InitView, CoreInv, OtherTypes, Starting, lidarVars
<1>4. Early' /\ net = NoNet /\ net' = net
  BY DEF InitView, CoreInv, Early, lidarVars
<1>5. Managed'
  BY <1>4, NoNetSound DEF InitView, Managed
<1>6. Closing'
  BY <1>4, NoNetSound DEF InitView, Closing
<1> QED BY <1>2, <1>3, <1>4, <1>5, <1>6 DEF CoreInv

LEMMA CreateIOThreadInv == ASSUME CoreInv, CreateIOThread PROVE CoreInv'
<1>1. OtherTypes'
  <2>1. Idle \in IoStates
    BY DEF Idle, IoStates
  <2> QED BY <2>1 DEF CreateIOThread, CoreInv, OtherTypes, Starting, config, lidarVars
<1>2. Early' /\ net = NoNet /\ net' = net
  BY DEF CreateIOThread, CoreInv, Early, Idle, lidarVars
<1>3. Managed'
  BY <1>2 DEF CreateIOThread, CoreInv, Managed, config
<1>4. Closing'
  BY <1>2, NoNetSound DEF CreateIOThread, Closing
<1> QED BY <1>1, <1>2, <1>3, <1>4 DEF CreateIOThread, CoreInv, config

\* What opening channels one after the other does to the sockets.
LEMMA OutcomesKeep ==
  ASSUME NEW n, NetOK(n), NEW channels, Fit(n, channels), NEW o \in Outcomes(n, channels)
  PROVE  LET m == [o EXCEPT !.ok = TRUE]
         IN  /\ NetOK(m) /\ o.ok \in BOOLEAN
             /\ Keyed(n) => Keyed(m)
             /\ Kept(n) => Kept(m)
<1>1. PICK bad : o \in OpenChannels(n, channels, bad)
  BY DEF Outcomes
<1>2. NetOK(o) /\ (Keyed(n) => Keyed(o)) /\ (Kept(n) => Kept(o))
  BY <1>1, OpenChannelsKeep
<1> DEFINE m == [o EXCEPT !.ok = TRUE]
<1>3. /\ m.socks = o.socks /\ m.open = o.open /\ m.channel_info_ = o.channel_info_
      /\ m.detection = o.detection /\ m.command_channel_ = o.command_channel_
      /\ m.data_channel_ = o.data_channel_ /\ m.socket_vec_ = o.socket_vec_
      /\ m.vec_broadcast_socket_ = o.vec_broadcast_socket_
  BY <1>2 DEF NetOK, IsNet
<1>4. IsNet(m) /\ o.ok \in BOOLEAN
  BY <1>2 DEF NetOK, IsNet
<1> HIDE DEF m
<1>5. NetOK(m)
  BY <1>2, <1>3, <1>4 DEF NetOK, Made
<1>6. (Keyed(n) => Keyed(m)) /\ (Kept(n) => Kept(m))
  BY <1>2, <1>3 DEF Keyed, Kept
<1> QED BY <1>4, <1>5, <1>6 DEF m

LEMMA FirstChannelsFit ==
  ASSUME NEW host \in Ips, NEW list \in Seq(Cfgs)
  PROVE  Fit(NoNet, DetectionChannels(host) \o ChannelsOf(list))
<1> DEFINE rest == ChannelsOf(list)
           search == Channel("255.255.255.255", kDetectionPort, "search")
           own == Channel(host, kDetectionPort, "detection")
           all == DetectionChannels(host) \o rest
<1>1. rest \in Seq(Others)
  BY ChannelsOfOthers
<1>2. /\ search \in Channels /\ Proper(search) /\ search.kind = "search"
      /\ own \in Channels /\ Proper(own) /\ own.kind = "detection"
  <2> DEFINE all_ == <<"255.255.255.255", kDetectionPort>>
             own_ == <<host, kDetectionPort>>
  <2>0. kDetectionPort \in Nat
    BY DEF kDetectionPort
  <2>1. all_ \in Keys
    BY <2>0 DEF Keys, Ips
  <2>4. own_ \in Keys
    BY <2>0 DEF Keys
  <2>2. all_[1] = "255.255.255.255"
    OBVIOUS
  <2>3. search = [key |-> all_, kind |-> "search"] /\ own = [key |-> own_, kind |-> "detection"]
    BY DEF Channel
  <2> HIDE DEF all_, own_, search, own
  <2> QED BY <2>1, <2>2, <2>3, <2>4 DEF Channels, Kinds, Proper, Broadcast
<1>3. all = <<search, own>> \o rest
  BY DEF DetectionChannels
<1>4. NoNet.channel_info_ = <<>>
  BY DEF NoNet
<1>5. Others \subseteq Channels
  BY DEF Others
<1>6. \A k \in 1 .. Len(rest) : rest[k] \in Others
  BY <1>1
<1>7. rest \in Seq(Channels) /\ Len(rest) \in Nat
  BY <1>1, <1>5, SeqMonotonic
<1> HIDE DEF rest, search, own, all
<1>8. all \in Seq(Channels) /\ Len(all) = 2 + Len(rest)
      /\ all[1] = search /\ all[2] = own /\ \A k \in 3 .. Len(all) : all[k] = rest[k - 2]
  BY <1>2, <1>3, <1>7
<1>9. \A k \in 3 .. Len(all) : Proper(all[k]) /\ all[k].kind # "detection"
  <2>1. \A k \in 3 .. Len(all) : k - 2 \in 1 .. Len(rest)
    BY <1>7, <1>8
  <2> QED BY <1>6, <1>8, <2>1 DEF Others
<1>10. \A k \in 1 .. Len(all) : k = 1 \/ k = 2 \/ k \in 3 .. Len(all)
  BY <1>7, <1>8
<1>11. \A k \in 1 .. Len(all) :
         /\ Proper(all[k])
         /\ all[k].kind = "detection" => k = 2 /\ all[1].kind = "search"
  BY <1>2, <1>8, <1>9, <1>10
<1>12. Fit(NoNet, all)
  BY <1>4, <1>8, <1>11 DEF Fit
<1> QED BY <1>12 DEF all, rest

LEMMA LaterChannelsFit ==
  ASSUME NEW n, NEW channels \in Seq(Others)
  PROVE  Fit(n, channels)
<1>1. Others \subseteq Channels
  BY DEF Others
<1>2. channels \in Seq(Channels)
  BY <1>1, SeqMonotonic
<1>3. \A k \in 1 .. Len(channels) : channels[k] \in Others
  OBVIOUS
<1> QED BY <1>2, <1>3 DEF Fit, Others

LEMMA CreateChannelInv == ASSUME CoreInv, CreateChannel PROVE CoreInv'
<1> DEFINE channels == DetectionChannels(cfgs.host) \o ChannelsOf(cfgs.list)
<1>1. app = "channels" /\ net = NoNet /\ NetOK(net)
  BY DEF CreateChannel, CoreInv, Early, Sound
<1>2. PICK n \in Outcomes(net, channels) :
        /\ net' = [n EXCEPT !.ok = TRUE]
        /\ Counted(n)
        /\ app' = IF n.ok THEN "thread" ELSE "failed"
  BY DEF CreateChannel
<1>3. Fit(net, channels)
  <2>1. cfgs.host \in Ips /\ cfgs.list \in Seq(Cfgs)
    BY DEF CoreInv, Entries, CfgsType
  <2> QED BY <1>1, <2>1, FirstChannelsFit
<1> HIDE DEF channels
<1>4. NetOK(net') /\ Keyed(net') /\ Kept(net') /\ n.ok \in BOOLEAN
  <2>1. Keyed(net) /\ Kept(net)
    BY <1>1, NoNetSound
  <2>2. /\ NetOK([n EXCEPT !.ok = TRUE]) /\ n.ok \in BOOLEAN
        /\ Keyed([n EXCEPT !.ok = TRUE]) /\ Kept([n EXCEPT !.ok = TRUE])
    BY <1>1, <1>3, <2>1, OutcomesKeep
  <2> QED BY <1>2, <2>2
<1>5. UNCHANGED <<config, descriptors, io, detect, stop, searched, lidarVars, observers_, up, down,
                  strayed>>
  BY DEF CreateChannel
<1>6. OtherTypes'
  <2>1. faults' \in Nat
    BY <1>2, <1>4 DEF Counted, CoreInv, OtherTypes
  <2>2. app' \in {"thread", "failed"}
    BY <1>2
  <2> QED BY <1>5, <2>1, <2>2 DEF CoreInv, OtherTypes, Starting, config, lidarVars
<1>7. Early'
  BY <1>2 DEF Early
<1>8. Sound(net')
  BY <1>4, KeyedOne DEF Sound
<1>9. Managed'
  BY <1>2, <1>4, <1>5 DEF CoreInv, Managed, config
<1>10. Closing'
  BY <1>2, <1>4 DEF Closing
<1> QED BY <1>5, <1>6, <1>7, <1>8, <1>9, <1>10 DEF CoreInv, config

LEMMA StartInv == ASSUME CoreInv, StartDetection \/ LetDetectionRun PROVE CoreInv'
<1>1. OtherTypes'
  BY DEF StartDetection, LetDetectionRun, CoreInv, OtherTypes, Starting, config, lidarVars
<1>2. Early' /\ net' = net /\ app' \in {"started", "on"}
  BY DEF StartDetection, LetDetectionRun, Early
<1>3. Managed'
  BY <1>2 DEF StartDetection, LetDetectionRun, CoreInv, Managed, config
<1>4. Closing'
  BY <1>2 DEF StartDetection, LetDetectionRun, CoreInv, Closing, SocketsAreClosed, Stopping,
              Starting
<1> QED BY <1>1, <1>2, <1>3, <1>4 DEF StartDetection, LetDetectionRun, CoreInv, config

-----------------------------------------------------------------------------
(* LivoxLidarSdkUninit keeps it *)

\* The maps and sets of sockets may lose what they hold, and with them open sockets.
Fewer(n, o) ==
  /\ o.socks = n.socks /\ o.open \subseteq n.open
  /\ o.detection \subseteq n.detection /\ o.command_channel_ \subseteq n.command_channel_
  /\ o.data_channel_ \subseteq n.data_channel_
  /\ o.vec_broadcast_socket_ \subseteq n.vec_broadcast_socket_

LEMMA FewerSound ==
  ASSUME NEW n, NEW o, Sound(n), IsNet(o), Fewer(n, o)
  PROVE  Sound(o) /\ (Keyed(n) /\ o.channel_info_ = n.channel_info_ => Keyed(o))
<1>1. Made(o)
  BY DEF Sound, NetOK, Made, Fewer
<1>2. OneSocket(o)
  BY DEF Sound, OneSocket, Fewer
<1>3. Keyed(n) /\ o.channel_info_ = n.channel_info_ => Keyed(o)
  BY DEF Keyed, Fewer
<1> QED BY <1>1, <1>2, <1>3 DEF Sound, NetOK

LEMMA RemoveDelegatesInv == ASSUME CoreInv, RemoveDelegates PROVE CoreInv'
<1> DEFINE r1 == Removals(net.detection)
           r2 == Removals(net.command_channel_ \cup net.vec_broadcast_socket_)
           r3 == Removals(net.data_channel_)
<1>1. /\ app = "on" /\ app' = "close"
      /\ net' = [net EXCEPT !.tasks["detection"] = @ \o r1, !.tasks["cmd"] = @ \o r2,
                            !.tasks["data"] = @ \o r3]
      /\ UNCHANGED <<config, descriptors, io, detect, stop, searched, lidarVars, observers_, up,
                     faults, down, strayed>>
  BY DEF RemoveDelegates
<1>2. r1 \in Seq(Tasks) /\ r2 \in Seq(Tasks) /\ r3 \in Seq(Tasks)
  <2>1. Len(net.socks) \in Nat
    BY DEF CoreInv, Sound, NetOK, IsNet
  <2>2. /\ net.detection \subseteq 1 .. Len(net.socks)
        /\ net.command_channel_ \cup net.vec_broadcast_socket_ \subseteq 1 .. Len(net.socks)
        /\ net.data_channel_ \subseteq 1 .. Len(net.socks)
    BY DEF CoreInv, Sound, NetOK, Made
  <2> QED BY <2>1, <2>2, RemovalsType
<1> HIDE DEF r1, r2, r3
<1>3. net.tasks \in [Threads -> Seq(Tasks)] /\ IsNet(net)
  BY DEF CoreInv, Sound, NetOK, IsNet, Tasks
<1> DEFINE tasks == [net.tasks EXCEPT !["detection"] = @ \o r1, !["cmd"] = @ \o r2,
                                      !["data"] = @ \o r3]
<1>4. net' = [net EXCEPT !.tasks = tasks]
  BY <1>1, <1>3 DEF IsNet
<1>5. tasks \in [Threads -> Seq(Tasks)]
  <2>1. \A t \in Threads : tasks[t] \in Seq(Tasks)
    <3>1. /\ net.tasks["detection"] \o r1 \in Seq(Tasks)
          /\ net.tasks["cmd"] \o r2 \in Seq(Tasks)
          /\ net.tasks["data"] \o r3 \in Seq(Tasks)
      BY <1>2, <1>3 DEF Threads
    <3> QED BY <1>3, <3>1 DEF Threads
  <2> QED BY <1>3, <2>1
<1> HIDE DEF tasks
<1>6. IsNet(net')
  BY <1>3, <1>4, <1>5 DEF IsNet, Tasks
<1>7. /\ Fewer(net, net') /\ net'.channel_info_ = net.channel_info_
      /\ net'.open = net.open /\ net'.detection = net.detection
      /\ net'.socket_vec_ = net.socket_vec_
      /\ net'.vec_broadcast_socket_ = net.vec_broadcast_socket_
  BY <1>3, <1>4 DEF IsNet, Fewer
<1>8. Sound(net') /\ (Keyed(net) => Keyed(net'))
  BY <1>6, <1>7, FewerSound DEF CoreInv
<1>9. Kept(net')
  BY <1>1, <1>7 DEF CoreInv, Closing, Kept, SocketsAreClosed, Stopping
<1>10. OtherTypes'
  BY <1>1 DEF CoreInv, OtherTypes, config, lidarVars
<1>11. Early'
  BY <1>1 DEF Early
<1>12. Managed'
  BY <1>1, <1>8 DEF CoreInv, Managed, config
<1>13. Closing'
  BY <1>1, <1>9 DEF Closing
<1> QED BY <1>1, <1>8, <1>10, <1>11, <1>12, <1>13 DEF CoreInv, config

LEMMA CloseSocketsInv == ASSUME CoreInv, CloseSockets PROVE CoreInv'
<1>1. /\ app = "close" /\ app' = "join"
      /\ net' = [net EXCEPT !.open = @ \ (net.socket_vec_ \cup net.vec_broadcast_socket_),
                            !.socket_vec_ = {}, !.vec_broadcast_socket_ = {}]
      /\ UNCHANGED <<config, descriptors, io, detect, stop, searched, lidarVars, observers_, up,
                     faults, down, strayed>>
  BY DEF CloseSockets
<1>2. IsNet(net)
  BY DEF CoreInv, Sound, NetOK
<1>3. IsNet(net')
  BY <1>1, <1>2 DEF IsNet
<1>4. /\ Fewer(net, net') /\ net'.channel_info_ = net.channel_info_
      /\ net'.open = net.open \ (net.socket_vec_ \cup net.vec_broadcast_socket_)
      /\ net'.detection = net.detection
  BY <1>1, <1>2 DEF IsNet, Fewer
<1>5. Sound(net') /\ (Keyed(net) => Keyed(net'))
  BY <1>3, <1>4, FewerSound DEF CoreInv
<1>6. net'.open \subseteq net'.detection
  BY <1>1, <1>4 DEF CoreInv, Closing, Kept, SocketsAreClosed
<1>7. OtherTypes'
  BY <1>1 DEF CoreInv, OtherTypes, config, lidarVars
<1>8. Early'
  BY <1>1 DEF Early
<1>9. Managed'
  BY <1>1, <1>5 DEF CoreInv, Managed, config
<1>10. Closing'
  BY <1>1, <1>6 DEF Closing, SocketsAreClosed, Stopping, Starting
<1> QED BY <1>1, <1>5, <1>7, <1>8, <1>9, <1>10 DEF CoreInv, config

LEMMA StopDetectionInv == ASSUME CoreInv, StopDetection PROVE CoreInv'
<1>1. OtherTypes'
  BY DEF StopDetection, CoreInv, OtherTypes, Starting, config, lidarVars
<1>2. Early'
  BY DEF StopDetection, Early
<1>3. Managed'
  BY DEF StopDetection, CoreInv, Managed, config
<1>4. Closing'
  BY DEF StopDetection, CoreInv, Closing, SocketsAreClosed, Stopping, Starting
<1> QED BY <1>1, <1>2, <1>3, <1>4 DEF StopDetection, CoreInv, config

LEMMA JoinDetectionInv == ASSUME CoreInv, JoinDetection PROVE CoreInv'
<1>1. /\ app = "joining" /\ app' = "cfgs" /\ detect' = "off"
      /\ net' = [net EXCEPT !.open = @ \ net.detection, !.detection = {}]
      /\ UNCHANGED <<config, descriptors, io, stop, searched, lidarVars, observers_, up, faults,
                     down, strayed>>
  BY DEF JoinDetection
<1>2. IsNet(net)
  BY DEF CoreInv, Sound, NetOK
<1>3. IsNet(net')
  BY <1>1, <1>2 DEF IsNet
<1>4. /\ Fewer(net, net') /\ net'.channel_info_ = net.channel_info_
      /\ net'.open = net.open \ net.detection
  BY <1>1, <1>2 DEF IsNet, Fewer
<1>5. Sound(net') /\ (Keyed(net) => Keyed(net'))
  BY <1>3, <1>4, FewerSound DEF CoreInv
<1>6. ~strayed => net'.open = {}
  BY <1>1, <1>4 DEF CoreInv, Closing
<1>7. OtherTypes'
  BY <1>1 DEF CoreInv, OtherTypes, config, lidarVars
<1>8. Early'
  BY <1>1 DEF Early
<1>9. Managed'
  BY <1>1, <1>5 DEF CoreInv, Managed, config
<1>10. Closing'
  BY <1>1, <1>6 DEF Closing, SocketsAreClosed, Stopping, Starting
<1> QED BY <1>1, <1>5, <1>7, <1>8, <1>9, <1>10 DEF CoreInv, config

LEMMA DropCfgsInv == ASSUME CoreInv, DropCfgs PROVE CoreInv'
<1>1. /\ app = "cfgs" /\ app' = "maps"
      /\ cfgs' = [cfgs EXCEPT !.null = TRUE, !.list = <<>>]
      /\ UNCHANGED <<is_view_, framework, net, descriptors, io, detect, stop, searched, lidarVars,
                     observers_, up, faults, down, strayed>>
  BY DEF DropCfgs
<1>2. Entries(cfgs')
  <2>1. CfgsType(cfgs)
    BY DEF CoreInv, Entries
  <2>2. cfgs' = [list |-> <<>>, map |-> cfgs.map, type_map |-> cfgs.type_map, null |-> TRUE,
                 host |-> cfgs.host]
    BY <1>1, <2>1 DEF CfgsType
  <2>3. cfgs'.map = cfgs.map /\ cfgs'.type_map = cfgs.type_map /\ cfgs'.list = <<>>
    BY <2>2
  <2>4. CfgsType(cfgs')
    BY <2>1, <2>2, <2>3 DEF CfgsType
  <2> QED BY <2>3, <2>4 DEF Entries, Distinct, Listed
<1>3. OtherTypes'
  BY <1>1 DEF CoreInv, OtherTypes, Starting, lidarVars
<1>4. Early'
  BY <1>1 DEF Early
<1>5. Managed'
  BY <1>1 DEF CoreInv, Managed
<1>6. Closing'
  BY <1>1 DEF CoreInv, Closing, SocketsAreClosed, Stopping, Starting
<1> QED BY <1>1, <1>2, <1>3, <1>4, <1>5, <1>6 DEF CoreInv

LEMMA ClearMapsInv == ASSUME CoreInv, ClearMaps PROVE CoreInv'
<1>1. /\ app = "maps" /\ app' = "data"
      /\ cfgs' = NoCfgs
      /\ net' = [net EXCEPT !.channel_info_ = <<>>, !.custom_command_channel_ = <<>>,
                            !.command_channel_ = {}, !.data_channel_ = {}]
      /\ up' = up \ {"manager"}
      /\ is_view_' = FALSE
      /\ view' = [l \in Lidars |-> NoView]
      /\ UNCHANGED <<framework, descriptors, io, detect, stop, searched, devices_, observers_,
                     faults, down, strayed>>
  BY DEF ClearMaps
<1>2. IsNet(net)
  BY DEF CoreInv, Sound, NetOK
<1>3. IsNet(net')
  <2>1. IsMap(<<>>, Keys, Nat)
    BY DEF IsMap
  <2> QED BY <1>1, <1>2, <2>1 DEF IsNet
<1>4. Fewer(net, net') /\ net'.open = net.open
  BY <1>1, <1>2 DEF IsNet, Fewer
<1>5. Sound(net')
  BY <1>3, <1>4, FewerSound DEF CoreInv
<1>6. Entries(cfgs')
  <2>1. "" \in Ips
    BY DEF Ips
  <2> QED BY <1>1, <2>1, NoCfgsEntries DEF NoCfgs
<1>7. OtherTypes'
  <2>1. NoView \in Views
    BY DEF NoView, Views
  <2> QED BY <1>1, <2>1 DEF CoreInv, OtherTypes, Starting
<1>8. Early'
  BY <1>1 DEF Early
<1>9. Managed'
  BY <1>1 DEF Managed
<1>10. Closing'
  BY <1>1, <1>4 DEF CoreInv, Closing, SocketsAreClosed, Stopping, Starting
<1> QED BY <1>5, <1>6, <1>7, <1>8, <1>9, <1>10 DEF CoreInv

LEMMA ClearObserversInv == ASSUME CoreInv, ClearObservers PROVE CoreInv'
<1>1. OtherTypes'
  BY DEF ClearObservers, CoreInv, OtherTypes, Starting, config, lidarVars
<1>2. Early'
  BY DEF ClearObservers, Early
<1>3. Managed'
  BY DEF ClearObservers, CoreInv, Managed, config
<1>4. Closing'
  BY DEF ClearObservers, CoreInv, Closing, SocketsAreClosed, Stopping, Starting
<1> QED BY <1>1, <1>2, <1>3, <1>4 DEF ClearObservers, CoreInv, config

LEMMA ClearDevicesInv == ASSUME CoreInv, ClearDevices PROVE CoreInv'
<1>1. OtherTypes'
  BY DEF ClearDevices, CoreInv, OtherTypes, Starting, config
<1>2. Early'
  BY DEF ClearDevices, Early
<1>3. Managed'
  BY DEF ClearDevices, CoreInv, Managed, config
<1>4. Closing'
  BY DEF ClearDevices, CoreInv, Closing, SocketsAreClosed, Stopping, Starting
<1> QED BY <1>1, <1>2, <1>3, <1>4 DEF ClearDevices, CoreInv, config

-----------------------------------------------------------------------------
(* What happens in a session keeps it *)

LEMMA DetectionLidarsInv == ASSUME CoreInv, DetectionLidars PROVE CoreInv'
<1>1. OtherTypes'
  BY DEF DetectionLidars, CoreInv, OtherTypes, config, lidarVars
<1>2. Early'
  BY DEF DetectionLidars, CoreInv, Early, lidarVars
<1> QED BY <1>1, <1>2, Quiet DEF DetectionLidars

LEMMA FwTypeInv == ASSUME CoreInv, NEW l \in Lidars, FwType(l) PROVE CoreInv'
<1>1. OtherTypes'
  BY DEF FwType, CoreInv, OtherTypes, config
<1>2. Early'
  BY DEF FwType, CoreInv, Early
<1> QED BY <1>1, <1>2, Quiet DEF FwType

LEMMA UpdateViewLidarCfgCallbackInv ==
  ASSUME CoreInv, NEW l \in Lidars, UpdateViewLidarCfgCallback(l) PROVE CoreInv'
<1>1. view \in [Lidars -> Views]
  BY DEF CoreInv, OtherTypes
<1>2. view' = [view EXCEPT ![l] = [@ EXCEPT !.setting = FALSE, !.is_set = view[l].seen]]
  BY DEF UpdateViewLidarCfgCallback
<1>3. [view[l] EXCEPT !.setting = FALSE, !.is_set = view[l].seen] \in Views
  BY <1>1 DEF Views
<1>4. view' \in [Lidars -> Views]
  BY <1>1, <1>2, <1>3
<1>5. OtherTypes'
  BY <1>4 DEF UpdateViewLidarCfgCallback, CoreInv, OtherTypes, config
<1>6. \A k \in Lidars : view'[k].asked = view[k].asked
  BY <1>1, <1>2 DEF Views
<1>7. Early'
  BY <1>6 DEF UpdateViewLidarCfgCallback, CoreInv, Early
<1> QED BY <1>5, <1>7, Quiet DEF UpdateViewLidarCfgCallback

LEMMA ObserversInv ==
  ASSUME CoreInv, NEW o \in Observers,
         AddPointCloudObserver(o) \/ RemovePointCloudObserver(o)
  PROVE  CoreInv'
<1>1. OtherTypes'
  BY DEF AddPointCloudObserver, RemovePointCloudObserver, CoreInv, OtherTypes, config, lidarVars
<1>2. Early'
  BY DEF AddPointCloudObserver, RemovePointCloudObserver, CoreInv, Early, lidarVars
<1> QED BY <1>1, <1>2, Quiet DEF AddPointCloudObserver, RemovePointCloudObserver

\* What a polling thread is at once it has an observer to call, or none.
LEMMA ObservingType ==
  ASSUME NEW left \in SUBSET Observers PROVE Observing(left) \in IoStates
BY DEF Observing, Idle, IoStates

LEMMA CallObserversInv ==
  ASSUME CoreInv, NEW t \in Threads, LockObservers(t) \/ CallObserver(t)
  PROVE  CoreInv'
<1>1. io \in [Threads -> IoStates] /\ observers_ \in SUBSET Observers
  BY DEF CoreInv, OtherTypes
<1>2. PICK left \in SUBSET Observers : io' = [io EXCEPT ![t] = Observing(left)]
  <2>1. CASE LockObservers(t)
    BY <1>1, <2>1 DEF LockObservers
  <2>2. CASE CallObserver(t)
    <3>1. io[t].pc = "observers" /\ io[t] \in IoStates
      BY <1>1, <2>2 DEF CallObserver
    <3>2. io[t].left \in SUBSET Observers
      BY <3>1 DEF IoStates
    <3> QED BY <2>2, <3>2 DEF CallObserver
  <2> QED BY <2>1, <2>2
<1>3. io' \in [Threads -> IoStates]
  BY <1>1, <1>2, ObservingType
<1>4. io[t].pc \in {"callback", "observers"}
      /\ UNCHANGED <<app, config, net, descriptors, detect, stop, searched, lidarVars, observers_,
                     up, faults, down, strayed>>
  BY DEF LockObservers, CallObserver
<1>5. OtherTypes'
  BY <1>3, <1>4 DEF CoreInv, OtherTypes, config, lidarVars
<1>6. app \notin {"off", "threads", "channels"}
  BY <1>4 DEF CoreInv, Early
<1>7. Early'
  BY <1>4, <1>6 DEF Early
<1> QED BY <1>4, <1>5, <1>7, Quiet

LEMMA ReceiveInv ==
  ASSUME CoreInv, NEW t \in Threads, NEW s, NEW l \in Lidars, NEW port \in Nat,
         Receive(t, s, l, port)
  PROVE  CoreInv'
<1>1. io' = [io EXCEPT ![t] = [pc |-> "got", lidar |-> l, port |-> port]] /\ s \in descriptors[t]
      /\ UNCHANGED <<app, config, net, descriptors, detect, stop, searched, lidarVars, observers_,
                     up, faults, down, strayed>>
  BY DEF Receive
<1>2. [pc |-> "got", lidar |-> l, port |-> port] \in IoStates
  BY DEF IoStates
<1>3. io' \in [Threads -> IoStates]
  BY <1>1, <1>2 DEF CoreInv, OtherTypes
<1>4. OtherTypes'
  BY <1>1, <1>3 DEF CoreInv, OtherTypes, config, lidarVars
<1>5. app \notin {"off", "threads", "channels"}
  BY <1>1 DEF CoreInv, Early
<1>6. Early'
  BY <1>1, <1>5 DEF Early
<1> QED BY <1>1, <1>4, <1>6, Quiet

LEMMA LidarSendsInv == ASSUME CoreInv, NEW l \in Lidars, Answer(l) \/ Send(l) PROVE CoreInv'
<1>1. /\ kDetectionPort \in Nat /\ Mid360Ports.push \in Nat /\ Mid360Ports.point \in Nat
      /\ "detection" \in Threads /\ "cmd" \in Threads /\ "data" \in Threads
  BY DEF kDetectionPort, Mid360Ports, Threads
<1>2. \/ \E s : Receive("detection", s, l, kDetectionPort)
      \/ \E s : Receive("cmd", s, l, Mid360Ports.push)
      \/ \E s : Receive("data", s, l, Mid360Ports.point)
  BY DEF Answer, Send
<1> QED BY <1>1, <1>2, ReceiveInv

LEMMA RunTasksInv == ASSUME CoreInv, NEW t \in Threads, RunTasks(t) PROVE CoreInv'
<1>1. /\ net.tasks[t] # <<>>
      /\ descriptors' = [descriptors EXCEPT ![t] = PolledAfter(@, net.tasks[t])]
      /\ net' = [net EXCEPT !.tasks[t] = <<>>]
      /\ UNCHANGED <<app, config, io, detect, stop, searched, lidarVars, observers_, up, faults,
                     down, strayed>>
  BY DEF RunTasks
<1>2. IsNet(net) /\ net.tasks \in [Threads -> Seq(Tasks)]
  BY DEF CoreInv, Sound, NetOK, IsNet, Tasks
<1>3. descriptors \in [Threads -> SUBSET Nat]
  BY DEF CoreInv, OtherTypes
<1>4. descriptors' \in [Threads -> SUBSET Nat]
  <2>1. descriptors[t] \in SUBSET Nat /\ net.tasks[t] \in Seq(Tasks)
    BY <1>2, <1>3
  <2>2. PolledAfter(descriptors[t], net.tasks[t]) \in SUBSET Nat
    BY <2>1, PolledType
  <2> QED BY <1>1, <1>3, <2>2
<1> DEFINE tasks == [net.tasks EXCEPT ![t] = <<>>]
<1>5. net' = [net EXCEPT !.tasks = tasks]
  BY <1>1, <1>2 DEF IsNet
<1>6. tasks \in [Threads -> Seq(Tasks)]
  BY <1>2
<1> HIDE DEF tasks
<1>7. IsNet(net')
  BY <1>2, <1>5, <1>6 DEF IsNet, Tasks
<1>8. /\ Fewer(net, net') /\ net'.channel_info_ = net.channel_info_
      /\ net'.open = net.open /\ net'.detection = net.detection
      /\ net'.socket_vec_ = net.socket_vec_
      /\ net'.vec_broadcast_socket_ = net.vec_broadcast_socket_
  BY <1>2, <1>5 DEF IsNet, Fewer
<1>9. Sound(net') /\ (Keyed(net) => Keyed(net'))
  BY <1>7, <1>8, FewerSound DEF CoreInv
<1>10. OtherTypes'
  BY <1>1, <1>4 DEF CoreInv, OtherTypes, config, lidarVars
<1>11. Early'
  <2>1. ASSUME app \in {"off", "threads", "channels"} PROVE FALSE
    <3>1. net.tasks = [u \in Threads |-> <<>>]
      BY <2>1 DEF CoreInv, Early, NoNet
    <3> QED BY <1>1, <3>1
  <2> QED BY <1>1, <2>1 DEF Early
<1>12. Managed'
  BY <1>1, <1>9 DEF CoreInv, Managed, config
<1>13. Closing'
  BY <1>1, <1>8 DEF CoreInv, Closing, Kept, SocketsAreClosed, Stopping
<1> QED BY <1>1, <1>9, <1>10, <1>11, <1>12, <1>13 DEF CoreInv, config

\* Sockets that are opened in a session.
LEMMA MoreSockets ==
  ASSUME CoreInv, NEW channels \in Seq(Others), NEW n \in Outcomes(net, channels),
         net' = [n EXCEPT !.ok = TRUE], strayed' = (strayed \/ SocketsAreClosed),
         "manager" \in up, UNCHANGED <<app, is_view_, up>>
  PROVE  Sound(net') /\ Managed' /\ Closing' /\ n.ok \in BOOLEAN
<1>1. NetOK(net) /\ Keyed(net)
  BY DEF CoreInv, Sound, Managed
<1>2. Fit(net, channels)
  BY LaterChannelsFit
<1>3. /\ NetOK(net') /\ n.ok \in BOOLEAN /\ Keyed(net')
      /\ Kept(net) => Kept(net')
  <2>1. /\ NetOK([n EXCEPT !.ok = TRUE]) /\ n.ok \in BOOLEAN
        /\ Keyed([n EXCEPT !.ok = TRUE])
        /\ Kept(net) => Kept([n EXCEPT !.ok = TRUE])
    BY <1>1, <1>2, OutcomesKeep
  <2> QED BY <2>1
<1>4. Managed'
  BY <1>3 DEF CoreInv, Managed
<1>5. Closing'
  <2>1. CASE SocketsAreClosed
    BY <2>1 DEF Closing, SocketsAreClosed, Stopping
  <2>2. CASE ~SocketsAreClosed
    BY <1>3, <2>2 DEF CoreInv, Closing, SocketsAreClosed, Stopping, Starting
  <2> QED BY <2>1, <2>2
<1> QED BY <1>3, <1>4, <1>5, KeyedOne DEF Sound

LEMMA AddViewLidarInv == ASSUME CoreInv, NEW l \in Lidars, AddViewLidar(l) PROVE CoreInv'
<1>1. is_view_ /\ view[l].asked
  BY DEF AddViewLidar
<1>2. "manager" \in up /\ app \notin {"off", "threads", "channels"}
  BY <1>1 DEF CoreInv, Managed, Early
<1>3. ViewChannels(l) \in Seq(Others)
  <2> DEFINE point == Channel(HostIp, Mid360Ports.point + 1, "viewdata")
             imu == Channel(HostIp, Mid360Ports.imu + 1, "viewdata")
  <2>0. HostIp \in Ips
    BY TypeAssumption DEF Ips
  <2>1. Mid360Ports.point + 1 \in Nat /\ Mid360Ports.imu + 1 \in Nat
    BY DEF Mid360Ports
  <2>2. ASSUME NEW port \in Nat PROVE Channel(HostIp, port, "viewdata") \in Others
    BY <2>0 DEF Channel, Others, Channels, Keys, Kinds, Proper
  <2>3. point \in Others /\ imu \in Others
    BY <2>1, <2>2
  <2>4. ViewChannels(l) = <<point, imu>>
    BY DEF ViewChannels
  <2> HIDE DEF point, imu
  <2> QED BY <2>3, <2>4
<1>4. PICK n \in Outcomes(net, ViewChannels(l)) :
        /\ net' = [n EXCEPT !.ok = TRUE]
        /\ Counted(n)
        /\ view' = [view EXCEPT ![l].asked = FALSE, ![l].is_get = TRUE,
                                ![l].setting = framework = "master",
                                ![l].ports = {Mid360Ports.point, Mid360Ports.imu}]
  BY DEF AddViewLidar
<1>5. /\ strayed' = (strayed \/ SocketsAreClosed)
      /\ UNCHANGED <<app, config, descriptors, io, detect, stop, searched, devices_, observers_,
                     up, down>>
  BY DEF AddViewLidar
<1>6. Sound(net') /\ Managed' /\ Closing' /\ n.ok \in BOOLEAN
  <2> DEFINE channels == ViewChannels(l)
  <2>1. channels \in Seq(Others) /\ n \in Outcomes(net, channels)
    BY <1>3
  <2> HIDE DEF channels
  <2> QED BY <1>2, <1>4, <1>5, <2>1, MoreSockets DEF config
<1>7. view' \in [Lidars -> Views]
  <2> DEFINE master == framework = "master"
             ports == {Mid360Ports.point, Mid360Ports.imu}
             v == [view[l] EXCEPT !.asked = FALSE, !.is_get = TRUE, !.setting = master,
                                  !.ports = ports]
  <2>1. master \in BOOLEAN /\ ports \in SUBSET Nat
    BY DEF Mid360Ports
  <2>2. view \in [Lidars -> Views]
    BY DEF CoreInv, OtherTypes
  <2>3. view' = [view EXCEPT ![l] = v]
    BY <1>4, <2>2 DEF Views
  <2> HIDE DEF master, ports
  <2>4. v \in Views
    BY <2>1, <2>2 DEF Views
  <2> HIDE DEF v
  <2> QED BY <2>2, <2>3, <2>4
<1>8. OtherTypes'
  <2>1. faults' \in Nat
    BY <1>4, <1>6 DEF Counted, CoreInv, OtherTypes
  <2>2. strayed' \in BOOLEAN
    BY <1>5 DEF CoreInv, OtherTypes, SocketsAreClosed, Stopping
  <2> QED BY <1>5, <1>7, <2>1, <2>2 DEF CoreInv, OtherTypes, config
<1>9. Early'
  BY <1>2, <1>5 DEF Early
<1> QED BY <1>5, <1>6, <1>8, <1>9 DEF CoreInv, config

LEMMA AddLidarInv ==
  ASSUME CoreInv, NEW l \in Lidars, AddLidar(l), "manager" \in up,
         Address[l] \notin DOMAIN cfgs.map, TypeOf[l] \in DOMAIN cfgs.type_map,
         UNCHANGED <<app, up>>
  PROVE  Entries(cfgs') /\ Sound(net') /\ Managed' /\ Closing' /\ faults' \in Nat
         /\ strayed' \in BOOLEAN
<1> DEFINE cfg == [cfgs.type_map[TypeOf[l]] EXCEPT !.lidar_ip = Address[l]]
           list == Append(cfgs.list, cfg)
           map == Inserted(cfgs.map, Address[l], cfg)
           type_map == [cfgs.type_map EXCEPT ![TypeOf[l]] = cfg]
<1>1. PICK n \in Outcomes(net, ChannelsOf(list)) :
        /\ cfgs' = [cfgs EXCEPT !.list = list, !.map = map, !.type_map[TypeOf[l]] = cfg]
        /\ net' = [n EXCEPT !.ok = TRUE]
        /\ Counted(n)
        /\ strayed' = (strayed \/ SocketsAreClosed)
        /\ UNCHANGED <<is_view_, framework, lidarVars, down>>
  BY DEF AddLidar
<1>2. Address[l] \in Ips
  BY TypeAssumption DEF Ips
<1>3. CfgsType(cfgs) /\ Distinct(cfgs.list) /\ Listed(cfgs)
  BY DEF CoreInv, Entries
<1>4. cfg \in Cfgs /\ cfg.lidar_ip = Address[l]
  <2>1. cfgs.type_map[TypeOf[l]] \in Cfgs
    BY <1>3 DEF CfgsType, IsMap
  <2> HIDE DEF Cfgs
  <2>2. ASSUME NEW c \in Cfgs
        PROVE  [c EXCEPT !.lidar_ip = Address[l]] \in Cfgs
               /\ [c EXCEPT !.lidar_ip = Address[l]].lidar_ip = Address[l]
    BY <1>2 DEF Cfgs
  <2> QED BY <2>1, <2>2
<1> HIDE DEF cfg
<1>5. list \in Seq(Cfgs) /\ cfgs.list \in Seq(Cfgs)
  BY <1>3, <1>4 DEF CfgsType
<1>6. IsMap(map, Ips, Cfgs) /\ DOMAIN map = DOMAIN cfgs.map \cup {Address[l]}
  <2> DEFINE f == cfgs.map
             k == Address[l]
  <2>1. IsMap(f, Ips, Cfgs) /\ k \in Ips
    BY <1>2, <1>3 DEF CfgsType
  <2>2. map = Inserted(f, k, cfg)
    OBVIOUS
  <2> HIDE DEF f, k, map
  <2>3. IsMap(map, Ips, Cfgs) /\ DOMAIN map = DOMAIN f \cup {k}
    BY <1>4, <2>1, <2>2 DEF IsMap, Inserted
  <2> QED BY <2>3 DEF f, k
<1>7. IsMap(type_map, {"HAP", "Mid360"}, Cfgs)
  BY <1>3, <1>4 DEF CfgsType, IsMap
<1>8. cfgs' = [list |-> list, map |-> map, type_map |-> type_map, null |-> cfgs.null,
               host |-> cfgs.host]
  BY <1>1, <1>3 DEF CfgsType
<1>9. \A i \in DOMAIN list : \/ i \in DOMAIN cfgs.list /\ list[i] = cfgs.list[i]
                             \/ i = Len(cfgs.list) + 1 /\ list[i] = cfg
  BY <1>4, <1>5
<1>10. \A i \in DOMAIN cfgs.list : cfgs.list[i].lidar_ip \in DOMAIN cfgs.map
  BY <1>3 DEF Listed
<1> HIDE DEF list, map, type_map
<1>11. Entries(cfgs')
  <2>1. cfgs'.map = map /\ cfgs'.type_map = type_map /\ cfgs'.list = list
    BY <1>8
  <2>2. CfgsType(cfgs')
    BY <1>3, <1>5, <1>6, <1>7, <1>8, <2>1 DEF CfgsType
  <2>3. Listed(cfgs')
    BY <1>4, <1>6, <1>9, <1>10, <2>1 DEF Listed
  <2>4. Distinct(list)
    <3>1. SUFFICES ASSUME NEW i \in DOMAIN list, NEW j \in DOMAIN list, i # j
                   PROVE  list[i].lidar_ip # list[j].lidar_ip
      BY DEF Distinct
    <3>2. CASE i \in DOMAIN cfgs.list /\ list[i] = cfgs.list[i]
               /\ j \in DOMAIN cfgs.list /\ list[j] = cfgs.list[j]
      BY <1>3, <3>1, <3>2 DEF Distinct
    <3>3. CASE list[i] = cfg /\ j \in DOMAIN cfgs.list /\ list[j] = cfgs.list[j]
      BY <1>4, <1>10, <3>3
    <3>4. CASE list[j] = cfg /\ i \in DOMAIN cfgs.list /\ list[i] = cfgs.list[i]
      BY <1>4, <1>10, <3>4
    <3> QED BY <1>9, <3>1, <3>2, <3>3, <3>4
  <2> QED BY <2>1, <2>2, <2>3, <2>4 DEF Entries
<1>12. ChannelsOf(list) \in Seq(Others)
  BY <1>5, ChannelsOfOthers
<1>13. Sound(net') /\ Managed' /\ Closing' /\ n.ok \in BOOLEAN
  <2> DEFINE channels == ChannelsOf(list)
  <2>1. channels \in Seq(Others) /\ n \in Outcomes(net, channels)
    BY <1>12
  <2> HIDE DEF channels
  <2> QED BY <1>1, <2>1, MoreSockets
<1>14. faults' \in Nat
  BY <1>1, <1>13 DEF Counted, CoreInv, OtherTypes
<1>15. strayed' \in BOOLEAN
  BY <1>1 DEF CoreInv, OtherTypes, SocketsAreClosed, Stopping
<1> QED BY <1>11, <1>13, <1>14, <1>15

LEMMA OnDataInv == ASSUME CoreInv, NEW t \in Threads, OnData(t) PROVE CoreInv'
<1> DEFINE l == io[t].lidar
           port == io[t].port
<1>1. io \in [Threads -> IoStates] /\ io[t].pc = "got"
  BY DEF CoreInv, OtherTypes, OnData
<1>2. io[t] \in [pc : {"got", "handler", "callback"}, lidar : Lidars, port : Nat]
  BY <1>1 DEF IoStates
<1>3. l \in Lidars
  BY <1>2
<1>4. /\ \/ IsData(l, port) /\ io' = [io EXCEPT ![t].pc = "callback"] /\ Nothing
         \/ io' = [io EXCEPT ![t].pc = "handler"] /\ Nothing
         \/ IsNew(l, port) /\ FindLidar(l) /\ Done(t)
         \/ Nothing /\ Done(t)
      /\ UNCHANGED <<app, descriptors, detect, stop, searched, observers_, up>>
  BY DEF OnData
<1> HIDE DEF l, port
<1>5. io' \in [Threads -> IoStates]
  <2>1. [io[t] EXCEPT !.pc = "callback"] \in IoStates
        /\ [io[t] EXCEPT !.pc = "handler"] \in IoStates
    BY <1>2 DEF IoStates
  <2>2. Idle \in IoStates
    BY DEF Idle, IoStates
  <2>3. \/ io' = [io EXCEPT ![t] = [io[t] EXCEPT !.pc = "callback"]]
        \/ io' = [io EXCEPT ![t] = [io[t] EXCEPT !.pc = "handler"]]
        \/ io' = [io EXCEPT ![t] = Idle]
    BY <1>1, <1>4 DEF Done
  <2> QED BY <1>1, <2>1, <2>2, <2>3
<1>6. app \notin {"off", "threads", "channels"}
  BY <1>1 DEF CoreInv, Early
<1>7. Early'
  BY <1>4, <1>6 DEF Early
<1>8. CASE UNCHANGED <<config, net, lidarVars, faults, strayed>> /\ down' \in BOOLEAN
  <2>1. OtherTypes'
    BY <1>4, <1>5, <1>8 DEF CoreInv, OtherTypes, config, lidarVars
  <2> QED BY <1>4, <1>7, <1>8, <2>1, Quiet
<1>9. CASE IsNew(l, port) /\ AddLidar(l) /\ "manager" \in up /\ TypeOf[l] \in DOMAIN cfgs.type_map
  <2>1. Address[l] \notin DOMAIN cfgs.map
    BY <1>9 DEF IsNew
  <2>2. UNCHANGED <<app, up>>
    BY <1>4
  <2>3. Entries(cfgs') /\ Sound(net') /\ Managed' /\ Closing' /\ faults' \in Nat
        /\ strayed' \in BOOLEAN
    BY <1>3, <1>9, <2>1, <2>2, AddLidarInv
  <2>4. UNCHANGED <<is_view_, framework, lidarVars, down>>
    BY <1>9 DEF AddLidar
  <2>5. OtherTypes'
    BY <1>4, <1>5, <2>3, <2>4 DEF CoreInv, OtherTypes, lidarVars
  <2> QED BY <1>7, <2>3, <2>5 DEF CoreInv
<1>10. down \in BOOLEAN
  BY DEF CoreInv, OtherTypes
<1> QED BY <1>4, <1>8, <1>9, <1>10 DEF FindLidar, Nothing, Crash

LEMMA HandlerInv == ASSUME CoreInv, NEW t \in Threads, Handler(t) PROVE CoreInv'
<1> DEFINE l == io[t].lidar
<1>1. io \in [Threads -> IoStates] /\ io[t].pc = "handler"
  BY DEF CoreInv, OtherTypes, Handler
<1>2. io[t] \in [pc : {"got", "handler", "callback"}, lidar : Lidars, port : Nat]
  BY <1>1 DEF IoStates
<1>3. l \in Lidars
  BY <1>2
<1>4. /\ Crash \/ Nothing \/ FirstAnswer(l) \/ LaterAnswer(l)
      /\ Done(t)
      /\ UNCHANGED <<app, descriptors, detect, stop, searched, observers_, up>>
  BY DEF Handler, Answered
<1> HIDE DEF l
<1>5. io' \in [Threads -> IoStates]
  BY <1>1, <1>4 DEF Done, Idle, IoStates
<1>6. app \notin {"off", "threads", "channels"}
  BY <1>1 DEF CoreInv, Early
<1>7. Early'
  BY <1>4, <1>6 DEF Early
<1>8. /\ UNCHANGED <<config, net, faults, strayed>>
      /\ down' \in BOOLEAN
      /\ devices_' \in [Lidars -> {"none", "known", "asked", "loader", "application"}]
      /\ view' \in [Lidars -> Views]
  <2>1. /\ down \in BOOLEAN /\ view \in [Lidars -> Views]
        /\ devices_ \in [Lidars -> {"none", "known", "asked", "loader", "application"}]
    BY DEF CoreInv, OtherTypes
  <2>2. CASE Crash \/ Nothing
    BY <2>1, <2>2 DEF Crash, Nothing, lidarVars
  <2>3. CASE FirstAnswer(l)
    BY <1>3, <2>1, <2>3 DEF FirstAnswer, Crash, lidarVars
  <2>4. CASE LaterAnswer(l)
    <3> DEFINE asked == view[l].asked \/ (devices_[l] = "application" /\ ~view[l].is_get)
               setting == view[l].setting \/ (/\ framework = "master"
                                              /\ devices_[l] = "application"
                                              /\ view[l].is_get /\ ~view[l].is_set)
               v == [view[l] EXCEPT !.seen = TRUE, !.asked = asked, !.setting = setting]
    <3>1. asked \in BOOLEAN /\ setting \in BOOLEAN
      BY <1>3, <2>1 DEF Views
    <3>2. view' = view \/ view' = [view EXCEPT ![l] = v]
      BY <1>3, <2>1, <2>4 DEF LaterAnswer, Views
    <3> HIDE DEF asked, setting
    <3>3. v \in Views
      BY <1>3, <2>1, <3>1 DEF Views
    <3> HIDE DEF v
    <3>4. view' \in [Lidars -> Views]
      BY <2>1, <3>2, <3>3
    <3> QED BY <2>1, <2>4, <3>4 DEF LaterAnswer
  <2> QED BY <1>4, <2>2, <2>3, <2>4
<1>9. OtherTypes'
  BY <1>4, <1>5, <1>8 DEF CoreInv, OtherTypes, config
<1> QED BY <1>4, <1>7, <1>8, <1>9, Quiet

-----------------------------------------------------------------------------
(* The theorems *)

LEMMA CoreStep == CoreInv /\ [Next]_vars => CoreInv'
<1> SUFFICES ASSUME CoreInv, [Next]_vars PROVE CoreInv'
  OBVIOUS
<1>1. CASE UNCHANGED vars
  <2>1. UNCHANGED <<app, config, net, up, strayed>>
    BY <1>1 DEF vars
  <2>2. OtherTypes' /\ Early'
    BY <1>1 DEF CoreInv, OtherTypes, Early, vars, config, lidarVars
  <2> QED BY <2>1, <2>2, Quiet
<1>2. CASE Next
  <2>1. CASE \E doc \in Documents : InitFile(doc)
    BY <2>1, InitFileInv
  <2>2. CASE InitView
    BY <2>2, InitViewInv
  <2>3. CASE InitSteps
    BY <2>3, CreateIOThreadInv, CreateChannelInv, StartInv DEF InitSteps
  <2>4. CASE RemoveDelegates
    BY <2>4, RemoveDelegatesInv
  <2>5. CASE UninitSteps
    BY <2>5, CloseSocketsInv, StopDetectionInv, JoinDetectionInv, DropCfgsInv, ClearMapsInv,
       ClearObserversInv, ClearDevicesInv DEF UninitSteps
  <2>6. CASE \E o \in Observers : AddPointCloudObserver(o) \/ RemovePointCloudObserver(o)
    BY <2>6, ObserversInv
  <2>7. CASE DetectionLidars
    BY <2>7, DetectionLidarsInv
  <2>8. CASE \E t \in Threads : RunTasks(t) \/ Thread(t)
    BY <2>8, RunTasksInv, OnDataInv, HandlerInv, CallObserversInv DEF Thread
  <2>9. CASE \E l \in Lidars : Lidar(l)
    BY <2>9, LidarSendsInv, FwTypeInv, AddViewLidarInv, UpdateViewLidarCfgCallbackInv DEF Lidar
  <2> QED BY <1>2, <2>1, <2>2, <2>3, <2>4, <2>5, <2>6, <2>7, <2>8, <2>9 DEF Next
<1> QED BY <1>1, <1>2

LEMMA CoreInvariant == Spec => []CoreInv
<1>1. Init => CoreInv
  BY InitInv
<1>2. CoreInv /\ [Next]_vars => CoreInv'
  BY CoreStep
<1> QED BY <1>1, <1>2, PTL DEF Spec

\* Entries, sockets, sets of sockets, tasks and what threads handle keep their types,
\* whatever the file holds and however many lidars there are (device_manager.cpp).
THEOREM CoreTypeCorrect == Spec => []TypeOK
<1>1. CoreInv => TypeOK
  BY DEF CoreInv, OtherTypes, Entries, CfgsType, Sound, NetOK, TypeOK
<1> QED BY <1>1, CoreInvariant, PTL

\* No two entries are for one lidar and no two open sockets take each other's packets:
\* channel_info_ has every open socket that listens to one address, until it is
\* cleared, after which DeviceManager opens none (CreateCmdSocketAndAddDelegate,
\* CreateDataSocketAndAddDelegate and HandleDetectionData of DeviceManager).
THEOREM EachOnce == Spec => []OneEach
<1>1. CoreInv => OneEach
  BY DEF CoreInv, Entries, Distinct, Sound, OneSocket, Broadcast, OneEach
<1> QED BY <1>1, CoreInvariant, PTL

\* What is opened is closed by Uninit: every open socket is in a set from which
\* DeviceManager::Destory closes, unless a lidar is added after that.
THEOREM AllClosed == Spec => []SocketsClosed
<1>1. CoreInv => SocketsClosed
  BY DEF CoreInv, Closing, SocketsClosed
<1> QED BY <1>1, CoreInvariant, PTL

=============================================================================
