--------------------------- MODULE LidarSetupProofs ---------------------------
(***************************************************************************)
(* Proofs about LidarSetup, for any threads, settings, retries and mishaps: *)
(* types, the one outcome of every command, and that a lidar comes to be   *)
(* sampling only after the answer to every setting of its configuration.   *)
(***************************************************************************)
EXTENDS LidarSetup, SequenceTheorems, FiniteSetTheorems, TLAPS

-----------------------------------------------------------------------------
(* The inductive invariant *)

\* The calls that are about a command of the table, and carry its number.
Numbered(c) == c.op \in {"add", "done", "refused", "timeout"}

\* A number is that of one command, or of one call, and never of both.
OneUse ==
  /\ \A c, d \in commands : c.seq = d.seq => c = d
  /\ \A t \in Threads : \A k \in DOMAIN todo[t] : Numbered(todo[t][k]) =>
       /\ \A c \in commands : c.seq # todo[t][k].seq
       /\ \A u \in Threads : \A j \in DOMAIN todo[u] :
            Numbered(todo[u][j]) /\ todo[u][j].seq = todo[t][k].seq
              => u = t /\ j = k

NumberInv == TypeOK /\ IsFiniteSet(commands) /\ OneUse

\* A lidar nobody has heard of has no command and no call.
UnknownIsNew ==
  "known" \notin device =>
    "called" \notin device /\ commands = {} /\ \A t \in Threads : Idle(t)

\* Before the driver's callback nothing is about a setting, and no call locks.
NothingBefore ==
  "called" \notin device =>
    /\ \A r \in requests \cup answers \cup commands : r.kind \notin Bits
    /\ \A t \in Threads : \A k \in DOMAIN todo[t] :
         todo[t][k].kind \notin Bits /\ todo[t][k].op \notin {"lock", "unlock"}

\* The callback runs once, so that the calls that lock, set bits and unlock are
\* those of one thread ...
LockOps == {"lock", "setBit", "unlock"}
OneCallback ==
  \A t, u \in Threads : \A k \in DOMAIN todo[t], j \in DOMAIN todo[u] :
    todo[t][k].op \in LockOps /\ todo[u][j].op \in LockOps => t = u

\* ... in their order: the lock comes first, the bits are set before the unlock.
InTheirOrder ==
  \A t \in Threads : \A k \in DOMAIN todo[t] :
    /\ todo[t][k].op = "lock" => k = 1
    /\ todo[t][k].op = "setBit" =>
         \A j \in DOMAIN todo[t] : todo[t][j].op = "unlock" => k < j

\* The bits are set with config_mutex_ held, or still to be taken.
BitsUnderLock ==
  \A t \in Threads : \A k \in DOMAIN todo[t] : todo[t][k].op = "setBit" =>
    config_mutex_ = t \/ todo[t][1].op = "lock"

\* A command with a setting goes out once the callback has the lock: what is
\* sent stands behind the lock, and all that follows finds none left.
NoLock == \A t \in Threads : \A k \in DOMAIN todo[t] : todo[t][k].op # "lock"
SentAfterLock ==
  /\ \A r \in requests \cup answers \cup commands : r.kind \in Bits => NoLock
  /\ \A t \in Threads : \A k \in DOMAIN todo[t] : todo[t][k].kind \in Bits =>
       /\ Numbered(todo[t][k]) => NoLock
       /\ todo[t][k].op = "send" =>
            \A u \in Threads : \A j \in DOMAIN todo[u] :
              todo[u][j].op = "lock" => u = t /\ j < k

\* An answer, and the callback called with it, come from what the lidar did.
AnswersReal ==
  /\ \A a \in answers : a.kind \in applied \cup refused
  /\ \A t \in Threads : \A k \in Outcomes(t) :
       todo[t][k].op # "timeout" => todo[t][k].kind \in applied \cup refused

\* A setting whose bit is clear, and will not be set, has been answered.
Pending(b) ==
  \E t \in Threads : \E k \in DOMAIN todo[t] :
    todo[t][k].op = "setBit" /\ todo[t][k].kind = b
BitsTell ==
  "called" \in device =>
    \A b \in Bits : Pending(b) \/ b \in set_bits \cup applied \cup refused

SettingInv ==
  /\ NumberInv
  /\ UnknownIsNew
  /\ NothingBefore
  /\ OneCallback
  /\ InTheirOrder
  /\ BitsUnderLock
  /\ SentAfterLock
  /\ AnswersReal
  /\ BitsTell
  /\ SamplingConfigured

-----------------------------------------------------------------------------
(* The lists of calls *)

\* The settings and the other commands are of the kinds the assumptions name.
LEMMA KindsApart ==
  /\ Bits \subseteq {"dataType", "scanPattern", "blindSpot", "dualEmit"}
  /\ ToSet(Others) \subseteq {"attitude", "workMode", "imu"}
  /\ \A k \in DOMAIN Settings : Settings[k] \in Bits
  /\ \A b \in Bits : \E k \in DOMAIN Settings : Settings[k] = b
  /\ \A k \in DOMAIN Others : Others[k] \in ToSet(Others)
BY SettingAssumption, OtherAssumption, SMT DEF Bits, ToSet

\* What a call of each kind carries.
LEMMA CallForms ==
  ASSUME NEW s \in Nat, NEW c \in CallsUpTo(s)
  PROVE  /\ c = [op |-> c.op, kind |-> c.kind, seq |-> c.seq]
         /\ c.seq \in 0..s
         /\ Numbered(c) => c.kind \in Kinds /\ c.seq \in 1..s
         /\ c.op = "send" => c.kind \in Kinds
         /\ c.op = "setBit" => c.kind \in Bits
         /\ c.op = "infoChange" => c.kind = "hostCfg"
         /\ c.op \in {"lock", "unlock"} => c.kind = "all"
         /\ \/ Numbered(c)
            \/ c.op \in {"send", "setBit", "infoChange", "lock", "unlock"}
BY SMT DEF CallsUpTo, Numbered

\* The calls the code makes are of those forms.
LEMMA CallsFormed ==
  ASSUME NEW s \in Nat
  PROVE  /\ \A op \in {"add", "done", "refused", "timeout"}, kind \in Kinds, n \in 1..s :
              Call(op, kind, n) \in CallsUpTo(s)
         /\ \A kind \in Kinds : Send(kind) \in CallsUpTo(s)
         /\ \A b \in Bits : Call("setBit", b, 0) \in CallsUpTo(s)
         /\ Call("infoChange", "hostCfg", 0) \in CallsUpTo(s)
         /\ Call("lock", "all", 0) \in CallsUpTo(s)
         /\ Call("unlock", "all", 0) \in CallsUpTo(s)
BY SMT DEF CallsUpTo, Call, Send

\* A list of calls stays one when there are more numbers.
LEMMA ListsGrow ==
  ASSUME NEW m \in Nat, NEW n \in Nat, m <= n
  PROVE  /\ CallsUpTo(m) \subseteq CallsUpTo(n)
         /\ \A l \in Seq(CallsUpTo(m)) : l \in Seq(CallsUpTo(n))
<1>1. CallsUpTo(m) \subseteq CallsUpTo(n)
  BY SMT DEF CallsUpTo
<1>2. SUFFICES ASSUME NEW l \in Seq(CallsUpTo(m)) PROVE l \in Seq(CallsUpTo(n))
  BY <1>1
<1>3. Len(l) \in Nat /\ \A k \in 1..Len(l) : l[k] \in CallsUpTo(n)
  BY <1>1, ElementOfSeq, LenProperties
<1> QED BY <1>3, SeqDef, LenProperties

\* A call that makes no other: the list moves up by one place.
Popped(t) ==
  /\ \A u \in Threads : u # t => todo'[u] = todo[u]
  /\ \A j \in DOMAIN todo'[t] : j + 1 \in DOMAIN todo[t] /\ todo'[t][j] = todo[t][j + 1]
  /\ \A k \in DOMAIN todo[t] :
       k # 1 => k - 1 \in DOMAIN todo'[t] /\ todo'[t][k - 1] = todo[t][k]
  /\ DOMAIN todo'[t] \subseteq Nat \ {0}

LEMMA CallsNone ==
  ASSUME NEW S, todo \in [Threads -> Seq(S)], NEW t \in Threads, ~Idle(t),
         Calls(t, <<>>)
  PROVE  /\ todo' \in [Threads -> Seq(S)]
         /\ Popped(t)
         /\ 1 \in DOMAIN todo[t] /\ Head(todo[t]) = todo[t][1]
<1>1. todo[t] \in Seq(S) /\ todo[t] # <<>>
  BY DEF Idle
<1>2. /\ Tail(todo[t]) \in Seq(S) /\ Len(Tail(todo[t])) = Len(todo[t]) - 1
      /\ \A j \in 1..Len(Tail(todo[t])) : Tail(todo[t])[j] = todo[t][j + 1]
      /\ Len(todo[t]) \in Nat \ {0}
      /\ Head(todo[t]) = todo[t][1]
  BY <1>1, SMT
<1>3. todo' = [todo EXCEPT ![t] = Tail(todo[t])]
  BY <1>2, ConcatEmptySeq DEF Calls
<1> DEFINE r == Tail(todo[t])
<1>4. /\ todo' \in [Threads -> Seq(S)] /\ todo'[t] = r
      /\ \A u \in Threads : u # t => todo'[u] = todo[u]
  BY <1>2, <1>3
<1>5. DOMAIN r = 1..Len(r) /\ DOMAIN todo[t] = 1..Len(todo[t])
  BY <1>1, <1>2, LenProperties
<1> HIDE DEF r
<1>6. /\ \A j \in DOMAIN r : j + 1 \in DOMAIN todo[t] /\ r[j] = todo[t][j + 1]
      /\ DOMAIN r \subseteq Nat \ {0}
      /\ 1 \in DOMAIN todo[t]
  BY <1>2, <1>5, SMT DEF r
<1>7. \A k \in DOMAIN todo[t] : k # 1 => k - 1 \in DOMAIN r /\ r[k - 1] = todo[t][k]
  BY <1>2, <1>5, SMT DEF r
<1> QED BY <1>2, <1>4, <1>6, <1>7 DEF Popped

\* A call that makes one: that one takes its place.
Replaced(t, c) ==
  /\ \A u \in Threads : DOMAIN todo'[u] = DOMAIN todo[u]
  /\ \A u \in Threads : \A j \in DOMAIN todo[u] :
       todo'[u][j] = IF u = t /\ j = 1 THEN c ELSE todo[u][j]

LEMMA CallsOne ==
  ASSUME NEW S, todo \in [Threads -> Seq(S)], NEW t \in Threads, ~Idle(t),
         NEW c \in S, Calls(t, <<c>>)
  PROVE  /\ todo' \in [Threads -> Seq(S)]
         /\ Replaced(t, c)
         /\ 1 \in DOMAIN todo[t] /\ Head(todo[t]) = todo[t][1]
<1>1. todo[t] \in Seq(S) /\ todo[t] # <<>>
  BY DEF Idle
<1>2. /\ Tail(todo[t]) \in Seq(S) /\ Len(Tail(todo[t])) = Len(todo[t]) - 1
      /\ \A j \in 1..Len(Tail(todo[t])) : Tail(todo[t])[j] = todo[t][j + 1]
      /\ Len(todo[t]) \in Nat \ {0}
      /\ Head(todo[t]) = todo[t][1]
  BY <1>1, SMT
<1> DEFINE l == <<c>> \o Tail(todo[t])
<1>3. /\ l \in Seq(S) /\ Len(l) = Len(todo[t])
      /\ l[1] = c
      /\ \A j \in 2..Len(l) : l[j] = todo[t][j]
  BY <1>2, SMT
<1>4. todo' = [todo EXCEPT ![t] = l]
  BY DEF Calls
<1> HIDE DEF l
<1>5. /\ todo' \in [Threads -> Seq(S)]
      /\ todo'[t] = l
      /\ \A u \in Threads : u # t => todo'[u] = todo[u]
  BY <1>3, <1>4
<1>6. DOMAIN l = 1..Len(todo[t]) /\ DOMAIN todo[t] = 1..Len(todo[t])
  BY <1>1, <1>3, LenProperties
<1>7. \A u \in Threads : DOMAIN todo'[u] = DOMAIN todo[u]
  BY <1>5, <1>6
<1>8. \A u \in Threads : \A j \in DOMAIN todo[u] :
        todo'[u][j] = IF u = t /\ j = 1 THEN c ELSE todo[u][j]
  <2> SUFFICES ASSUME NEW u \in Threads, NEW j \in DOMAIN todo[u]
               PROVE  todo'[u][j] = IF u = t /\ j = 1 THEN c ELSE todo[u][j]
    OBVIOUS
  <2>1. CASE u = t /\ j = 1
    BY <2>1, <1>3, <1>5
  <2>2. CASE u = t /\ j # 1
    <3>1. j \in 2..Len(l)
      BY <2>2, <1>2, <1>3, <1>6, SMT
    <3> QED BY <3>1, <2>2, <1>3, <1>5
  <2>3. CASE u # t
    BY <2>3, <1>5
  <2> QED BY <2>1, <2>2, <2>3
<1> QED BY <1>2, <1>5, <1>6, <1>7, <1>8 DEF Replaced

\* A thread that was idle has a new list.
LEMMA CallsAnew ==
  ASSUME NEW S, todo \in [Threads -> Seq(S)], NEW t \in Threads, Idle(t),
         NEW l \in Seq(S), todo' = [todo EXCEPT ![t] = l]
  PROVE  /\ todo' \in [Threads -> Seq(S)]
         /\ \A u \in Threads : u # t => todo'[u] = todo[u]
         /\ todo'[t] = l
         /\ DOMAIN todo[t] = {}
BY SMT DEF Idle

\* The calls of the driver's callback: the lock, the bits and commands of the
\* settings, the unlock, the other commands.
LEMMA CallbackCalls ==
  ASSUME NEW s \in Nat
  PROVE  LET n == Len(Settings)
             cb == LidarInfoChangeCallback
         IN  /\ cb \in Seq(CallsUpTo(s))
             /\ n \in Nat /\ Len(Others) \in Nat
             /\ Len(cb) = 2 * n + 2 + Len(Others)
             /\ cb[1] = Call("lock", "all", 0)
             /\ \A k \in 1..n : cb[2 * k] = Call("setBit", Settings[k], 0)
             /\ \A k \in 1..n : cb[2 * k + 1] = Send(Settings[k])
             /\ cb[2 * n + 2] = Call("unlock", "all", 0)
             /\ \A k \in 1..Len(Others) : cb[2 * n + 2 + k] = Send(Others[k])
<1> DEFINE n == Len(Settings)
           first == <<Call("lock", "all", 0)>>
           middle == SetAndSend
           last == <<Call("unlock", "all", 0)>>
           rest == [k \in 1..Len(Others) |-> Send(Others[k])]
           C == CallsUpTo(s)
<1>1. n \in Nat /\ DOMAIN Settings = 1..n /\ Len(Others) \in Nat /\ DOMAIN Others = 1..Len(Others)
  BY SettingAssumption, OtherAssumption, LenProperties
<1>2. first \in Seq(C) /\ last \in Seq(C) /\ Len(first) = 1 /\ Len(last) = 1
      /\ first[1] = Call("lock", "all", 0) /\ last[1] = Call("unlock", "all", 0)
  BY CallsFormed, SMT
<1>3. \A k \in 1..n : /\ middle[2 * k - 1] = Call("setBit", Settings[k], 0)
                      /\ middle[2 * k] = Send(Settings[k])
  <2> SUFFICES ASSUME NEW k \in 1..n
               PROVE  /\ middle[2 * k - 1] = Call("setBit", Settings[k], 0)
                      /\ middle[2 * k] = Send(Settings[k])
    OBVIOUS
  <2>1. /\ 2 * k - 1 \in 1..2 * n /\ 2 * k \in 1..2 * n
        /\ (2 * k - 1) % 2 = 1 /\ (2 * k) % 2 # 1
        /\ ((2 * k - 1) + 1) \div 2 = k /\ (2 * k) \div 2 = k
    BY <1>1, SMT
  <2> HIDE DEF n
  <2>2. middle = [j \in 1..2 * n |-> IF j % 2 = 1 THEN Call("setBit", Settings[(j + 1) \div 2], 0)
                                                 ELSE Send(Settings[j \div 2])]
    BY DEF SetAndSend, n
  <2> HIDE DEF middle
  <2>3. middle[2 * k - 1] = Call("setBit", Settings[((2 * k - 1) + 1) \div 2], 0)
    BY <2>1, <2>2
  <2>4. middle[2 * k] = Send(Settings[(2 * k) \div 2])
    BY <2>1, <2>2
  <2> QED BY <2>1, <2>3, <2>4
<1>4. middle \in Seq(C) /\ Len(middle) = 2 * n
  <2>1. ASSUME NEW j \in 1..2 * n PROVE middle[j] \in C
    <3>1. PICK k \in 1..n : j = 2 * k - 1 \/ j = 2 * k
      <4>1. CASE j % 2 = 1
        <5>1. (j + 1) \div 2 \in 1..n /\ j = 2 * ((j + 1) \div 2) - 1
          BY <1>1, <4>1, SMT
        <5> QED BY <5>1
      <4>2. CASE j % 2 = 0
        <5>1. j \div 2 \in 1..n /\ j = 2 * (j \div 2)
          BY <1>1, <4>2, SMT
        <5> QED BY <5>1
      <4> QED BY <1>1, <4>1, <4>2, SMT
    <3>2. Settings[k] \in Bits /\ Settings[k] \in Kinds
      BY <1>1, KindsApart DEF Kinds
    <3> QED BY <1>3, <3>1, <3>2, CallsFormed
  <2>2. 2 * n \in Nat
    BY <1>1, SMT
  <2>3. middle = [j \in 1..2 * n |-> middle[j]]
    BY DEF SetAndSend
  <2> HIDE DEF middle, C, n
  <2> QED BY <2>1, <2>2, <2>3, SMT
<1>5. rest \in Seq(C) /\ Len(rest) = Len(Others)
      /\ \A k \in 1..Len(Others) : rest[k] = Send(Others[k])
  <2>1. \A k \in 1..Len(Others) : Send(Others[k]) \in C
    BY <1>1, KindsApart, CallsFormed DEF Kinds
  <2> HIDE DEF C
  <2> QED BY <1>1, <2>1, SMT
<1>6. LidarInfoChangeCallback = first \o middle \o last \o rest
  BY DEF LidarInfoChangeCallback
<1> HIDE DEF n, first, middle, last, rest, C
<1> DEFINE a == first \o middle
           b == a \o last
<1>7. a \in Seq(C) /\ Len(a) = 2 * n + 1 /\ a[1] = Call("lock", "all", 0)
      /\ \A j \in 1..2 * n : a[1 + j] = middle[j]
  <2>1. first \in Seq(C) /\ middle \in Seq(C) /\ Len(first) = 1 /\ Len(middle) = 2 * n
    BY <1>2, <1>4
  <2>2. a \in Seq(C) /\ Len(a) = Len(first) + Len(middle)
    BY <2>1, ConcatProperties
  <2>3. \A i \in 1..Len(first) + Len(middle) :
          a[i] = IF i <= Len(first) THEN first[i] ELSE middle[i - Len(first)]
    BY <2>1, ConcatProperties
  <2> HIDE DEF a
  <2> QED BY <1>1, <1>2, <2>1, <2>2, <2>3, SMT
<1> HIDE DEF a
<1>8. b \in Seq(C) /\ Len(b) = 2 * n + 2 /\ b[2 * n + 2] = Call("unlock", "all", 0)
      /\ \A j \in 1..2 * n + 1 : b[j] = a[j]
  <2>1. a \in Seq(C) /\ last \in Seq(C) /\ Len(last) = 1 /\ Len(a) = 2 * n + 1
    BY <1>2, <1>7
  <2>2. b \in Seq(C) /\ Len(b) = Len(a) + Len(last)
    BY <2>1, ConcatProperties
  <2>3. \A i \in 1..Len(a) + Len(last) :
          b[i] = IF i <= Len(a) THEN a[i] ELSE last[i - Len(a)]
    BY <2>1, ConcatProperties
  <2> HIDE DEF b
  <2> QED BY <1>1, <1>2, <2>1, <2>2, <2>3, SMT
<1> HIDE DEF b
<1> DEFINE cb == b \o rest
<1>9. cb \in Seq(C) /\ Len(cb) = 2 * n + 2 + Len(Others)
      /\ (\A j \in 1..2 * n + 2 : cb[j] = b[j])
      /\ \A k \in 1..Len(Others) : cb[2 * n + 2 + k] = rest[k]
  <2>1. cb \in Seq(C)
    BY <1>5, <1>8
  <2>2. Len(cb) = 2 * n + 2 + Len(Others)
    BY <1>1, <1>5, <1>8
  <2>3. \A j \in 1..2 * n + 2 : cb[j] = b[j]
    BY <1>1, <1>5, <1>8
  <2>4. \A k \in 1..Len(Others) : cb[2 * n + 2 + k] = rest[k]
    BY <1>1, <1>5, <1>8
  <2> QED BY <2>1, <2>2, <2>3, <2>4
<1>10. LidarInfoChangeCallback = cb
  BY <1>6 DEF a, b
<1> HIDE DEF cb
<1>11. cb[1] = Call("lock", "all", 0) /\ cb[2 * n + 2] = Call("unlock", "all", 0)
  BY <1>1, <1>7, <1>8, <1>9, SMT
<1>12. \A k \in 1..n : cb[2 * k] = middle[2 * k - 1] /\ cb[2 * k + 1] = middle[2 * k]
  <2> SUFFICES ASSUME NEW k \in 1..n
               PROVE  cb[2 * k] = middle[2 * k - 1] /\ cb[2 * k + 1] = middle[2 * k]
    OBVIOUS
  <2>1. /\ 2 * k - 1 \in 1..2 * n /\ 2 * k \in 1..2 * n /\ 1 + (2 * k - 1) = 2 * k /\ 1 + 2 * k = 2 * k + 1
        /\ 2 * k \in 1..2 * n + 1 /\ 2 * k + 1 \in 1..2 * n + 1
        /\ 2 * k \in 1..2 * n + 2 /\ 2 * k + 1 \in 1..2 * n + 2
    BY <1>1, SMT
  <2>2. cb[2 * k] = a[2 * k] /\ cb[2 * k + 1] = a[2 * k + 1]
    BY <1>8, <1>9, <2>1
  <2>3. a[1 + (2 * k - 1)] = middle[2 * k - 1] /\ a[1 + 2 * k] = middle[2 * k]
    BY <1>7, <2>1
  <2> QED BY <2>1, <2>2, <2>3
<1> QED BY <1>1, <1>3, <1>5, <1>9, <1>10, <1>11, <1>12 DEF n, C

\* What the callback does to a setting: the bit is set between the lock and the
\* unlock, and the command that is sent has the lock before it.
LEMMA CallbackForms ==
  LET n == Len(Settings)
      cb == LidarInfoChangeCallback
  IN  \A j \in 1..Len(cb) :
        \/ j = 1 /\ cb[j] = Call("lock", "all", 0)
        \/ j \in 2..2 * n + 1 /\ \E b \in Bits : cb[j] = Call("setBit", b, 0)
        \/ j > 1 /\ \E kind \in Bits \cup ToSet(Others) : cb[j] = Send(kind)
        \/ j = 2 * n + 2 /\ cb[j] = Call("unlock", "all", 0)
<1> DEFINE n == Len(Settings)
           cb == LidarInfoChangeCallback
           m == Len(Others)
<1>1. /\ n \in Nat /\ m \in Nat /\ Len(cb) = 2 * n + 2 + m
      /\ DOMAIN Settings = 1..n /\ DOMAIN Others = 1..m
  BY CallbackCalls, SettingAssumption, OtherAssumption, LenProperties, SMT
<1>2. /\ cb[1] = Call("lock", "all", 0)
      /\ \A k \in 1..n : cb[2 * k] = Call("setBit", Settings[k], 0)
      /\ \A k \in 1..n : cb[2 * k + 1] = Send(Settings[k])
      /\ cb[2 * n + 2] = Call("unlock", "all", 0)
      /\ \A k \in 1..m : cb[2 * n + 2 + k] = Send(Others[k])
  BY CallbackCalls, SMT
<1> HIDE DEF n, cb, m
<1> SUFFICES ASSUME NEW j \in 1..Len(cb)
             PROVE  \/ j = 1 /\ cb[j] = Call("lock", "all", 0)
                    \/ j \in 2..2 * n + 1 /\ \E b \in Bits : cb[j] = Call("setBit", b, 0)
                    \/ j > 1 /\ \E kind \in Bits \cup ToSet(Others) : cb[j] = Send(kind)
                    \/ j = 2 * n + 2 /\ cb[j] = Call("unlock", "all", 0)
  BY DEF n, cb
<1>3. CASE j = 1
  BY <1>2, <1>3
<1>4. CASE j \in 2..2 * n + 1 /\ j % 2 = 0
  <2>1. j \div 2 \in 1..n /\ j = 2 * (j \div 2)
    BY <1>1, <1>4, SMT
  <2>2. cb[j] = Call("setBit", Settings[j \div 2], 0)
    BY <1>2, <2>1
  <2> QED BY <1>1, <1>4, <2>1, <2>2, KindsApart
<1>5. CASE j \in 2..2 * n + 1 /\ j % 2 = 1
  <2>1. j \div 2 \in 1..n /\ j = 2 * (j \div 2) + 1 /\ j > 1
    BY <1>1, <1>5, SMT
  <2>2. cb[j] = Send(Settings[j \div 2])
    BY <1>2, <2>1
  <2> QED BY <1>1, <2>1, <2>2, KindsApart
<1>6. CASE j = 2 * n + 2
  BY <1>2, <1>6
<1>7. CASE j > 2 * n + 2
  <2>1. j - (2 * n + 2) \in 1..m /\ j = 2 * n + 2 + (j - (2 * n + 2)) /\ j > 1
    BY <1>1, <1>7, SMT
  <2>2. cb[j] = Send(Others[j - (2 * n + 2)])
    BY <1>2, <2>1
  <2> QED BY <1>1, <2>1, <2>2, KindsApart
<1> QED BY <1>1, <1>3, <1>4, <1>5, <1>6, <1>7, SMT

\* None of its calls is about a command of the table.
LEMMA CallbackQuiet ==
  \A j \in 1..Len(LidarInfoChangeCallback) : ~Numbered(LidarInfoChangeCallback[j])
<1>1. /\ ~Numbered(Call("lock", "all", 0))
      /\ ~Numbered(Call("unlock", "all", 0))
      /\ \A b : ~Numbered(Call("setBit", b, 0))
      /\ \A kind : ~Numbered(Send(kind))
  BY DEF Numbered, Call, Send
<1> QED BY <1>1, CallbackForms, Zenon

\* A call that makes several: they come before what was left.
Shifted(t, l) ==
  /\ \A u \in Threads : u # t => todo'[u] = todo[u]
  /\ \A j \in DOMAIN todo'[t] :
       \/ j \in 1..Len(l) /\ todo'[t][j] = l[j]
       \/ j > Len(l) /\ \E k \in DOMAIN todo[t] : k # 1 /\ todo'[t][j] = todo[t][k]
  /\ \A j \in 1..Len(l) : j \in DOMAIN todo'[t] /\ todo'[t][j] = l[j]
  /\ DOMAIN todo'[t] \subseteq Nat \ {0}

LEMMA CallsMany ==
  ASSUME NEW S, todo \in [Threads -> Seq(S)], NEW t \in Threads, ~Idle(t),
         NEW l \in Seq(S), Calls(t, l)
  PROVE  /\ todo' \in [Threads -> Seq(S)]
         /\ Shifted(t, l)
         /\ 1 \in DOMAIN todo[t] /\ Head(todo[t]) = todo[t][1]
<1>1. todo[t] \in Seq(S) /\ todo[t] # <<>>
  BY DEF Idle
<1> DEFINE r == Tail(todo[t])
           m == l \o r
<1>2. /\ r \in Seq(S) /\ Len(r) = Len(todo[t]) - 1
      /\ \A j \in 1..Len(r) : r[j] = todo[t][j + 1]
      /\ Len(todo[t]) \in Nat \ {0} /\ DOMAIN todo[t] = 1..Len(todo[t])
      /\ Head(todo[t]) = todo[t][1]
  BY <1>1, SMT
<1>3. todo' = [todo EXCEPT ![t] = m]
  BY DEF Calls
<1> HIDE DEF r
<1>4. m \in Seq(S) /\ Len(m) = Len(l) + Len(r)
  BY <1>2, ConcatProperties
<1>5. \A i \in 1..Len(l) + Len(r) : m[i] = IF i <= Len(l) THEN l[i] ELSE r[i - Len(l)]
  BY <1>2, ConcatProperties
<1> HIDE DEF m
<1>6. /\ todo' \in [Threads -> Seq(S)] /\ todo'[t] = m
      /\ \A u \in Threads : u # t => todo'[u] = todo[u]
  BY <1>3, <1>4
<1>7. DOMAIN m = 1..Len(l) + Len(r) /\ Len(l) \in Nat /\ Len(r) \in Nat
  BY <1>2, <1>4, LenProperties
<1>8. ASSUME NEW j \in DOMAIN m
      PROVE  \/ j \in 1..Len(l) /\ m[j] = l[j]
             \/ j > Len(l) /\ \E k \in DOMAIN todo[t] : k # 1 /\ m[j] = todo[t][k]
  <2>1. CASE j <= Len(l)
    BY <2>1, <1>5, <1>7, SMT
  <2>2. CASE j > Len(l)
    <3>1. j - Len(l) \in 1..Len(r) /\ m[j] = r[j - Len(l)]
      BY <2>2, <1>5, <1>7, SMT
    <3>2. /\ (j - Len(l)) + 1 \in DOMAIN todo[t] /\ (j - Len(l)) + 1 # 1
          /\ m[j] = todo[t][(j - Len(l)) + 1]
      BY <3>1, <1>2, <1>7, SMT
    <3> QED BY <3>2, <2>2
  <2> QED BY <2>1, <2>2, <1>7, SMT
<1>9. \A j \in 1..Len(l) : j \in DOMAIN m /\ m[j] = l[j]
  BY <1>5, <1>7, SMT
<1>10. DOMAIN m \subseteq Nat \ {0}
  BY <1>7, SMT
<1> QED BY <1>2, <1>6, <1>8, <1>9, <1>10 DEF Shifted

-----------------------------------------------------------------------------
(* Numbers are of one use *)

\* What a step does to the list of calls keeps the numbers apart.
LEMMA OnePopped ==
  ASSUME TypeOK, OneUse, NEW t \in Threads, Popped(t), commands' \subseteq commands
  PROVE  OneUse'
<1> DEFINE Old(u, j) == IF u = t THEN j + 1 ELSE j
<1>1. \A u \in Threads : \A j \in DOMAIN todo'[u] :
        Old(u, j) \in DOMAIN todo[u] /\ todo'[u][j] = todo[u][Old(u, j)]
  BY DEF Popped
<1>2. \A u \in Threads : \A i, j \in DOMAIN todo'[u] : Old(u, i) = Old(u, j) => i = j
  BY SMT DEF Popped
<1> HIDE DEF Old
<1>3. ASSUME NEW u \in Threads, NEW k \in DOMAIN todo'[u], Numbered(todo'[u][k])
      PROVE  /\ \A c \in commands' : c.seq # todo'[u][k].seq
             /\ \A w \in Threads : \A j \in DOMAIN todo'[w] :
                  Numbered(todo'[w][j]) /\ todo'[w][j].seq = todo'[u][k].seq
                    => w = u /\ j = k
  BY <1>1, <1>2, <1>3 DEF OneUse
<1> QED BY <1>3 DEF OneUse, Numbered

LEMMA OneReplaced ==
  ASSUME TypeOK, OneUse, NEW t \in Threads, NEW c, Replaced(t, c),
         commands' \subseteq commands,
         Numbered(c) =>
           /\ \A d \in commands : d.seq # c.seq
           /\ \A u \in Threads : \A j \in DOMAIN todo[u] :
                Numbered(todo[u][j]) => todo[u][j].seq # c.seq
  PROVE  OneUse'
<1>1. \A u \in Threads : \A j \in DOMAIN todo'[u] :
        /\ j \in DOMAIN todo[u]
        /\ todo'[u][j] = IF u = t /\ j = 1 THEN c ELSE todo[u][j]
  BY DEF Replaced
<1>2. ASSUME NEW u \in Threads, NEW k \in DOMAIN todo'[u], Numbered(todo'[u][k])
      PROVE  /\ \A d \in commands' : d.seq # todo'[u][k].seq
             /\ \A w \in Threads : \A j \in DOMAIN todo'[w] :
                  Numbered(todo'[w][j]) /\ todo'[w][j].seq = todo'[u][k].seq
                    => w = u /\ j = k
  <2>1. CASE u = t /\ k = 1
    BY <1>1, <1>2, <2>1 DEF OneUse
  <2>2. CASE ~(u = t /\ k = 1)
    BY <1>1, <1>2, <2>2 DEF OneUse
  <2> QED BY <2>1, <2>2
<1> QED BY <1>2 DEF OneUse, Numbered

LEMMA OneAdded ==
  ASSUME OneUse, NEW t \in Threads, Popped(t), NEW c, commands' = commands \cup {c},
         \A d \in commands : d.seq # c.seq,
         \A u \in Threads : \A j \in DOMAIN todo[u] :
           Numbered(todo[u][j]) /\ todo[u][j].seq = c.seq => u = t /\ j = 1
  PROVE  OneUse'
<1> DEFINE Old(w, j) == IF w = t THEN j + 1 ELSE j
<1>1. \A d, e \in commands' : d.seq = e.seq => d = e
  BY DEF OneUse
<1>2. \A w \in Threads : \A j \in DOMAIN todo'[w] :
        Old(w, j) \in DOMAIN todo[w] /\ todo'[w][j] = todo[w][Old(w, j)]
  BY DEF Popped
<1>3. \A w \in Threads : \A i, j \in DOMAIN todo'[w] : Old(w, i) = Old(w, j) => i = j
  BY SMT DEF Popped
<1>4. \A w \in Threads : \A j \in DOMAIN todo'[w] : ~(w = t /\ Old(w, j) = 1)
  BY SMT DEF Popped
<1> HIDE DEF Old
<1>5. ASSUME NEW u \in Threads, NEW k \in DOMAIN todo'[u], Numbered(todo'[u][k])
      PROVE  /\ \A d \in commands' : d.seq # todo'[u][k].seq
             /\ \A w \in Threads : \A j \in DOMAIN todo'[w] :
                  Numbered(todo'[w][j]) /\ todo'[w][j].seq = todo'[u][k].seq
                    => w = u /\ j = k
  BY <1>2, <1>3, <1>4, <1>5 DEF OneUse
<1> QED BY <1>1, <1>5 DEF OneUse, Numbered

LEMMA OneShifted ==
  ASSUME NEW S, todo \in [Threads -> Seq(S)], OneUse, NEW t \in Threads, ~Idle(t),
         NEW l \in Seq(S), Calls(t, l), \A j \in 1..Len(l) : ~Numbered(l[j]),
         commands' = commands
  PROVE  OneUse'
<1> DEFINE r == Tail(todo[t])
           m == l \o r
           shift == Len(l)
<1>1. todo[t] \in Seq(S) /\ todo[t] # <<>>
  BY DEF Idle
<1>2. /\ r \in Seq(S) /\ Len(r) = Len(todo[t]) - 1
      /\ \A j \in 1..Len(r) : r[j] = todo[t][j + 1]
      /\ Len(todo[t]) \in Nat \ {0} /\ DOMAIN todo[t] = 1..Len(todo[t])
  BY <1>1, SMT
<1>3. todo' = [todo EXCEPT ![t] = m]
  BY DEF Calls
<1> HIDE DEF r
<1>4. m \in Seq(S) /\ Len(m) = Len(l) + Len(r)
  BY <1>2, ConcatProperties
<1>5. \A i \in 1..Len(l) + Len(r) : m[i] = IF i <= Len(l) THEN l[i] ELSE r[i - Len(l)]
  BY <1>2, ConcatProperties
<1> HIDE DEF m
<1>6. todo'[t] = m /\ \A u \in Threads : u # t => todo'[u] = todo[u]
  BY <1>3, <1>4
<1>7. DOMAIN m = 1..shift + Len(r) /\ shift \in Nat /\ Len(r) \in Nat
  BY <1>2, <1>4, LenProperties
<1> DEFINE Old(w, j) == IF w = t THEN (j - shift) + 1 ELSE j
<1>8. ASSUME NEW j \in DOMAIN m, Numbered(m[j])
      PROVE  (j - shift) + 1 \in DOMAIN todo[t] /\ m[j] = todo[t][(j - shift) + 1]
  <2>1. j > shift
    <3>1. SUFFICES ASSUME j <= shift PROVE FALSE
      BY <1>7, SMT
    <3>2. j \in 1..Len(l) /\ m[j] = l[j]
      BY <1>5, <1>7, <3>1, SMT
    <3> QED BY <1>8, <3>2
  <2>2. j - shift \in 1..Len(r) /\ m[j] = r[j - shift]
    BY <1>5, <1>7, <2>1, SMT
  <2> QED BY <1>2, <2>2, <1>7, SMT
<1>9. \A w \in Threads : \A j \in DOMAIN todo'[w] : Numbered(todo'[w][j]) =>
        Old(w, j) \in DOMAIN todo[w] /\ todo'[w][j] = todo[w][Old(w, j)]
  BY <1>6, <1>8
<1>10. \A w \in Threads : \A i, j \in DOMAIN todo'[w] : Old(w, i) = Old(w, j) => i = j
  BY <1>6, <1>7, SMT
<1> HIDE DEF Old, shift
<1>11. ASSUME NEW u \in Threads, NEW k \in DOMAIN todo'[u], Numbered(todo'[u][k])
       PROVE  /\ \A d \in commands' : d.seq # todo'[u][k].seq
              /\ \A w \in Threads : \A j \in DOMAIN todo'[w] :
                   Numbered(todo'[w][j]) /\ todo'[w][j].seq = todo'[u][k].seq
                     => w = u /\ j = k
  BY <1>9, <1>10, <1>11 DEF OneUse
<1> QED BY <1>11 DEF OneUse, Numbered

\* All numbers in use are below the next one.
LEMMA NumbersBelow ==
  ASSUME TypeOK
  PROVE  /\ \A c \in commands : c.seq \in 1..seq /\ c.kind \in Kinds
         /\ \A t \in Threads : \A k \in DOMAIN todo[t] :
              /\ todo[t][k] \in CallsUpTo(seq)
              /\ Numbered(todo[t][k]) => todo[t][k].seq \in 1..seq
<1>1. \A c \in commands : c.seq \in 1..seq /\ c.kind \in Kinds
  BY SMT DEF TypeOK
<1>2. ASSUME NEW t \in Threads, NEW k \in DOMAIN todo[t]
      PROVE  /\ todo[t][k] \in CallsUpTo(seq)
             /\ Numbered(todo[t][k]) => todo[t][k].seq \in 1..seq
  <2>1. todo[t] \in Seq(CallsUpTo(seq)) /\ seq \in Nat
    BY DEF TypeOK
  <2>2. todo[t][k] \in CallsUpTo(seq)
    BY <2>1, ElementOfSeq, LenProperties
  <2> QED BY <2>1, <2>2, CallForms
<1> QED BY <1>1, <1>2

\* Every call a thread makes comes from a list that is not empty.
LEMMA NumberInit == Init => NumberInv
<1> SUFFICES ASSUME Init PROVE NumberInv
  OBVIOUS
<1>1. IsFiniteSet(commands) /\ OneUse
  BY FS_EmptySet DEF Init, OneUse
<1>2. todo \in [Threads -> Seq(CallsUpTo(seq))]
  BY DEF Init
<1>3. 0 \in 0..(MaxFwRetries + 1) /\ 0 \in Nat /\ 0 \in 0..MaxMishaps
  BY BoundAssumption, SMT
<1>4. TypeOK
  BY <1>2, <1>3 DEF Init, TypeOK
<1> QED BY <1>1, <1>4 DEF NumberInv

LEMMA SendFirstNumbers ==
  ASSUME NumberInv, NEW t \in Threads, SendFirst(t)
  PROVE  NumberInv'
<1> DEFINE kind == todo[t][1].kind
           c == Call("add", kind, seq + 1)
<1>1. TypeOK /\ OneUse /\ seq \in Nat /\ seq' = seq + 1 /\ commands' = commands
  BY DEF NumberInv, TypeOK, SendFirst, GetSeq
<1>2. ~Idle(t) /\ Calls(t, <<Call("add", Head(todo[t]).kind, seq + 1)>>)
  BY DEF SendFirst, Makes, GetSeq
<1>3. todo \in [Threads -> Seq(CallsUpTo(seq))]
  BY <1>1 DEF TypeOK
<1>4. todo \in [Threads -> Seq(CallsUpTo(seq + 1))]
  BY <1>1, <1>3, ListsGrow, SMT
<1>5. 1 \in DOMAIN todo[t] /\ Head(todo[t]) = todo[t][1]
  BY <1>2, <1>3, CallsMany, SMT DEF Idle
<1>6. kind \in Kinds
  <2>1. todo[t][1] \in CallsUpTo(seq) /\ todo[t][1].op = "send"
    BY <1>1, <1>5, NumbersBelow DEF SendFirst, Makes
  <2> QED BY <1>1, <2>1, CallForms
<1>7. c \in CallsUpTo(seq + 1)
  BY <1>1, <1>6, CallsFormed, SMT
<1>8. todo' \in [Threads -> Seq(CallsUpTo(seq + 1))] /\ Replaced(t, c)
  BY <1>2, <1>4, <1>5, <1>7, CallsOne
<1>9. OneUse'
  <2>1. c.seq = seq + 1
    BY DEF Call
  <2>2. /\ \A d \in commands : d.seq # c.seq
        /\ \A u \in Threads : \A j \in DOMAIN todo[u] :
             Numbered(todo[u][j]) => todo[u][j].seq # c.seq
    BY <1>1, <2>1, NumbersBelow, SMT
  <2> HIDE DEF c
  <2> QED BY <1>1, <1>8, <2>2, OneReplaced
<1>10. requests' \subseteq [seq : 1..seq', kind : Kinds]
  BY <1>1, <1>5, <1>6, SMT DEF SendFirst, Request, TypeOK, GetSeq
<1>11. TypeOK'
  BY <1>1, <1>8, <1>10, SMT DEF TypeOK, SendFirst, deviceVars, configVars
<1> QED BY <1>1, <1>9, <1>11 DEF NumberInv

LEMMA AddCommandNumbers ==
  ASSUME NumberInv, NEW t \in Threads, AddCommand(t)
  PROVE  NumberInv'
<1> DEFINE h == todo[t][1]
           c == Request(h.seq, h.kind)
<1>1. TypeOK /\ OneUse /\ seq \in Nat /\ seq' = seq /\ IsFiniteSet(commands)
  BY DEF NumberInv, TypeOK, AddCommand
<1>2. ~Idle(t) /\ Calls(t, <<>>) /\ todo \in [Threads -> Seq(CallsUpTo(seq))]
  BY <1>1 DEF AddCommand, Makes, TypeOK
<1>3. /\ todo' \in [Threads -> Seq(CallsUpTo(seq))] /\ Popped(t)
      /\ 1 \in DOMAIN todo[t] /\ Head(todo[t]) = h
  BY <1>2, CallsNone
<1>4. commands' = commands \cup {c} /\ h.op = "add"
  BY <1>3 DEF AddCommand, Makes
<1>5. h \in CallsUpTo(seq) /\ Numbered(h)
  BY <1>1, <1>3, <1>4, NumbersBelow DEF Numbered
<1>6. h.kind \in Kinds /\ h.seq \in 1..seq
  BY <1>1, <1>5, CallForms
<1>7. IsFiniteSet(commands')
  BY <1>1, <1>4, FS_AddElement
<1>8. \A d \in commands : d.seq # h.seq
  BY <1>1, <1>3, <1>5 DEF OneUse
<1>9. \A u \in Threads : \A j \in DOMAIN todo[u] :
        Numbered(todo[u][j]) /\ todo[u][j].seq = h.seq => u = t /\ j = 1
  BY <1>1, <1>3, <1>5 DEF OneUse
<1>10. c.seq = h.seq
  BY DEF Request
<1> HIDE DEF c, h
<1>11. OneUse'
  BY <1>1, <1>3, <1>4, <1>8, <1>9, <1>10, OneAdded
<1>12. TypeOK'
  BY <1>1, <1>3, <1>4, <1>6, SMT DEF TypeOK, AddCommand, deviceVars, configVars, lidarVars, c, Request
<1> QED BY <1>7, <1>11, <1>12 DEF NumberInv

LEMMA AddFirstNumbers ==
  ASSUME NumberInv, NEW t \in Threads, AddFirst(t)
  PROVE  NumberInv'
<1> DEFINE c == Request(seq + 1, "hostCfg")
<1>1. TypeOK /\ OneUse /\ seq \in Nat /\ seq' = seq + 1 /\ IsFiniteSet(commands)
  BY DEF NumberInv, TypeOK, AddFirst, GetSeq
<1>2. ~Idle(t) /\ Calls(t, <<>>) /\ todo \in [Threads -> Seq(CallsUpTo(seq))]
  BY <1>1 DEF AddFirst, Makes, TypeOK
<1>3. todo \in [Threads -> Seq(CallsUpTo(seq + 1))]
  BY <1>1, <1>2, ListsGrow, SMT
<1>4. todo' \in [Threads -> Seq(CallsUpTo(seq + 1))] /\ Popped(t)
  BY <1>2, <1>3, CallsNone
<1>5. commands' = commands \cup {c} /\ requests' = requests \cup {c}
  BY <1>1 DEF AddFirst
<1>6. IsFiniteSet(commands')
  BY <1>1, <1>5, FS_AddElement
<1>7. c.seq = seq + 1 /\ c.kind = "hostCfg" /\ c \in [seq : 1..seq', kind : Kinds]
  BY <1>1, SMT DEF Request, Kinds
<1>8. /\ \A d \in commands : d.seq # c.seq
      /\ \A u \in Threads : \A j \in DOMAIN todo[u] :
           Numbered(todo[u][j]) => todo[u][j].seq # c.seq
  BY <1>1, <1>7, NumbersBelow, SMT
<1> HIDE DEF c
<1>9. OneUse'
  BY <1>1, <1>4, <1>5, <1>8, OneAdded
<1>10. TypeOK'
  BY <1>1, <1>4, <1>5, <1>7, SMT DEF TypeOK, AddFirst, deviceVars, configVars
<1> QED BY <1>6, <1>9, <1>10 DEF NumberInv

\* The steps that leave numbers and commands as they are, and the calls or the
\* first of them.
LEMMA PoppedNumbers ==
  ASSUME NumberInv, NEW t \in Threads, ~Idle(t), Calls(t, <<>>),
         UNCHANGED <<seq, commands, requests, answers, loader, applied, refused, mishaps>>,
         device' \subseteq {"known", "fwKnown", "loaderMode", "customised", "updated",
                            "called"},
         fwFailures' \in 0..(MaxFwRetries + 1),
         config_mutex_' \in Threads \cup {"free"},
         set_bits' \subseteq Bits, sampling' \in BOOLEAN
  PROVE  NumberInv'
<1>1. TypeOK /\ OneUse /\ todo \in [Threads -> Seq(CallsUpTo(seq))]
  BY DEF NumberInv, TypeOK
<1>2. todo' \in [Threads -> Seq(CallsUpTo(seq))] /\ Popped(t)
  BY <1>1, CallsNone
<1>3. OneUse'
  BY <1>1, <1>2, OnePopped
<1>4. TypeOK'
  BY <1>1, <1>2 DEF TypeOK
<1> QED BY <1>3, <1>4 DEF NumberInv

LEMMA ReplacedNumbers ==
  ASSUME NumberInv, NEW t \in Threads, ~Idle(t),
         NEW c \in CallsUpTo(seq), ~Numbered(c), Calls(t, <<c>>),
         UNCHANGED <<seq, commands, configVars, lidarVars, mishaps>>,
         device' \subseteq {"known", "fwKnown", "loaderMode", "customised", "updated",
                            "called"},
         fwFailures' \in 0..(MaxFwRetries + 1)
  PROVE  NumberInv'
<1>1. TypeOK /\ OneUse /\ todo \in [Threads -> Seq(CallsUpTo(seq))]
  BY DEF NumberInv, TypeOK
<1>2. todo' \in [Threads -> Seq(CallsUpTo(seq))] /\ Replaced(t, c)
  BY <1>1, CallsOne
<1>3. OneUse'
  BY <1>1, <1>2, OneReplaced
<1>4. TypeOK'
  BY <1>1, <1>2 DEF TypeOK, configVars, lidarVars
<1> QED BY <1>3, <1>4 DEF NumberInv

LEMMA QueryFwTypeNumbers ==
  ASSUME NumberInv, NEW t \in Threads, QueryFwTypeCallback(t)
  PROVE  NumberInv'
<1>1. TypeOK /\ ~Idle(t) /\ seq \in Nat
  BY DEF NumberInv, TypeOK, QueryFwTypeCallback, Now, Makes
<1>2. UNCHANGED <<seq, commands, configVars, lidarVars, mishaps>>
  BY DEF QueryFwTypeCallback
<1>3. fwFailures \in 0..(MaxFwRetries + 1) /\ MaxFwRetries \in Nat
  BY <1>1, BoundAssumption DEF TypeOK
<1>4. CASE FwTypeGivenUp(t) \/ FwTypeGot(t)
  <2>1. Calls(t, <<>>) /\ fwFailures' = 0
    BY <1>4 DEF FwTypeGivenUp, FwTypeGot
  <2>2. fwFailures' \in 0..(MaxFwRetries + 1)
    BY <1>3, <2>1, SMT
  <2>3. device' \subseteq {"known", "fwKnown", "loaderMode", "customised", "updated",
                           "called"}
    <3>1. device' \subseteq device \cup {"fwKnown", "loaderMode"}
      BY <1>4 DEF FwTypeGivenUp, FwTypeGot
    <3> QED BY <1>1, <3>1 DEF TypeOK
  <2> QED BY <1>1, <1>2, <2>1, <2>2, <2>3, PoppedNumbers DEF TypeOK, configVars, lidarVars
<1>5. CASE FwTypeFailed(t)
  <2>1. /\ Calls(t, <<Send("fwType")>>) /\ device' = device
        /\ fwFailures' \in 0..(MaxFwRetries + 1)
    BY <1>3, <1>5, SMT DEF FwTypeFailed, QueryFwType
  <2>2. Send("fwType") \in CallsUpTo(seq) /\ ~Numbered(Send("fwType"))
    BY <1>1, CallsFormed DEF Kinds, Numbered, Send, Call
  <2> QED BY <1>1, <1>2, <2>1, <2>2, ReplacedNumbers DEF TypeOK
<1> QED BY <1>4, <1>5 DEF QueryFwTypeCallback

LEMMA UpdateLidarNumbers ==
  ASSUME NumberInv, NEW t \in Threads, UpdateLidarCallback(t)
  PROVE  NumberInv'
<1>1. TypeOK /\ ~Idle(t) /\ seq \in Nat
  BY DEF NumberInv, TypeOK, UpdateLidarCallback, Now, Makes
<1>2. UNCHANGED <<fwFailures, seq, commands, configVars, lidarVars, mishaps>>
  BY DEF UpdateLidarCallback
<1> DEFINE c == Call("infoChange", "hostCfg", 0)
<1>3. CASE device' = device \cup {"customised"} /\ Calls(t, <<c>>)
  <2>1. c \in CallsUpTo(seq) /\ ~Numbered(c)
    BY <1>1, CallsFormed DEF Numbered, Call
  <2> HIDE DEF c
  <2> QED BY <1>1, <1>2, <1>3, <2>1, ReplacedNumbers DEF TypeOK
<1>4. CASE device' = device /\ Calls(t, <<>>)
  BY <1>1, <1>2, <1>4, PoppedNumbers DEF TypeOK, configVars, lidarVars
<1> QED BY <1>3, <1>4 DEF UpdateLidarCallback

LEMMA InfoChangeNumbers ==
  ASSUME NumberInv, NEW t \in Threads, LivoxLidarInfoChange(t)
  PROVE  NumberInv'
<1>1. TypeOK /\ OneUse /\ ~Idle(t) /\ seq \in Nat
  BY DEF NumberInv, TypeOK, LivoxLidarInfoChange, Makes
<1>2. /\ UNCHANGED <<fwFailures, seq, commands, configVars, lidarVars, mishaps>>
      /\ device' \subseteq {"known", "fwKnown", "loaderMode", "customised", "updated",
                            "called"}
  BY <1>1 DEF LivoxLidarInfoChange, TypeOK
<1>3. CASE Calls(t, <<>>)
  BY <1>1, <1>2, <1>3, PoppedNumbers DEF TypeOK, configVars, lidarVars
<1>4. CASE Calls(t, LidarInfoChangeCallback)
  <2> DEFINE cb == LidarInfoChangeCallback
  <2>1. cb \in Seq(CallsUpTo(seq))
    BY <1>1, CallbackCalls
  <2>2. \A j \in 1..Len(cb) : ~Numbered(cb[j])
    BY <1>1, CallbackQuiet
  <2> HIDE DEF cb
  <2>3. Calls(t, cb) /\ todo \in [Threads -> Seq(CallsUpTo(seq))]
    BY <1>1, <1>4 DEF cb, TypeOK
  <2>4. todo' \in [Threads -> Seq(CallsUpTo(seq))] /\ Shifted(t, cb)
    BY <1>1, <2>1, <2>3, CallsMany
  <2>5. TypeOK'
    BY <1>1, <1>2, <2>4 DEF TypeOK, configVars, lidarVars
  <2>6. OneUse'
    BY <1>1, <1>2, <1>4, <2>1, <2>3, <2>2, OneShifted DEF TypeOK
  <2> QED BY <1>2, <2>5, <2>6 DEF NumberInv
<1> QED BY <1>3, <1>4 DEF LivoxLidarInfoChange

\* The driver's callbacks and the configuration's lock.
LEMMA CallbackNumbers ==
  ASSUME NumberInv, NEW t \in Threads,
         \/ LockConfig(t) \/ SetBit(t) \/ UnlockConfig(t)
         \/ SettingAnswered(t) \/ OthersAnswered(t) \/ CommandTimedOut(t)
  PROVE  NumberInv'
<1>1. TypeOK /\ seq \in Nat
  BY DEF NumberInv, TypeOK
<1>2. CASE LockConfig(t) \/ UnlockConfig(t)
  BY <1>1, <1>2, PoppedNumbers
     DEF LockConfig, UnlockConfig, Makes, TypeOK, deviceVars, lidarVars
<1>3. CASE SetBit(t)
  <2>1. /\ ~Idle(t) /\ Calls(t, <<>>) /\ set_bits' = set_bits \cup {Head(todo[t]).kind}
        /\ Head(todo[t]).op = "setBit"
    BY <1>3 DEF SetBit, Makes
  <2>2. 1 \in DOMAIN todo[t] /\ Head(todo[t]) = todo[t][1]
    BY <1>1, <2>1, CallsNone DEF TypeOK
  <2>3. todo[t][1] \in CallsUpTo(seq)
    BY <1>1, <2>2, NumbersBelow
  <2>4. Head(todo[t]).kind \in Bits
    BY <1>1, <2>1, <2>2, <2>3, CallForms
  <2> QED BY <1>1, <1>3, <2>1, <2>4, PoppedNumbers DEF SetBit, TypeOK, deviceVars, lidarVars
<1>4. CASE SettingAnswered(t)
  <2>1. ~Idle(t) /\ Calls(t, <<>>) /\ set_bits' \subseteq Bits /\ sampling' \in BOOLEAN
    BY <1>1, <1>4 DEF SettingAnswered, Now, Makes, TypeOK
  <2> QED BY <1>1, <1>4, <2>1, PoppedNumbers DEF SettingAnswered, TypeOK, deviceVars, lidarVars
<1>5. CASE OthersAnswered(t)
  BY <1>1, <1>5, PoppedNumbers
     DEF OthersAnswered, Now, Makes, TypeOK, deviceVars, configVars, lidarVars
<1>6. CASE CommandTimedOut(t)
  <2> DEFINE kind == Head(todo[t]).kind
  <2>1. /\ ~Idle(t) /\ kind \in Kinds
        /\ Calls(t, <<Send(kind)>>) \/ Calls(t, <<>>)
        /\ UNCHANGED <<deviceVars, seq, commands, configVars, lidarVars, mishaps>>
    BY <1>6 DEF CommandTimedOut, Now, Makes
  <2>2. Send(kind) \in CallsUpTo(seq) /\ ~Numbered(Send(kind))
    BY <1>1, <2>1, CallsFormed DEF Numbered, Send, Call
  <2>3. CASE Calls(t, <<>>)
    BY <1>1, <2>1, <2>3, PoppedNumbers DEF TypeOK, deviceVars, configVars, lidarVars
  <2>4. CASE Calls(t, <<Send(kind)>>)
    <3> HIDE DEF kind
    <3> QED BY <1>1, <2>1, <2>2, <2>4, ReplacedNumbers DEF TypeOK, deviceVars
  <2> QED BY <2>1, <2>3, <2>4
<1> QED BY <1>2, <1>3, <1>4, <1>5, <1>6

\* A thread that was idle, and is given calls about commands that leave the
\* table, or about none.
LEMMA OneAnew ==
  ASSUME OneUse, NEW t \in Threads, DOMAIN todo[t] = {},
         \A u \in Threads : u # t => todo'[u] = todo[u],
         commands' \subseteq commands,
         \A k \in DOMAIN todo'[t] : Numbered(todo'[t][k]) =>
           /\ \E c \in commands \ commands' : todo'[t][k].seq = c.seq
           /\ \A j \in DOMAIN todo'[t] : todo'[t][j].seq = todo'[t][k].seq => j = k
  PROVE  OneUse'
<1>1. ASSUME NEW u \in Threads, NEW k \in DOMAIN todo'[u], Numbered(todo'[u][k])
      PROVE  /\ \A d \in commands' : d.seq # todo'[u][k].seq
             /\ \A w \in Threads : \A j \in DOMAIN todo'[w] :
                  Numbered(todo'[w][j]) /\ todo'[w][j].seq = todo'[u][k].seq
                    => w = u /\ j = k
  <2>1. CASE u = t
    <3>1. PICK c \in commands \ commands' : todo'[u][k].seq = c.seq
      BY <1>1, <2>1
    <3>2. \A d \in commands' : d.seq # c.seq
      BY <3>1 DEF OneUse
    <3>3. ASSUME NEW w \in Threads, NEW j \in DOMAIN todo'[w],
                 Numbered(todo'[w][j]), todo'[w][j].seq = c.seq
          PROVE  w = t
      BY <3>1, <3>3 DEF OneUse
    <3> QED BY <1>1, <2>1, <3>1, <3>2, <3>3
  <2>2. CASE u # t
    <3>1. todo'[u] = todo[u]
      BY <2>2
    <3>2. ASSUME NEW w \in Threads, NEW j \in DOMAIN todo'[w],
                 Numbered(todo'[w][j]), todo'[w][j].seq = todo'[u][k].seq
          PROVE  w = u /\ j = k
      <4>1. CASE w = t
        BY <1>1, <3>1, <3>2, <4>1 DEF OneUse
      <4>2. CASE w # t
        BY <1>1, <3>1, <3>2, <4>2 DEF OneUse
      <4> QED BY <4>1, <4>2
    <3> QED BY <1>1, <3>1, <3>2 DEF OneUse
  <2> QED BY <2>1, <2>2
<1> QED BY <1>1 DEF OneUse, Numbered

LEMMA ExpireNumbers ==
  ASSUME NumberInv, NEW t \in Threads, NEW expired \in SUBSET commands,
         Expire(t, expired)
  PROVE  NumberInv'
<1> DEFINE n == Cardinality(expired)
<1>1. TypeOK /\ OneUse /\ seq \in Nat /\ IsFiniteSet(commands) /\ Idle(t)
      /\ todo \in [Threads -> Seq(CallsUpTo(seq))]
  BY DEF NumberInv, TypeOK, Expire
<1>2. IsFiniteSet(expired) /\ n \in Nat
  BY <1>1, FS_Subset, FS_CardinalityType
<1>3. PICK order \in InOrder(expired) :
        todo' = [todo EXCEPT ![t] =
                   [k \in 1..n |-> Call("timeout", order[k].kind, order[k].seq)]]
  BY DEF Expire
<1> DEFINE l == [k \in 1..n |-> Call("timeout", order[k].kind, order[k].seq)]
<1>4. /\ \A k \in 1..n : order[k] \in expired
      /\ \A j, k \in 1..n : j < k => order[j].seq < order[k].seq
  BY <1>3 DEF InOrder
<1>5. /\ UNCHANGED <<deviceVars, seq, configVars, lidarVars>>
      /\ commands' = commands \ expired
  BY DEF Expire
<1>6. mishaps' \in 0..MaxMishaps
  <2>1. {c \in expired : InFlight(c)} \subseteq expired
    OBVIOUS
  <2>2. Cardinality({c \in expired : InFlight(c)}) \in Nat
    BY <1>2, <2>1, FS_Subset, FS_CardinalityType
  <2> DEFINE m == Cardinality({c \in expired : InFlight(c)})
  <2>3. mishaps + m <= MaxMishaps /\ mishaps' = mishaps + m /\ mishaps \in 0..MaxMishaps
    BY <1>1 DEF Expire, Mishap, TypeOK
  <2> HIDE DEF m
  <2> QED BY <2>2, <2>3, BoundAssumption, SMT DEF m
<1> HIDE DEF n
<1>7. \A k \in 1..n : /\ order[k].seq \in 1..seq /\ order[k].kind \in Kinds
                      /\ order[k] \in commands \ commands'
  BY <1>1, <1>4, <1>5, NumbersBelow
<1>8. \A k \in 1..n : l[k] = Call("timeout", order[k].kind, order[k].seq)
  OBVIOUS
<1>9. \A k \in 1..n : l[k] \in CallsUpTo(seq)
  BY <1>1, <1>7, CallsFormed
<1>10. DOMAIN l = 1..n /\ l = [k \in 1..n |-> l[k]]
  OBVIOUS
<1>11. todo' = [todo EXCEPT ![t] = l]
  BY <1>3 DEF n
<1> HIDE DEF l
<1>12. l \in Seq(CallsUpTo(seq))
  BY <1>2, <1>9, <1>10, SMT
<1>13. /\ todo' \in [Threads -> Seq(CallsUpTo(seq))]
       /\ \A u \in Threads : u # t => todo'[u] = todo[u]
       /\ todo'[t] = l /\ DOMAIN todo[t] = {}
  BY <1>1, <1>11, <1>12, CallsAnew
<1>14. \A k \in 1..n : l[k].seq = order[k].seq
  <2>1. \A kind, s : Call("timeout", kind, s).seq = s
    BY DEF Call
  <2> QED BY <1>8, <2>1
<1>15. \A j, k \in 1..n : l[j].seq = l[k].seq => j = k
  BY <1>2, <1>4, <1>7, <1>14, SMT
<1>16. OneUse'
  BY <1>1, <1>5, <1>7, <1>10, <1>13, <1>14, <1>15, OneAnew
<1>17. TypeOK'
  BY <1>1, <1>5, <1>6, <1>13 DEF TypeOK, deviceVars, configVars, lidarVars
<1>18. IsFiniteSet(commands')
  BY <1>1, <1>5, FS_Subset
<1> QED BY <1>16, <1>17, <1>18 DEF NumberInv

LEMMA DeliverNumbers ==
  ASSUME NumberInv, NEW a \in answers, Deliver(a)
  PROVE  NumberInv'
<1> DEFINE c == Request(a.seq, a.kind)
           done == Call(IF a.ok THEN "done" ELSE "refused", c.kind, c.seq)
<1>1. /\ TypeOK /\ OneUse /\ seq \in Nat /\ IsFiniteSet(commands) /\ Idle("cmd")
      /\ todo \in [Threads -> Seq(CallsUpTo(seq))] /\ "cmd" \in Threads
  BY ThreadAssumption DEF NumberInv, TypeOK, Deliver
<1>2. /\ UNCHANGED <<deviceVars, seq, configVars, requests, loader, applied, refused>>
      /\ answers' \subseteq answers
  BY DEF Deliver
<1>3. mishaps' \in 0..MaxMishaps
  <2>1. mishaps' = mishaps \/ (mishaps + 1 <= MaxMishaps /\ mishaps' = mishaps + 1)
    BY DEF Deliver, Mishap
  <2> QED BY <1>1, <2>1, BoundAssumption, SMT DEF TypeOK
<1>4. CASE c \in commands
  <2>1. commands' = commands \ {c} /\ todo' = [todo EXCEPT !["cmd"] = <<done>>]
    BY <1>4 DEF Deliver, Answered
  <2>2. c.seq \in 1..seq /\ c.kind \in Kinds
    BY <1>1, <1>4, NumbersBelow
  <2>3. done \in CallsUpTo(seq) /\ done.seq = c.seq
    BY <1>1, <2>2, CallsFormed DEF Call
  <2> HIDE DEF done, c
  <2> DEFINE l == <<done>>
  <2>4. l \in Seq(CallsUpTo(seq)) /\ DOMAIN l = {1} /\ l[1] = done
    BY <2>3, SMT
  <2> HIDE DEF l
  <2>5. /\ todo' \in [Threads -> Seq(CallsUpTo(seq))]
        /\ \A u \in Threads : u # "cmd" => todo'[u] = todo[u]
        /\ todo'["cmd"] = l /\ DOMAIN todo["cmd"] = {}
    BY <1>1, <2>1, <2>4, CallsAnew DEF l
  <2>6. OneUse'
    BY <1>1, <1>4, <2>1, <2>3, <2>4, <2>5, OneAnew
  <2>7. TypeOK'
    BY <1>1, <1>2, <1>3, <2>1, <2>5 DEF TypeOK, deviceVars, configVars
  <2>8. IsFiniteSet(commands')
    BY <1>1, <2>1, FS_Subset
  <2> QED BY <2>6, <2>7, <2>8 DEF NumberInv
<1>5. CASE c \notin commands
  <2>1. UNCHANGED <<commands, todo>>
    BY <1>5 DEF Deliver
  <2> QED BY <1>1, <1>2, <1>3, <2>1 DEF NumberInv, TypeOK, OneUse, deviceVars, configVars
<1> QED BY <1>4, <1>5

LEMMA DetectionNumbers ==
  ASSUME NumberInv, HandleDetectionData
  PROVE  NumberInv'
<1>1. /\ TypeOK /\ OneUse /\ seq \in Nat /\ Idle("det") /\ IsFiniteSet(commands)
      /\ todo \in [Threads -> Seq(CallsUpTo(seq))] /\ "det" \in Threads
  BY ThreadAssumption DEF NumberInv, TypeOK, HandleDetectionData
<1>2. /\ UNCHANGED <<fwFailures, seq, commands, configVars, lidarVars>>
      /\ device' \subseteq device \cup {"known"}
  BY DEF HandleDetectionData
<1>3. mishaps' \in 0..MaxMishaps
  <2>1. \/ mishaps' = mishaps
        \/ mishaps + 0 <= MaxMishaps /\ mishaps' = mishaps + 0
        \/ mishaps + 1 <= MaxMishaps /\ mishaps' = mishaps + 1
    BY DEF HandleDetectionData, Mishap
  <2> QED BY <1>1, <2>1, BoundAssumption, SMT DEF TypeOK
<1>4. PICK l \in Seq(CallsUpTo(seq)) :
        /\ todo' = [todo EXCEPT !["det"] = l]
        /\ \A k \in DOMAIN l : ~Numbered(l[k])
  <2>1. \E x, y \in {<<>>, <<Send("fwType")>>, <<Send("hostCfg")>>,
                     <<Call("infoChange", "hostCfg", 0)>>} :
          todo' = [todo EXCEPT !["det"] = x \o y]
    <3>1. CASE todo' = [todo EXCEPT !["det"] = QueryFwType]
      <4>1. QueryFwType = QueryFwType \o <<>>
        BY SMT DEF QueryFwType
      <4> QED BY <3>1, <4>1 DEF QueryFwType
    <3>2. CASE "known" \in device
      BY <3>2 DEF HandleDetectionData
    <3> QED BY <3>1, <3>2 DEF HandleDetectionData
  <2>2. PICK x, y \in {<<>>, <<Send("fwType")>>, <<Send("hostCfg")>>,
                       <<Call("infoChange", "hostCfg", 0)>>} :
          todo' = [todo EXCEPT !["det"] = x \o y]
    BY <2>1
  <2>3. \A z \in {<<>>, <<Send("fwType")>>, <<Send("hostCfg")>>,
                  <<Call("infoChange", "hostCfg", 0)>>} :
          z \in Seq({c \in CallsUpTo(seq) : ~Numbered(c)})
    <3>1. \A c \in {Send("fwType"), Send("hostCfg"), Call("infoChange", "hostCfg", 0)} :
            c \in CallsUpTo(seq) /\ ~Numbered(c)
      BY <1>1, CallsFormed DEF Kinds, Numbered, Call, Send
    <3> DEFINE Q == {c \in CallsUpTo(seq) : ~Numbered(c)}
    <3>2. /\ Send("fwType") \in Q /\ Send("hostCfg") \in Q
          /\ Call("infoChange", "hostCfg", 0) \in Q
      BY <3>1
    <3> HIDE DEF Q
    <3>3. /\ <<Send("fwType")>> \in Seq(Q) /\ <<Send("hostCfg")>> \in Seq(Q)
          /\ <<Call("infoChange", "hostCfg", 0)>> \in Seq(Q) /\ <<>> \in Seq(Q)
      BY <3>2
    <3> QED BY <3>3 DEF Q
  <2> DEFINE Q == {c \in CallsUpTo(seq) : ~Numbered(c)}
             l == x \o y
  <2>4. l \in Seq(Q)
    BY <2>3, ConcatProperties
  <2> HIDE DEF l
  <2>5. \A k \in DOMAIN l : l[k] \in Q
    BY <2>4, ElementOfSeq, LenProperties
  <2>6. l \in Seq(CallsUpTo(seq))
    BY <2>4, <2>5, SeqDef, LenProperties
  <2> QED BY <2>2, <2>5, <2>6 DEF l
<1>5. /\ todo' \in [Threads -> Seq(CallsUpTo(seq))]
      /\ \A u \in Threads : u # "det" => todo'[u] = todo[u]
      /\ todo'["det"] = l /\ DOMAIN todo["det"] = {}
  BY <1>1, <1>4, CallsAnew
<1>6. OneUse'
  BY <1>1, <1>2, <1>4, <1>5, OneAnew
<1>7. TypeOK'
  <2>1. device' \subseteq {"known", "fwKnown", "loaderMode", "customised", "updated",
                           "called"}
    BY <1>1, <1>2 DEF TypeOK
  <2> QED BY <1>1, <1>2, <1>3, <1>5, <2>1 DEF TypeOK, configVars, lidarVars
<1> QED BY <1>1, <1>2, <1>6, <1>7 DEF NumberInv

LEMMA NetworkNumbers ==
  ASSUME NumberInv, Serve \/ Lose
  PROVE  NumberInv'
<1>1. TypeOK /\ OneUse /\ IsFiniteSet(commands)
  BY DEF NumberInv
<1>2. UNCHANGED <<deviceVars, seq, commands, todo, configVars, loader>>
  BY DEF Serve, Lose
<1>3. mishaps' \in 0..MaxMishaps
  <2>1. mishaps' = mishaps \/ (mishaps + 1 <= MaxMishaps /\ mishaps' = mishaps + 1)
    BY DEF Serve, Lose, Mishap
  <2> QED BY <1>1, <2>1, BoundAssumption, SMT DEF TypeOK
<1>4. /\ requests' \subseteq [seq : 1..seq, kind : Kinds]
      /\ answers' \subseteq [seq : 1..seq, kind : Kinds, ok : BOOLEAN]
      /\ applied' \subseteq Kinds /\ refused' \subseteq Kinds
  <2>1. CASE Serve
    <3>1. PICK r \in requests, ok \in BOOLEAN :
            /\ requests' = requests \ {r}
            /\ answers' = answers \cup {[seq |-> r.seq, kind |-> r.kind, ok |-> ok]}
            /\ applied' \subseteq applied \cup {r.kind}
            /\ refused' \subseteq refused \cup {r.kind}
      BY <2>1 DEF Serve
    <3>2. r.seq \in 1..seq /\ r.kind \in Kinds
      BY <1>1 DEF TypeOK
    <3>3. [seq |-> r.seq, kind |-> r.kind, ok |-> ok]
            \in [seq : 1..seq, kind : Kinds, ok : BOOLEAN]
      BY <3>2
    <3> QED BY <1>1, <3>1, <3>2, <3>3 DEF TypeOK
  <2>2. CASE Lose
    BY <1>1, <2>2 DEF Lose, TypeOK
  <2> QED BY <2>1, <2>2
<1>5. TypeOK'
  BY <1>1, <1>2, <1>3, <1>4 DEF TypeOK, deviceVars, configVars
<1>6. OneUse'
  BY <1>1, <1>2 DEF OneUse
<1> QED BY <1>1, <1>2, <1>5, <1>6 DEF NumberInv

\* Types, and the use of numbers, hold in every state.
LEMMA NumberStep == NumberInv /\ [Next]_vars => NumberInv'
<1> SUFFICES ASSUME NumberInv, [Next]_vars PROVE NumberInv'
  OBVIOUS
<1>1. ASSUME NEW t \in Threads, Step(t) PROVE NumberInv'
  <2>1. CASE SendFirst(t) BY <2>1, SendFirstNumbers
  <2>2. CASE AddCommand(t) BY <2>2, AddCommandNumbers
  <2>3. CASE AddFirst(t) BY <2>3, AddFirstNumbers
  <2>4. CASE QueryFwTypeCallback(t) BY <2>4, QueryFwTypeNumbers
  <2>5. CASE UpdateLidarCallback(t) BY <2>5, UpdateLidarNumbers
  <2>6. CASE LivoxLidarInfoChange(t) BY <2>6, InfoChangeNumbers
  <2>7. CASE \/ LockConfig(t) \/ SetBit(t) \/ UnlockConfig(t)
             \/ SettingAnswered(t) \/ OthersAnswered(t) \/ CommandTimedOut(t)
    BY <2>7, CallbackNumbers
  <2> QED BY <1>1, <2>1, <2>2, <2>3, <2>4, <2>5, <2>6, <2>7 DEF Step
<1>2. CASE \E t \in Threads, expired \in SUBSET commands : Expire(t, expired)
  BY <1>2, ExpireNumbers
<1>3. CASE \E a \in answers : Deliver(a)
  BY <1>3, DeliverNumbers
<1>4. CASE HandleDetectionData
  BY <1>4, DetectionNumbers
<1>5. CASE Serve \/ Lose
  BY <1>5, NetworkNumbers
<1>6. CASE UNCHANGED vars
  BY <1>6 DEF vars, deviceVars, configVars, lidarVars, NumberInv, TypeOK, OneUse
<1> QED BY <1>1, <1>2, <1>3, <1>4, <1>5, <1>6 DEF Next

LEMMA NumbersKept == Spec => []NumberInv
<1>1. NumberInv /\ [Next]_vars => NumberInv'
  BY NumberStep
<1> QED BY NumberInit, <1>1, PTL DEF Spec

\* The state of the devices, of the command table, of what each thread has to
\* call and of the lidar stays in its types: every call a thread has still to
\* make is of a form the code makes, and carries a number given out before.
THEOREM TypeCorrect == Spec => []TypeOK
<1>1. NumberInv => TypeOK
  BY DEF NumberInv
<1> QED BY NumbersKept, <1>1, PTL

\* A command has one outcome: the answer or the timeout takes it out of the
\* table before its callback is called, in whichever thread that is, so that
\* none is left to the others.
THEOREM OneOutcomeHolds == Spec => []OneOutcome
<1>1. NumberInv => OneOutcome
  BY DEF NumberInv, OneUse, OneOutcome, Outcomes, Numbered
<1> QED BY NumbersKept, <1>1, PTL

-----------------------------------------------------------------------------
(* Settings are answered before the lidar is sampling *)

\* The driver has made its callback, and it has taken the lock.
UnderWay == "called" \in device /\ NoLock

\* A call that makes no other keeps the invariant when a command for a setting
\* stays under way, the bits change as the call says, and the lock is held by
\* one thread.
LEMMA PoppedSettings ==
  ASSUME SettingInv, NEW t \in Threads, 1 \in DOMAIN todo[t], Popped(t), NumberInv',
         \A r \in requests' \cup answers' \cup commands' : r.kind \in Bits => UnderWay,
         answers' \subseteq answers, applied' = applied, refused' = refused,
         "known" \in device => "known" \in device',
         "called" \in device' <=> "called" \in device,
         \/ config_mutex_' = config_mutex_ /\ todo[t][1].op # "lock"
         \/ config_mutex_' = t /\ todo[t][1].op = "lock"
         \/ todo[t][1].op = "unlock",
         \A b \in Bits :
           b \in set_bits \/ (todo[t][1].op = "setBit" /\ todo[t][1].kind = b)
             => b \in set_bits' \cup applied \cup refused,
         sampling' => sampling \/ Bits \subseteq applied \cup refused
  PROVE  SettingInv'
<1> DEFINE At(u, j) == IF u = t THEN j + 1 ELSE j
<1> USE DEF LockOps
<1>1. /\ \A u \in Threads : \A j \in DOMAIN todo'[u] :
           At(u, j) \in DOMAIN todo[u] /\ todo'[u][j] = todo[u][At(u, j)]
      /\ \A u \in Threads : u # t => todo'[u] = todo[u]
      /\ \A j \in DOMAIN todo'[t] : At(t, j) # 1 /\ j \in Nat \ {0} /\ At(t, j) = j + 1
      /\ \A u \in Threads : \A j : u # t => At(u, j) = j
  BY SMT DEF Popped
<1>2. \A u \in Threads : \A j \in DOMAIN todo[u] : todo[u][j].op = "lock" => j = 1
  BY DEF SettingInv, InTheirOrder
<1> HIDE DEF At
<1>3. "known" \in device
  BY DEF SettingInv, UnknownIsNew, Idle
<1>4. UnknownIsNew'
  BY <1>3 DEF UnknownIsNew
<1>5. NothingBefore'
  BY <1>1 DEF SettingInv, NothingBefore, UnderWay
<1>6. OneCallback'
  BY <1>1 DEF SettingInv, OneCallback
<1>7. InTheirOrder'
  <2>1. ASSUME NEW u \in Threads, NEW k \in DOMAIN todo'[u]
        PROVE  /\ todo'[u][k].op = "lock" => k = 1
               /\ todo'[u][k].op = "setBit" =>
                    \A j \in DOMAIN todo'[u] : todo'[u][j].op = "unlock" => k < j
    <3>1. CASE u = t
      <4>1. todo'[u][k].op # "lock"
        BY <1>1, <1>2, <3>1
      <4>2. ASSUME todo'[u][k].op = "setBit", NEW j \in DOMAIN todo'[u],
                   todo'[u][j].op = "unlock"
            PROVE  k < j
        <5>1. At(u, k) < At(u, j)
          BY <1>1, <4>2 DEF SettingInv, InTheirOrder
        <5> QED BY <1>1, <3>1, <5>1, SMT
      <4> QED BY <4>1, <4>2
    <3>2. CASE u # t
      BY <1>1, <3>2 DEF SettingInv, InTheirOrder
    <3> QED BY <3>1, <3>2
  <2> QED BY <2>1 DEF InTheirOrder
<1>8. BitsUnderLock'
  <2>1. ASSUME NEW u \in Threads, NEW k \in DOMAIN todo'[u], todo'[u][k].op = "setBit"
        PROVE  config_mutex_' = u \/ todo'[u][1].op = "lock"
    <3>1. At(u, k) \in DOMAIN todo[u] /\ todo[u][At(u, k)].op = "setBit"
      BY <1>1, <2>1
    <3>2. config_mutex_ = u \/ todo[u][1].op = "lock"
      BY <3>1 DEF SettingInv, BitsUnderLock
    <3>3. CASE config_mutex_' = config_mutex_ /\ todo[t][1].op # "lock"
      BY <1>1, <3>2, <3>3
    <3>4. CASE config_mutex_' = t /\ todo[t][1].op = "lock"
      BY <3>1, <3>4 DEF SettingInv, OneCallback
    <3>5. CASE todo[t][1].op = "unlock"
      <4>1. u = t
        BY <3>1, <3>5 DEF SettingInv, OneCallback
      <4>2. At(u, k) < 1
        BY <3>1, <3>5, <4>1 DEF SettingInv, InTheirOrder
      <4> QED BY <1>1, <2>1, <4>1, <4>2, SMT
    <3> QED BY <3>3, <3>4, <3>5
  <2> QED BY <2>1 DEF BitsUnderLock
<1>9. UnderWay => NoLock'
  BY <1>1 DEF UnderWay, NoLock
<1>10. SentAfterLock'
  <2>1. \A r \in requests' \cup answers' \cup commands' : r.kind \in Bits => NoLock'
    BY <1>9
  <2>2. ASSUME NEW u \in Threads, NEW k \in DOMAIN todo'[u], todo'[u][k].kind \in Bits
        PROVE  /\ Numbered(todo'[u][k]) => NoLock'
               /\ todo'[u][k].op = "send" =>
                    \A w \in Threads : \A j \in DOMAIN todo'[w] :
                      todo'[w][j].op = "lock" => w = u /\ j < k
    <3>1. At(u, k) \in DOMAIN todo[u] /\ todo'[u][k] = todo[u][At(u, k)]
      BY <1>1
    <3>2. Numbered(todo'[u][k]) => NoLock'
      BY <1>1, <2>2, <3>1 DEF SettingInv, SentAfterLock, NoLock
    <3>3. ASSUME todo'[u][k].op = "send", NEW w \in Threads, NEW j \in DOMAIN todo'[w],
                 todo'[w][j].op = "lock"
          PROVE  w = u /\ j < k
      <4>1. At(w, j) \in DOMAIN todo[w] /\ todo[w][At(w, j)].op = "lock"
        BY <1>1, <3>3
      <4>2. w # t
        BY <1>1, <1>2, <4>1
      <4>3. w = u /\ At(w, j) < At(u, k)
        BY <2>2, <3>1, <3>3, <4>1 DEF SettingInv, SentAfterLock
      <4> QED BY <1>1, <4>2, <4>3
    <3> QED BY <3>2, <3>3
  <2> QED BY <2>1, <2>2 DEF SentAfterLock, Numbered, NoLock
<1>11. AnswersReal'
  BY <1>1 DEF SettingInv, AnswersReal, Outcomes
<1>12. BitsTell'
  <2>1. ASSUME "called" \in device', NEW b \in Bits, ~Pending(b)'
        PROVE  b \in set_bits' \cup applied' \cup refused'
    <3>1. Pending(b) \/ b \in set_bits \cup applied \cup refused
      BY <2>1 DEF SettingInv, BitsTell
    <3>2. CASE Pending(b)
      <4>1. PICK u \in Threads : \E k \in DOMAIN todo[u] :
              todo[u][k].op = "setBit" /\ todo[u][k].kind = b
        BY <3>2 DEF Pending
      <4>2. PICK k \in DOMAIN todo[u] : todo[u][k].op = "setBit" /\ todo[u][k].kind = b
        BY <4>1
      <4>3. u = t /\ k = 1
        <5>1. u = t
          BY <1>1, <2>1, <4>2 DEF Pending
        <5>2. SUFFICES ASSUME k # 1 PROVE FALSE
          BY <5>1
        <5>3. k - 1 \in DOMAIN todo'[t] /\ todo'[t][k - 1] = todo[t][k]
          BY <4>2, <5>1, <5>2 DEF Popped
        <5> QED BY <2>1, <4>2, <5>1, <5>3 DEF Pending
      <4> QED BY <4>2, <4>3
    <3> QED BY <3>1, <3>2
  <2> QED BY <2>1 DEF BitsTell, Pending
<1>13. SamplingConfigured'
  BY DEF SettingInv, SamplingConfigured
<1> QED BY <1>4, <1>5, <1>6, <1>7, <1>8, <1>10, <1>11, <1>12, <1>13 DEF SettingInv

\* A call that makes one other keeps it, too, when that one is about a setting
\* only under way.
LEMMA ReplacedSettings ==
  ASSUME SettingInv, NEW t \in Threads, 1 \in DOMAIN todo[t], NEW c, Replaced(t, c),
         NumberInv', todo[t][1].op \notin LockOps, c.op \notin LockOps,
         c.op \notin {"done", "refused"}, c.kind \in Bits => UnderWay,
         \A r \in requests' : r \in requests \/ (r.kind \in Bits => UnderWay),
         commands' = commands, answers' = answers, applied' = applied, refused' = refused,
         "known" \in device => "known" \in device',
         "called" \in device' <=> "called" \in device,
         UNCHANGED configVars
  PROVE  SettingInv'
<1> USE DEF LockOps
<1>1. \A u \in Threads : \A j \in DOMAIN todo'[u] :
        /\ j \in DOMAIN todo[u]
        /\ todo'[u][j] = IF u = t /\ j = 1 THEN c ELSE todo[u][j]
  BY DEF Replaced
<1>2. \A u \in Threads : \A j \in DOMAIN todo'[u] :
        todo'[u][j].op \in LockOps => todo'[u][j] = todo[u][j]
  BY <1>1
<1>3. "known" \in device
  BY DEF SettingInv, UnknownIsNew, Idle
<1>4. UnknownIsNew'
  BY <1>3 DEF UnknownIsNew
<1>5. NothingBefore'
  BY <1>1 DEF SettingInv, NothingBefore, UnderWay
<1>6. OneCallback'
  BY <1>1, <1>2 DEF SettingInv, OneCallback
<1>7. InTheirOrder'
  BY <1>1, <1>2 DEF SettingInv, InTheirOrder
<1>8. BitsUnderLock'
  <2>1. ASSUME NEW u \in Threads, NEW k \in DOMAIN todo'[u], todo'[u][k].op = "setBit"
        PROVE  config_mutex_' = u \/ todo'[u][1].op = "lock"
    <3>1. config_mutex_ = u \/ todo[u][1].op = "lock"
      BY <1>1, <1>2, <2>1 DEF SettingInv, BitsUnderLock
    <3>2. CASE u = t
      BY <3>1, <3>2 DEF configVars
    <3>3. CASE u # t
      <4>1. 1 \in DOMAIN todo[u] => todo'[u][1] = todo[u][1]
        BY <3>3 DEF Replaced
      <4>2. CASE todo[u][1].op = "lock"
        <5>1. todo[u] \in Seq(CallsUpTo(seq)) /\ k \in DOMAIN todo[u]
          BY <1>1, <2>1 DEF SettingInv, NumberInv, TypeOK
        <5>2. 1 \in DOMAIN todo[u]
          BY <5>1, LenProperties, SMT
        <5> QED BY <4>1, <4>2, <5>2
      <4> QED BY <3>1, <4>2 DEF configVars
    <3> QED BY <3>2, <3>3
  <2> QED BY <2>1 DEF BitsUnderLock
<1>9. NoLock => NoLock'
  BY <1>1, <1>2 DEF NoLock
<1>10. SentAfterLock'
  <2>1. \A r \in requests' \cup answers' \cup commands' : r.kind \in Bits => NoLock'
    BY <1>9 DEF SettingInv, SentAfterLock, UnderWay
  <2>2. ASSUME NEW u \in Threads, NEW k \in DOMAIN todo'[u], todo'[u][k].kind \in Bits
        PROVE  /\ Numbered(todo'[u][k]) => NoLock'
               /\ todo'[u][k].op = "send" =>
                    \A w \in Threads : \A j \in DOMAIN todo'[w] :
                      todo'[w][j].op = "lock" => w = u /\ j < k
    <3>1. CASE u = t /\ k = 1
      <4>1. todo'[u][k] = c
        BY <1>1, <2>2, <3>1
      <4>2. NoLock'
        BY <1>9, <2>2, <4>1 DEF UnderWay
      <4> QED BY <4>2 DEF NoLock
    <3>2. CASE ~(u = t /\ k = 1)
      <4>1. k \in DOMAIN todo[u] /\ todo'[u][k] = todo[u][k]
        BY <1>1, <2>2, <3>2
      <4>2. Numbered(todo'[u][k]) => NoLock'
        BY <1>9, <2>2, <4>1 DEF SettingInv, SentAfterLock
      <4> QED BY <1>1, <1>2, <2>2, <4>1, <4>2 DEF SettingInv, SentAfterLock
    <3> QED BY <3>1, <3>2
  <2> QED BY <2>1, <2>2 DEF SentAfterLock, Numbered, NoLock
<1>11. AnswersReal'
  BY <1>1 DEF SettingInv, AnswersReal, Outcomes
<1>12. BitsTell'
  <2>1. ASSUME NEW b \in Bits, Pending(b) PROVE Pending(b)'
    <3>1. PICK u \in Threads : \E k \in DOMAIN todo[u] :
            todo[u][k].op = "setBit" /\ todo[u][k].kind = b
      BY <2>1 DEF Pending
    <3>2. PICK k \in DOMAIN todo[u] : todo[u][k].op = "setBit" /\ todo[u][k].kind = b
      BY <3>1
    <3>3. k \in DOMAIN todo'[u] /\ todo'[u][k] = todo[u][k]
      BY <3>2 DEF Replaced
    <3> QED BY <3>2, <3>3 DEF Pending
  <2> QED BY <2>1 DEF SettingInv, BitsTell, configVars
<1>13. SamplingConfigured'
  BY DEF SettingInv, SamplingConfigured, configVars
<1> QED BY <1>4, <1>5, <1>6, <1>7, <1>8, <1>10, <1>11, <1>12, <1>13 DEF SettingInv

\* So does a thread that was idle.
LEMMA AnewSettings ==
  ASSUME SettingInv, NEW t \in Threads, DOMAIN todo[t] = {}, NumberInv',
         \A u \in Threads : u # t => todo'[u] = todo[u],
         \A k \in DOMAIN todo'[t] :
           /\ todo'[t][k].op \notin LockOps
           /\ todo'[t][k].kind \in Bits => UnderWay
           /\ todo'[t][k].op \in {"done", "refused"}
                => todo'[t][k].kind \in applied \cup refused,
         requests' = requests, commands' \subseteq commands, answers' \subseteq answers,
         applied' = applied, refused' = refused, "known" \in device',
         "called" \in device' <=> "called" \in device,
         UNCHANGED configVars
  PROVE  SettingInv'
<1> USE DEF LockOps
<1>1. \A u \in Threads : \A j \in DOMAIN todo'[u] :
        todo'[u][j].op \in LockOps => u # t /\ todo'[u] = todo[u]
  BY DEF LockOps
<1>2. UnknownIsNew'
  BY DEF UnknownIsNew
<1>3. NothingBefore'
  BY DEF SettingInv, NothingBefore, UnderWay
<1>4. OneCallback'
  BY <1>1 DEF SettingInv, OneCallback
<1>5. InTheirOrder'
  BY <1>1 DEF SettingInv, InTheirOrder
<1>6. BitsUnderLock'
  BY <1>1 DEF SettingInv, BitsUnderLock, configVars
<1>7. NoLock => NoLock'
  BY <1>1 DEF NoLock
<1>8. SentAfterLock'
  <2>1. \A r \in requests' \cup answers' \cup commands' : r.kind \in Bits => NoLock'
    BY <1>7 DEF SettingInv, SentAfterLock
  <2>2. ASSUME NEW u \in Threads, NEW k \in DOMAIN todo'[u], todo'[u][k].kind \in Bits
        PROVE  /\ Numbered(todo'[u][k]) => NoLock'
               /\ todo'[u][k].op = "send" =>
                    \A w \in Threads : \A j \in DOMAIN todo'[w] :
                      todo'[w][j].op = "lock" => w = u /\ j < k
    <3>1. CASE u = t
      <4>1. NoLock'
        BY <1>7, <2>2, <3>1 DEF UnderWay
      <4> QED BY <4>1 DEF NoLock
    <3>2. CASE u # t
      BY <1>1, <1>7, <2>2, <3>2 DEF SettingInv, SentAfterLock
    <3> QED BY <3>1, <3>2
  <2> QED BY <2>1, <2>2 DEF SentAfterLock, Numbered, NoLock
<1>9. AnswersReal'
  <2>1. \A a \in answers' : a.kind \in applied' \cup refused'
    BY DEF SettingInv, AnswersReal
  <2>2. ASSUME NEW u \in Threads, NEW k \in Outcomes(u)', todo'[u][k].op # "timeout"
        PROVE  todo'[u][k].kind \in applied' \cup refused'
    BY <2>2 DEF SettingInv, AnswersReal, Outcomes
  <2> QED BY <2>1, <2>2 DEF AnswersReal
<1>10. BitsTell'
  <2>1. ASSUME NEW b \in Bits, Pending(b) PROVE Pending(b)'
    BY <2>1 DEF Pending
  <2> QED BY <2>1 DEF SettingInv, BitsTell, configVars
<1>11. SamplingConfigured'
  BY DEF SettingInv, SamplingConfigured, configVars
<1> QED BY <1>2, <1>3, <1>4, <1>5, <1>6, <1>8, <1>9, <1>10, <1>11 DEF SettingInv

\* The first call of a list, and what it may be about.
LEMMA FirstCall ==
  ASSUME SettingInv, NEW t \in Threads, ~Idle(t)
  PROVE  /\ todo \in [Threads -> Seq(CallsUpTo(seq))] /\ seq \in Nat
         /\ 1 \in DOMAIN todo[t] /\ Head(todo[t]) = todo[t][1]
         /\ todo[t][1] \in CallsUpTo(seq)
         /\ todo[t][1].kind \in Bits /\ todo[t][1].op # "setBit" => UnderWay
         /\ \A r \in requests \cup answers \cup commands : r.kind \in Bits => UnderWay
         /\ "known" \in device
<1>1. /\ todo \in [Threads -> Seq(CallsUpTo(seq))] /\ seq \in Nat
  BY DEF SettingInv, NumberInv, TypeOK
<1>2. todo[t] \in Seq(CallsUpTo(seq)) /\ todo[t] # <<>>
  BY <1>1 DEF Idle
<1>3. 1 \in DOMAIN todo[t] /\ Head(todo[t]) = todo[t][1]
  BY <1>2, LenProperties, SMT
<1>4. todo[t][1] \in CallsUpTo(seq)
  BY <1>2, <1>3, ElementOfSeq, LenProperties
<1>5. "all" \notin Bits /\ "hostCfg" \notin Bits
  BY KindsApart
<1>6. ASSUME todo[t][1].kind \in Bits, todo[t][1].op # "setBit" PROVE UnderWay
  <2>1. "called" \in device
    BY <1>3, <1>6 DEF SettingInv, NothingBefore
  <2>2. Numbered(todo[t][1]) \/ todo[t][1].op = "send"
    BY <1>1, <1>4, <1>5, <1>6, CallForms
  <2>3. CASE Numbered(todo[t][1])
    BY <1>3, <1>6, <2>1, <2>3 DEF SettingInv, SentAfterLock, UnderWay
  <2>4. CASE todo[t][1].op = "send"
    <3>1. \A u \in Threads : \A j \in DOMAIN todo[u] :
            todo[u][j].op = "lock" => j = 1 /\ j < 1
      BY <1>3, <1>6, <2>4 DEF SettingInv, SentAfterLock, InTheirOrder
    <3>2. NoLock
      BY <3>1, SMT DEF NoLock
    <3> QED BY <2>1, <3>2 DEF UnderWay
  <2> QED BY <2>2, <2>3, <2>4
<1>7. \A r \in requests \cup answers \cup commands : r.kind \in Bits => UnderWay
  BY DEF SettingInv, NothingBefore, SentAfterLock, UnderWay
<1>8. "known" \in device
  BY DEF SettingInv, UnknownIsNew
<1> QED BY <1>1, <1>3, <1>4, <1>6, <1>7, <1>8

LEMMA SendingSettings ==
  ASSUME SettingInv, NumberInv', NEW t \in Threads,
         SendFirst(t) \/ AddCommand(t) \/ AddFirst(t)
  PROVE  SettingInv'
<1> DEFINE h == todo[t][1]
<1>1. ~Idle(t)
  BY DEF SendFirst, AddCommand, AddFirst, Makes
<1>2. /\ todo \in [Threads -> Seq(CallsUpTo(seq))] /\ seq \in Nat
      /\ 1 \in DOMAIN todo[t] /\ Head(todo[t]) = h
      /\ h.kind \in Bits /\ h.op # "setBit" => UnderWay
      /\ \A r \in requests \cup answers \cup commands : r.kind \in Bits => UnderWay
  BY <1>1, FirstCall
<1>3. CASE SendFirst(t)
  <2> DEFINE c == Call("add", h.kind, seq + 1)
  <2>1. h.op = "send" /\ seq' = seq + 1 /\ Calls(t, <<c>>)
    BY <1>2, <1>3 DEF SendFirst, Makes, GetSeq
  <2>2. todo \in [Threads -> Seq(CallsUpTo(seq + 1))] /\ h \in CallsUpTo(seq)
    BY <1>1, <1>2, FirstCall, ListsGrow, SMT
  <2>3. c \in CallsUpTo(seq + 1)
    <3>1. h.kind \in Kinds
      BY <1>2, <2>1, <2>2, CallForms
    <3> QED BY <1>2, <3>1, CallsFormed, SMT
  <2>4. c.op = "add" /\ c.kind = h.kind
    BY DEF Call
  <2>5. \A r \in requests' : r \in requests \/ r.kind = h.kind
    BY <1>2, <1>3 DEF SendFirst, Request
  <2>6. UNCHANGED <<deviceVars, commands, configVars, answers, applied, refused>>
    BY <1>3 DEF SendFirst
  <2> HIDE DEF c, h
  <2>7. Replaced(t, c)
    BY <1>1, <2>1, <2>2, <2>3, CallsOne
  <2> QED BY <1>2, <2>1, <2>4, <2>5, <2>6, <2>7, ReplacedSettings DEF h, LockOps, deviceVars
<1>4. CASE AddCommand(t)
  <2>1. h.op = "add" /\ Calls(t, <<>>)
        /\ commands' = commands \cup {Request(h.seq, h.kind)}
    BY <1>2, <1>4 DEF AddCommand, Makes
  <2>2. UNCHANGED <<deviceVars, seq, configVars, lidarVars, mishaps>>
    BY <1>4 DEF AddCommand
  <2>3. \A r \in requests' \cup answers' \cup commands' : r.kind \in Bits => UnderWay
    BY <1>2, <2>1, <2>2 DEF Request, lidarVars
  <2>4. Popped(t)
    BY <1>1, <1>2, <2>1, CallsNone
  <2> HIDE DEF h
  <2> QED BY <1>2, <2>1, <2>2, <2>3, <2>4, PoppedSettings DEF h, deviceVars, configVars, lidarVars
<1>5. CASE AddFirst(t)
  <2>1. h.op = "send" /\ Calls(t, <<>>)
        /\ commands' = commands \cup {Request(seq', "hostCfg")}
        /\ requests' = requests \cup {Request(seq', "hostCfg")}
    BY <1>2, <1>5 DEF AddFirst, Makes
  <2>2. UNCHANGED <<deviceVars, configVars, answers, applied, refused>>
    BY <1>5 DEF AddFirst
  <2>3. \A r \in requests' \cup answers' \cup commands' : r.kind \in Bits => UnderWay
    <3>1. Request(seq', "hostCfg").kind \notin Bits
      BY KindsApart DEF Request
    <3> QED BY <1>2, <2>1, <2>2, <3>1
  <2>4. Popped(t)
    BY <1>1, <1>2, <2>1, CallsNone
  <2> HIDE DEF h
  <2> QED BY <1>2, <2>1, <2>2, <2>3, <2>4, PoppedSettings DEF h, deviceVars, configVars
<1> QED BY <1>3, <1>4, <1>5

\* The callbacks that have to do with the devices, and no setting.
LEMMA DeviceSettings ==
  ASSUME SettingInv, NumberInv', NEW t \in Threads,
         \/ QueryFwTypeCallback(t) \/ UpdateLidarCallback(t)
         \/ OthersAnswered(t) \/ CommandTimedOut(t)
         \/ LivoxLidarInfoChange(t) /\ "called" \in device
  PROVE  SettingInv'
<1> DEFINE h == todo[t][1]
<1>1. ~Idle(t)
  BY DEF QueryFwTypeCallback, UpdateLidarCallback, OthersAnswered, CommandTimedOut,
         LivoxLidarInfoChange, Now, Makes
<1>2. /\ todo \in [Threads -> Seq(CallsUpTo(seq))] /\ seq \in Nat
      /\ 1 \in DOMAIN todo[t] /\ Head(todo[t]) = h
      /\ h.kind \in Bits /\ h.op # "setBit" => UnderWay
      /\ \A r \in requests \cup answers \cup commands : r.kind \in Bits => UnderWay
  BY <1>1, FirstCall
<1>3. h.op \in {"done", "refused", "timeout", "infoChange"}
  BY <1>2 DEF QueryFwTypeCallback, UpdateLidarCallback, OthersAnswered, CommandTimedOut,
              LivoxLidarInfoChange, Now, Makes
<1>4. UNCHANGED <<seq, commands, configVars, lidarVars, mishaps>>
  BY DEF QueryFwTypeCallback, UpdateLidarCallback, OthersAnswered, CommandTimedOut,
         LivoxLidarInfoChange
<1>5. /\ "known" \in device => "known" \in device'
      /\ "called" \in device' <=> "called" \in device
  BY DEF QueryFwTypeCallback, FwTypeGivenUp, FwTypeFailed, FwTypeGot, UpdateLidarCallback,
         OthersAnswered, CommandTimedOut, LivoxLidarInfoChange, deviceVars
<1>6. \/ Calls(t, <<>>)
      \/ \E c \in {Send("fwType"), Call("infoChange", "hostCfg", 0)} : Calls(t, <<c>>)
      \/ h.kind \in Kinds /\ Calls(t, <<Send(h.kind)>>)
  <2>1. CASE QueryFwTypeCallback(t)
    BY <2>1 DEF QueryFwTypeCallback, FwTypeGivenUp, FwTypeFailed, FwTypeGot, QueryFwType
  <2>2. CASE UpdateLidarCallback(t)
    BY <2>2 DEF UpdateLidarCallback
  <2>3. CASE OthersAnswered(t) \/ (LivoxLidarInfoChange(t) /\ "called" \in device)
    BY <2>3 DEF OthersAnswered, LivoxLidarInfoChange
  <2>4. CASE CommandTimedOut(t)
    BY <1>2, <2>4 DEF CommandTimedOut, Now
  <2> QED BY <2>1, <2>2, <2>3, <2>4
<1>7. CASE Calls(t, <<>>)
  <2>1. Popped(t)
    BY <1>1, <1>2, <1>7, CallsNone
  <2> HIDE DEF h
  <2>2. \A r \in requests' \cup answers' \cup commands' : r.kind \in Bits => UnderWay
    BY <1>2, <1>4 DEF lidarVars
  <2> QED BY <1>2, <1>3, <1>4, <1>5, <2>1, <2>2, PoppedSettings DEF h, configVars, lidarVars
<1>8. ASSUME NEW c \in CallsUpTo(seq), Calls(t, <<c>>), c.op \in {"send", "infoChange"},
             c.kind \in Bits => UnderWay
      PROVE  SettingInv'
  <2>1. Replaced(t, c)
    BY <1>1, <1>2, <1>8, CallsOne
  <2> HIDE DEF h
  <2> QED BY <1>2, <1>3, <1>4, <1>5, <1>8, <2>1, ReplacedSettings DEF h, lidarVars, LockOps
<1>9. CASE \E c \in {Send("fwType"), Call("infoChange", "hostCfg", 0)} : Calls(t, <<c>>)
  <2>1. PICK c \in {Send("fwType"), Call("infoChange", "hostCfg", 0)} : Calls(t, <<c>>)
    BY <1>9
  <2>2. c \in CallsUpTo(seq)
    BY <1>2, CallsFormed DEF Kinds
  <2>3. c.op \in {"send", "infoChange"} /\ c.kind \in {"fwType", "hostCfg"}
    BY DEF Send, Call
  <2> QED BY <1>8, <2>1, <2>2, <2>3, KindsApart
<1>10. CASE h.kind \in Kinds /\ Calls(t, <<Send(h.kind)>>)
  <2> DEFINE c == Send(h.kind)
  <2>1. c \in CallsUpTo(seq)
    BY <1>2, <1>10, CallsFormed
  <2>2. c.op = "send" /\ c.kind = h.kind
    BY DEF Send, Call
  <2>3. h.op # "setBit"
    BY <1>3
  <2> HIDE DEF h
  <2> QED BY <1>2, <1>8, <1>10, <2>1, <2>2, <2>3
<1> QED BY <1>6, <1>7, <1>9, <1>10

\* The configuration's lock, its bits, and the answers that clear them.
LEMMA ConfigSettings ==
  ASSUME SettingInv, NumberInv', NEW t \in Threads,
         LockConfig(t) \/ UnlockConfig(t) \/ SetBit(t) \/ SettingAnswered(t)
  PROVE  SettingInv'
<1> DEFINE h == todo[t][1]
<1>1. ~Idle(t) /\ Calls(t, <<>>)
      /\ UNCHANGED <<deviceVars, seq, commands, lidarVars, mishaps>>
  BY DEF LockConfig, UnlockConfig, SetBit, SettingAnswered, Now, Makes
<1>2. /\ todo \in [Threads -> Seq(CallsUpTo(seq))] /\ seq \in Nat
      /\ 1 \in DOMAIN todo[t] /\ Head(todo[t]) = h
      /\ h.kind \in Bits /\ h.op # "setBit" => UnderWay
      /\ \A r \in requests \cup answers \cup commands : r.kind \in Bits => UnderWay
  BY <1>1, FirstCall
<1>3. Popped(t)
  BY <1>1, <1>2, CallsNone
<1>4. \A r \in requests' \cup answers' \cup commands' : r.kind \in Bits => UnderWay
  BY <1>1, <1>2 DEF lidarVars
<1>5. \/ config_mutex_' = config_mutex_ /\ h.op # "lock"
      \/ config_mutex_' = t /\ h.op = "lock"
      \/ h.op = "unlock"
  BY <1>2 DEF LockConfig, UnlockConfig, SetBit, SettingAnswered, Now, Makes
<1>6. CASE SettingAnswered(t)
  <2>1. /\ h.op \in {"done", "refused"} /\ h.kind \in Bits /\ config_mutex_ = "free"
        /\ set_bits' = set_bits \ {h.kind}
        /\ sampling' = (sampling \/ set_bits' = {})
    BY <1>2, <1>6 DEF SettingAnswered, Now, Makes, CanLock
  <2>2. h.kind \in applied \cup refused
    BY <1>2, <2>1 DEF SettingInv, AnswersReal, Outcomes
  <2>3. UnderWay
    BY <1>2, <2>1
  <2>4. \A b : ~Pending(b)
    <3>1. SUFFICES ASSUME NEW u \in Threads, NEW k \in DOMAIN todo[u],
                          todo[u][k].op = "setBit"
                   PROVE  FALSE
      BY DEF Pending
    <3>2. config_mutex_ = u \/ todo[u][1].op = "lock"
      BY <3>1 DEF SettingInv, BitsUnderLock
    <3>3. 1 \in DOMAIN todo[u]
      <4>1. todo[u] \in Seq(CallsUpTo(seq))
        BY <1>2
      <4> QED BY <3>1, <4>1, LenProperties, SMT
    <3> QED BY <2>1, <2>3, <3>2, <3>3, ThreadAssumption DEF UnderWay, NoLock
  <2>5. \A b \in Bits : b \in set_bits \cup applied \cup refused
    BY <2>3, <2>4 DEF SettingInv, BitsTell, UnderWay
  <2>6. sampling' => sampling \/ Bits \subseteq applied \cup refused
    BY <2>1, <2>2, <2>5
  <2>7. \A b \in Bits : b \in set_bits \/ (h.op = "setBit" /\ h.kind = b)
                          => b \in set_bits' \cup applied \cup refused
    BY <2>1, <2>2
  <2> HIDE DEF h
  <2> QED BY <1>1, <1>2, <1>3, <1>4, <1>5, <2>6, <2>7, PoppedSettings
          DEF h, deviceVars, lidarVars
<1>7. CASE LockConfig(t) \/ UnlockConfig(t) \/ SetBit(t)
  <2>1. sampling' = sampling
    BY <1>7 DEF LockConfig, UnlockConfig, SetBit
  <2>2. \A b \in Bits : b \in set_bits \/ (h.op = "setBit" /\ h.kind = b)
                          => b \in set_bits' \cup applied \cup refused
    BY <1>2, <1>7 DEF LockConfig, UnlockConfig, SetBit, Makes
  <2> HIDE DEF h
  <2> QED BY <1>1, <1>2, <1>3, <1>4, <1>5, <2>1, <2>2, PoppedSettings
          DEF h, deviceVars, lidarVars
<1> QED BY <1>6, <1>7

\* The driver's callback, the first time: nothing was about a setting before.
LEMMA CallbackSettings ==
  ASSUME SettingInv, NumberInv', NEW t \in Threads,
         LivoxLidarInfoChange(t), "called" \notin device
  PROVE  SettingInv'
<1> DEFINE cb == LidarInfoChangeCallback
           n == Len(Settings)
<1> USE DEF LockOps
<1>1. ~Idle(t) /\ Calls(t, cb)
      /\ UNCHANGED <<fwFailures, seq, commands, configVars, lidarVars, mishaps>>
      /\ device' = device \cup {"updated", "called"}
  BY DEF LivoxLidarInfoChange, Makes
<1>2. /\ todo \in [Threads -> Seq(CallsUpTo(seq))] /\ seq \in Nat
      /\ 1 \in DOMAIN todo[t] /\ "known" \in device
  BY <1>1, FirstCall
<1>3. /\ cb \in Seq(CallsUpTo(seq)) /\ n \in Nat /\ Len(cb) \in Nat /\ Len(cb) >= 2 * n + 2
      /\ cb[1] = Call("lock", "all", 0)
      /\ \A k \in 1..n : cb[2 * k] = Call("setBit", Settings[k], 0)
  BY <1>2, CallbackCalls, SMT
<1>4. \A j \in 1..Len(cb) :
        \/ j = 1 /\ cb[j] = Call("lock", "all", 0)
        \/ j \in 2..2 * n + 1 /\ \E b \in Bits : cb[j] = Call("setBit", b, 0)
        \/ j > 1 /\ \E kind \in Bits \cup ToSet(Others) : cb[j] = Send(kind)
        \/ j = 2 * n + 2 /\ cb[j] = Call("unlock", "all", 0)
  BY CallbackForms
<1>5. \A op, kind, s : /\ Call(op, kind, s).op = op /\ Call(op, kind, s).kind = kind
                       /\ Send(kind).op = "send" /\ Send(kind).kind = kind
  BY DEF Call, Send
<1> HIDE DEF cb, n
<1>6. /\ \A u \in Threads : u # t => todo'[u] = todo[u]
      /\ \A j \in DOMAIN todo'[t] :
           \/ j \in 1..Len(cb) /\ todo'[t][j] = cb[j]
           \/ j > Len(cb) /\ \E k \in DOMAIN todo[t] : todo'[t][j] = todo[t][k]
      /\ \A j \in 1..Len(cb) : j \in DOMAIN todo'[t] /\ todo'[t][j] = cb[j]
  <2>1. Shifted(t, cb)
    BY <1>1, <1>2, <1>3, CallsMany
  <2> QED BY <2>1 DEF Shifted
<1>7. \A u \in Threads : \A k \in DOMAIN todo[u] :
        todo[u][k].kind \notin Bits /\ todo[u][k].op \notin LockOps
  <2> SUFFICES ASSUME NEW u \in Threads, NEW k \in DOMAIN todo[u]
               PROVE  todo[u][k].kind \notin Bits /\ todo[u][k].op \notin LockOps
    OBVIOUS
  <2>1. todo[u][k].kind \notin Bits /\ todo[u][k].op \notin {"lock", "unlock"}
    BY DEF SettingInv, NothingBefore
  <2>2. todo[u][k] \in CallsUpTo(seq)
    BY NumbersBelow DEF SettingInv, NumberInv
  <2> QED BY <1>2, <2>1, <2>2, CallForms
<1>8. ASSUME NEW u \in Threads, NEW k \in DOMAIN todo'[u],
             todo'[u][k].op \in LockOps \/ todo'[u][k].kind \in Bits
      PROVE  u = t /\ k \in 1..Len(cb) /\ todo'[u][k] = cb[k]
  BY <1>6, <1>7, <1>8
<1>9. \A j \in 1..Len(cb) :
        /\ cb[j].op = "lock" => j = 1
        /\ cb[j].op = "setBit" => j \in 2..2 * n + 1
        /\ cb[j].op = "unlock" => j = 2 * n + 2
        /\ cb[j].op = "send" => j > 1
        /\ ~Numbered(cb[j])
  <2> SUFFICES ASSUME NEW j \in 1..Len(cb)
               PROVE  /\ cb[j].op = "lock" => j = 1
                      /\ cb[j].op = "setBit" => j \in 2..2 * n + 1
                      /\ cb[j].op = "unlock" => j = 2 * n + 2
                      /\ cb[j].op = "send" => j > 1
                      /\ ~Numbered(cb[j])
    OBVIOUS
  <2> QED BY <1>4, <1>5 DEF Numbered
<1>10. UnknownIsNew'
  BY <1>1, <1>2 DEF UnknownIsNew
<1>11. NothingBefore'
  BY <1>1 DEF NothingBefore
<1>12. OneCallback'
  BY <1>8 DEF OneCallback
<1>13. InTheirOrder'
  <2>1. ASSUME NEW u \in Threads, NEW k \in DOMAIN todo'[u], todo'[u][k].op = "lock"
        PROVE  k = 1
    BY <1>8, <1>9, <2>1
  <2>2. ASSUME NEW u \in Threads, NEW k \in DOMAIN todo'[u], todo'[u][k].op = "setBit",
               NEW j \in DOMAIN todo'[u], todo'[u][j].op = "unlock"
        PROVE  k < j
    <3>1. k \in 2..2 * n + 1
      BY <1>8, <1>9, <2>2
    <3>2. j = 2 * n + 2
      BY <1>8, <1>9, <2>2
    <3> QED BY <1>3, <3>1, <3>2, SMT
  <2> QED BY <2>1, <2>2 DEF InTheirOrder
<1>14. 1 \in 1..Len(cb) /\ todo'[t][1].op = "lock"
  <2>1. 1 \in 1..Len(cb)
    BY <1>3, SMT
  <2> QED BY <1>3, <1>5, <1>6, <2>1
<1>15. BitsUnderLock'
  BY <1>8, <1>14 DEF BitsUnderLock
<1>16. SentAfterLock'
  <2>1. \A r \in requests' \cup answers' \cup commands' : r.kind \notin Bits
    BY <1>1 DEF SettingInv, NothingBefore, lidarVars
  <2>2. ASSUME NEW u \in Threads, NEW k \in DOMAIN todo'[u], todo'[u][k].kind \in Bits
        PROVE  /\ ~Numbered(todo'[u][k])
               /\ todo'[u][k].op = "send" =>
                    \A w \in Threads : \A j \in DOMAIN todo'[w] :
                      todo'[w][j].op = "lock" => w = u /\ j < k
    <3>1. u = t /\ k \in 1..Len(cb) /\ todo'[u][k] = cb[k]
      BY <1>8, <2>2
    <3>2. ASSUME todo'[u][k].op = "send", NEW w \in Threads, NEW j \in DOMAIN todo'[w],
                 todo'[w][j].op = "lock"
          PROVE  w = u /\ j < k
      <4>1. k > 1
        BY <1>9, <3>1, <3>2
      <4>2. w = t /\ j = 1
        BY <1>8, <1>9, <3>2
      <4> QED BY <3>1, <4>1, <4>2, SMT
    <3> QED BY <1>9, <3>1, <3>2
  <2> QED BY <2>1, <2>2 DEF SentAfterLock, Numbered
<1>17. AnswersReal'
  <2>1. ASSUME NEW u \in Threads, NEW k \in DOMAIN todo'[u], Numbered(todo'[u][k])
        PROVE  \E j \in DOMAIN todo[u] : todo'[u][k] = todo[u][j]
    BY <1>6, <1>9, <2>1
  <2>2. ASSUME NEW u \in Threads, NEW k \in Outcomes(u)', todo'[u][k].op # "timeout"
        PROVE  todo'[u][k].kind \in applied \cup refused
    <3>1. k \in DOMAIN todo'[u] /\ Numbered(todo'[u][k])
      BY <2>2 DEF Outcomes, Numbered
    <3>2. PICK j \in DOMAIN todo[u] : todo'[u][k] = todo[u][j]
      BY <2>1, <3>1
    <3>3. j \in Outcomes(u)
      BY <2>2, <3>2 DEF Outcomes
    <3> QED BY <2>2, <3>2, <3>3 DEF SettingInv, AnswersReal
  <2>3. \A a \in answers' : a.kind \in applied' \cup refused'
    BY <1>1 DEF SettingInv, AnswersReal, lidarVars
  <2> QED BY <1>1, <2>2, <2>3 DEF AnswersReal, lidarVars
<1>18. BitsTell'
  <2>1. ASSUME NEW b \in Bits PROVE Pending(b)'
    <3>1. PICK k \in DOMAIN Settings : Settings[k] = b
      BY KindsApart
    <3>2. k \in 1..n
      BY SettingAssumption, LenProperties DEF n
    <3>3. 2 * k \in 1..Len(cb)
      BY <1>3, <3>2, SMT
    <3>4. todo'[t][2 * k].op = "setBit" /\ todo'[t][2 * k].kind = b
      BY <1>3, <1>5, <1>6, <3>1, <3>2, <3>3
    <3> QED BY <1>6, <3>3, <3>4 DEF Pending
  <2> QED BY <2>1 DEF BitsTell
<1>19. SamplingConfigured'
  BY <1>1 DEF SettingInv, SamplingConfigured, configVars, lidarVars
<1> QED BY <1>10, <1>11, <1>12, <1>13, <1>15, <1>16, <1>17, <1>18, <1>19 DEF SettingInv

LEMMA TableSettings ==
  ASSUME SettingInv, NumberInv',
         \/ \E t \in Threads, expired \in SUBSET commands : Expire(t, expired)
         \/ \E a \in answers : Deliver(a)
  PROVE  SettingInv'
<1>1. \A c, d, e : /\ Call(c, d, e).op = c /\ Call(c, d, e).kind = d
                   /\ Request(c, d).kind = d /\ Request(c, d).seq = c
  BY DEF Call, Request
<1>2. \A r \in requests \cup answers \cup commands : r.kind \in Bits => UnderWay
  BY DEF SettingInv, NothingBefore, SentAfterLock, UnderWay
<1>3. commands # {} => "known" \in device
  BY DEF SettingInv, UnknownIsNew
<1>4. ASSUME NEW t \in Threads, NEW expired \in SUBSET commands, Expire(t, expired)
      PROVE  SettingInv'
  <2> DEFINE n == Cardinality(expired)
  <2>1. PICK order \in InOrder(expired) :
          todo' = [todo EXCEPT ![t] =
                     [k \in 1..n |-> Call("timeout", order[k].kind, order[k].seq)]]
    BY <1>4 DEF Expire
  <2>2. /\ Idle(t) /\ expired # {} /\ commands' = commands \ expired
        /\ UNCHANGED <<deviceVars, seq, configVars, lidarVars>>
    BY <1>4 DEF Expire
  <2>3. todo \in [Threads -> Seq(CallsUpTo(seq))]
    BY DEF SettingInv, NumberInv, TypeOK
  <2>4. \A k \in 1..n : order[k] \in commands
    BY DEF InOrder
  <2> HIDE DEF n
  <2>5. /\ DOMAIN todo'[t] = 1..n
        /\ \A k \in 1..n : todo'[t][k] = Call("timeout", order[k].kind, order[k].seq)
        /\ \A u \in Threads : u # t => todo'[u] = todo[u]
    BY <2>1, <2>3
  <2>6. DOMAIN todo[t] = {}
    BY <2>2, SMT DEF Idle
  <2>7. \A k \in DOMAIN todo'[t] :
          /\ todo'[t][k].op = "timeout"
          /\ todo'[t][k].kind \in Bits => UnderWay
    BY <1>1, <1>2, <2>4, <2>5
  <2> QED BY <1>3, <2>2, <2>5, <2>6, <2>7, AnewSettings
          DEF deviceVars, lidarVars, LockOps
<1>5. ASSUME NEW a \in answers, Deliver(a)
      PROVE  SettingInv'
  <2> DEFINE c == Request(a.seq, a.kind)
             done == Call(IF a.ok THEN "done" ELSE "refused", c.kind, c.seq)
  <2>1. /\ UNCHANGED <<deviceVars, seq, configVars, requests, loader, applied, refused>>
        /\ answers' \subseteq answers /\ Idle("cmd") /\ "cmd" \in Threads
    BY <1>5, ThreadAssumption DEF Deliver
  <2>2. CASE c \in commands
    <3>1. commands' = commands \ {c} /\ todo' = [todo EXCEPT !["cmd"] = <<done>>]
      BY <1>5, <2>2 DEF Deliver, Answered
    <3>2. done.op \in {"done", "refused"} /\ done.kind = a.kind
      BY <1>1
    <3>3. a.kind \in applied \cup refused /\ (a.kind \in Bits => UnderWay)
      BY <1>2 DEF SettingInv, AnswersReal
    <3>4. todo \in [Threads -> Seq(CallsUpTo(seq))]
      BY DEF SettingInv, NumberInv, TypeOK
    <3> HIDE DEF done
    <3>5. /\ DOMAIN todo'["cmd"] = {1} /\ todo'["cmd"][1] = done
          /\ \A u \in Threads : u # "cmd" => todo'[u] = todo[u]
      <4>1. todo'["cmd"] = <<done>>
        BY <2>1, <3>1, <3>4
      <4>2. \A u \in Threads : u # "cmd" => todo'[u] = todo[u]
        BY <3>1, <3>4
      <4> QED BY <4>1, <4>2, SMT
    <3>6. DOMAIN todo["cmd"] = {}
      BY <2>1, SMT DEF Idle
    <3>7. "known" \in device'
      BY <1>3, <2>1, <2>2 DEF deviceVars
    <3> HIDE DEF c
    <3> QED BY <2>1, <3>1, <3>2, <3>3, <3>5, <3>6, <3>7, AnewSettings
            DEF deviceVars, LockOps
  <2>3. CASE c \notin commands
    <3>1. UNCHANGED <<commands, todo>>
      BY <1>5, <2>3 DEF Deliver
    <3> HIDE DEF c
    <3>2. /\ UnknownIsNew' /\ NothingBefore' /\ OneCallback' /\ InTheirOrder'
          /\ BitsUnderLock' /\ AnswersReal' /\ BitsTell' /\ SamplingConfigured'
      BY <2>1, <3>1 DEF SettingInv, UnknownIsNew, NothingBefore, OneCallback, InTheirOrder,
         BitsUnderLock, AnswersReal, BitsTell, SamplingConfigured, Pending, Outcomes, Idle,
         deviceVars, configVars
    <3>3. SentAfterLock'
      BY <2>1, <3>1 DEF SettingInv, SentAfterLock, NoLock
    <3> QED BY <3>2, <3>3 DEF SettingInv
  <2> QED BY <2>2, <2>3
<1> QED BY <1>4, <1>5

LEMMA DetectionSettings ==
  ASSUME SettingInv, NumberInv', HandleDetectionData
  PROVE  SettingInv'
<1> DEFINE few == {<<>>, <<Send("fwType")>>, <<Send("hostCfg")>>,
                   <<Call("infoChange", "hostCfg", 0)>>}
           Q == {c \in CallsUpTo(seq) : /\ c.op \in {"send", "infoChange"}
                                        /\ c.kind \in {"fwType", "hostCfg"}}
<1>1. /\ UNCHANGED <<fwFailures, seq, commands, configVars, lidarVars>>
      /\ Idle("det") /\ "det" \in Threads /\ "known" \in device'
  BY ThreadAssumption DEF HandleDetectionData
<1>2. "called" \in device' <=> "called" \in device
  BY DEF HandleDetectionData, SettingInv, UnknownIsNew
<1>3. todo \in [Threads -> Seq(CallsUpTo(seq))] /\ seq \in Nat
  BY DEF SettingInv, NumberInv, TypeOK
<1>4. \E x, y \in few : todo' = [todo EXCEPT !["det"] = x \o y]
  <2>1. CASE todo' = [todo EXCEPT !["det"] = QueryFwType]
    <3>1. QueryFwType = QueryFwType \o <<>>
      BY SMT DEF QueryFwType
    <3> QED BY <2>1, <3>1 DEF QueryFwType
  <2>2. CASE "known" \in device
    BY <2>2 DEF HandleDetectionData
  <2> QED BY <2>1, <2>2 DEF HandleDetectionData
<1>5. PICK x, y \in few : todo' = [todo EXCEPT !["det"] = x \o y]
  BY <1>4
<1>6. /\ Send("fwType") \in Q /\ Send("hostCfg") \in Q
      /\ Call("infoChange", "hostCfg", 0) \in Q
  BY <1>3, CallsFormed DEF Kinds, Send, Call
<1> HIDE DEF Q
<1>7. /\ <<Send("fwType")>> \in Seq(Q) /\ <<Send("hostCfg")>> \in Seq(Q)
      /\ <<Call("infoChange", "hostCfg", 0)>> \in Seq(Q) /\ <<>> \in Seq(Q)
  BY <1>6
<1> DEFINE l == x \o y
<1>8. l \in Seq(Q)
  BY <1>7, ConcatProperties
<1> HIDE DEF l, few
<1>9. \A k \in DOMAIN l : l[k] \in Q
  BY <1>8, ElementOfSeq, LenProperties
<1>10. /\ todo'["det"] = l
       /\ \A u \in Threads : u # "det" => todo'[u] = todo[u]
  BY <1>1, <1>3, <1>5 DEF l
<1>11. DOMAIN todo["det"] = {}
  BY <1>1, SMT DEF Idle
<1>12. \A k \in DOMAIN todo'["det"] :
         /\ todo'["det"][k].op \in {"send", "infoChange"}
         /\ todo'["det"][k].kind \notin Bits
  BY <1>9, <1>10, KindsApart DEF Q
<1> QED BY <1>1, <1>2, <1>10, <1>11, <1>12, AnewSettings DEF lidarVars, LockOps

LEMMA NetworkSettings ==
  ASSUME SettingInv, NumberInv', Serve \/ Lose
  PROVE  SettingInv'
<1>1. UNCHANGED <<deviceVars, seq, commands, todo, configVars, loader>>
  BY DEF Serve, Lose
<1>2. /\ \A r \in requests' \cup answers' \cup commands' :
           \E q \in requests \cup answers \cup commands : r.kind = q.kind
      /\ \A a \in answers' : a.kind \in applied' \cup refused'
      /\ applied \subseteq applied' /\ refused \subseteq refused'
  <2>1. CASE Serve
    <3>1. PICK r \in requests, ok \in BOOLEAN :
            /\ requests' = requests \ {r}
            /\ answers' = answers \cup {[seq |-> r.seq, kind |-> r.kind, ok |-> ok]}
            /\ IF ok THEN applied' = applied \cup {r.kind} /\ refused' = refused
                     ELSE refused' = refused \cup {r.kind} /\ applied' = applied
      BY <2>1 DEF Serve
    <3> DEFINE a == [seq |-> r.seq, kind |-> r.kind, ok |-> ok]
    <3>2. a.kind = r.kind
      OBVIOUS
    <3> HIDE DEF a
    <3>3. r.kind \in applied' \cup refused' /\ applied \subseteq applied' /\ refused \subseteq refused'
      BY <3>1
    <3>4. answers' = answers \cup {a}
      BY <3>1 DEF a
    <3>5. \A q \in answers : q.kind \in applied' \cup refused'
      BY <3>3 DEF SettingInv, AnswersReal
    <3>6. \A q \in answers' : q.kind \in applied' \cup refused'
      BY <3>2, <3>3, <3>4, <3>5
    <3>7. \A p \in requests' \cup answers' \cup commands' :
            p \in requests \cup answers \cup commands \/ p.kind = r.kind
      BY <1>1, <3>1, <3>2, <3>4
    <3> QED BY <3>3, <3>6, <3>7
  <2>2. CASE Lose
    BY <1>1, <2>2 DEF Lose, SettingInv, AnswersReal
  <2> QED BY <2>1, <2>2
<1>3. /\ UnknownIsNew' /\ OneCallback' /\ InTheirOrder' /\ BitsUnderLock'
  BY <1>1 DEF SettingInv, UnknownIsNew, OneCallback, InTheirOrder, BitsUnderLock, Idle,
     deviceVars, configVars
<1>4. NothingBefore'
  BY <1>1, <1>2 DEF SettingInv, NothingBefore, deviceVars
<1>5. SentAfterLock'
  <2>1. NoLock => NoLock'
    BY <1>1 DEF NoLock
  <2>2. \A r \in requests' \cup answers' \cup commands' : r.kind \in Bits => NoLock'
    BY <1>2, <2>1 DEF SettingInv, SentAfterLock
  <2> QED BY <1>1, <2>2 DEF SettingInv, SentAfterLock, NoLock
<1>6. AnswersReal'
  BY <1>1, <1>2 DEF SettingInv, AnswersReal, Outcomes
<1>7. BitsTell'
  BY <1>1, <1>2 DEF SettingInv, BitsTell, Pending, deviceVars, configVars
<1>8. SamplingConfigured'
  BY <1>1, <1>2 DEF SettingInv, SamplingConfigured, configVars
<1> QED BY <1>3, <1>4, <1>5, <1>6, <1>7, <1>8 DEF SettingInv

LEMMA SettingInit == Init => SettingInv
<1> SUFFICES ASSUME Init PROVE SettingInv
  OBVIOUS
<1>1. NumberInv
  BY NumberInit
<1>2. UnknownIsNew /\ NothingBefore /\ OneCallback /\ InTheirOrder /\ BitsUnderLock
      /\ BitsTell /\ SamplingConfigured
  BY DEF Init, Idle, UnknownIsNew, NothingBefore, OneCallback, InTheirOrder, BitsUnderLock,
     BitsTell, SamplingConfigured
<1>3. SentAfterLock /\ AnswersReal
  BY DEF Init, SentAfterLock, AnswersReal, Outcomes
<1> QED BY <1>1, <1>2, <1>3 DEF SettingInv

LEMMA SettingStep == SettingInv /\ [Next]_vars => SettingInv'
<1> SUFFICES ASSUME SettingInv, [Next]_vars PROVE SettingInv'
  OBVIOUS
<1>1. NumberInv'
  BY NumberStep DEF SettingInv
<1>2. ASSUME NEW t \in Threads, Step(t) PROVE SettingInv'
  <2>1. CASE SendFirst(t) \/ AddCommand(t) \/ AddFirst(t)
    BY <1>1, <2>1, SendingSettings
  <2>2. CASE \/ QueryFwTypeCallback(t) \/ UpdateLidarCallback(t)
             \/ OthersAnswered(t) \/ CommandTimedOut(t)
    BY <1>1, <2>2, DeviceSettings
  <2>3. CASE LivoxLidarInfoChange(t)
    BY <1>1, <2>3, DeviceSettings, CallbackSettings
  <2>4. CASE LockConfig(t) \/ UnlockConfig(t) \/ SetBit(t) \/ SettingAnswered(t)
    BY <1>1, <2>4, ConfigSettings
  <2> QED BY <1>2, <2>1, <2>2, <2>3, <2>4 DEF Step
<1>3. CASE \/ \E t \in Threads, expired \in SUBSET commands : Expire(t, expired)
           \/ \E a \in answers : Deliver(a)
  BY <1>1, <1>3, TableSettings
<1>4. CASE HandleDetectionData
  BY <1>1, <1>4, DetectionSettings
<1>5. CASE Serve \/ Lose
  BY <1>1, <1>5, NetworkSettings
<1>6. CASE UNCHANGED vars
  <2> USE <1>6 DEF vars, deviceVars, configVars, lidarVars
  <2>1. /\ UnknownIsNew' /\ NothingBefore' /\ OneCallback' /\ InTheirOrder'
        /\ BitsUnderLock' /\ AnswersReal' /\ BitsTell' /\ SamplingConfigured'
    BY DEF SettingInv, UnknownIsNew, NothingBefore, OneCallback, InTheirOrder,
       BitsUnderLock, AnswersReal, BitsTell, SamplingConfigured, Pending, Outcomes, Idle
  <2>2. SentAfterLock'
    BY DEF SettingInv, SentAfterLock, NoLock
  <2> QED BY <1>1, <2>1, <2>2 DEF SettingInv
<1> QED BY <1>2, <1>3, <1>4, <1>5, <1>6 DEF Next

\* A lidar comes to be sampling, and its point clouds to be published, only once
\* it has answered every setting of its configuration, however the callbacks of
\* the answers run beside the one that is setting the bits.
THEOREM SamplingIsConfigured == Spec => []SamplingConfigured
<1>1. SettingInv /\ [Next]_vars => SettingInv'
  BY SettingStep
<1>2. Spec => []SettingInv
  BY SettingInit, <1>1, PTL DEF Spec
<1>3. SettingInv => SamplingConfigured
  BY DEF SettingInv
<1> QED BY <1>2, <1>3, PTL

==============================================================================
