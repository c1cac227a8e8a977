--------------------------- MODULE SdkCommandsProofs ---------------------------
(***************************************************************************)
(* Proofs about SdkCommands, for any lidars, keys and numbers of calls,    *)
(* whatever packets are lost, duplicated or reordered.                     *)
(*                                                                         *)
(* What holds of calls, threads and messages is Base.  On it rest two      *)
(* results.  What the application is told (ToldFaithfully) needs Telling,  *)
(* and what packing and reading keys and values do, which is proved by     *)
(* induction over the numbers of pieces of a packet.  What an answer says  *)
(* (SuccessTrue) needs Ordered: which requests are out, with which numbers *)
(* and for which calls; it holds as long as no number is given twice.      *)
(***************************************************************************)
EXTENDS SdkCommands, FiniteSetTheorems, SequenceTheorems, WellFoundedInduction, TLAPS

-----------------------------------------------------------------------------
(* Induction, and functions defined along 0 .. n *)

\* Induction over a set of numbers, from the least one left out of it.
Smaller == {pair \in Nat \X Nat : pair[1] < pair[2]}

LEMMA Induction ==
  ASSUME NEW S \in SUBSET Nat, 0 \in S, \A n \in S : n + 1 \in S
  PROVE  S = Nat
<1> DEFINE T == Nat \ S
<1>1. SUFFICES ASSUME T # {} PROVE FALSE
  OBVIOUS
<1>2. IsWellFoundedOn(Smaller, Nat)
  BY NatLessThanWellFounded DEF OpToRel, Smaller
<1>3. PICK x \in T : \A y \in T : <<y, x>> \notin Smaller
  <2>1. T \subseteq Nat
    OBVIOUS
  <2> HIDE DEF T
  <2> QED BY <1>1, <1>2, <2>1, WFMin
<1>4. x # 0 /\ x - 1 \in Nat /\ x - 1 < x
  OBVIOUS
<1>5. x - 1 \in S
  <2> SUFFICES ASSUME x - 1 \in T PROVE FALSE
    BY <1>4
  <2>1. <<x - 1, x>> \in Nat \X Nat /\ <<x - 1, x>>[1] < <<x - 1, x>>[2]
    BY <1>4
  <2> QED BY <1>3, <2>1 DEF Smaller
<1> QED BY <1>4, <1>5

\* What holds at 0 and is kept from each number to the next holds up to n.
LEMMA Along ==
  ASSUME NEW V, NEW n \in Nat, NEW g, g[0] \in V,
         \A k \in 1 .. n : g[k - 1] \in V => g[k] \in V
  PROVE  \A k \in 0 .. n : g[k] \in V
<1> DEFINE S == {k \in Nat : k <= n => g[k] \in V}
<1>1. 0 \in S
  OBVIOUS
<1>2. ASSUME NEW k \in S PROVE k + 1 \in S
  <2>1. SUFFICES ASSUME k + 1 <= n PROVE g[k + 1] \in V
    OBVIOUS
  <2>2. k <= n /\ k + 1 \in 1 .. n /\ (k + 1) - 1 = k
    BY <2>1
  <2> QED BY <2>2
<1>3. S = Nat
  <2>1. S \subseteq Nat
    OBVIOUS
  <2> HIDE DEF S
  <2> QED BY <1>1, <1>2, <2>1, Induction
<1>4. \A k \in 0 .. n : k \in S
  BY <1>3
<1> QED BY <1>4

\* A function whose value at each number is made from the one before exists.
IsRun(g, b, op, n) == g[0] = b /\ \A k \in 1 .. n : g[k] = op[<<g[k - 1], k>>]

LEMMA RunExists ==
  ASSUME NEW V, NEW n \in Nat, NEW b \in V, NEW op \in [V \X (1 .. n) -> V]
  PROVE  \E g \in [0 .. n -> V] : IsRun(g, b, op, n)
<1> DEFINE Upto(k) == \E g \in [0 .. k -> V] :
                        g[0] = b /\ \A j \in 1 .. k : g[j] = op[<<g[j - 1], j>>]
           S == {k \in Nat : k <= n => Upto(k)}
<1>1. 0 \in S
  <2>1. [j \in 0 .. 0 |-> b] \in [0 .. 0 -> V]
    OBVIOUS
  <2>2. [j \in 0 .. 0 |-> b][0] = b /\ \A j \in 1 .. 0 : FALSE
    OBVIOUS
  <2>3. Upto(0)
    BY <2>1, <2>2
  <2> QED BY <2>3
<1>2. ASSUME NEW k \in S PROVE k + 1 \in S
  <2>1. k \in Nat /\ k + 1 \in Nat
    OBVIOUS
  <2>2. SUFFICES ASSUME k + 1 <= n PROVE Upto(k + 1)
    BY <2>1
  <2>3. k <= n /\ k + 1 \in 1 .. n
    BY <2>1, <2>2
  <2>4. PICK g \in [0 .. k -> V] :
          g[0] = b /\ \A j \in 1 .. k : g[j] = op[<<g[j - 1], j>>]
    BY <2>3
  <2> DEFINE h == [j \in 0 .. k + 1 |-> IF j = k + 1 THEN op[<<g[k], k + 1>>] ELSE g[j]]
  <2>5. h \in [0 .. k + 1 -> V]
    BY <2>1, <2>3
  <2>6. h[0] = b
    BY <2>1, <2>4
  <2>7. ASSUME NEW j \in 1 .. k + 1 PROVE h[j] = op[<<h[j - 1], j>>]
    <3>1. CASE j = k + 1
      <4>1. j - 1 = k /\ k \in 0 .. k + 1 /\ k + 1 \in 0 .. k + 1 /\ k # k + 1
        BY <2>1, <3>1
      <4>2. h[k + 1] = op[<<g[k], k + 1>>] /\ h[k] = g[k]
        BY <4>1
      <4> HIDE DEF h
      <4> QED BY <3>1, <4>1, <4>2
    <3>2. CASE j # k + 1
      BY <2>1, <2>4, <3>2
    <3> QED BY <3>1, <3>2
  <2> HIDE DEF h
  <2> QED BY <2>5, <2>6, <2>7
<1>3. S = Nat
  <2>1. S \subseteq Nat
    OBVIOUS
  <2> HIDE DEF S
  <2> QED BY <1>1, <1>2, <2>1, Induction
<1>4. n \in S
  <2> HIDE DEF S
  <2> QED BY <1>3
<1>5. Upto(n)
  BY <1>4
<1> QED BY <1>5 DEF IsRun

-----------------------------------------------------------------------------
(* Keys *)

LEMMA CodeType == ASSUME NEW k \in DOMAIN Code PROVE Code[k] \in Nat
BY DEF Code

LEMMA CodeInjective ==
  ASSUME NEW j \in DOMAIN Code, NEW k \in DOMAIN Code, Code[j] = Code[k] PROVE j = k
BY DEF Code

LEMMA KeyOfCode == ASSUME NEW k \in DOMAIN Code PROVE Key(Code[k]) = k
<1>1. \E j \in DOMAIN Code : Code[j] = Code[k]
  OBVIOUS
<1> DEFINE j == CHOOSE j \in DOMAIN Code : Code[j] = Code[k]
<1>2. j \in DOMAIN Code /\ Code[j] = Code[k]
  BY <1>1
<1>3. Key(Code[k]) = j
  BY <1>1 DEF Key
<1> HIDE DEF j
<1> QED BY <1>2, <1>3, CodeInjective

-----------------------------------------------------------------------------
(* Packets *)

Items == [key : DOMAIN Code, value : Seq(Nat)]

LEMMA PieceType ==
  ASSUME NEW item \in Items
  PROVE  /\ Piece(item) \in Seq(Nat) /\ Len(item.value) \in Nat
         /\ Len(Piece(item)) = 2 + Len(item.value)
         /\ Piece(item)[1] = Code[item.key] /\ Piece(item)[2] = Len(item.value)
         /\ \A i \in 1 .. Len(item.value) : Piece(item)[2 + i] = item.value[i]
<1> DEFINE c == Code[item.key]
           v == item.value
<1>1. c \in Nat /\ v \in Seq(Nat) /\ Len(v) \in Nat
  BY CodeType DEF Items
<1>2. Piece(item) = <<c, Len(v)>> \o v
  BY DEF Piece
<1> HIDE DEF c
<1>3. /\ <<c, Len(v)>> \o v \in Seq(Nat)
      /\ Len(<<c, Len(v)>> \o v) = 2 + Len(v)
      /\ (<<c, Len(v)>> \o v)[1] = c /\ (<<c, Len(v)>> \o v)[2] = Len(v)
      /\ \A i \in 1 .. Len(v) : (<<c, Len(v)>> \o v)[2 + i] = v[i]
  BY <1>1
<1> QED BY <1>1, <1>2, <1>3 DEF c

\* How a packet is put together, one item after the other.
Packing(g, items) ==
  /\ g \in [0 .. Len(items) -> Seq(Nat)]
  /\ g[0] = <<Len(items), 0>>
  /\ \A k \in 1 .. Len(items) : g[k] = g[k - 1] \o Piece(items[k])
  /\ Tlv(items) = g[Len(items)]

LEMMA PackingExists ==
  ASSUME NEW items \in Seq(Items)
  PROVE  \E g : Packing(g, items)
<1> DEFINE N == Len(items)
           V == Seq(Nat)
           b == <<N, 0>>
           next(s, k) == s \o Piece(items[k])
           op == [p \in V \X (1 .. N) |-> next(p[1], p[2])]
           Loop(g) == [i \in 0 .. N |-> IF i = 0 THEN b ELSE next(g[i - 1], i)]
           after == CHOOSE g : g = Loop(g)
<1>1. N \in Nat /\ b \in V /\ \A k \in 1 .. N : items[k] \in Items
  OBVIOUS
<1>2. \A s \in V, k \in 1 .. N : next(s, k) \in V
  BY <1>1, PieceType
<1>3. Tlv(items) = after[N]
  BY DEF Tlv
<1> HIDE DEF N, V, b, next
<1>4. op \in [V \X (1 .. N) -> V]
  BY <1>2
<1>5. \A s \in V, k \in 1 .. N : op[<<s, k>>] = next(s, k)
  OBVIOUS
<1> HIDE DEF op
<1>6. PICK g \in [0 .. N -> V] : g[0] = b /\ \A k \in 1 .. N : g[k] = op[<<g[k - 1], k>>]
  <2>1. \E g \in [0 .. N -> V] : IsRun(g, b, op, N)
    BY <1>1, <1>4, RunExists
  <2> QED BY <2>1 DEF IsRun
<1>7. \A k \in 1 .. N : k - 1 \in 0 .. N
  BY <1>1
<1>8. \A k \in 1 .. N : g[k] = next(g[k - 1], k)
  BY <1>5, <1>6, <1>7
<1>9. g = Loop(g)
  <2>1. \A k \in 0 .. N : g[k] = IF k = 0 THEN b ELSE next(g[k - 1], k)
    BY <1>1, <1>6, <1>8
  <2> QED BY <1>6, <2>1
<1>10. after = Loop(after)
  BY <1>9
<1> HIDE DEF after
<1>11. after[0] = b /\ \A k \in 1 .. N : after[k] = next(after[k - 1], k)
  BY <1>1, <1>10
<1>12. \A k \in 1 .. N : after[k - 1] \in V => after[k] \in V
  BY <1>2, <1>11
<1>13. \A k \in 0 .. N : after[k] \in V
  BY <1>1, <1>11, <1>12, Along
<1>14. DOMAIN after = 0 .. N /\ after = [k \in DOMAIN after |-> after[k]]
  BY <1>10
<1>15. after \in [0 .. N -> V]
  BY <1>13, <1>14
<1> QED BY <1>3, <1>11, <1>15 DEF Packing, N, V, b, next

\* A packet begins with what it was when it had fewer items.
Begins(s, t) == Len(s) <= Len(t) /\ \A i \in 1 .. Len(s) : t[i] = s[i]

LEMMA Concatenated ==
  ASSUME NEW s \in Seq(Nat), NEW t \in Seq(Nat)
  PROVE  /\ s \o t \in Seq(Nat) /\ Len(s) \in Nat /\ Len(t) \in Nat
         /\ Len(s \o t) = Len(s) + Len(t)
         /\ \A i \in 1 .. Len(s) : (s \o t)[i] = s[i]
         /\ \A i \in 1 .. Len(t) : (s \o t)[Len(s) + i] = t[i]
OBVIOUS

LEMMA BeginsAppended ==
  ASSUME NEW s \in Seq(Nat), NEW t \in Seq(Nat), NEW u \in Seq(Nat), Begins(s, t)
  PROVE  Begins(s, t \o u)
<1>1. Len(s) \in Nat /\ Len(t) \in Nat /\ Len(u) \in Nat /\ Len(t \o u) = Len(t) + Len(u)
      /\ \A i \in 1 .. Len(t) : (t \o u)[i] = t[i]
  OBVIOUS
<1>2. Len(s) <= Len(t) /\ \A i \in 1 .. Len(s) : t[i] = s[i]
  BY DEF Begins
<1>3. \A i \in 1 .. Len(s) : i \in 1 .. Len(t)
  BY <1>1, <1>2
<1>4. Len(s) <= Len(t \o u)
  BY <1>1, <1>2
<1>5. \A i \in 1 .. Len(s) : (t \o u)[i] = s[i]
  BY <1>1, <1>2, <1>3
<1> QED BY <1>4, <1>5 DEF Begins

LEMMA PackingBegins ==
  ASSUME NEW items \in Seq(Items), NEW g, Packing(g, items), NEW k \in 0 .. Len(items)
  PROVE  Begins(g[k], g[Len(items)])
<1> DEFINE N == Len(items)
           T == {m \in Nat : k <= m /\ m <= N => Begins(g[k], g[m])}
<1>0. N \in Nat /\ \A m \in 1 .. N : items[m] \in Items
  OBVIOUS
<1>1. N \in Nat /\ k \in Nat /\ k <= N /\ \A m \in 0 .. N : g[m] \in Seq(Nat)
  <2>1. g \in [0 .. N -> Seq(Nat)]
    BY DEF Packing
  <2> HIDE DEF T
  <2> QED BY <1>0, <2>1
<1>2. \A m \in 1 .. N : g[m] = g[m - 1] \o Piece(items[m]) /\ Piece(items[m]) \in Seq(Nat)
  <2>1. \A m \in 1 .. N : Piece(items[m]) \in Seq(Nat)
    BY <1>0, PieceType
  <2> QED BY <2>1 DEF Packing
<1>3. Begins(g[k], g[k])
  BY <1>1 DEF Begins
<1> HIDE DEF N
<1>4. 0 \in T
  BY <1>1, <1>3
<1>5. ASSUME NEW m \in T PROVE m + 1 \in T
  <2>1. m \in Nat /\ m + 1 \in Nat
    OBVIOUS
  <2>2. SUFFICES ASSUME k <= m + 1, m + 1 <= N PROVE Begins(g[k], g[m + 1])
    BY <2>1
  <2>3. CASE k = m + 1
    BY <1>3, <2>3
  <2>4. CASE k <= m
    <3>1. m + 1 \in 1 .. N /\ m \in 0 .. N /\ k \in 0 .. N /\ (m + 1) - 1 = m
      BY <1>1, <2>1, <2>2
    <3>2. Begins(g[k], g[m])
      BY <1>1, <2>1, <2>2, <2>4
    <3>3. g[m + 1] = g[m] \o Piece(items[m + 1]) /\ Piece(items[m + 1]) \in Seq(Nat)
      BY <1>2, <3>1
    <3>4. g[k] \in Seq(Nat) /\ g[m] \in Seq(Nat)
      BY <1>1, <3>1
    <3> QED BY <3>2, <3>3, <3>4, BeginsAppended
  <2> QED BY <1>1, <2>1, <2>2, <2>3, <2>4
<1>6. T = Nat
  <2>1. T \subseteq Nat
    OBVIOUS
  <2> HIDE DEF T
  <2> QED BY <1>4, <1>5, <2>1, Induction
<1>7. N \in T
  BY <1>1, <1>6
<1>8. Begins(g[k], g[N])
  BY <1>1, <1>7
<1> QED BY <1>8 DEF N

\* Where the items of a packet are.
LEMMA Laid ==
  ASSUME NEW items \in Seq(Items), NEW g, Packing(g, items), NEW k \in 1 .. Len(items)
  PROVE  LET data == Tlv(items)
             off == Len(g[k - 1])
             v == items[k].value
         IN  /\ off \in Nat /\ Len(v) \in Nat /\ data \in Seq(Nat)
             /\ data[off + 1] = Code[items[k].key] /\ data[off + 2] = Len(v)
             /\ Bytes(data, off + 2, Len(v)) = v
             /\ off + 2 + Len(v) <= Len(data)
             /\ Len(g[k]) = off + 2 + Len(v)
<1> DEFINE data == Tlv(items)
           off == Len(g[k - 1])
           v == items[k].value
           p == Piece(items[k])
           N == Len(items)
<1>1. items[k] \in Items /\ N \in Nat /\ k \in Nat /\ k - 1 \in 0 .. N /\ k \in 0 .. N /\ N \in 0 .. N
  OBVIOUS
<1>2. /\ p \in Seq(Nat) /\ Len(v) \in Nat /\ Len(p) = 2 + Len(v)
      /\ p[1] = Code[items[k].key] /\ p[2] = Len(v)
      /\ \A i \in 1 .. Len(v) : p[2 + i] = v[i]
  BY <1>1, PieceType
<1>3. v \in Seq(Nat)
  BY <1>1 DEF Items
<1>4. g[k] = g[k - 1] \o p /\ g[k - 1] \in Seq(Nat) /\ g[k] \in Seq(Nat) /\ data \in Seq(Nat)
  BY <1>1 DEF Packing
<1>5. Begins(g[k], data)
  BY <1>1, PackingBegins DEF Packing
<1> DEFINE s == g[k - 1]
           t == g[k]
<1>6. s \in Seq(Nat) /\ t = s \o p /\ t \in Seq(Nat)
  BY <1>4
<1> HIDE DEF s, t, p, v, data
<1>7. /\ Len(s) \in Nat /\ Len(t) = Len(s) + 2 + Len(v)
      /\ t[Len(s) + 1] = p[1] /\ t[Len(s) + 2] = p[2]
      /\ \A i \in 1 .. Len(v) : t[Len(s) + 2 + i] = p[2 + i]
  <2>1. Len(s) \in Nat /\ Len(t) = Len(s) + Len(p)
    BY <1>2, <1>6, Concatenated
  <2>2. \A i \in 1 .. Len(p) : t[Len(s) + i] = p[i]
    BY <1>2, <1>6, Concatenated
  <2>3. 1 \in 1 .. Len(p) /\ 2 \in 1 .. Len(p)
        /\ \A i \in 1 .. Len(v) : 2 + i \in 1 .. Len(p) /\ Len(s) + 2 + i = Len(s) + (2 + i)
    BY <1>2, <2>1
  <2>4. \A i \in 1 .. Len(v) : t[Len(s) + (2 + i)] = p[2 + i]
    BY <2>2, <2>3
  <2>5. \A i \in 1 .. Len(v) : t[Len(s) + 2 + i] = p[2 + i]
    BY <2>3, <2>4
  <2>6. t[Len(s) + 1] = p[1] /\ t[Len(s) + 2] = p[2]
    BY <2>2, <2>3
  <2>7. Len(t) = Len(s) + 2 + Len(v)
    BY <1>2, <2>1
  <2> QED BY <2>1, <2>5, <2>6, <2>7
<1>8. Len(t) <= Len(data) /\ \A i \in 1 .. Len(t) : data[i] = t[i]
  BY <1>5 DEF Begins, t
<1>9. /\ data[Len(s) + 1] = p[1] /\ data[Len(s) + 2] = p[2]
      /\ \A i \in 1 .. Len(v) : data[Len(s) + 2 + i] = p[2 + i]
  BY <1>2, <1>7, <1>8
<1>10. Bytes(data, Len(s) + 2, Len(v)) = v
  <2>1. v = [i \in 1 .. Len(v) |-> v[i]]
    BY <1>3
  <2> QED BY <1>2, <1>9, <2>1 DEF Bytes
<1>11. off = Len(s)
  BY DEF s
<1> QED BY <1>2, <1>4, <1>7, <1>8, <1>9, <1>10, <1>11 DEF data, v, t

-----------------------------------------------------------------------------
(* What is read from packets *)

\* Packets that have a key once.
Packets ==
  {items \in Seq(Items) : \A i, j \in DOMAIN items : items[i].key = items[j].key => i = j}

\* The keys of the first items, and the value of a key.
KeysOf(items, n) == {items[j].key : j \in 1 .. n}
ValueOf(items, k) == items[CHOOSE j \in DOMAIN items : items[j].key = k].value

LEMMA ValueOfItem ==
  ASSUME NEW items \in Packets, NEW i \in DOMAIN items
  PROVE  ValueOf(items, items[i].key) = items[i].value
<1> DEFINE j == CHOOSE j \in DOMAIN items : items[j].key = items[i].key
<1>1. j \in DOMAIN items /\ items[j].key = items[i].key
  OBVIOUS
<1> HIDE DEF j
<1>2. j = i
  BY <1>1 DEF Packets
<1> QED BY <1>2 DEF ValueOf, j

LEMMA KeysOfNext ==
  ASSUME NEW items, NEW i \in Nat \ {0}
  PROVE  KeysOf(items, i) = KeysOf(items, i - 1) \cup {items[i].key}
BY DEF KeysOf

\* Two functions that begin alike and go on alike are alike in the end.
LEMMA Alike ==
  ASSUME NEW n \in Nat, NEW f, NEW h, f[0] = h[0],
         \A k \in 1 .. n : f[k - 1] = h[k - 1] => f[k] = h[k]
  PROVE  f[n] = h[n]
<1> DEFINE e == [k \in 0 .. n |-> IF f[k] = h[k] THEN 1 ELSE 0]
           V == {1}
<1>1. \A k \in 0 .. n : e[k] \in V <=> f[k] = h[k]
  OBVIOUS
<1>2. 0 \in 0 .. n /\ n \in 0 .. n /\ \A k \in 1 .. n : k \in 0 .. n /\ k - 1 \in 0 .. n
  OBVIOUS
<1> HIDE DEF e, V
<1>3. e[0] \in V
  BY <1>1, <1>2
<1>4. \A k \in 1 .. n : e[k - 1] \in V => e[k] \in V
  BY <1>1, <1>2
<1>5. \A k \in 0 .. n : e[k] \in V
  BY <1>3, <1>4, Along
<1> QED BY <1>1, <1>2, <1>5

\* What a lidar reads from a packet is what was put into it.
LEMMA ValuesInTlv ==
  ASSUME NEW items \in Packets
  PROVE  ValuesIn(Tlv(items)) = [k \in KeysOf(items, Len(items)) |-> ValueOf(items, k)]
<1> DEFINE N == Len(items)
           data == Tlv(items)
           start == [off |-> 2, set |-> <<>>]
           Loop(f) == [i \in 0 .. N |-> IF i = 0 THEN start ELSE ValueOne(data, f[i - 1])]
           after == CHOOSE f : f = Loop(f)
           map(i) == [k \in KeysOf(items, i) |-> ValueOf(items, k)]
<1>1. items \in Seq(Items) /\ N \in Nat /\ DOMAIN items = 1 .. N
  BY DEF Packets
<1>2. PICK g : Packing(g, items)
  BY <1>1, PackingExists
<1> DEFINE h == [i \in 0 .. N |-> [off |-> Len(g[i]), set |-> map(i)]]
<1>3. data[1] = N
  <2>0. 0 \in 0 .. Len(items)
    BY <1>1
  <2>1. g[0] = <<N, 0>> /\ data = g[N]
    BY <1>2 DEF Packing
  <2>2. Begins(g[0], g[N])
    BY <1>1, <1>2, <2>0, PackingBegins
  <2> HIDE DEF data, N
  <2>3. Len(g[0]) = 2 /\ g[0][1] = N
    BY <2>1
  <2> QED BY <2>1, <2>2, <2>3 DEF Begins
<1>4. ValuesIn(data) = after[N].set
  BY <1>3 DEF ValuesIn
<1>5. h[0] = start
  <2>1. map(0) = <<>>
    BY DEF KeysOf
  <2>2. g[0] = <<N, 0>>
    BY <1>2 DEF Packing
  <2>3. Len(g[0]) = 2
    BY <2>2
  <2>4. h[0] = [off |-> Len(g[0]), set |-> map(0)]
    BY <1>1
  <2> HIDE DEF map, h
  <2> QED BY <2>1, <2>3, <2>4
<1>6. ASSUME NEW i \in 1 .. N PROVE h[i] = ValueOne(data, h[i - 1])
  <2> DEFINE key == items[i].key
             v == items[i].value
             st == h[i - 1]
  <2>1. i - 1 \in 0 .. N /\ i \in 0 .. N /\ i \in Nat \ {0} /\ items[i] \in Items
    BY <1>1
  <2>2. st.off = Len(g[i - 1]) /\ st.set = map(i - 1)
    BY <2>1
  <2>3. /\ data[st.off + 1] = Code[key] /\ data[st.off + 2] = Len(v)
        /\ Bytes(data, st.off + 2, Len(v)) = v
        /\ Len(g[i]) = st.off + 2 + Len(v)
    <3> DEFINE off == Len(g[i - 1])
    <3>1. /\ data[off + 1] = Code[key] /\ data[off + 2] = Len(v)
          /\ Bytes(data, off + 2, Len(v)) = v
          /\ Len(g[i]) = off + 2 + Len(v)
      BY <1>1, <1>2, Laid
    <3>2. st.off = off
      BY <2>2
    <3> HIDE DEF off, st, data
    <3> QED BY <3>1, <3>2
  <2>4. Key(Code[key]) = key
    BY <2>1, KeyOfCode DEF Items
  <2>5. Replaced(map(i - 1), key, v) = map(i)
    <3>1. KeysOf(items, i) = KeysOf(items, i - 1) \cup {key}
      BY <2>1, KeysOfNext
    <3>2. ValueOf(items, key) = v
      BY <1>1, ValueOfItem
    <3> HIDE DEF key, v
    <3> QED BY <3>1, <3>2 DEF Replaced
  <2>6. h[i] = [off |-> Len(g[i]), set |-> map(i)]
    BY <2>1
  <2> HIDE DEF h, map, data, key, v, st
  <2>7. ValueOne(data, st) = [off |-> st.off + 2 + Len(v), set |-> Replaced(st.set, key, v)]
    BY <2>3, <2>4 DEF ValueOne
  <2> QED BY <2>2, <2>3, <2>5, <2>6, <2>7 DEF st
<1> HIDE DEF map, data, start
<1>7. h = Loop(h)
  <2>1. \A i \in 0 .. N : h[i] = IF i = 0 THEN start ELSE ValueOne(data, h[i - 1])
    <3> HIDE DEF h
    <3>1. \A i \in 0 .. N : i = 0 \/ i \in 1 .. N
      BY <1>1
    <3> QED BY <1>5, <1>6, <3>1
  <2>2. h = [i \in 0 .. N |-> h[i]]
    OBVIOUS
  <2> HIDE DEF h
  <2> QED BY <2>1, <2>2
<1>8. after = Loop(after)
  <2> HIDE DEF h
  <2> QED BY <1>7
<1> DEFINE top == h[N].set
<1>9. top = map(N)
  BY <1>1
<1> HIDE DEF after, h
<1>10. after[0] = h[0] /\ \A k \in 1 .. N : after[k - 1] = h[k - 1] => after[k] = h[k]
  BY <1>1, <1>7, <1>8
<1>11. after[N] = h[N]
  BY <1>1, <1>10, Alike
<1> QED BY <1>4, <1>9, <1>11 DEF map, data, top

\* Values a report may have: some bytes, as many for addresses as these take.
Fitting(k, v) ==
  /\ v \in Seq(Nat) /\ v # <<>>
  /\ k \in HostAddressKeys => Len(v) = 8
  /\ k = "LidarIpCfg" => Len(v) = 12

LEMMA ParseItemMeaning ==
  ASSUME NEW k \in Understood, NEW v, Fitting(k, v), NEW data, NEW off \in Nat,
         Bytes(data, off, Len(v)) = v
  PROVE  ParseItem(k, data, off, Len(v)) = Meaning(k, v)
<1>1. v \in Seq(Nat) /\ Len(v) \in Nat
  BY DEF Fitting
<1>2. \A i \in 1 .. Len(v) : v[i] = data[off + i]
  <2>1. \A i \in 1 .. Len(v) : Bytes(data, off, Len(v))[i] = data[off + i]
    BY DEF Bytes
  <2> QED BY <2>1
<1>3. CASE k \in CopiedSettings \cup CopiedState
  <2>1. k \notin HostAddressKeys /\ k # "LidarIpCfg"
    BY <1>3 DEF CopiedSettings, CopiedState, HostAddressKeys
  <2>2. Meaning(k, v) = v
    BY <2>1 DEF Meaning
  <2>3. ParseItem(k, data, off, Len(v)) = Bytes(data, off, Len(v))
    BY <1>3, <2>1 DEF ParseItem
  <2> QED BY <2>2, <2>3
<1>4. ASSUME NEW a \in Nat, NEW b \in Nat, a + 4 <= Len(v), b = off + a
      PROVE  Bytes(data, b, 4) = SubSeq(v, a + 1, a + 4)
  <2>1. \A i \in 1 .. 4 : a + i \in 1 .. Len(v) /\ v[a + i] = data[b + i]
    <3>1. \A i \in 1 .. 4 : a + i \in 1 .. Len(v) /\ off + (a + i) = b + i
      BY <1>1, <1>4
    <3> QED BY <1>2, <3>1
  <2>2. SubSeq(v, a + 1, a + 4) = [i \in 1 .. 4 |-> v[a + i]]
    <3> DEFINE m == a + 1
               n == a + 4
               s == SubSeq(v, m, n)
    <3>0. m \in Int /\ n \in Int /\ n - m + 1 = 4 /\ m <= n /\ \A i \in m .. n : v[i] \in Nat
      BY <1>1, <1>4
    <3>00. \A i \in 1 .. 4 : m + i - 1 = a + i
      BY <1>4
    <3> HIDE DEF m, n
    <3>1. s \in Seq(Nat) /\ Len(s) = 4 /\ \A i \in 1 .. 4 : s[i] = v[m + i - 1]
      BY <3>0, SubSeqProperties
    <3>2. \A i \in 1 .. 4 : s[i] = v[a + i]
      BY <3>00, <3>1
    <3> HIDE DEF s
    <3>4. s = [i \in 1 .. 4 |-> s[i]]
      BY <3>1
    <3> QED BY <3>2, <3>4 DEF s, m, n
  <2> QED BY <2>1, <2>2 DEF Bytes
<1>5. CASE k = "LidarIpCfg"
  <2>1. Len(v) = 12
    BY <1>5 DEF Fitting
  <2>2. /\ Bytes(data, off, 4) = SubSeq(v, 0 + 1, 0 + 4)
        /\ Bytes(data, off + 4, 4) = SubSeq(v, 4 + 1, 4 + 4)
        /\ Bytes(data, off + 8, 4) = SubSeq(v, 8 + 1, 8 + 4)
    BY <1>4, <2>1
  <2>3. k \notin CopiedSettings \cup CopiedState
    BY <1>5 DEF CopiedSettings, CopiedState
  <2>4. ParseItem(k, data, off, Len(v)) = ParseLidarIpAddr(data, off)
    BY <1>5, <2>3 DEF ParseItem, HostAddressKeys
  <2>5. 0 + 1 = 1 /\ 0 + 4 = 4 /\ 4 + 1 = 5 /\ 4 + 4 = 8 /\ 8 + 1 = 9 /\ 8 + 4 = 12
    OBVIOUS
  <2>6. Meaning(k, v) = <<SubSeq(v, 1, 4), SubSeq(v, 5, 8), SubSeq(v, 9, 12)>>
    BY <1>5 DEF Meaning, HostAddressKeys
  <2> QED BY <2>2, <2>4, <2>5, <2>6 DEF ParseLidarIpAddr
<1>6. CASE k \in HostAddressKeys
  <2>1. Len(v) = 8
    BY <1>6 DEF Fitting
  <2>2. Bytes(data, off, 4) = SubSeq(v, 0 + 1, 0 + 4)
    BY <1>4, <2>1
  <2>3. k \notin CopiedSettings \cup CopiedState /\ k # "LidarIpCfg"
    BY <1>6 DEF CopiedSettings, CopiedState, HostAddressKeys
  <2>4. ParseItem(k, data, off, Len(v)) = ParseHostIpCfg(data, off)
    BY <1>6, <2>3 DEF ParseItem
  <2>5. /\ v[5] = data[off + 4 + 1] /\ v[6] = data[off + 4 + 2]
        /\ v[7] = data[off + 6 + 1] /\ v[8] = data[off + 6 + 2]
    <3>1. /\ off + 4 + 1 = off + 5 /\ off + 4 + 2 = off + 6
          /\ off + 6 + 1 = off + 7 /\ off + 6 + 2 = off + 8
      OBVIOUS
    <3>2. 5 \in 1 .. Len(v) /\ 6 \in 1 .. Len(v) /\ 7 \in 1 .. Len(v) /\ 8 \in 1 .. Len(v)
      BY <2>1
    <3> QED BY <1>2, <3>1, <3>2
  <2>6. Meaning(k, v) = <<SubSeq(v, 1, 4), v[5] + 256 * v[6], v[7] + 256 * v[8]>>
    BY <1>6, <2>3 DEF Meaning
  <2>7. 0 + 1 = 1 /\ 0 + 4 = 4
    OBVIOUS
  <2> QED BY <2>2, <2>4, <2>5, <2>6, <2>7 DEF ParseHostIpCfg, Word
<1> QED BY <1>3, <1>5, <1>6 DEF Understood

\* What the application is told of a packet is what was put into it, but for the
\* keys that ParseStateInfo does not know.
LEMMA ParseTlv ==
  ASSUME NEW items \in Packets,
         \A i \in DOMAIN items : Fitting(items[i].key, items[i].value)
  PROVE  /\ ParseStateInfo(Tlv(items)).ok
         /\ ParseStateInfo(Tlv(items)).info
              = [k \in KeysOf(items, Len(items)) \cap Understood |->
                   Meaning(k, ValueOf(items, k))]
<1> DEFINE N == Len(items)
           data == Tlv(items)
           start == [ok |-> TRUE, off |-> 2, info |-> <<>>]
           Loop(f) == [i \in 0 .. N |-> IF i = 0 THEN start ELSE ParseOne(data, f[i - 1])]
           after == CHOOSE f : f = Loop(f)
           map(i) == [k \in KeysOf(items, i) \cap Understood |-> Meaning(k, ValueOf(items, k))]
<1>1. items \in Seq(Items) /\ N \in Nat /\ DOMAIN items = 1 .. N
  BY DEF Packets
<1>2. PICK g : Packing(g, items)
  BY <1>1, PackingExists
<1> DEFINE h == [i \in 0 .. N |-> [ok |-> TRUE, off |-> Len(g[i]), info |-> map(i)]]
<1>3. data[1] = N
  <2>0. 0 \in 0 .. Len(items)
    BY <1>1
  <2>1. g[0] = <<N, 0>> /\ data = g[N]
    BY <1>2 DEF Packing
  <2>2. Begins(g[0], g[N])
    BY <1>1, <1>2, <2>0, PackingBegins
  <2> HIDE DEF data, N
  <2>3. Len(g[0]) = 2 /\ g[0][1] = N
    BY <2>1
  <2> QED BY <2>1, <2>2, <2>3 DEF Begins
<1>4. ParseStateInfo(data) = after[N]
  BY <1>3 DEF ParseStateInfo
<1>5. h[0] = start
  <2>1. map(0) = <<>>
    BY DEF KeysOf
  <2>2. g[0] = <<N, 0>>
    BY <1>2 DEF Packing
  <2>3. Len(g[0]) = 2
    BY <2>2
  <2>4. h[0] = [ok |-> TRUE, off |-> Len(g[0]), info |-> map(0)]
    BY <1>1
  <2> HIDE DEF map, h
  <2> QED BY <2>1, <2>3, <2>4
<1>6. ASSUME NEW i \in 1 .. N PROVE h[i] = ParseOne(data, h[i - 1])
  <2> DEFINE key == items[i].key
             v == items[i].value
             st == h[i - 1]
             info == IF key \in Understood THEN Replaced(st.info, key, Meaning(key, v))
                     ELSE st.info
  <2>1. i - 1 \in 0 .. N /\ i \in 0 .. N /\ i \in Nat \ {0} /\ items[i] \in Items
        /\ i \in DOMAIN items
    BY <1>1
  <2>2. st.off = Len(g[i - 1]) /\ st.info = map(i - 1) /\ st.ok
    BY <2>1
  <2>3. /\ data[st.off + 1] = Code[key] /\ data[st.off + 2] = Len(v)
        /\ Bytes(data, st.off + 2, Len(v)) = v
        /\ Len(g[i]) = st.off + 2 + Len(v) /\ st.off \in Nat /\ Len(data) \in Nat
        /\ st.off + 2 + Len(v) <= Len(data)
    <3> DEFINE off == Len(g[i - 1])
    <3>1. /\ data[off + 1] = Code[key] /\ data[off + 2] = Len(v)
          /\ Bytes(data, off + 2, Len(v)) = v /\ off \in Nat /\ data \in Seq(Nat)
          /\ Len(g[i]) = off + 2 + Len(v) /\ off + 2 + Len(v) <= Len(data)
      BY <1>1, <1>2, Laid
    <3>2. st.off = off
      BY <2>2
    <3> HIDE DEF off, st, data
    <3>3. Len(data) \in Nat
      BY <3>1
    <3> QED BY <3>1, <3>2, <3>3
  <2>4. Key(Code[key]) = key
    BY <2>1, KeyOfCode DEF Items
  <2>5. Fitting(key, v)
    BY <2>1
  <2>6. Len(v) \in Nat \ {0}
    <3> HIDE DEF v
    <3> QED BY <2>5 DEF Fitting
  <2>7. info = map(i)
    <3>1. KeysOf(items, i) = KeysOf(items, i - 1) \cup {key}
      BY <2>1, KeysOfNext
    <3>2. ValueOf(items, key) = v
      BY <2>1, ValueOfItem
    <3> HIDE DEF key, v, st
    <3> QED BY <2>2, <3>1, <3>2 DEF Replaced
  <2>8. h[i] = [ok |-> TRUE, off |-> Len(g[i]), info |-> map(i)]
    BY <2>1
  <2> HIDE DEF h, map, data, key, v, st
  <2>9. key \in Understood => ParseItem(key, data, st.off + 2, Len(v)) = Meaning(key, v)
    <3> DEFINE off == st.off + 2
    <3>1. off \in Nat /\ Bytes(data, off, Len(v)) = v
      BY <2>3
    <3> HIDE DEF off
    <3>2. key \in Understood => ParseItem(key, data, off, Len(v)) = Meaning(key, v)
      BY <2>5, <3>1, ParseItemMeaning
    <3> QED BY <3>2 DEF off
  <2>10. ~(st.off + 3 > Len(data))
    BY <2>3, <2>6
  <2>11. ParseOne(data, st) = [ok |-> TRUE, off |-> st.off + 2 + Len(v), info |-> info]
    BY <2>2, <2>3, <2>4, <2>9, <2>10 DEF ParseOne
  <2> HIDE DEF info
  <2> QED BY <2>3, <2>7, <2>8, <2>11 DEF st
<1> HIDE DEF map, data, start
<1>7. h = Loop(h)
  <2>1. \A i \in 0 .. N : h[i] = IF i = 0 THEN start ELSE ParseOne(data, h[i - 1])
    <3> HIDE DEF h
    <3>1. \A i \in 0 .. N : i = 0 \/ i \in 1 .. N
      BY <1>1
    <3> QED BY <1>5, <1>6, <3>1
  <2>2. h = [i \in 0 .. N |-> h[i]]
    OBVIOUS
  <2> HIDE DEF h
  <2> QED BY <2>1, <2>2
<1>8. after = Loop(after)
  <2> HIDE DEF h
  <2> QED BY <1>7
<1> DEFINE top == h[N]
<1>9. top.ok /\ top.info = map(N)
  BY <1>1
<1> HIDE DEF after, h
<1>10. after[0] = h[0] /\ \A k \in 1 .. N : after[k - 1] = h[k - 1] => after[k] = h[k]
  BY <1>1, <1>7, <1>8
<1>11. after[N] = h[N]
  BY <1>1, <1>10, Alike
<1> QED BY <1>4, <1>9, <1>11 DEF map, data, top

-----------------------------------------------------------------------------
(* The keys a lidar holds, in the order of their codes *)

Below(keys, k) == {j \in keys : Code[j] < Code[k]}

LEMMA BelowGrows ==
  ASSUME NEW keys \in SUBSET DOMAIN Code, IsFiniteSet(keys), NEW j \in keys, NEW k \in keys,
         Code[j] < Code[k]
  PROVE  Cardinality(Below(keys, j)) < Cardinality(Below(keys, k))
<1> DEFINE J == Below(keys, j)
           K == Below(keys, k)
           Jj == J \cup {j}
<1>1. J \subseteq keys /\ K \subseteq keys
  BY DEF Below
<1>2. Code[j] \in Nat /\ Code[k] \in Nat /\ \A i \in keys : Code[i] \in Nat
  BY CodeType
<1>3. j \notin J /\ Jj \subseteq K
  BY <1>2 DEF Below
<1>4. IsFiniteSet(J) /\ IsFiniteSet(K)
  <2> HIDE DEF J, K
  <2> QED BY <1>1, FS_Subset
<1> HIDE DEF J, K
<1>5. Cardinality(J) \in Nat /\ Cardinality(K) \in Nat
  BY <1>4, FS_CardinalityType
<1>6. Cardinality(Jj) = Cardinality(J) + 1
  BY <1>3, <1>4, FS_AddElement
<1> HIDE DEF Jj
<1>7. Cardinality(Jj) <= Cardinality(K)
  BY <1>3, <1>4, FS_Subset
<1>8. Cardinality(J) < Cardinality(K)
  BY <1>5, <1>6, <1>7
<1> QED BY <1>8 DEF J, K

LEMMA InOrderLists ==
  ASSUME NEW keys \in SUBSET DOMAIN Code, IsFiniteSet(keys)
  PROVE  /\ InOrder(keys) \in Seq(keys)
         /\ \A k \in keys : \E i \in DOMAIN InOrder(keys) : InOrder(keys)[i] = k
         /\ \A i, j \in DOMAIN InOrder(keys) : InOrder(keys)[i] = InOrder(keys)[j] => i = j
<1> DEFINE n == Cardinality(keys)
           R == 0 .. n - 1
           rank == [k \in keys |-> Cardinality(Below(keys, k))]
           pick(i) == CHOOSE k \in keys : Cardinality(Below(keys, k)) = i - 1
           s == InOrder(keys)
<1>1. n \in Nat
  BY FS_CardinalityType
<1>2. s = [i \in 1 .. n |-> pick(i)]
  BY DEF InOrder, Below
<1>3. IsFiniteSet(R) /\ Cardinality(R) = n
  <2> DEFINE m == n - 1
  <2>1. m \in Int /\ 0 \in Int
    BY <1>1
  <2>2. IsFiniteSet(0 .. m) /\ Cardinality(0 .. m) = IF 0 > m THEN 0 ELSE m - 0 + 1
    <3> HIDE DEF m
    <3> QED BY <2>1, FS_Interval
  <2> QED BY <1>1, <2>2
<1>4. ASSUME NEW k \in keys PROVE rank[k] \in R
  <2> DEFINE B == Below(keys, k)
             others == keys \ {k}
  <2>1. B \subseteq others
    <3>1. Code[k] \in Nat
      BY CodeType
    <3> QED BY <3>1 DEF Below
  <2>2. IsFiniteSet(others) /\ Cardinality(others) = n - 1
    <3> HIDE DEF B
    <3> QED BY FS_RemoveElement
  <2> HIDE DEF B, others
  <2>3. IsFiniteSet(B) /\ Cardinality(B) <= Cardinality(others)
    BY <2>1, <2>2, FS_Subset
  <2>4. Cardinality(B) \in Nat
    BY <2>3, FS_CardinalityType
  <2>5. rank[k] = Cardinality(B)
    BY DEF B
  <2> QED BY <1>1, <2>2, <2>3, <2>4, <2>5
<1>5. ASSUME NEW j \in keys, NEW k \in keys, rank[j] = rank[k] PROVE j = k
  <2>1. Code[j] \in Nat /\ Code[k] \in Nat /\ rank[j] \in Nat /\ rank[k] \in Nat
    <3>1. rank[j] \in R /\ rank[k] \in R
      BY <1>4
    <3> HIDE DEF rank
    <3> QED BY <1>1, <3>1, CodeType
  <2>2. ~(Code[j] < Code[k])
    <3> SUFFICES ASSUME Code[j] < Code[k] PROVE FALSE
      OBVIOUS
    <3>1. Cardinality(Below(keys, j)) < Cardinality(Below(keys, k))
      BY BelowGrows
    <3> QED BY <1>5, <2>1, <3>1
  <2>3. ~(Code[k] < Code[j])
    <3> SUFFICES ASSUME Code[k] < Code[j] PROVE FALSE
      OBVIOUS
    <3>1. Cardinality(Below(keys, k)) < Cardinality(Below(keys, j))
      BY BelowGrows
    <3> QED BY <1>5, <2>1, <3>1
  <2>4. Code[j] = Code[k]
    BY <2>1, <2>2, <2>3
  <2> QED BY <2>4, CodeInjective
<1>6. rank \in Injection(keys, R)
  <2>1. rank \in [keys -> R]
    BY <1>4
  <2> HIDE DEF rank, R
  <2> QED BY <1>5, <2>1 DEF Injection, IsInjective
<1>7. rank \in Surjection(keys, R)
  <2> HIDE DEF rank, R
  <2> QED BY <1>3, <1>6, FS_Injection
<1>8. \A i \in R : \E k \in keys : rank[k] = i
  BY <1>7 DEF Surjection
<1>9. ASSUME NEW i \in 1 .. n PROVE pick(i) \in keys /\ rank[pick(i)] = i - 1
  <2>1. i - 1 \in R
    BY <1>1
  <2>2. \E k \in keys : rank[k] = i - 1
    <3> HIDE DEF R, rank
    <3> QED BY <1>8, <2>1
  <2>3. \E k \in keys : Cardinality(Below(keys, k)) = i - 1
    BY <2>2
  <2>4. pick(i) \in keys /\ Cardinality(Below(keys, pick(i))) = i - 1
    BY <2>3
  <2> HIDE DEF pick
  <2> QED BY <2>4
<1> HIDE DEF pick
<1>10. s \in Seq(keys) /\ DOMAIN s = 1 .. n
  <2> HIDE DEF rank, R, s
  <2>1. \A i \in 1 .. n : pick(i) \in keys
    BY <1>9
  <2>2. s \in [1 .. n -> keys]
    BY <1>2, <2>1
  <2> HIDE DEF n
  <2> QED BY <1>1, <2>2, IsASeq
<1>11. ASSUME NEW k \in keys PROVE \E i \in DOMAIN s : s[i] = k
  <2>1. rank[k] \in R
    BY <1>4
  <2> DEFINE i == rank[k] + 1
  <2>2. i \in 1 .. n /\ i - 1 = rank[k]
    <3> HIDE DEF rank
    <3> QED BY <1>1, <2>1
  <2> HIDE DEF i, R
  <2>3. pick(i) \in keys /\ rank[pick(i)] = rank[k]
    <3> HIDE DEF rank
    <3> QED BY <1>9, <2>2
  <2>4. pick(i) = k
    <3> HIDE DEF rank
    <3> QED BY <1>5, <2>3
  <2>5. s[i] = pick(i)
    BY <1>2, <2>2
  <2> QED BY <1>10, <2>2, <2>4, <2>5
<1>12. ASSUME NEW i \in DOMAIN s, NEW j \in DOMAIN s, s[i] = s[j] PROVE i = j
  <2>1. i \in 1 .. n /\ j \in 1 .. n /\ pick(i) = pick(j)
    BY <1>2, <1>10, <1>12
  <2>2. rank[pick(i)] = i - 1 /\ rank[pick(j)] = j - 1
    BY <1>9, <2>1
  <2>3. i - 1 = j - 1
    <3> HIDE DEF rank
    <3> QED BY <2>1, <2>2
  <2> QED BY <1>1, <2>1, <2>3
<1> QED BY <1>10, <1>11, <1>12

-----------------------------------------------------------------------------
(* What the calls carry *)

\* Packets that set keys have each once, with values as a lidar reports them.
Setting(items) ==
  items \in Packets /\ \A i \in DOMAIN items : Fitting(items[i].key, items[i].value)
Valid(id, items) == id # "PushMsg" /\ (id = "WorkModeControl" => Setting(items))
GoodCall(call) == \A items \in call.packets : Valid(call.id, items)

LEMMA SettingOne ==
  ASSUME NEW k \in DOMAIN Code, NEW v, Fitting(k, v)
  PROVE  Setting(<<Item(k, v)>>)
<1> DEFINE item == Item(k, v)
<1>1. item \in Items /\ item.key = k /\ item.value = v
  BY DEF Item, Items, Fitting
<1> HIDE DEF item
<1>2. <<item>> \in Packets
  BY <1>1 DEF Packets
<1>3. \A i \in DOMAIN <<item>> : Fitting(<<item>>[i].key, <<item>>[i].value)
  BY <1>1
<1> QED BY <1>2, <1>3 DEF Setting, item

LEMMA SetsGood ==
  ASSUME NEW k \in DOMAIN Code, NEW values, \A v \in values : Fitting(k, v)
  PROVE  GoodCall(Sets(k, values))
<1>1. \A v \in values : Setting(<<Item(k, v)>>)
  BY SettingOne
<1>2. /\ Sets(k, values).packets = {<<Item(k, v)>> : v \in values}
      /\ Sets(k, values).id = "WorkModeControl"
  BY DEF Sets, CallOf
<1> QED BY <1>1, <1>2 DEF GoodCall, Valid

Plainly(k) == k \in DOMAIN Code /\ k \notin HostAddressKeys /\ k # "LidarIpCfg"

LEMMA ByteFits ==
  ASSUME NEW k, Plainly(k), NEW bs \in SUBSET Nat
  PROVE  \A v \in Byte(bs) : Fitting(k, v)
<1>1. SUFFICES ASSUME NEW b \in bs PROVE Fitting(k, <<b>>)
  BY DEF Byte
<1>2. b \in Nat
  OBVIOUS
<1>3. <<b>> \in Seq(Nat) /\ <<b>> # <<>>
  BY <1>2
<1> QED BY <1>3 DEF Plainly, Fitting

LEMMA ByteSetsGood ==
  ASSUME NEW k, Plainly(k), NEW bs \in SUBSET Nat
  PROVE  GoodCall(Sets(k, Byte(bs)))
<1> DEFINE values == Byte(bs)
<1>1. \A v \in values : Fitting(k, v)
  BY ByteFits
<1> HIDE DEF values
<1>2. GoodCall(Sets(k, values))
  BY <1>1, SetsGood DEF Plainly
<1> QED BY <1>2 DEF values

LEMMA BlockSetsGood ==
  ASSUME NEW k, Plainly(k), NEW n \in Nat \ {0}
  PROVE  GoodCall(Sets(k, Block(n)))
<1> DEFINE values == Block(n)
<1>1. ASSUME NEW v \in values PROVE Fitting(k, v)
  <2>1. PICK b \in {0, 1} : v = [i \in 1 .. n |-> b]
    BY DEF Block
  <2>2. v \in [1 .. n -> Nat] /\ v # <<>>
    <3>1. v[1] = b /\ 1 \in DOMAIN v
      BY <2>1
    <3> QED BY <2>1, <3>1
  <2>3. v \in Seq(Nat)
    BY <2>2, IsASeq
  <2> QED BY <2>2, <2>3 DEF Fitting, Plainly
<1> HIDE DEF values
<1>2. GoodCall(Sets(k, values))
  BY <1>1, SetsGood DEF Plainly
<1> QED BY <1>2 DEF values

LEMMA FunctionIsSeq ==
  ASSUME NEW n \in Nat, NEW f \in [1 .. n -> Nat] PROVE f \in Seq(Nat) /\ Len(f) = n
<1>1. f \in Seq(Nat)
  BY IsASeq
<1> QED BY <1>1, LenProperties

LEMMA NotEmpty == ASSUME NEW v \in Seq(Nat), NEW n \in Nat \ {0}, Len(v) = n PROVE v # <<>>
OBVIOUS

LEMMA ThreeJoined ==
  ASSUME NEW a \in Seq(Nat), NEW b \in Seq(Nat), NEW c \in Seq(Nat)
  PROVE  (a \o b) \o c \in Seq(Nat) /\ Len((a \o b) \o c) = (Len(a) + Len(b)) + Len(c)
<1> DEFINE d == a \o b
<1>1. d \in Seq(Nat) /\ Len(d) = Len(a) + Len(b)
  BY Concatenated
<1> HIDE DEF d
<1>2. d \o c \in Seq(Nat) /\ Len(d \o c) = Len(d) + Len(c)
  BY <1>1, Concatenated
<1> QED BY <1>1, <1>2 DEF d

LEMMA HostBytesFit ==
  ASSUME NEW k \in HostAddressKeys, NEW v \in Seq(Nat), Len(v) = 8 PROVE Fitting(k, v)
<1>1. k # "LidarIpCfg"
  BY DEF HostAddressKeys
<1>2. v # <<>>
  BY NotEmpty, 8 \in Nat \ {0}
<1> QED BY <1>1, <1>2 DEF Fitting

LEMMA LidarBytesFit ==
  ASSUME NEW v \in Seq(Nat), Len(v) = 12 PROVE Fitting("LidarIpCfg", v)
<1>1. "LidarIpCfg" \notin HostAddressKeys
  BY DEF HostAddressKeys
<1>2. v # <<>>
  BY NotEmpty, 12 \in Nat \ {0}
<1> QED BY <1>1, <1>2 DEF Fitting

\* Addresses and ports as bytes.
LEMMA IpToU8Type ==
  ASSUME NEW ip \in Seq(Int), IsIp(ip)
  PROVE  IpToU8(ip) \in Seq(Nat) /\ Len(IpToU8(ip)) = 4
<1>1. ip \in [1 .. 4 -> Int]
  BY DEF IsIp
<1>2. IpToU8(ip) = [i \in 1 .. 4 |-> ip[i] % 256]
  BY <1>1 DEF IpToU8
<1>3. \A i \in 1 .. 4 : ip[i] % 256 \in Nat
  BY <1>1
<1>4. IpToU8(ip) \in [1 .. 4 -> Nat]
  BY <1>2, <1>3
<1> QED BY <1>4, FunctionIsSeq

LEMMA PortType ==
  ASSUME NEW p \in Nat PROVE Port(p) \in Seq(Nat) /\ Len(Port(p)) = 2
<1>1. p % 256 \in Nat /\ p \div 256 \in Nat
  OBVIOUS
<1> QED BY <1>1 DEF Port

LEMMA HostAddressFits ==
  ASSUME NEW ip \in Seq(Int), IsIp(ip), NEW h \in Nat, NEW l \in Nat, NEW k \in HostAddressKeys
  PROVE  Fitting(k, HostAddress(ip, h, l))
<1> DEFINE a == IpToU8(ip)
           b == Port(h)
           c == Port(l)
           v == (a \o b) \o c
<1>1. a \in Seq(Nat) /\ Len(a) = 4 /\ b \in Seq(Nat) /\ Len(b) = 2 /\ c \in Seq(Nat) /\ Len(c) = 2
  BY IpToU8Type, PortType
<1>2. HostAddress(ip, h, l) = v
  BY DEF HostAddress
<1> HIDE DEF a, b, c
<1>3. v \in Seq(Nat) /\ Len(v) = 4 + 2 + 2
  <2>1. (a \o b) \o c \in Seq(Nat) /\ Len((a \o b) \o c) = (Len(a) + Len(b)) + Len(c)
    BY <1>1, ThreeJoined
  <2> QED BY <1>1, <2>1
<1> HIDE DEF v
<1>4. Fitting(k, v)
  BY <1>3, HostBytesFit
<1> QED BY <1>2, <1>4

LEMMA LidarAddressFits ==
  ASSUME NEW ip \in Seq(Int), IsIp(ip)
  PROVE  Fitting("LidarIpCfg", LidarAddress(ip, <<255, 255, 255, 0>>, ip))
<1> DEFINE mask == <<255, 255, 255, 0>>
           a == IpToU8(ip)
           b == IpToU8(mask)
           v == (a \o b) \o a
<1>1. a \in Seq(Nat) /\ Len(a) = 4
  BY IpToU8Type
<1>2. b \in Seq(Nat) /\ Len(b) = 4
  <2>1. mask \in Seq(Int) /\ IsIp(mask)
    BY DEF IsIp
  <2> HIDE DEF mask
  <2> QED BY <2>1, IpToU8Type
<1>3. LidarAddress(ip, mask, ip) = v
  BY DEF LidarAddress
<1> HIDE DEF a, b
<1>4. v \in Seq(Nat) /\ Len(v) = 4 + 4 + 4
  <2>1. (a \o b) \o a \in Seq(Nat) /\ Len((a \o b) \o a) = (Len(a) + Len(b)) + Len(a)
    BY <1>1, <1>2, ThreeJoined
  <2> QED BY <1>1, <1>2, <2>1
<1> HIDE DEF v
<1>5. Fitting("LidarIpCfg", v)
  BY <1>4, LidarBytesFit
<1> QED BY <1>3, <1>5

-----------------------------------------------------------------------------
(* The calls of the application *)

AllGood(calls_) == \A name \in DOMAIN calls_ : GoodCall(calls_[name])

LEMMA PlainKeys ==
  \A k \in {"PclDataType", "PatternMode", "DualEmitEn", "PointSendEn", "InstallAttitude",
            "FovCfg0", "FovCfg1", "FovCfgEn", "DetectMode", "FuncIoCfg", "BlindSpotSet",
            "WorkMode", "GlassHeat", "ImuDataEn", "FusaEn", "ForceHeatEn", "LogParamSet",
            "WorkModeAfterBoot"} : Plainly(k)
BY DEF Plainly, Code, HostAddressKeys

LEMMA DataTypeGood == GoodCall(SensingCalls.SetLivoxLidarPclDataType)
<1> DEFINE types == Byte(1 .. 3)
           first == <<Item("ImuDataEn", <<1>>)>>
           others == {<<Item("PclDataType", v)>> : v \in types}
<1>1. Plainly("ImuDataEn") /\ Plainly("PclDataType")
  BY PlainKeys
<1>2. Fitting("ImuDataEn", <<1>>)
  <2>1. <<1>> \in Byte({1}) /\ {1} \in SUBSET Nat
    BY DEF Byte
  <2> QED BY <1>1, <2>1, ByteFits
<1>3. \A v \in types : Fitting("PclDataType", v)
  <2>1. 1 .. 3 \in SUBSET Nat
    OBVIOUS
  <2> QED BY <1>1, <2>1, ByteFits
<1>4. SensingCalls.SetLivoxLidarPclDataType = CallOf("WorkModeControl", "cmd", {first} \cup others)
  BY DEF SensingCalls
<1> HIDE DEF types
<1>5. Setting(first)
  BY <1>1, <1>2, SettingOne DEF Plainly
<1>6. ASSUME NEW v \in types PROVE Setting(<<Item("PclDataType", v)>>)
  BY <1>1, <1>3, SettingOne DEF Plainly
<1>7. \A items \in others : Setting(items)
  BY <1>6
<1> HIDE DEF first, others
<1> QED BY <1>4, <1>5, <1>7 DEF GoodCall, Valid, CallOf

LEMMA SensingGood == AllGood(SensingCalls)
<1>1. /\ GoodCall(Sets("PatternMode", Byte(0 .. 2))) /\ GoodCall(Sets("DualEmitEn", Byte({0, 1})))
      /\ GoodCall(Sets("PointSendEn", Byte({0}))) /\ GoodCall(Sets("PointSendEn", Byte({1})))
  <2>1. 0 .. 2 \in SUBSET Nat /\ {0, 1} \in SUBSET Nat /\ {0} \in SUBSET Nat /\ {1} \in SUBSET Nat
    OBVIOUS
  <2> QED BY <2>1, PlainKeys, ByteSetsGood
<1> QED BY <1>1, DataTypeGood DEF AllGood, SensingCalls

LEMMA AddressGood == AllGood(AddressCalls)
<1> DEFINE ips == {i \in HostIps : IsIp(i)}
           mask == <<255, 255, 255, 0>>
           ports == {"state", "point", "imu"}
<1>1. ASSUME NEW k \in HostAddressKeys, NEW p \in ports PROVE GoodCall(SetHostIp(k, p))
  <2> DEFINE h == HostPort[p] + 1
             l == HostPort[p]
             values == {HostAddress(ip, h, l) : ip \in ips}
  <2>1. h \in Nat /\ l \in Nat
    BY DEF HostPort
  <2>2. k \in DOMAIN Code
    BY DEF HostAddressKeys, Code
  <2>3. SetHostIp(k, p) = Sets(k, values)
    BY DEF SetHostIp
  <2> HIDE DEF h, l
  <2>4. \A v \in values : Fitting(k, v)
    BY <2>1, HostAddressFits, AddressAssumption
  <2> HIDE DEF values
  <2> QED BY <2>2, <2>3, <2>4, SetsGood
<1>2. GoodCall(SetLidarIp)
  <2> DEFINE values == {LidarAddress(ip, mask, ip) : ip \in ips}
  <2>1. "LidarIpCfg" \in DOMAIN Code
    BY DEF Code
  <2>2. SetLidarIp = Sets("LidarIpCfg", values)
    BY DEF SetLidarIp
  <2>3. \A v \in values : Fitting("LidarIpCfg", v)
    BY LidarAddressFits, AddressAssumption
  <2> HIDE DEF values
  <2> QED BY <2>1, <2>2, <2>3, SetsGood
<1>3. {"StateInfoHostIpCfg", "LidarPointDataHostIpCfg", "LidarImuHostIpCfg"} \subseteq HostAddressKeys
  BY DEF HostAddressKeys
<1> QED BY <1>1, <1>2, <1>3 DEF AllGood, AddressCalls

LEMMA MountingGood == AllGood(MountingCalls)
<1>1. /\ GoodCall(Sets("InstallAttitude", Block(24)))
      /\ GoodCall(Sets("FovCfg0", Block(20))) /\ GoodCall(Sets("FovCfg1", Block(20)))
  BY PlainKeys, BlockSetsGood
<1>2. GoodCall(Sets("FovCfgEn", Byte(0 .. 3))) /\ GoodCall(Sets("FovCfgEn", Byte({0})))
  <2>1. 0 .. 3 \in SUBSET Nat /\ {0} \in SUBSET Nat
    OBVIOUS
  <2> QED BY <2>1, PlainKeys, ByteSetsGood
<1> QED BY <1>1, <1>2 DEF AllGood, MountingCalls

LEMMA DetectionGood == AllGood(DetectionCalls)
<1>1. GoodCall(Sets("FuncIoCfg", Block(4))) /\ GoodCall(Sets("BlindSpotSet", Block(4)))
  BY PlainKeys, BlockSetsGood
<1>2. GoodCall(Sets("DetectMode", Byte({0, 1})))
  <2>1. {0, 1} \in SUBSET Nat
    OBVIOUS
  <2> QED BY <2>1, PlainKeys, ByteSetsGood
<1> QED BY <1>1, <1>2 DEF AllGood, DetectionCalls

LEMMA ModeGood == AllGood(ModeCalls)
<1>1. {1, 2} \in SUBSET Nat /\ {1} \in SUBSET Nat /\ {0} \in SUBSET Nat /\ {0, 1, 2, 3} \in SUBSET Nat
  OBVIOUS
<1>2. /\ GoodCall(Sets("WorkMode", Byte({1, 2}))) /\ GoodCall(Sets("GlassHeat", Byte({1})))
      /\ GoodCall(Sets("GlassHeat", Byte({0}))) /\ GoodCall(Sets("GlassHeat", Byte({0, 1, 2, 3})))
  BY <1>1, PlainKeys, ByteSetsGood
<1> QED BY <1>2 DEF AllGood, ModeCalls

LEMMA SwitchGood == AllGood(SwitchCalls) /\ AllGood(HeatingCalls)
<1>1. {1} \in SUBSET Nat /\ {0} \in SUBSET Nat
  OBVIOUS
<1>2. \A b \in {0, 1}, k \in {"ImuDataEn", "FusaEn", "ForceHeatEn"} : GoodCall(Sets(k, Byte({b})))
  BY <1>1, PlainKeys, ByteSetsGood
<1> QED BY <1>2 DEF AllGood, SwitchCalls, HeatingCalls

LEMMA BootAndLogGood == AllGood(BootAndLogCalls)
<1>1. GoodCall(Sets("LogParamSet", Block(2)))
  BY PlainKeys, BlockSetsGood
<1>2. GoodCall(Sets("WorkModeAfterBoot", Byte({0, 1, 2})))
  <2>1. {0, 1, 2} \in SUBSET Nat
    OBVIOUS
  <2> QED BY <2>1, PlainKeys, ByteSetsGood
<1> QED BY <1>1, <1>2 DEF AllGood, BootAndLogCalls

LEMMA OthersGood ==
  AllGood(DeviceCalls) /\ AllGood(UpgradeCalls) /\ \A type : AllGood(QueryCalls(type))
BY DEF AllGood, GoodCall, Valid, DeviceCalls, UpgradeCalls, QueryCalls, Plain, Query, CallOf

LEMMA MergedGood ==
  ASSUME NEW maps, \A f \in maps : AllGood(f) PROVE AllGood(Merged(maps))
<1>1. SUFFICES ASSUME NEW name \in DOMAIN Merged(maps) PROVE GoodCall(Merged(maps)[name])
  BY DEF AllGood
<1>2. \E f \in maps : name \in DOMAIN f
  BY DEF Merged
<1> DEFINE f == CHOOSE f \in maps : name \in DOMAIN f
<1>3. f \in maps /\ name \in DOMAIN f
  BY <1>2
<1>4. Merged(maps)[name] = f[name]
  BY <1>1 DEF Merged
<1> HIDE DEF f
<1> QED BY <1>3, <1>4 DEF AllGood

\* Whatever a call sets, its packet has the key once and a value that fits it.
LEMMA ApiGood ==
  ASSUME NEW type \in {"HAP", "Mid360"}, NEW name \in Offered PROVE GoodCall(Api[type][name])
<1> DEFINE maps == {SensingCalls, AddressCalls, MountingCalls, DetectionCalls, ModeCalls,
                    SwitchCalls, HeatingCalls, BootAndLogCalls, DeviceCalls, UpgradeCalls,
                    QueryCalls(type)}
<1>1. Api[type] = Merged(maps) /\ type \in DOMAIN Api
  BY DEF Api
<1>2. \A f \in maps : AllGood(f)
  BY SensingGood, AddressGood, MountingGood, DetectionGood, ModeGood, SwitchGood,
     BootAndLogGood, OthersGood
<1> HIDE DEF maps
<1>3. AllGood(Merged(maps))
  BY <1>2, MergedGood
<1>4. name \in DOMAIN Api[type]
  BY <1>1, OfferedAssumption
<1> QED BY <1>1, <1>3, <1>4 DEF AllGood

-----------------------------------------------------------------------------
(* What the SDK itself sends *)

LEMMA HostIpIsIp == HostIp \in Seq(Int) /\ IsIp(HostIp)
BY AddressAssumption DEF HostIp

LEMMA SendToIsIp == SendTo \in Seq(Int) /\ IsIp(SendTo)
BY HostIpIsIp, AddressAssumption DEF SendTo

LEMMA HostItemFits ==
  ASSUME NEW k \in HostAddressKeys, NEW ip \in Seq(Int), IsIp(ip),
         NEW p \in {"state", "point", "imu"}, NEW type \in {"HAP", "Mid360"}
  PROVE  /\ HostItem(k, ip, p, type) \in Items
         /\ HostItem(k, ip, p, type).key = k
         /\ Fitting(k, HostItem(k, ip, p, type).value)
<1> DEFINE h == HostPort[p]
           l == LidarPort(type)[IF p = "state" THEN "push" ELSE p]
           v == HostAddress(ip, h, l)
<1>1. h \in Nat /\ l \in Nat
  <2> DEFINE q == IF p = "state" THEN "push" ELSE p
  <2>1. h \in Nat
    BY DEF HostPort
  <2>2. q \in {"push", "point", "imu"}
    OBVIOUS
  <2> HIDE DEF q
  <2>3. CASE type = "HAP"
    <3>1. LidarPort(type) = [cmd |-> 56000, push |-> 56000, log |-> 59000, point |-> 57000,
                             imu |-> 58000]
      BY <2>3 DEF LidarPort
    <3>2. LidarPort(type)[q] \in Nat
      BY <2>2, <3>1
    <3> QED BY <2>1, <3>2 DEF q
  <2>4. CASE type = "Mid360"
    <3>1. LidarPort(type) = [cmd |-> 56100, push |-> 56200, log |-> 56500, point |-> 56300,
                             imu |-> 56400]
      BY <2>4 DEF LidarPort
    <3>2. LidarPort(type)[q] \in Nat
      BY <2>2, <3>1
    <3> QED BY <2>1, <3>2 DEF q
  <2> QED BY <2>3, <2>4
<1>2. HostItem(k, ip, p, type) = [key |-> k, value |-> v]
  BY DEF HostItem, Item
<1> HIDE DEF h, l
<1>3. Fitting(k, v)
  BY <1>1, HostAddressFits
<1> HIDE DEF v
<1>4. k \in DOMAIN Code
  BY DEF HostAddressKeys, Code
<1> QED BY <1>2, <1>3, <1>4 DEF Items, Fitting

LEMMA TwoSetting ==
  ASSUME NEW a \in Items, NEW b \in Items, a.key # b.key,
         Fitting(a.key, a.value), Fitting(b.key, b.value)
  PROVE  Setting(<<a>> \o <<b>>)
<1> DEFINE s == <<a>> \o <<b>>
<1>1. s \in Seq(Items) /\ Len(s) = 2
  OBVIOUS
<1>2. s[1] = a /\ s[2] = b
  OBVIOUS
<1> HIDE DEF s
<1>3. DOMAIN s = {1, 2}
  BY <1>1
<1>4. s \in Packets
  BY <1>1, <1>2, <1>3 DEF Packets
<1>5. \A i \in DOMAIN s : Fitting(s[i].key, s[i].value)
  BY <1>2, <1>3
<1>6. Setting(s)
  BY <1>4, <1>5 DEF Setting
<1> QED BY <1>6 DEF s

LEMMA ThreeSetting ==
  ASSUME NEW a \in Items, NEW b \in Items, NEW c \in Items,
         a.key # b.key, a.key # c.key, b.key # c.key,
         Fitting(a.key, a.value), Fitting(b.key, b.value), Fitting(c.key, c.value)
  PROVE  Setting(<<a, b, c>>)
<1>1. <<a, b, c>> \in Packets
  BY DEF Packets
<1>2. \A i \in DOMAIN <<a, b, c>> : Fitting(<<a, b, c>>[i].key, <<a, b, c>>[i].value)
  OBVIOUS
<1> QED BY <1>1, <1>2 DEF Setting

LEMMA CfgSetting ==
  ASSUME NEW h \in Lidars, TypeOf[h] # "PA" PROVE Setting(CfgOf(h))
<1> DEFINE type == TypeOf[h]
           point == "LidarPointDataHostIpCfg"
           imu == "LidarImuHostIpCfg"
           state == "StateInfoHostIpCfg"
<1>1. type \in {"HAP", "Mid360"}
  BY LidarAssumption
<1>2. {point, imu, state} \subseteq HostAddressKeys /\ point # imu /\ point # state /\ imu # state
  BY DEF HostAddressKeys
<1> HIDE DEF point, imu, state
<1>3. ASSUME NEW ip \in Seq(Int), IsIp(ip)
      PROVE  Setting(<<HostItem(point, ip, "point", type)>> \o <<HostItem(imu, ip, "imu", type)>>)
  <2> DEFINE a == HostItem(point, ip, "point", type)
             b == HostItem(imu, ip, "imu", type)
  <2>1. a \in Items /\ a.key = point /\ Fitting(point, a.value)
    BY <1>1, <1>2, <1>3, HostItemFits
  <2>2. b \in Items /\ b.key = imu /\ Fitting(imu, b.value)
    BY <1>1, <1>2, <1>3, HostItemFits
  <2> HIDE DEF a, b
  <2>3. Setting(<<a>> \o <<b>>)
    BY <1>2, <2>1, <2>2, TwoSetting
  <2> QED BY <2>3 DEF a, b
<1>4. Setting(ViewCfg(type)) /\ Setting(LidarCfg(type))
  BY <1>1, <1>3, HostIpIsIp, SendToIsIp DEF ViewCfg, LidarCfg, point, imu
<1>5. Setting(Mid360LidarCfg)
  <2> DEFINE a == HostItem(state, SendTo, "state", "Mid360")
             b == HostItem(point, SendTo, "point", "Mid360")
             c == HostItem(imu, SendTo, "imu", "Mid360")
  <2>1. a \in Items /\ a.key = state /\ Fitting(state, a.value)
    BY <1>2, SendToIsIp, HostItemFits
  <2>2. b \in Items /\ b.key = point /\ Fitting(point, b.value)
    BY <1>2, SendToIsIp, HostItemFits
  <2>3. c \in Items /\ c.key = imu /\ Fitting(imu, c.value)
    BY <1>2, SendToIsIp, HostItemFits
  <2>4. Mid360LidarCfg = <<a, b, c>>
    BY DEF Mid360LidarCfg, state, point, imu
  <2> HIDE DEF a, b, c
  <2>5. Setting(<<a, b, c>>)
    BY <1>2, <2>1, <2>2, <2>3, ThreeSetting
  <2> QED BY <2>4, <2>5
<1> QED BY <1>1, <1>4, <1>5 DEF CfgOf

-----------------------------------------------------------------------------
(* Sequences that grow, and the steps of a thread *)

IsSeq(s) == Len(s) \in Nat /\ s = [i \in 1 .. Len(s) |-> s[i]]

LEMMA Appended ==
  ASSUME NEW s, IsSeq(s), NEW x
  PROVE  LET t == Append(s, x)
         IN  /\ IsSeq(t) /\ Len(t) = Len(s) + 1 /\ DOMAIN t = DOMAIN s \cup {Len(s) + 1}
             /\ t[Len(s) + 1] = x /\ \A i \in DOMAIN s : t[i] = s[i]
             /\ DOMAIN s = 1 .. Len(s) /\ Len(s) + 1 \notin DOMAIN s
<1> DEFINE n == Len(s)
           S == {s[i] : i \in 1 .. n} \cup {x}
           t == Append(s, x)
<1>1. n \in Nat /\ s = [i \in 1 .. n |-> s[i]] /\ DOMAIN s = 1 .. n
  BY DEF IsSeq
<1>2. s \in [1 .. n -> S]
  BY <1>1
<1> HIDE DEF n, S
<1>3. s \in Seq(S) /\ x \in S
  <2>1. s \in Seq(S)
    BY <1>1, <1>2, IsASeq
  <2> QED BY <2>1 DEF S
<1>4. t \in Seq(S) /\ Len(t) = n + 1 /\ t[n + 1] = x /\ \A i \in 1 .. n : t[i] = s[i]
  BY <1>1, <1>3 DEF n
<1> HIDE DEF t
<1>5. t \in [1 .. Len(t) -> S] /\ DOMAIN t = 1 .. n + 1 /\ Len(t) \in Nat
  BY <1>1, <1>4
<1>6. IsSeq(t)
  BY <1>5 DEF IsSeq
<1>7. DOMAIN t = DOMAIN s \cup {n + 1} /\ n + 1 \notin DOMAIN s
  BY <1>1, <1>5
<1> QED BY <1>1, <1>4, <1>5, <1>6, <1>7 DEF n, t

LEMMA AppendedIn ==
  ASSUME NEW s, IsSeq(s), NEW x, NEW y
  PROVE  y \in ToSet(Append(s, x)) <=> y \in ToSet(s) \/ y = x
<1> DEFINE t == Append(s, x)
<1>1. /\ DOMAIN t = DOMAIN s \cup {Len(s) + 1} /\ t[Len(s) + 1] = x
      /\ \A i \in DOMAIN s : t[i] = s[i]
  BY Appended
<1> HIDE DEF t
<1>2. y \in ToSet(t) <=> \E i \in DOMAIN t : t[i] = y
  BY DEF ToSet
<1>3. y \in ToSet(s) <=> \E i \in DOMAIN s : s[i] = y
  BY DEF ToSet
<1> QED BY <1>1, <1>2, <1>3 DEF t

\* What a thread can have left, before and after it has sent.
Unsent == {<<"add", "send", "add">>, <<"send", "add">>, <<"add", "send">>, <<"send">>}
Todos == Unsent \cup {<<"add">>}

LEMMA TodoSteps ==
  ASSUME NEW todo \in Todos
  PROVE  /\ Len(todo) # 1 => Tail(todo) \in Todos
         /\ todo # <<>>
         /\ Head(todo) = "send" => todo \in Unsent
         /\ Head(todo) = "send" /\ Len(todo) # 1 => Tail(todo) \notin Unsent
         /\ todo \notin Unsent => Len(todo) = 1
<1>1. CASE todo = <<"add", "send", "add">>
  <2>1. Tail(todo) = <<"send", "add">> /\ Head(todo) = "add" /\ todo # <<>>
    BY <1>1
  <2> QED BY <1>1, <2>1 DEF Todos, Unsent
<1>2. CASE todo = <<"send", "add">>
  <2>1. Tail(todo) = <<"add">> /\ todo # <<>> /\ Len(todo) = 2
    BY <1>2
  <2>2. Len(<<"add">>) = 1 /\ <<"add">>[1] = "add" /\ <<"send">>[1] = "send"
    OBVIOUS
  <2>3. <<"add">> \notin Unsent
    BY <2>2 DEF Unsent
  <2> QED BY <1>2, <2>1, <2>3 DEF Todos, Unsent
<1>3. CASE todo = <<"add", "send">>
  <2>1. Tail(todo) = <<"send">> /\ Head(todo) = "add" /\ todo # <<>>
    BY <1>3
  <2> QED BY <1>3, <2>1 DEF Todos, Unsent
<1>4. CASE todo = <<"send">>
  BY <1>4 DEF Todos, Unsent
<1>5. CASE todo = <<"add">>
  <2>1. Len(todo) = 1 /\ todo # <<>> /\ Head(todo) = "add"
    BY <1>5
  <2> QED BY <2>1
<1> QED BY <1>1, <1>2, <1>3, <1>4, <1>5 DEF Todos, Unsent

LEMMA StepsTodo == \A type : Steps(type) \in Unsent
BY DEF Steps, Unsent

-----------------------------------------------------------------------------
(* What is always so of calls, threads and messages *)

History ==
  /\ IsSeq(calls) /\ IsSeq(outcomes) /\ Len(outcomes) = Len(calls)
  /\ \A c \in DOMAIN calls : /\ calls[c].h \in Lidars
                             /\ Valid(calls[c].id, calls[c].items)
                             /\ IsSeq(outcomes[c])
  /\ commands \subseteq DOMAIN calls /\ applied \subseteq DOMAIN calls

Threading ==
  /\ thread \in [Threads -> [todo : Todos \cup {<<>>}, call : Nat]]
  /\ \A t \in Threads : thread[t] # Idle =>
       thread[t].todo \in Todos /\ thread[t].call \in DOMAIN calls

\* What a lidar held, as a packet of its report has it.
Holds(shown) == \A k \in Held : Fitting(k, shown[k])
Reported(data, shown) ==
  LET ks == InOrder(Held)
  IN  /\ DOMAIN shown = Held /\ Holds(shown)
      /\ data = Tlv([i \in DOMAIN ks |-> Item(ks[i], shown[ks[i]])])

Proper(m) ==
  /\ m.to = "lidar" => \E c \in DOMAIN calls : m = Sent(calls[c])
  /\ m.to = "host" => m.h \in Lidars
  /\ m.to = "host" /\ m.id = "PushMsg" => Reported(m.data, m.shown)
Messages == \A m \in net : Proper(m)

Devices == device \in [Lidars -> [Held -> Seq(Nat)]] /\ \A h \in Lidars : Holds(device[h])

Base == History /\ Threading /\ Messages /\ Devices

LEMMA SentFields ==
  ASSUME NEW call
  PROVE  /\ Sent(call).to = "lidar" /\ Sent(call).h = call.h /\ Sent(call).seq = call.seq
         /\ Sent(call).id = call.id /\ Sent(call).data = Packed(call.id, call.items)
BY DEF Sent, Message

LEMMA MessageFields ==
  ASSUME NEW to, NEW h, NEW s, NEW id, NEW port, NEW data, NEW ok, NEW shown
  PROVE  LET m == Message(to, h, s, id, port, data, ok, shown)
         IN  m.to = to /\ m.h = h /\ m.seq = s /\ m.id = id /\ m.data = data /\ m.ok = ok
             /\ m.shown = shown
BY DEF Message

\* What a call that is made changes.
LEMMA Recorded ==
  ASSUME History, NEW t, NEW h \in Lidars, NEW id, NEW port, NEW items,
         Valid(id, items),
         Record(t, h, id, port, items), UNCHANGED <<commands, applied>>
  PROVE  LET n == Len(calls) + 1
         IN  /\ History'
             /\ n \notin DOMAIN calls /\ DOMAIN calls' = DOMAIN calls \cup {n}
             /\ \A c \in DOMAIN calls : calls'[c] = calls[c] /\ outcomes'[c] = outcomes[c]
             /\ outcomes'[n] = <<>> /\ Len(calls') = n
             /\ calls'[n].h = h /\ calls'[n].by = t /\ calls'[n].id = id
             /\ calls'[n].items = items /\ calls'[n].seq = GetSeq
<1> DEFINE n == Len(calls) + 1
           settled == \A c \in DOMAIN calls, i \in DOMAIN items :
                        Touches(c, h, items[i].key) => Answered(c)
           call == [by |-> t, h |-> h, id |-> id, port |-> port, items |-> items,
                    seq |-> GetSeq, settled |-> settled]
<1>1. calls' = Append(calls, call) /\ outcomes' = Append(outcomes, <<>>)
  BY DEF Record
<1> HIDE DEF settled
<1>2. call.h = h /\ call.by = t /\ call.id = id /\ call.items = items /\ call.seq = GetSeq
  OBVIOUS
<1> HIDE DEF call
<1>3. IsSeq(calls) /\ IsSeq(outcomes) /\ Len(outcomes) = Len(calls)
  BY DEF History
<1>4. /\ IsSeq(calls') /\ Len(calls') = n /\ DOMAIN calls' = DOMAIN calls \cup {n}
      /\ calls'[n] = call /\ \A c \in DOMAIN calls : calls'[c] = calls[c]
      /\ DOMAIN calls = 1 .. Len(calls) /\ n \notin DOMAIN calls
  BY <1>1, <1>3, Appended
<1>5. /\ IsSeq(outcomes') /\ Len(outcomes') = n /\ DOMAIN outcomes = 1 .. Len(calls)
      /\ outcomes'[n] = <<>> /\ \A c \in DOMAIN outcomes : outcomes'[c] = outcomes[c]
  <2>1. Len(outcomes) + 1 = n
    BY <1>3
  <2> HIDE DEF n
  <2> QED BY <1>1, <1>3, <2>1, Appended
<1> HIDE DEF n
<1>6. IsSeq(<<>>)
  BY DEF IsSeq
<1>7. History'
  <2>1. IsSeq(calls)' /\ IsSeq(outcomes)' /\ Len(outcomes') = Len(calls')
    BY <1>4, <1>5 DEF IsSeq
  <2>2. ASSUME NEW c \in DOMAIN calls'
        PROVE  /\ calls'[c].h \in Lidars
               /\ Valid(calls'[c].id, calls'[c].items)
               /\ IsSeq(outcomes'[c])
    <3>1. CASE c = n
      BY <1>2, <1>4, <1>5, <1>6, <3>1
    <3>2. CASE c # n
      BY <1>4, <1>5, <3>2 DEF History
    <3> QED BY <3>1, <3>2
  <2>3. commands' \subseteq DOMAIN calls' /\ applied' \subseteq DOMAIN calls'
    BY <1>4 DEF History
  <2> QED BY <2>1, <2>2, <2>3 DEF History, IsSeq
<1> QED BY <1>2, <1>4, <1>5, <1>7 DEF n

\* Callbacks that are called.
LEMMA Called ==
  ASSUME History, NEW cs, NEW status, Calls(cs, status), UNCHANGED calls,
         commands' \subseteq commands, UNCHANGED applied
  PROVE  /\ History'
         /\ \A c \in DOMAIN calls : \A s :
              s \in ToSet(outcomes'[c]) <=> s \in ToSet(outcomes[c]) \/ (c \in cs /\ s = status)
<1>1. /\ outcomes' = [c \in DOMAIN outcomes |-> IF c \in cs THEN Append(outcomes[c], status)
                                                ELSE outcomes[c]]
      /\ DOMAIN outcomes = 1 .. Len(outcomes) /\ Len(outcomes) \in Nat
      /\ DOMAIN calls = 1 .. Len(calls) /\ Len(outcomes) = Len(calls)
  BY DEF Calls, History, IsSeq
<1>2. DOMAIN outcomes = DOMAIN calls
  BY <1>1
<1>3. ASSUME NEW c \in DOMAIN calls
      PROVE  /\ outcomes'[c] = IF c \in cs THEN Append(outcomes[c], status) ELSE outcomes[c]
             /\ IsSeq(outcomes[c])
  BY <1>1, <1>2 DEF History
<1>4. ASSUME NEW c \in DOMAIN calls PROVE IsSeq(outcomes'[c])
  <2>1. IsSeq(Append(outcomes[c], status))
    BY <1>3, Appended
  <2> QED BY <1>3, <2>1
<1>5. IsSeq(outcomes') /\ Len(outcomes') = Len(outcomes)
  <2> DEFINE S == {outcomes'[c] : c \in DOMAIN outcomes}
  <2>1. outcomes' \in [1 .. Len(outcomes) -> S]
    BY <1>1
  <2> HIDE DEF S
  <2>2. outcomes' \in Seq(S)
    BY <1>1, <2>1, IsASeq
  <2>3. Len(outcomes') \in Nat /\ DOMAIN outcomes' = 1 .. Len(outcomes') /\ outcomes' = [i \in DOMAIN outcomes' |-> outcomes'[i]]
    BY <2>2
  <2>4. DOMAIN outcomes' = 1 .. Len(outcomes)
    BY <2>1
  <2>5. Len(outcomes') = Len(outcomes)
    BY <1>1, <2>3, <2>4
  <2> QED BY <2>3, <2>4, <2>5 DEF IsSeq
<1>6. History'
  <2>1. IsSeq(calls)' /\ IsSeq(outcomes)' /\ Len(outcomes') = Len(calls')
    BY <1>1, <1>5 DEF History, IsSeq
  <2>2. commands' \subseteq DOMAIN calls' /\ applied' \subseteq DOMAIN calls'
    BY DEF History
  <2> QED BY <1>4, <2>1, <2>2 DEF History, IsSeq
<1>7. ASSUME NEW c \in DOMAIN calls, NEW s
      PROVE  s \in ToSet(outcomes'[c]) <=> s \in ToSet(outcomes[c]) \/ (c \in cs /\ s = status)
  <2>1. s \in ToSet(Append(outcomes[c], status)) <=> s \in ToSet(outcomes[c]) \/ s = status
    BY <1>3, AppendedIn
  <2> QED BY <1>3, <2>1
<1> QED BY <1>6, <1>7

LEMMA Gone ==
  ASSUME Threading, NEW t \in Threads, thread[t] # Idle, Goes(t), UNCHANGED calls
  PROVE  /\ Threading'
         /\ \A u \in Threads \ {t} : thread'[u] = thread[u]
         /\ thread'[t] # Idle => thread'[t].call = thread[t].call
         /\ thread'[t].todo \in Unsent => thread[t].todo \in Unsent /\ thread'[t] # Idle
         /\ Head(thread[t].todo) = "send" => thread[t].todo \in Unsent /\ thread'[t].todo \notin Unsent
<1> DEFINE todo == thread[t].todo
           call == thread[t].call
           next == IF Len(todo) = 1 THEN Idle ELSE [todo |-> Tail(todo), call |-> call]
<1>1. todo \in Todos /\ call \in DOMAIN calls /\ call \in Nat
      /\ thread[t] = [todo |-> todo, call |-> call]
  BY DEF Threading
<1>2. thread' = [thread EXCEPT ![t] = next]
  BY DEF Goes
<1>3. Idle.todo = <<>> /\ Idle \in [todo : Todos \cup {<<>>}, call : Nat]
  BY DEF Idle
<1>4. <<>> \notin Unsent
  <2>1. <<>> # <<"add", "send", "add">> /\ <<>> # <<"send", "add">> /\ <<>> # <<"add", "send">>
        /\ <<>> # <<"send">>
    OBVIOUS
  <2> QED BY <2>1 DEF Unsent
<1> HIDE DEF todo, call
<1>5. /\ next \in [todo : Todos \cup {<<>>}, call : Nat]
      /\ next # Idle => next.todo \in Todos /\ next.call = call
      /\ next.todo \in Unsent => todo \in Unsent /\ next # Idle
      /\ Head(todo) = "send" => todo \in Unsent /\ next.todo \notin Unsent
  <2>1. CASE Len(todo) = 1
    BY <1>1, <1>3, <1>4, <2>1, TodoSteps
  <2>2. CASE Len(todo) # 1
    <3>1. next = [todo |-> Tail(todo), call |-> call]
      BY <2>2
    <3> DEFINE tail == Tail(todo)
    <3>2. tail \in Todos /\ todo \in Unsent /\ (Head(todo) = "send" => tail \notin Unsent)
      BY <1>1, <2>2, TodoSteps
    <3>3. tail # <<>>
      BY <3>2, TodoSteps
    <3> HIDE DEF tail, next
    <3>4. next.todo = tail /\ next.call = call /\ next \in [todo : Todos \cup {<<>>}, call : Nat]
      BY <1>1, <3>1, <3>2 DEF tail
    <3> QED BY <1>3, <3>2, <3>3, <3>4
  <2> QED BY <2>1, <2>2
<1> HIDE DEF next
<1>6. thread'[t] = next /\ \A u \in Threads \ {t} : thread'[u] = thread[u]
  BY <1>2 DEF Threading
<1>7. Threading'
  <2>1. thread' \in [Threads -> [todo : Todos \cup {<<>>}, call : Nat]]
    BY <1>2, <1>5 DEF Threading
  <2>2. ASSUME NEW u \in Threads, thread'[u] # Idle
        PROVE  thread'[u].todo \in Todos /\ thread'[u].call \in DOMAIN calls
    <3>1. CASE u = t
      BY <1>1, <1>5, <1>6, <2>2, <3>1
    <3>2. CASE u # t
      BY <1>6, <2>2, <3>2 DEF Threading
    <3> QED BY <3>1, <3>2
  <2> QED BY <2>1, <2>2 DEF Threading, Idle
<1> QED BY <1>5, <1>6, <1>7 DEF todo, call

\* A thread that makes a call.
LEMMA Started ==
  ASSUME Threading, NEW t \in Threads, NEW todo \in Unsent, NEW n \in Nat,
         thread' = [thread EXCEPT ![t] = [todo |-> todo, call |-> n]],
         DOMAIN calls' = DOMAIN calls \cup {n}
  PROVE  /\ Threading'
         /\ \A u \in Threads \ {t} : thread'[u] = thread[u]
         /\ thread'[t].call = n
<1> DEFINE next == [todo |-> todo, call |-> n]
<1>1. next \in [todo : Todos \cup {<<>>}, call : Nat] /\ next.todo \in Todos /\ next.call = n
  BY DEF Todos
<1> HIDE DEF next
<1>2. thread'[t] = next /\ \A u \in Threads \ {t} : thread'[u] = thread[u]
  BY DEF Threading, next
<1>3. thread' \in [Threads -> [todo : Todos \cup {<<>>}, call : Nat]]
  BY <1>1 DEF Threading, next
<1>4. ASSUME NEW u \in Threads, thread'[u] # Idle
      PROVE  thread'[u].todo \in Todos /\ thread'[u].call \in DOMAIN calls'
  <2>1. CASE u = t
    BY <1>1, <1>2, <2>1
  <2>2. CASE u # t
    BY <1>2, <1>4, <2>2 DEF Threading
  <2> QED BY <2>1, <2>2
<1> QED BY <1>1, <1>2, <1>3, <1>4 DEF Threading, Idle

\* Values in a packet that sets keys.
LEMMA ValuesSet ==
  ASSUME NEW items, Setting(items)
  PROVE  LET set == ValuesIn(Tlv(items))
         IN  /\ \A i \in DOMAIN items :
                  items[i].key \in DOMAIN set /\ set[items[i].key] = items[i].value
             /\ \A k \in DOMAIN set : \E i \in DOMAIN items : k = items[i].key
             /\ \A k \in DOMAIN set : Fitting(k, set[k])
<1> DEFINE set == ValuesIn(Tlv(items))
<1>1. items \in Packets /\ DOMAIN items = 1 .. Len(items)
  BY DEF Setting, Packets
<1>2. set = [k \in KeysOf(items, Len(items)) |-> ValueOf(items, k)]
  BY <1>1, ValuesInTlv
<1> HIDE DEF set
<1>3. DOMAIN set = {items[j].key : j \in DOMAIN items} /\ \A k \in DOMAIN set : set[k] = ValueOf(items, k)
  BY <1>1, <1>2 DEF KeysOf
<1>4. \A i \in DOMAIN items : items[i].key \in DOMAIN set /\ set[items[i].key] = items[i].value
  BY <1>1, <1>3, ValueOfItem
<1>5. \A k \in DOMAIN set : \E i \in DOMAIN items : k = items[i].key
  BY <1>3
<1>6. \A k \in DOMAIN set : Fitting(k, set[k])
  BY <1>4, <1>5 DEF Setting
<1> QED BY <1>4, <1>5, <1>6 DEF set

\* What a lidar that carries out a request holds then.
Values(m) == IF m.id = "WorkModeControl" THEN ValuesIn(m.data) ELSE <<>>

LEMMA RequestValues ==
  ASSUME Base, NEW m \in net, m.to = "lidar"
  PROVE  \E c \in DOMAIN calls :
           /\ m = Sent(calls[c]) /\ m.h = calls[c].h /\ m.h \in Lidars
           /\ m.seq = calls[c].seq /\ m.id = calls[c].id
           /\ \A k \in DOMAIN Values(m) :
                /\ Fitting(k, Values(m)[k]) /\ Touches(c, m.h, k)
           /\ m.id = "WorkModeControl" => \A i \in DOMAIN calls[c].items :
                /\ calls[c].items[i].key \in DOMAIN Values(m)
                /\ Values(m)[calls[c].items[i].key] = calls[c].items[i].value
<1>1. PICK c \in DOMAIN calls : m = Sent(calls[c])
  BY DEF Base, Messages, Proper
<1> DEFINE call == calls[c]
<1>2. /\ m.h = call.h /\ m.seq = call.seq /\ m.id = call.id /\ m.data = Packed(call.id, call.items)
  BY <1>1, SentFields
<1>3. call.h \in Lidars /\ (call.id = "WorkModeControl" => Setting(call.items))
  BY DEF Base, History, Valid
<1>4. CASE m.id = "WorkModeControl"
  <2> DEFINE items == call.items
             set == ValuesIn(Tlv(items))
  <2>1. m.data = Tlv(items)
    BY <1>2, <1>4 DEF Packed
  <2>2. Values(m) = set
    BY <1>4, <2>1 DEF Values
  <2>3. /\ \A i \in DOMAIN items : items[i].key \in DOMAIN set /\ set[items[i].key] = items[i].value
        /\ \A k \in DOMAIN set : \E i \in DOMAIN items : k = items[i].key
        /\ \A k \in DOMAIN set : Fitting(k, set[k])
    <3>1. Setting(items)
      BY <1>2, <1>3, <1>4
    <3> HIDE DEF items
    <3> QED BY <3>1, ValuesSet
  <2> HIDE DEF set
  <2>4. \A k \in DOMAIN set : Touches(c, m.h, k)
    BY <1>2, <2>3 DEF Touches
  <2> QED BY <1>1, <1>2, <1>3, <2>2, <2>3, <2>4
<1>5. CASE m.id # "WorkModeControl"
  <2>1. Values(m) = <<>>
    BY <1>5 DEF Values
  <2>2. DOMAIN Values(m) = {}
    BY <2>1
  <2> QED BY <1>1, <1>2, <1>3, <1>5, <2>2
<1> QED BY <1>4, <1>5

LEMMA MessagesNext ==
  ASSUME Messages, DOMAIN calls \subseteq DOMAIN calls', \A c \in DOMAIN calls : calls'[c] = calls[c],
         \A m \in net' \ net : Proper(m)'
  PROVE  Messages'
<1>1. SUFFICES ASSUME NEW m \in net' PROVE Proper(m)'
  BY DEF Messages
<1>2. CASE m \in net
  BY <1>2 DEF Messages, Proper
<1>3. CASE m \notin net
  BY <1>3
<1> QED BY <1>2, <1>3

LEMMA ThreadingGrows ==
  ASSUME Threading, UNCHANGED thread, DOMAIN calls \subseteq DOMAIN calls'
  PROVE  Threading'
BY DEF Threading, Idle

\* An application or the SDK calls: what is made, and what is left as it was.
CallMade(t, h, id, port, items) ==
  /\ Record(t, h, id, port, items)
  /\ thread[t] = Idle
  /\ \/ UNCHANGED thread /\ id = "none"
     \/ \E todo \in Unsent : thread' = [thread EXCEPT ![t] = [todo |-> todo, call |-> Len(calls) + 1]]
  /\ Len(calls) < MaxCalls
  /\ UNCHANGED <<commands, applied, devices_, is_update_cfg, net, device, pushes, pushed, told>>

LEMMA InvokeMakes ==
  ASSUME NEW t \in Apps, Invoke(t)
  PROVE  \E h \in Lidars : \E id, port, items :
           /\ CallMade(t, h, id, port, items)
           /\ Valid(id, items)
<1>1. PICK h \in Lidars :
        /\ thread[t] = Idle /\ Len(calls) < MaxCalls
        /\ IF TypeOf[h] = "PA"
           THEN /\ Record(t, h, "none", "cmd", <<>>)
                /\ UNCHANGED thread
           ELSE \E name \in Offered : LET call == Api[TypeOf[h]][name] IN
                \E items \in call.packets :
                  /\ Record(t, h, call.id, call.port, items)
                  /\ thread' = [thread EXCEPT ![t] = [todo |-> Steps(TypeOf[h]),
                                                      call |-> Len(calls) + 1]]
  BY DEF Invoke
<1>2. UNCHANGED <<commands, applied, devices_, is_update_cfg, net, device, pushes, pushed, told>>
  BY DEF Invoke, lidarVars, toldVars
<1>3. CASE TypeOf[h] = "PA"
  <2>1. CallMade(t, h, "none", "cmd", <<>>)
    BY <1>1, <1>2, <1>3 DEF CallMade
  <2> QED BY <2>1 DEF Valid
<1>4. CASE TypeOf[h] # "PA"
  <2>1. TypeOf[h] \in {"HAP", "Mid360"}
    BY <1>4, LidarAssumption
  <2> DEFINE type == TypeOf[h]
  <2>2. PICK name \in Offered : \E items \in Api[type][name].packets :
          /\ Record(t, h, Api[type][name].id, Api[type][name].port, items)
          /\ thread' = [thread EXCEPT ![t] = [todo |-> Steps(type), call |-> Len(calls) + 1]]
    BY <1>1, <1>4
  <2> DEFINE call == Api[type][name]
  <2>3. GoodCall(call)
    BY <2>1, ApiGood
  <2> HIDE DEF call
  <2>4. PICK items \in call.packets :
          /\ Record(t, h, call.id, call.port, items)
          /\ thread' = [thread EXCEPT ![t] = [todo |-> Steps(type), call |-> Len(calls) + 1]]
    BY <2>2 DEF call
  <2>5. CallMade(t, h, call.id, call.port, items)
    BY <1>1, <1>2, <2>4, StepsTodo DEF CallMade
  <2>6. Valid(call.id, items)
    BY <2>3, <2>4 DEF GoodCall
  <2> QED BY <2>5, <2>6
<1> QED BY <1>3, <1>4

LEMMA UpdateMakes ==
  ASSUME UpdateLidarCfg
  PROVE  \E h \in Lidars : \E id, port, items :
           /\ CallMade("det", h, id, port, items)
           /\ Valid(id, items)
<1>1. PICK h \in Lidars :
        /\ CfgWanted(h)
        /\ thread["det"] = Idle /\ Len(calls) < MaxCalls
        /\ Record("det", h, "WorkModeControl", "cmd", CfgOf(h))
        /\ thread' = [thread EXCEPT !["det"] = [todo |-> <<"add", "send">>,
                                                call |-> Len(calls) + 1]]
  BY DEF UpdateLidarCfg
<1>2. UNCHANGED <<commands, applied, devices_, is_update_cfg, net, device, pushes, pushed, told>>
  BY DEF UpdateLidarCfg, lidarVars, toldVars
<1>3. Setting(CfgOf(h))
  BY <1>1, CfgSetting DEF CfgWanted
<1>4. <<"add", "send">> \in Unsent
  BY DEF Unsent
<1>5. CallMade("det", h, "WorkModeControl", "cmd", CfgOf(h))
  BY <1>1, <1>2, <1>4 DEF CallMade
<1> QED BY <1>3, <1>5 DEF Valid

LEMMA BaseCallMade ==
  ASSUME Base, NEW t \in Threads, NEW h \in Lidars, NEW id, NEW port, NEW items,
         CallMade(t, h, id, port, items), Valid(id, items)
  PROVE  Base'
<1> DEFINE n == Len(calls) + 1
<1>1. /\ History' /\ n \notin DOMAIN calls /\ DOMAIN calls' = DOMAIN calls \cup {n}
      /\ \A c \in DOMAIN calls : calls'[c] = calls[c]
  BY Recorded DEF Base, CallMade
<1>2. n \in Nat
  BY DEF Base, History, IsSeq
<1> HIDE DEF n
<1>3. Threading'
  <2>1. CASE UNCHANGED thread
    BY <1>1, <2>1, ThreadingGrows DEF Base
  <2>2. CASE \E todo \in Unsent : thread' = [thread EXCEPT ![t] = [todo |-> todo, call |-> n]]
    BY <1>1, <1>2, <2>2, Started DEF Base
  <2> QED BY <2>1, <2>2 DEF CallMade, n
<1>4. Messages'
  BY <1>1, MessagesNext DEF Base, CallMade
<1>5. Devices'
  BY DEF Base, CallMade, Devices, Holds
<1> QED BY <1>1, <1>3, <1>4, <1>5 DEF Base

LEMMA DoesSomething ==
  ASSUME Threading, NEW t \in Threads, NEW step, Does(t, step)
  PROVE  /\ thread[t] # Idle /\ Head(thread[t].todo) = step
         /\ thread[t].call \in DOMAIN calls
BY DEF Does, Threading

LEMMA BaseAdd ==
  ASSUME Base, NEW t \in Threads, AddCommand(t) PROVE Base'
<1>1. /\ thread[t] # Idle /\ thread[t].call \in DOMAIN calls
      /\ commands' = commands \cup {thread[t].call} /\ Goes(t)
      /\ UNCHANGED <<calls, outcomes, net, device, applied>>
  BY DoesSomething DEF AddCommand, Base, lidarVars
<1>2. Threading'
  BY <1>1, Gone DEF Base
<1>3. History'
  BY <1>1 DEF Base, History, IsSeq
<1>4. Messages'
  BY <1>1, MessagesNext DEF Base
<1>5. Devices'
  BY <1>1 DEF Base, Devices, Holds
<1> QED BY <1>2, <1>3, <1>4, <1>5 DEF Base

\* A thread that sends the request of a call, or cannot.
Sends(t, c, m) ==
  /\ c = thread[t].call /\ m = Sent(calls[c])
  /\ thread[t] # Idle /\ c \in DOMAIN calls /\ Head(thread[t].todo) = "send" /\ Goes(t)
  /\ \/ net' = net \cup {m} /\ UNCHANGED outcomes
     \/ Calls({c}, "SendFailed") /\ UNCHANGED net
  /\ UNCHANGED <<calls, seq, commands, device, applied, is_update_cfg, pushed, told>>

LEMMA SendSends ==
  ASSUME Base, NEW t \in Threads, SendCommand(t) PROVE \E c, m : Sends(t, c, m)
BY DoesSomething DEF Sends, SendCommand, Base, lidarVars, toldVars

LEMMA BaseSend ==
  ASSUME Base, NEW t \in Threads, NEW c, NEW m, Sends(t, c, m) PROVE Base'
<1>1. /\ thread[t] # Idle /\ c \in DOMAIN calls /\ Goes(t)
      /\ UNCHANGED <<calls, commands, device, applied>>
      /\ \/ net' = net \cup {m} /\ UNCHANGED outcomes
         \/ Calls({c}, "SendFailed") /\ UNCHANGED net
  BY DEF Sends
<1>2. Threading'
  BY <1>1, Gone DEF Base
<1>3. History'
  <2>1. CASE UNCHANGED outcomes
    BY <1>1, <2>1 DEF Base, History, IsSeq
  <2>2. CASE Calls({c}, "SendFailed")
    BY <1>1, <2>2, Called DEF Base
  <2> QED BY <1>1, <2>1, <2>2
<1>4. Messages'
  <2>1. m.to = "lidar" /\ "lidar" # "host" /\ m = Sent(calls[c])
    BY SentFields DEF Sends
  <2>2. Proper(m)'
    BY <1>1, <2>1 DEF Proper
  <2>3. \A x \in net' \ net : x = m
    BY <1>1
  <2> QED BY <1>1, <2>2, <2>3, MessagesNext DEF Base
<1>5. Devices'
  BY <1>1 DEF Base, Devices, Holds
<1> QED BY <1>2, <1>3, <1>4, <1>5 DEF Base

\* What a lidar does with a request.
Served(m, ok, c) ==
  /\ m \in net /\ m.to = "lidar" /\ c \in DOMAIN calls /\ m = Sent(calls[c])
  /\ ok \in BOOLEAN
  /\ device' = IF ok THEN [device EXCEPT ![m.h] =
                             [k \in Held |-> IF k \in DOMAIN Values(m) THEN Values(m)[k] ELSE @[k]]]
               ELSE device
  /\ applied' = IF ok THEN applied \cup {d \in DOMAIN calls : calls[d].seq = calls[c].seq}
                ELSE applied
  /\ net' = (net \ {m}) \cup
              {Message("host", m.h, calls[c].seq, m.id, m.port, <<>>, ok, <<>>)}
  /\ UNCHANGED <<calls, seq, outcomes, commands, thread, is_update_cfg, pushed, told>>

LEMMA ServeServes ==
  ASSUME Base, Serve
  PROVE  \E m \in net, ok \in BOOLEAN, c \in DOMAIN calls : Served(m, ok, c)
<1>1. PICK m \in net, ok \in BOOLEAN :
    /\ m.to = "lidar"
    /\ LET set == IF m.id = "WorkModeControl" THEN ValuesIn(m.data) ELSE <<>>
       IN  /\ device' = IF ok THEN [device EXCEPT ![m.h] =
                                      [k \in Held |-> IF k \in DOMAIN set THEN set[k] ELSE @[k]]]
                        ELSE device
           /\ applied' = IF ok THEN applied \cup
                                      {c \in DOMAIN calls : calls[c].seq = m.seq}
                         ELSE applied
    /\ net' = (net \ {m}) \cup
                {Message("host", m.h, m.seq, m.id, m.port, <<>>, ok, <<>>)}
  BY DEF Serve
<1>2. UNCHANGED <<calls, seq, outcomes, commands, thread, is_update_cfg, pushed, told>>
  BY DEF Serve, sdkVars, toldVars
<1>3. PICK c \in DOMAIN calls : m = Sent(calls[c])
  BY <1>1 DEF Base, Messages, Proper
<1>4. m.seq = calls[c].seq
  BY <1>3, SentFields
<1> QED BY <1>1, <1>2, <1>3, <1>4 DEF Served, Values

LEMMA BaseServed ==
  ASSUME Base, NEW m \in net, NEW ok \in BOOLEAN, NEW c \in DOMAIN calls, Served(m, ok, c)
  PROVE  Base'
<1> DEFINE set == Values(m)
           new == Message("host", m.h, calls[c].seq, m.id, m.port, <<>>, ok, <<>>)
<1>1. m = Sent(calls[c]) /\ m.h = calls[c].h /\ m.id = calls[c].id
  BY SentFields DEF Served
<1>2. m.h \in Lidars /\ \A k \in DOMAIN set : Fitting(k, set[k])
  <2>1. m.to = "lidar"
    BY DEF Served
  <2> QED BY <2>1, RequestValues
<1>3. History'
  BY DEF Served, Base, History, IsSeq
<1>4. Threading'
  BY ThreadingGrows DEF Served, Base
<1>5. Messages'
  <2>1. new.to = "host" /\ new.h = m.h /\ new.id = m.id /\ "host" # "lidar"
    BY MessageFields
  <2>2. net' = (net \ {m}) \cup {new}
    BY DEF Served
  <2>3. m.id # "PushMsg"
    BY <1>1 DEF Base, History, Valid
  <2> HIDE DEF new
  <2>4. \A x \in net' \ net : Proper(x)'
    BY <1>2, <2>1, <2>2, <2>3 DEF Proper
  <2> QED BY <2>4, MessagesNext DEF Base, Served
<1>6. Devices'
  <2>1. CASE ok = FALSE
    BY <2>1 DEF Served, Base, Devices, Holds
  <2>2. CASE ok = TRUE
    <3> DEFINE held == [k \in Held |-> IF k \in DOMAIN set THEN set[k] ELSE device[m.h][k]]
    <3>1. device' = [device EXCEPT ![m.h] = held]
      BY <2>2 DEF Served
    <3> HIDE DEF set
    <3>2. \A k \in Held : Fitting(k, held[k])
      BY <1>2 DEF Base, Devices, Holds
    <3>3. held \in [Held -> Seq(Nat)]
      BY <3>2 DEF Fitting
    <3> HIDE DEF held
    <3> QED BY <1>2, <3>1, <3>2, <3>3 DEF Base, Devices, Holds
  <2> QED BY <2>1, <2>2
<1> QED BY <1>3, <1>4, <1>5, <1>6 DEF Base

\* A report of a lidar.
Reports_(h, m) ==
  /\ m.to = "host" /\ m.h = h /\ m.id = "PushMsg" /\ m.shown = device[h]
  /\ Reported(m.data, device[h])
  /\ net' = net \cup {m}
  /\ UNCHANGED <<calls, seq, outcomes, commands, thread, is_update_cfg, device, applied, pushed, told>>

LEMMA PushReports ==
  ASSUME Base, Push PROVE \E h \in Lidars : \E m : Reports_(h, m)
<1>1. PICK h \in Lidars :
        LET ks == InOrder(Held)
        IN  net' = net \cup
             {Message("host", h, 0, "PushMsg", LidarPort(TypeOf[h]).push,
                      Tlv([i \in DOMAIN ks |-> Item(ks[i], device[h][ks[i]])]),
                      TRUE, device[h])}
  BY DEF Push
<1> DEFINE ks == InOrder(Held)
           data == Tlv([i \in DOMAIN ks |-> Item(ks[i], device[h][ks[i]])])
           port == LidarPort(TypeOf[h]).push
           m == Message("host", h, 0, "PushMsg", port, data, TRUE, device[h])
<1>2. net' = net \cup {m}
  BY <1>1
<1>3. Reported(data, device[h])
  BY DEF Base, Devices, Holds, Reported
<1> HIDE DEF data, port
<1>4. m.to = "host" /\ m.h = h /\ m.id = "PushMsg" /\ m.data = data /\ m.shown = device[h]
  BY DEF Message
<1>5. UNCHANGED <<calls, seq, outcomes, commands, thread, is_update_cfg, device, applied, pushed, told>>
  BY DEF Push, sdkVars, toldVars
<1> HIDE DEF m
<1>6. Reports_(h, m)
  BY <1>2, <1>3, <1>4, <1>5 DEF Reports_
<1> QED BY <1>6

LEMMA BaseReports ==
  ASSUME Base, NEW h \in Lidars, NEW m, Reports_(h, m) PROVE Base'
<1>1. History' /\ Threading' /\ Devices'
  BY DEF Reports_, Base, History, IsSeq, Threading, Idle, Devices, Holds
<1>2. Messages'
  <2>1. Proper(m)'
    BY DEF Reports_, Proper
  <2>2. \A x \in net' \ net : x = m
    BY DEF Reports_
  <2> QED BY <2>1, <2>2, MessagesNext DEF Base, Reports_
<1> QED BY <1>1, <1>2 DEF Base

\* An answer.
Acks(m) ==
  /\ m \in net /\ m.to = "host" /\ m.id # "PushMsg"
  /\ net' \in {net, net \ {m}}
  /\ commands' = commands \ Match(m)
  /\ Calls(Match(m), IF m.ok THEN "Success" ELSE "Refused")
  /\ is_update_cfg' = is_update_cfg \cup
       {h \in {calls[c].h : c \in {d \in Match(m) : calls[d].by = "det"}} : Reports(TypeOf[h], m.ok)}
  /\ UNCHANGED <<calls, seq, thread, device, applied, pushed, told>>

LEMMA AckAcks == ASSUME HandleAck PROVE \E m : Acks(m)
BY DEF HandleAck, Acks, lidarVars, toldVars

LEMMA BaseAck == ASSUME Base, NEW m, Acks(m) PROVE Base'
<1>1. History'
  <2>1. commands' \subseteq commands
    BY DEF Acks
  <2> QED BY <2>1, Called DEF Acks, Base
<1>2. Threading'
  BY ThreadingGrows DEF Acks, Base
<1>3. Messages'
  <2>1. net' \ net = {}
    BY DEF Acks
  <2> QED BY <2>1, MessagesNext DEF Base, Acks
<1>4. Devices'
  BY DEF Acks, Base, Devices, Holds
<1> QED BY <1>1, <1>2, <1>3, <1>4 DEF Base

LEMMA BasePush == ASSUME Base, HandlePush PROVE Base'
<1>1. /\ \E m \in net : net' = net \ {m}
      /\ UNCHANGED <<calls, outcomes, commands, thread, device, applied>>
  BY DEF HandlePush, sdkVars, lidarVars
<1>2. History' /\ Threading' /\ Devices'
  BY <1>1 DEF Base, History, IsSeq, Threading, Idle, Devices, Holds
<1>3. Messages'
  <2>1. net' \ net = {}
    BY <1>1
  <2> QED BY <1>1, <2>1, MessagesNext DEF Base
<1> QED BY <1>2, <1>3 DEF Base

LEMMA BaseTimeout == ASSUME Base, CommandsHandle PROVE Base'
<1>1. PICK cs \in SUBSET commands : commands' = commands \ cs /\ Calls(cs, "Timeout")
  BY DEF CommandsHandle
<1>2. UNCHANGED <<calls, net, thread, device, applied>>
  BY DEF CommandsHandle, lidarVars
<1>3. History'
  <2>1. commands' \subseteq commands
    BY <1>1
  <2> QED BY <1>1, <1>2, <2>1, Called DEF Base
<1>4. Threading' /\ Devices'
  BY <1>2 DEF Base, Threading, Idle, Devices, Holds
<1>5. Messages'
  BY <1>2, MessagesNext DEF Base
<1> QED BY <1>3, <1>4, <1>5 DEF Base

LEMMA BaseStutter == ASSUME Base, UNCHANGED vars PROVE Base'
<1>1. UNCHANGED <<calls, outcomes, commands, net, thread, device, applied>>
  BY DEF vars, sdkVars, lidarVars
<1>2. History' /\ Threading' /\ Devices'
  BY <1>1 DEF Base, History, IsSeq, Threading, Idle, Devices, Holds
<1>3. Messages'
  BY <1>1, MessagesNext DEF Base
<1> QED BY <1>2, <1>3 DEF Base

LEMMA ZeroFits == ASSUME NEW k PROVE Fitting(k, Zero(k))
<1> DEFINE n == Length(k)
<1>1. n \in Nat \ {0} /\ (k \in HostAddressKeys => n = 8) /\ (k = "LidarIpCfg" => n = 12)
  <2> DEFINE longer == {"InstallAttitude", "FovCfg0", "FovCfg1", "BlindSpotSet", "FuncIoCfg",
                        "StatusCode", "Sn", "HmsCode"}
  <2>1. "LidarIpCfg" \notin HostAddressKeys /\ HostAddressKeys \cap longer = {}
    BY DEF HostAddressKeys
  <2>2. CASE k \in HostAddressKeys
    <3>1. n = 8
      BY <2>1, <2>2 DEF Length
    <3> QED BY <2>1, <2>2, <3>1
  <2>3. CASE k = "LidarIpCfg"
    BY <2>1, <2>3 DEF Length
  <2>4. CASE k \notin HostAddressKeys /\ k # "LidarIpCfg"
    <3>1. n \in {24, 20, 4, 32, 16, 1}
      BY <2>4 DEF Length
    <3> QED BY <2>4, <3>1
  <2> QED BY <2>2, <2>3, <2>4
<1>2. Zero(k) = [i \in 1 .. n |-> 0]
  BY DEF Zero
<1> HIDE DEF n
<1> DEFINE v == [i \in 1 .. n |-> 0]
<1>3. v \in [1 .. n -> Nat]
  OBVIOUS
<1>4. n \in Nat
  BY <1>1
<1> HIDE DEF v
<1>5. v \in Seq(Nat) /\ Len(v) = n
  BY <1>3, <1>4, FunctionIsSeq
<1>6. v # <<>>
  BY <1>1, <1>5, NotEmpty
<1>7. Fitting(k, v)
  BY <1>1, <1>5, <1>6 DEF Fitting
<1> QED BY <1>2, <1>7 DEF v

LEMMA BaseInit == ASSUME Init PROVE Base
<1>1. /\ calls = <<>> /\ outcomes = <<>> /\ commands = {} /\ applied = {} /\ net = {}
      /\ thread = [t \in Threads |-> Idle]
      /\ device = [h \in Lidars |-> [k \in Held |-> Zero(k)]]
  BY DEF Init
<1>2. History
  BY <1>1 DEF History, IsSeq
<1>3. Threading
  BY <1>1 DEF Threading, Idle
<1>4. Messages
  BY <1>1 DEF Messages
<1>5. Devices
  <2>1. \A k : Fitting(k, Zero(k)) /\ Zero(k) \in Seq(Nat)
    BY ZeroFits DEF Fitting
  <2>2. \A h \in Lidars : device[h] = [k \in Held |-> Zero(k)]
    BY <1>1
  <2>3. \A h \in Lidars : device[h] \in [Held -> Seq(Nat)] /\ Holds(device[h])
    BY <2>1, <2>2 DEF Holds
  <2> QED BY <1>1, <2>3 DEF Devices
<1> QED BY <1>2, <1>3, <1>4, <1>5 DEF Base

LEMMA BaseNext == ASSUME Base, [Next]_vars PROVE Base'
<1>1. ASSUME NEW t \in Apps, Invoke(t) PROVE Base'
  <2>1. t \in Threads
    BY DEF Threads
  <2> QED BY <1>1, <2>1, InvokeMakes, BaseCallMade
<1>2. CASE UpdateLidarCfg
  <2>1. "det" \in Threads
    BY DEF Threads
  <2> QED BY <1>2, <2>1, UpdateMakes, BaseCallMade
<1>3. ASSUME NEW t \in Threads, Step(t) PROVE Base'
  BY <1>3, BaseAdd, SendSends, BaseSend DEF Step
<1>4. CASE Serve
  BY <1>4, ServeServes, BaseServed
<1>5. CASE Push
  BY <1>5, PushReports, BaseReports
<1>6. CASE HandleAck
  BY <1>6, AckAcks, BaseAck
<1>7. CASE HandlePush
  BY <1>7, BasePush
<1>8. CASE CommandsHandle
  BY <1>8, BaseTimeout
<1>9. CASE UNCHANGED vars
  BY <1>9, BaseStutter
<1> QED BY <1>1, <1>2, <1>3, <1>4, <1>5, <1>6, <1>7, <1>8, <1>9 DEF Next

-----------------------------------------------------------------------------
(* What the application is told *)

LEMMA KnownKeys == DOMAIN Code \cap Understood = DOMAIN Code \ Unparsed
<1>1. ASSUME NEW k \in DOMAIN Code, k \notin Unparsed PROVE k \in Understood
  BY <1>1 DEF Code, Unparsed, Understood, CopiedSettings, CopiedState, HostAddressKeys
<1>2. ASSUME NEW k \in Unparsed PROVE k \notin Understood
  BY DEF Unparsed, Understood, CopiedSettings, CopiedState, HostAddressKeys
<1> QED BY <1>1, <1>2

LEMMA JsonWhole == ASSUME NEW info, DOMAIN info \subseteq Understood, info = [k \in DOMAIN info |-> info[k]]
                   PROVE  Json(info) = info
<1>1. Understood \subseteq SettingsWritten \cup SwitchesWritten \cup StateWritten
  BY DEF Understood, SettingsWritten, StateWritten
<1> QED BY <1>1 DEF Json, Restrict

LEMMA ParseReported ==
  ASSUME NEW data, NEW shown, Reported(data, shown)
  PROVE  Parse(data) = [k \in DOMAIN shown \ Unparsed |-> Meaning(k, shown[k])]
<1> DEFINE ks == InOrder(Held)
           items == [i \in DOMAIN ks |-> Item(ks[i], shown[ks[i]])]
           info == [k \in Held \cap Understood |-> Meaning(k, shown[k])]
<1>1. /\ ks \in Seq(Held) /\ \A k \in Held : \E i \in DOMAIN ks : ks[i] = k
      /\ \A i, j \in DOMAIN ks : ks[i] = ks[j] => i = j
  BY InOrderLists, KeyAssumption
<1>2. DOMAIN shown = Held /\ Holds(shown) /\ data = Tlv(items)
  BY DEF Reported
<1> HIDE DEF ks
<1>3. DOMAIN ks = 1 .. Len(ks) /\ Len(ks) \in Nat /\ \A i \in DOMAIN ks : ks[i] \in Held
  BY <1>1
<1>4. \A i \in DOMAIN ks : items[i].key = ks[i] /\ items[i].value = shown[ks[i]] /\ items[i] \in Items
  BY <1>2, <1>3, KeyAssumption DEF Holds, Fitting, Items, Item
<1>5. DOMAIN items = 1 .. Len(ks) /\ items \in [1 .. Len(ks) -> Items]
  BY <1>3, <1>4
<1> HIDE DEF items
<1>6. items \in Seq(Items) /\ Len(items) = Len(ks)
  <2>1. items \in Seq(Items)
    BY <1>3, <1>5, IsASeq
  <2> QED BY <1>3, <1>5, <2>1, LenProperties
<1>7. items \in Packets
  BY <1>1, <1>3, <1>4, <1>5, <1>6 DEF Packets
<1>8. \A i \in DOMAIN items : Fitting(items[i].key, items[i].value)
  BY <1>2, <1>3, <1>4, <1>5 DEF Holds
<1>9. KeysOf(items, Len(items)) = Held
  BY <1>1, <1>3, <1>4, <1>6 DEF KeysOf
<1>10. \A k \in Held : ValueOf(items, k) = shown[k]
  BY <1>1, <1>3, <1>4, <1>5, <1>7, ValueOfItem
<1>11. ParseStateInfo(data).ok
       /\ ParseStateInfo(data).info = [k \in KeysOf(items, Len(items)) \cap Understood |->
                                         Meaning(k, ValueOf(items, k))]
  BY <1>2, <1>7, <1>8, ParseTlv
<1>12. ParseStateInfo(data).info = info
  BY <1>9, <1>10, <1>11
<1>13. Parse(data) = Json(info)
  BY <1>11, <1>12 DEF Parse
<1>14. Json(info) = info
  <2>1. DOMAIN info \subseteq Understood /\ info = [k \in DOMAIN info |-> info[k]]
    OBVIOUS
  <2> HIDE DEF info
  <2> QED BY <2>1, JsonWhole
<1>15. Held \cap Understood = Held \ Unparsed
  BY KnownKeys, KeyAssumption
<1> QED BY <1>2, <1>13, <1>14, <1>15

Telling == DOMAIN told = Lidars /\ DOMAIN pushed = Lidars /\ InfoFaithful

LEMMA TellingInit == ASSUME Init PROVE Telling
<1>1. told = [h \in Lidars |-> <<>>] /\ pushed = [h \in Lidars |-> <<>>]
  BY DEF Init
<1>2. <<>> = [k \in DOMAIN <<>> \ Unparsed |-> Meaning(k, <<>>[k])]
  <2>1. DOMAIN <<>> \ Unparsed = {}
    OBVIOUS
  <2> QED BY <2>1
<1> QED BY <1>1, <1>2 DEF Telling, InfoFaithful

LEMMA TellingNext == ASSUME Base, Telling, [Next]_vars PROVE Telling'
<1>1. CASE HandlePush
  <2>1. PICK m \in net :
          /\ m.to = "host" /\ m.id = "PushMsg"
          /\ \/ /\ told' = [told EXCEPT ![m.h] = Parse(m.data)]
                /\ pushed' = [pushed EXCEPT ![m.h] = m.shown]
             \/ UNCHANGED <<told, pushed>>
    BY <1>1 DEF HandlePush, toldVars
  <2>2. CASE UNCHANGED <<told, pushed>>
    BY <2>2 DEF Telling, InfoFaithful
  <2>3. CASE told' = [told EXCEPT ![m.h] = Parse(m.data)] /\ pushed' = [pushed EXCEPT ![m.h] = m.shown]
    <3> DEFINE faithful == [k \in DOMAIN m.shown \ Unparsed |-> Meaning(k, m.shown[k])]
    <3>1. m.h \in Lidars /\ Parse(m.data) = faithful
      BY <2>1, ParseReported DEF Base, Messages, Proper
    <3>2. told'[m.h] = faithful /\ pushed'[m.h] = m.shown
      BY <2>3, <3>1 DEF Telling
    <3>3. \A h \in Lidars \ {m.h} : told'[h] = told[h] /\ pushed'[h] = pushed[h]
      BY <2>3 DEF Telling
    <3>4. \A h \in Lidars \ {m.h} :
            told'[h] = [k \in DOMAIN pushed'[h] \ Unparsed |-> Meaning(k, pushed'[h][k])]
      BY <3>3 DEF Telling, InfoFaithful
    <3>5. told'[m.h] = [k \in DOMAIN pushed'[m.h] \ Unparsed |-> Meaning(k, pushed'[m.h][k])]
      BY <3>2
    <3>6. DOMAIN told' = Lidars /\ DOMAIN pushed' = Lidars
      BY <2>3 DEF Telling
    <3> QED BY <3>4, <3>5, <3>6 DEF Telling, InfoFaithful
  <2> QED BY <2>1, <2>2, <2>3
<1>2. CASE ~HandlePush
  <2>1. UNCHANGED <<told, pushed>>
    BY <1>2 DEF Next, Invoke, UpdateLidarCfg, Step, AddCommand, SendCommand, Serve, Push,
                HandleAck, CommandsHandle, vars, toldVars
  <2> QED BY <2>1 DEF Telling, InfoFaithful
<1> QED BY <1>1, <1>2

\* What the application is told of a lidar is what the lidar held when it sent its
\* report, whatever keys it holds and whatever values they have.
THEOREM ToldFaithfully == Spec => []InfoFaithful
<1>1. Init => Base /\ Telling
  BY BaseInit, TellingInit
<1>2. Base /\ Telling /\ [Next]_vars => (Base /\ Telling)'
  BY BaseNext, TellingNext
<1>3. Telling => InfoFaithful
  BY DEF Telling
<1> QED BY <1>1, <1>2, <1>3, PTL DEF Spec

-----------------------------------------------------------------------------
(* Calls, requests and answers, in their order *)

NumberOf(n) == IF n = MaxSeq THEN 1 ELSE n + 1
Counting ==
  /\ seq = NumberOf(Len(calls)) /\ Len(calls) <= MaxCalls
  /\ \A c \in DOMAIN calls : calls[c].seq = NumberOf(c)

\* No two threads are at the same call.
Alone ==
  \A t, u \in Threads :
    thread[t] # Idle /\ thread[u] # Idle /\ thread[t].call = thread[u].call => t = u

\* The request of a call is still to be sent, or under way; or its answer is.
Pending(c) == \E t \in Threads : thread[t].todo \in Unsent /\ thread[t].call = c
InNet(c) == Sent(calls[c]) \in net
IsAck(m) == m.to = "host" /\ m.id # "PushMsg"
Acked(c) == Answered(c) \/ \E m \in net : IsAck(m) /\ m.seq = calls[c].seq

Requesting ==
  \A c \in DOMAIN calls :
    (Pending(c) => ~InNet(c)) /\ (Pending(c) \/ InNet(c) => ~Acked(c))

\* A success is one of a call that was carried out.
Answering ==
  /\ \A m \in net : IsAck(m) =>
       \E c \in DOMAIN calls : m.seq = calls[c].seq /\ (m.ok => c \in applied)
  /\ \A c \in DOMAIN calls : "Success" \in ToSet(outcomes[c]) => c \in applied

Settling ==
  \A c \in DOMAIN calls : calls[c].settled =>
    \A d \in DOMAIN calls, i \in DOMAIN calls[c].items :
      d < c /\ Touches(d, calls[c].h, calls[c].items[i].key) => Answered(d)

\* What a settled call that was carried out has set is there until a later call.
Holding ==
  \A c \in applied : calls[c].settled /\ calls[c].id = "WorkModeControl" =>
    \A i \in DOMAIN calls[c].items :
      LET k == calls[c].items[i].key
      IN  (k \in Held /\ \A d \in DOMAIN calls : d > c => ~Touches(d, calls[c].h, k)) =>
            device[calls[c].h][k] = calls[c].items[i].value

Ordered ==
  Counting /\ Alone /\ Requesting /\ Answering /\ Settling /\ Holding /\ ReportedConfigured

LEMMA MaxSeqNumber == MaxSeq \in Nat /\ MaxSeq > 1
BY SMT DEF MaxSeq

LEMMA NumbersDiffer ==
  ASSUME NEW c \in 1 .. MaxSeq, NEW d \in 1 .. MaxSeq, NumberOf(c) = NumberOf(d) PROVE c = d
BY MaxSeqNumber DEF NumberOf

LEMMA CallsDiffer ==
  ASSUME History, Counting, MaxCalls <= MaxSeq,
         NEW c \in DOMAIN calls, NEW d \in DOMAIN calls, calls[c].seq = calls[d].seq
  PROVE  c = d
<1>1. DOMAIN calls = 1 .. Len(calls) /\ Len(calls) \in Nat
  BY DEF History, IsSeq
<1>2. c \in 1 .. MaxSeq /\ d \in 1 .. MaxSeq
  BY <1>1, MaxSeqNumber, BoundAssumption DEF Counting
<1>3. NumberOf(c) = NumberOf(d)
  BY DEF Counting
<1> QED BY <1>2, <1>3, NumbersDiffer

LEMMA AnsweredIn ==
  ASSUME NEW c
  PROVE  Answered(c) <=> "Success" \in ToSet(outcomes[c]) \/ "Refused" \in ToSet(outcomes[c])
BY DEF Answered

LEMMA IdleSent == Idle.todo \notin Unsent
<1>1. Idle.todo = <<>>
  BY DEF Idle
<1>2. <<>> # <<"add", "send", "add">> /\ <<>> # <<"send", "add">> /\ <<>> # <<"add", "send">>
      /\ <<>> # <<"send">>
  OBVIOUS
<1> QED BY <1>1, <1>2 DEF Unsent

\* A call that is made is the last, and nothing of it is under way yet.
LEMMA OrderedCallMade ==
  ASSUME Base, Ordered, MaxCalls <= MaxSeq, NEW t \in Threads, NEW h \in Lidars, NEW id, NEW port,
         NEW items, CallMade(t, h, id, port, items), Valid(id, items)
  PROVE  Ordered'
<1>0. PICK n : n = Len(calls) + 1
  OBVIOUS
<1>1. /\ n \notin DOMAIN calls /\ DOMAIN calls' = DOMAIN calls \cup {n}
      /\ \A c \in DOMAIN calls : calls'[c] = calls[c] /\ outcomes'[c] = outcomes[c]
      /\ outcomes'[n] = <<>> /\ Len(calls') = n /\ calls'[n].seq = GetSeq
      /\ calls'[n].h = h /\ calls'[n].items = items
  BY <1>0, Recorded DEF Base, CallMade
<1>2. /\ Len(calls) \in Nat /\ Len(calls) < MaxCalls /\ n <= MaxCalls /\ n \in 1 .. MaxSeq
      /\ DOMAIN calls = 1 .. Len(calls) /\ seq = NumberOf(Len(calls)) /\ seq' = GetSeq
      /\ \A c \in DOMAIN calls : c < n /\ c \in 1 .. MaxSeq
  BY <1>0, MaxSeqNumber, BoundAssumption DEF Base, History, IsSeq, CallMade, Ordered, Counting, Record
<1>3. GetSeq = NumberOf(n)
  <2>1. seq = n /\ n \in Nat
    <3> DEFINE l == Len(calls)
    <3>1. l # MaxSeq /\ n \in Nat
      <4>1. n = l + 1 /\ l \in Nat /\ n \in 1 .. MaxSeq
        BY <1>0, <1>2
      <4> HIDE DEF l
      <4> QED BY <4>1, MaxSeqNumber
    <3> QED BY <1>0, <1>2, <3>1 DEF NumberOf
  <2> QED BY <2>1 DEF GetSeq, NumberOf
<1>4. UNCHANGED <<commands, applied, is_update_cfg, net, device>>
  BY DEF CallMade
<1>5. applied \subseteq DOMAIN calls
  BY DEF Base, History
<1>6. Counting'
  <2>1. seq' = NumberOf(n) /\ Len(calls') <= MaxCalls
    BY <1>1, <1>2, <1>3
  <2>2. \A c \in DOMAIN calls' : calls'[c].seq = NumberOf(c)
    BY <1>1, <1>3 DEF Ordered, Counting
  <2> QED BY <1>1, <2>1, <2>2 DEF Counting
<1>7. /\ \A u \in Threads \ {t} : thread'[u] = thread[u]
      /\ thread'[t] = thread[t] \/ thread'[t].call = n
      /\ thread[t] = Idle
  <2>1. CASE UNCHANGED thread
    BY <2>1 DEF CallMade
  <2>2. CASE \E todo \in Unsent : thread' = [thread EXCEPT ![t] = [todo |-> todo, call |-> n]]
    <3>1. PICK todo \in Unsent : thread' = [thread EXCEPT ![t] = [todo |-> todo, call |-> n]]
      BY <2>2
    <3>2. n \in Nat
      BY <1>2
    <3> QED BY <1>1, <3>1, <3>2, Started DEF Base, CallMade
  <2> QED BY <1>0, <2>1, <2>2 DEF CallMade
<1>8. \A u \in Threads : thread[u] # Idle => thread[u].call \in DOMAIN calls
  BY DEF Base, Threading
<1>9. Alone'
  <2>1. SUFFICES ASSUME NEW u \in Threads, NEW v \in Threads,
                        thread'[u] # Idle, thread'[v] # Idle, thread'[u].call = thread'[v].call
                 PROVE  u = v
    BY DEF Alone, Idle
  <2> QED BY <1>1, <1>7, <1>8, <2>1 DEF Ordered, Alone
<1>10. Idle.todo \notin Unsent
  BY IdleSent
<1>11. \A c \in DOMAIN calls : (Pending(c)' => Pending(c)) /\ (InNet(c)' <=> InNet(c))
                               /\ (Acked(c)' <=> Acked(c)) /\ (Answered(c)' <=> Answered(c))
  BY <1>1, <1>4, <1>7, <1>10 DEF Pending, InNet, Acked, Answered
<1>12. \A m \in net : m.to = "lidar" \/ IsAck(m) => m.seq # NumberOf(n)
  <2>1. ASSUME NEW m \in net, NEW c \in DOMAIN calls, m.seq = calls[c].seq PROVE m.seq # NumberOf(n)
    BY <1>1, <1>2, <2>1, NumbersDiffer DEF Ordered, Counting
  <2>2. ASSUME NEW m \in net, m.to = "lidar" PROVE \E c \in DOMAIN calls : m.seq = calls[c].seq
    BY <2>2, SentFields DEF Base, Messages, Proper
  <2>3. ASSUME NEW m \in net, IsAck(m) PROVE \E c \in DOMAIN calls : m.seq = calls[c].seq
    BY <2>3 DEF Ordered, Answering
  <2> QED BY <2>1, <2>2, <2>3
<1>13. ~InNet(n)' /\ ~Acked(n)'
  <2>1. ~InNet(n)'
    <3> DEFINE m == Sent(calls'[n])
    <3>1. m.to = "lidar" /\ m.seq = NumberOf(n)
      BY <1>1, <1>3, SentFields
    <3> HIDE DEF m
    <3>2. m \notin net
      BY <1>12, <3>1
    <3> QED BY <1>4, <3>2 DEF InNet, m
  <2>2. ~Answered(n)'
    <3>1. ToSet(<<>>) = {}
      BY DEF ToSet
    <3> QED BY <1>1, <3>1 DEF Answered
  <2> QED BY <1>1, <1>3, <1>4, <1>12, <2>1, <2>2 DEF Acked, IsAck
<1>14. Requesting'
  BY <1>1, <1>11, <1>13 DEF Ordered, Requesting
<1>15. Answering'
  <2>1. ASSUME NEW m \in net', IsAck(m)
        PROVE  \E c \in DOMAIN calls' : m.seq = calls'[c].seq /\ (m.ok => c \in applied')
    BY <1>1, <1>4, <2>1 DEF Ordered, Answering
  <2>2. ASSUME NEW c \in DOMAIN calls', "Success" \in ToSet(outcomes'[c]) PROVE c \in applied'
    <3>1. CASE c = n
      <4>1. ToSet(<<>>) = {}
        BY DEF ToSet
      <4> QED BY <1>1, <2>2, <3>1, <4>1
    <3>2. CASE c # n
      BY <1>1, <1>4, <2>2, <3>2 DEF Ordered, Answering
    <3> QED BY <3>1, <3>2
  <2> QED BY <2>1, <2>2 DEF Answering, IsAck
<1>16. \A c \in DOMAIN calls : \A l, k : Touches(c, l, k)' <=> Touches(c, l, k)
  BY <1>1 DEF Touches
<1>17. calls'[n].settled =>
         \A d \in DOMAIN calls, i \in DOMAIN items : Touches(d, h, items[i].key) => Answered(d)
  <2> DEFINE settled == \A d \in DOMAIN calls, i \in DOMAIN items :
                          Touches(d, h, items[i].key) => Answered(d)
             call == [by |-> t, h |-> h, id |-> id, port |-> port, items |-> items,
                      seq |-> GetSeq, settled |-> settled]
  <2>1. calls' = Append(calls, call)
    BY DEF CallMade, Record
  <2> HIDE DEF settled
  <2>2. call.settled => settled
    OBVIOUS
  <2> HIDE DEF call
  <2>3. calls'[n] = call
    BY <1>0, <2>1, Appended DEF Base, History
  <2> QED BY <2>2, <2>3 DEF settled
<1>18. Settling'
  <2>1. SUFFICES ASSUME NEW c \in DOMAIN calls', calls'[c].settled,
                        NEW d \in DOMAIN calls', NEW i \in DOMAIN calls'[c].items,
                        d < c, Touches(d, calls[c].h, calls[c].items[i].key)'
                 PROVE  Answered(d)'
    BY DEF Settling
  <2>2. d # n /\ d \in DOMAIN calls
    BY <1>1, <1>2, <2>1
  <2>3. CASE c = n
    BY <1>1, <1>11, <1>16, <1>17, <2>1, <2>2, <2>3
  <2>4. CASE c # n
    BY <1>1, <1>11, <1>16, <2>1, <2>2, <2>4 DEF Ordered, Settling
  <2> QED BY <2>3, <2>4
<1>19. Holding'
  <2>1. SUFFICES ASSUME NEW c \in applied', calls'[c].settled, calls'[c].id = "WorkModeControl",
                        NEW i \in DOMAIN calls'[c].items, calls'[c].items[i].key \in Held,
                        \A d \in DOMAIN calls' :
                          d > c => ~Touches(d, calls[c].h, calls[c].items[i].key)'
                 PROVE  device'[calls'[c].h][calls'[c].items[i].key] = calls'[c].items[i].value
    BY DEF Holding
  <2>2. c \in applied /\ c \in DOMAIN calls /\ calls'[c] = calls[c]
    BY <1>1, <1>4, <1>5
  <2>3. \A d \in DOMAIN calls : d > c => ~Touches(d, calls[c].h, calls[c].items[i].key)
    BY <1>1, <1>16, <2>1, <2>2
  <2> QED BY <1>4, <2>1, <2>2, <2>3 DEF Ordered, Holding
<1>20. ReportedConfigured'
  BY <1>1, <1>4, <1>5 DEF Ordered, ReportedConfigured
<1> QED BY <1>6, <1>9, <1>14, <1>15, <1>18, <1>19, <1>20 DEF Ordered

\* What keeps requests in their order, when no call is made.
LEMMA RequestingKept ==
  ASSUME Requesting, UNCHANGED calls,
         \A c \in DOMAIN calls :
           (Pending(c)' => Pending(c)) /\ (InNet(c)' => InNet(c)) /\ (Acked(c)' => Acked(c))
  PROVE  Requesting'
BY DEF Requesting

LEMMA HistoryKept ==
  ASSUME Ordered, UNCHANGED <<calls, seq>>,
         \A c \in DOMAIN calls : Answered(c) => Answered(c)'
  PROVE  Counting' /\ Settling'
<1>1. Counting'
  BY DEF Ordered, Counting
<1>2. \A c \in DOMAIN calls : \A l, k : Touches(c, l, k)' <=> Touches(c, l, k)
  BY DEF Touches
<1>3. Settling'
  BY <1>2 DEF Ordered, Settling
<1> QED BY <1>1, <1>3

LEMMA HoldingKept ==
  ASSUME Ordered, UNCHANGED <<calls, device, applied>> PROVE Holding'
BY DEF Ordered, Holding, Touches

\* The thread goes on: nothing is pending that was not.
LEMMA PendingGone ==
  ASSUME Base, Ordered, NEW t \in Threads, thread[t] # Idle, Goes(t), UNCHANGED calls
  PROVE  /\ Alone'
         /\ \A c \in DOMAIN calls : Pending(c)' => Pending(c)
         /\ Head(thread[t].todo) = "send" => Pending(thread[t].call)
         /\ \A c \in DOMAIN calls : Head(thread[t].todo) = "send" /\ c = thread[t].call => ~Pending(c)'
<1>1. /\ \A u \in Threads \ {t} : thread'[u] = thread[u]
      /\ thread'[t] # Idle => thread'[t].call = thread[t].call
      /\ thread'[t].todo \in Unsent => thread[t].todo \in Unsent /\ thread'[t] # Idle
      /\ Head(thread[t].todo) = "send" => thread[t].todo \in Unsent /\ thread'[t].todo \notin Unsent
  BY Gone DEF Base
<1>2. Alone'
  <2>1. SUFFICES ASSUME NEW u \in Threads, NEW v \in Threads,
                        thread'[u] # Idle, thread'[v] # Idle, thread'[u].call = thread'[v].call
                 PROVE  u = v
    BY DEF Alone, Idle
  <2>2. \A w \in Threads : thread'[w] # Idle => thread[w] # Idle /\ thread'[w].call = thread[w].call
    BY <1>1
  <2> QED BY <2>1, <2>2 DEF Ordered, Alone
<1>3. \A c \in DOMAIN calls : Pending(c)' => Pending(c)
  BY <1>1 DEF Pending
<1>4. Head(thread[t].todo) = "send" => Pending(thread[t].call)
  BY <1>1 DEF Pending
<1>5. ASSUME NEW c \in DOMAIN calls, Head(thread[t].todo) = "send", c = thread[t].call, Pending(c)'
      PROVE  FALSE
  <2>1. PICK u \in Threads : thread'[u].todo \in Unsent /\ thread'[u].call = c
    BY <1>5 DEF Pending
  <2>2. u # t /\ thread[u].todo \in Unsent /\ thread[u].call = c
    BY <1>1, <1>5, <2>1
  <2>3. thread[u] # Idle
    BY <2>2, IdleSent
  <2> QED BY <1>5, <2>2, <2>3 DEF Ordered, Alone
<1> QED BY <1>2, <1>3, <1>4, <1>5

LEMMA OrderedAdd ==
  ASSUME Base, Ordered, NEW t \in Threads, AddCommand(t) PROVE Ordered'
<1>1. /\ thread[t] # Idle /\ Goes(t)
      /\ UNCHANGED <<calls, seq, outcomes, net, device, applied, is_update_cfg>>
  BY DoesSomething DEF AddCommand, Base, lidarVars
<1>2. Alone' /\ \A c \in DOMAIN calls : Pending(c)' => Pending(c)
  BY <1>1, PendingGone
<1>3. \A c \in DOMAIN calls : (InNet(c)' <=> InNet(c)) /\ (Acked(c)' <=> Acked(c))
                              /\ (Answered(c)' <=> Answered(c))
  BY <1>1 DEF InNet, Acked, Answered
<1>4. Requesting'
  BY <1>1, <1>2, <1>3, RequestingKept DEF Ordered
<1>5. Counting' /\ Settling'
  BY <1>1, <1>3, HistoryKept
<1>6. Holding'
  BY <1>1, HoldingKept
<1>7. Answering' /\ ReportedConfigured'
  BY <1>1 DEF Ordered, Answering, IsAck, ReportedConfigured
<1> QED BY <1>2, <1>4, <1>5, <1>6, <1>7 DEF Ordered

\* A request that is sent is not answered yet.
LEMMA OrderedSends ==
  ASSUME Base, Ordered, MaxCalls <= MaxSeq, NEW t \in Threads, NEW c, NEW m, Sends(t, c, m)
  PROVE  Ordered'
<1>1. /\ c = thread[t].call /\ m = Sent(calls[c]) /\ thread[t] # Idle /\ c \in DOMAIN calls
      /\ Head(thread[t].todo) = "send" /\ Goes(t)
      /\ UNCHANGED <<calls, seq, device, applied, is_update_cfg>>
      /\ \/ net' = net \cup {m} /\ UNCHANGED outcomes
         \/ Calls({c}, "SendFailed") /\ UNCHANGED net
  BY DEF Sends
<1>2. /\ Alone' /\ \A d \in DOMAIN calls : Pending(d)' => Pending(d)
      /\ Pending(c) /\ ~Pending(c)'
  BY <1>1, PendingGone
<1>3. ~InNet(c) /\ ~Acked(c)
  BY <1>1, <1>2 DEF Ordered, Requesting
<1>4. m.to = "lidar" /\ m.seq = calls[c].seq /\ ~IsAck(m)
  BY <1>1, SentFields DEF IsAck
<1>5. \A d \in DOMAIN calls, s \in {"Success", "Refused"} :
        s \in ToSet(outcomes'[d]) <=> s \in ToSet(outcomes[d])
  <2>1. CASE UNCHANGED outcomes
    BY <2>1
  <2>2. CASE Calls({c}, "SendFailed")
    <3>1. commands' \subseteq commands
      BY DEF Sends
    <3>2. \A d \in DOMAIN calls : \A s :
            s \in ToSet(outcomes'[d]) <=> s \in ToSet(outcomes[d]) \/ (d \in {c} /\ s = "SendFailed")
      BY <1>1, <2>2, <3>1, Called DEF Base
    <3> QED BY <3>2
  <2> QED BY <1>1, <2>1, <2>2
<1>6. \A d \in DOMAIN calls : Answered(d)' <=> Answered(d)
  BY <1>5 DEF Answered
<1>7. \A x \in net' : x \in net \/ x = m
  BY <1>1
<1>8. \A d \in DOMAIN calls : Acked(d)' => Acked(d)
  BY <1>1, <1>4, <1>6, <1>7 DEF Acked, IsAck
<1>9. \A d \in DOMAIN calls : InNet(d)' => InNet(d) \/ d = c
  <2>1. SUFFICES ASSUME NEW d \in DOMAIN calls, InNet(d)', ~InNet(d) PROVE d = c
    OBVIOUS
  <2>2. Sent(calls[d]) = m
    BY <1>1, <1>7, <2>1 DEF InNet
  <2>3. calls[d].seq = calls[c].seq
    BY <1>4, <2>2, SentFields
  <2> QED BY <1>1, <2>3, CallsDiffer DEF Base, Ordered
<1>10. Requesting'
  <2>1. SUFFICES ASSUME NEW d \in DOMAIN calls
                 PROVE  (Pending(d)' => ~InNet(d)') /\ (Pending(d)' \/ InNet(d)' => ~Acked(d)')
    BY <1>1 DEF Requesting
  <2>2. CASE d = c
    BY <1>2, <1>3, <1>8, <2>2
  <2>3. CASE d # c
    BY <1>2, <1>8, <1>9, <2>3 DEF Ordered, Requesting
  <2> QED BY <2>2, <2>3
<1>11. Counting' /\ Settling'
  BY <1>1, <1>6, HistoryKept
<1>12. Holding'
  BY <1>1, HoldingKept
<1>13. Answering'
  BY <1>1, <1>4, <1>5, <1>7 DEF Ordered, Answering, IsAck
<1>14. ReportedConfigured'
  BY <1>1 DEF Ordered, ReportedConfigured
<1> QED BY <1>2, <1>10, <1>11, <1>12, <1>13, <1>14 DEF Ordered

\* A request that is carried out is no longer under way, and its answer is.
LEMMA OrderedServed ==
  ASSUME Base, Ordered, MaxCalls <= MaxSeq, NEW m \in net, NEW ok \in BOOLEAN,
         NEW c \in DOMAIN calls, Served(m, ok, c)
  PROVE  Ordered'
<1> DEFINE set == Values(m)
<1>0. PICK ack : ack = Message("host", m.h, calls[c].seq, m.id, m.port, <<>>, ok, <<>>)
  OBVIOUS
<1>1. /\ m.to = "lidar" /\ m = Sent(calls[c]) /\ m.h = calls[c].h /\ m.id = calls[c].id
      /\ m.seq = calls[c].seq /\ m.h \in Lidars /\ m.id # "PushMsg"
  BY SentFields DEF Served, Base, History, Valid
<1>2. /\ ack.to = "host" /\ ack.seq = calls[c].seq /\ ack.id = m.id /\ ack.ok = ok
      /\ "host" # "lidar"
  BY <1>0 DEF Message
<1>3. /\ net' = (net \ {m}) \cup {ack}
      /\ UNCHANGED <<calls, seq, outcomes, thread, is_update_cfg>>
  BY <1>0 DEF Served
<1>4. applied' = IF ok THEN applied \cup {c} ELSE applied
  <2>1. {d \in DOMAIN calls : calls[d].seq = calls[c].seq} = {c}
    BY CallsDiffer DEF Base, Ordered
  <2> QED BY <2>1 DEF Served
<1>5. InNet(c) /\ ~Pending(c) /\ ~Acked(c)
  BY <1>1 DEF Ordered, Requesting, InNet
<1>6. \A d \in DOMAIN calls : Answered(d)' <=> Answered(d)
  BY <1>3 DEF Answered
<1>7. Alone' /\ \A d \in DOMAIN calls : Pending(d)' <=> Pending(d)
  BY <1>3 DEF Ordered, Alone, Idle, Pending
<1>8. ~InNet(c)'
  BY <1>1, <1>2, <1>3 DEF InNet
<1>9. \A d \in DOMAIN calls : InNet(d)' => InNet(d)
  <2>1. \A d \in DOMAIN calls : Sent(calls[d]).to = "lidar"
    BY SentFields
  <2> QED BY <1>2, <1>3, <2>1 DEF InNet
<1>10. \A d \in DOMAIN calls : d # c /\ Acked(d)' => Acked(d)
  <2>1. \A d \in DOMAIN calls : d # c => ack.seq # calls[d].seq
    BY <1>2, CallsDiffer DEF Base, Ordered
  <2> QED BY <1>3, <1>6, <2>1 DEF Acked, IsAck
<1>11. Requesting'
  <2>1. SUFFICES ASSUME NEW d \in DOMAIN calls
                 PROVE  (Pending(d)' => ~InNet(d)') /\ (Pending(d)' \/ InNet(d)' => ~Acked(d)')
    BY <1>3 DEF Requesting
  <2>2. CASE d = c
    BY <1>5, <1>7, <1>8, <2>2
  <2>3. CASE d # c
    BY <1>7, <1>9, <1>10, <2>3 DEF Ordered, Requesting
  <2> QED BY <2>2, <2>3
<1>12. Counting' /\ Settling'
  BY <1>3, <1>6, HistoryKept
<1>13. Answering'
  <2>1. ASSUME NEW x \in net', IsAck(x)
        PROVE  \E d \in DOMAIN calls : x.seq = calls[d].seq /\ (x.ok => d \in applied')
    <3>1. CASE x = ack
      BY <1>2, <1>4, <3>1
    <3>2. CASE x # ack
      BY <1>3, <1>4, <2>1, <3>2 DEF Ordered, Answering
    <3> QED BY <3>1, <3>2
  <2>2. \A d \in DOMAIN calls : "Success" \in ToSet(outcomes[d]) => d \in applied'
    BY <1>4 DEF Ordered, Answering
  <2> QED BY <1>3, <2>1, <2>2 DEF Answering, IsAck
<1>14. ReportedConfigured'
  BY <1>3, <1>4 DEF Ordered, ReportedConfigured
<1>15. /\ \A k \in DOMAIN set : Touches(c, m.h, k)
       /\ m.id = "WorkModeControl" => \A i \in DOMAIN calls[c].items :
            /\ calls[c].items[i].key \in DOMAIN set
            /\ set[calls[c].items[i].key] = calls[c].items[i].value
  <2>1. PICK d \in DOMAIN calls :
          /\ m.seq = calls[d].seq
          /\ \A k \in DOMAIN Values(m) :
               /\ Fitting(k, Values(m)[k]) /\ Touches(d, m.h, k)
          /\ m.id = "WorkModeControl" => \A i \in DOMAIN calls[d].items :
               /\ calls[d].items[i].key \in DOMAIN Values(m)
               /\ Values(m)[calls[d].items[i].key] = calls[d].items[i].value
    BY <1>1, RequestValues
  <2>2. d = c
    BY <1>1, <2>1, CallsDiffer DEF Base, Ordered
  <2> QED BY <2>1, <2>2
<1>16. /\ \A h \in Lidars, k \in Held :
            device'[h][k] = IF ok /\ h = m.h /\ k \in DOMAIN set THEN set[k] ELSE device[h][k]
  <2>1. CASE ok = FALSE
    BY <2>1 DEF Served
  <2>2. CASE ok = TRUE
    <3> DEFINE held == [k \in Held |-> IF k \in DOMAIN set THEN set[k] ELSE device[m.h][k]]
    <3>1. device' = [device EXCEPT ![m.h] = held]
      BY <2>2 DEF Served
    <3>2. \A k \in Held : held[k] = IF k \in DOMAIN set THEN set[k] ELSE device[m.h][k]
      OBVIOUS
    <3> HIDE DEF held, set
    <3>3. \A h \in Lidars : device'[h] = IF h = m.h THEN held ELSE device[h]
      BY <3>1 DEF Base, Devices
    <3> QED BY <2>2, <3>2, <3>3
  <2> QED BY <2>1, <2>2
<1> HIDE DEF set
<1>17. Holding'
  <2>1. SUFFICES ASSUME NEW e \in applied', calls[e].settled, calls[e].id = "WorkModeControl",
                        NEW i \in DOMAIN calls[e].items, calls[e].items[i].key \in Held,
                        \A d \in DOMAIN calls :
                          d > e => ~Touches(d, calls[e].h, calls[e].items[i].key)
                 PROVE  device'[calls[e].h][calls[e].items[i].key] = calls[e].items[i].value
    <3>1. \A d \in DOMAIN calls : \A l, k : Touches(d, l, k)' <=> Touches(d, l, k)
      BY <1>3 DEF Touches
    <3> QED BY <1>3, <3>1 DEF Holding
  <2> DEFINE h == calls[e].h
             k == calls[e].items[i].key
  <2>2. e \in DOMAIN calls /\ h \in Lidars /\ k \in Held
    BY <1>4, <2>1 DEF Base, History
  <2>3. Touches(e, h, k)
    BY DEF Touches
  <2>4. e # c \/ ~ok => e \in applied /\ device[h][k] = calls[e].items[i].value
    BY <1>4, <2>1 DEF Ordered, Holding
  <2>5. CASE e = c /\ ok
    <3>1. h = m.h /\ m.id = "WorkModeControl"
      BY <1>1, <2>1, <2>5
    <3>2. k \in DOMAIN set /\ set[k] = calls[e].items[i].value
      BY <1>15, <2>5, <3>1
    <3> QED BY <1>16, <2>2, <2>5, <3>1, <3>2
  <2>6. CASE (e # c \/ ~ok) /\ ~(ok /\ h = m.h /\ k \in DOMAIN set)
    BY <1>16, <2>2, <2>4, <2>6
  <2>7. CASE e # c /\ ok /\ h = m.h /\ k \in DOMAIN set
    <3>1. Touches(c, h, k)
      BY <1>15, <2>7
    <3>2. ~(c > e)
      BY <2>1, <3>1
    <3>3. c < e
      <4>1. c \in Nat /\ e \in Nat
        BY <2>2 DEF Base, History, IsSeq
      <4> QED BY <2>7, <3>2, <4>1
    <3>4. Answered(c)
      BY <2>1, <2>2, <3>1, <3>3 DEF Ordered, Settling
    <3> QED BY <1>5, <3>4 DEF Acked
  <2> QED BY <2>5, <2>6, <2>7
<1> QED BY <1>7, <1>11, <1>12, <1>13, <1>14, <1>17 DEF Ordered

LEMMA OrderedReports ==
  ASSUME Base, Ordered, NEW h \in Lidars, NEW m, Reports_(h, m) PROVE Ordered'
<1>1. /\ net' = net \cup {m} /\ m.to = "host" /\ ~IsAck(m) /\ "host" # "lidar"
      /\ UNCHANGED <<calls, seq, outcomes, thread, is_update_cfg, device, applied>>
  BY DEF Reports_, IsAck
<1>2. \A d \in DOMAIN calls : (Answered(d)' <=> Answered(d)) /\ (Pending(d)' <=> Pending(d))
  BY <1>1 DEF Answered, Pending
<1>3. \A d \in DOMAIN calls : (InNet(d)' => InNet(d)) /\ (Acked(d)' => Acked(d))
  <2>1. \A d \in DOMAIN calls : Sent(calls[d]).to = "lidar"
    BY SentFields
  <2> QED BY <1>1, <1>2, <2>1 DEF InNet, Acked, IsAck
<1>4. Requesting'
  BY <1>1, <1>2, <1>3, RequestingKept DEF Ordered
<1>5. Counting' /\ Settling'
  BY <1>1, <1>2, HistoryKept
<1>6. Holding'
  BY <1>1, HoldingKept
<1>7. Alone' /\ Answering' /\ ReportedConfigured'
  BY <1>1 DEF Ordered, Alone, Idle, Answering, IsAck, ReportedConfigured
<1> QED BY <1>4, <1>5, <1>6, <1>7 DEF Ordered

\* An answer is given to the one call it belongs to.
LEMMA OrderedAcks ==
  ASSUME Base, Ordered, MaxCalls <= MaxSeq, NEW m, Acks(m) PROVE Ordered'
<1>1. /\ m \in net /\ IsAck(m) /\ net' \subseteq net
      /\ Calls(Match(m), IF m.ok THEN "Success" ELSE "Refused")
      /\ is_update_cfg' = is_update_cfg \cup
           {h \in {calls[c].h : c \in {d \in Match(m) : calls[d].by = "det"}} :
              Reports(TypeOf[h], m.ok)}
      /\ UNCHANGED <<calls, seq, thread, device, applied>>
  BY DEF Acks, IsAck
<1>2. PICK c \in DOMAIN calls : m.seq = calls[c].seq /\ (m.ok => c \in applied)
  BY <1>1 DEF Ordered, Answering
<1>3. \A d \in Match(m) : d = c /\ d \in DOMAIN calls /\ m.seq = calls[d].seq
  BY <1>2, CallsDiffer DEF Base, Ordered, History, Match
<1> DEFINE status == IF m.ok THEN "Success" ELSE "Refused"
<1>4. \A d \in DOMAIN calls : \A s :
        s \in ToSet(outcomes'[d]) <=> s \in ToSet(outcomes[d]) \/ (d \in Match(m) /\ s = status)
  <2>1. commands' \subseteq commands
    BY DEF Acks
  <2> HIDE DEF status
  <2>2. Calls(Match(m), status)
    BY <1>1 DEF status
  <2> QED BY <1>1, <2>1, <2>2, Called DEF Base
<1>5. \A d \in DOMAIN calls : Answered(d) => Answered(d)'
  BY <1>4 DEF Answered
<1>6. \A d \in DOMAIN calls : Answered(d)' => Acked(d)
  <2>1. SUFFICES ASSUME NEW d \in DOMAIN calls, Answered(d)' PROVE Acked(d)
    OBVIOUS
  <2>2. CASE d \in Match(m)
    BY <1>1, <1>3, <2>2 DEF Acked
  <2>3. CASE d \notin Match(m)
    BY <1>4, <2>1, <2>3 DEF Acked, Answered
  <2> QED BY <2>2, <2>3
<1>7. \A d \in DOMAIN calls : (Pending(d)' => Pending(d)) /\ (InNet(d)' => InNet(d))
                              /\ (Acked(d)' => Acked(d))
  BY <1>1, <1>6 DEF Pending, InNet, Acked, IsAck
<1>8. Requesting'
  BY <1>1, <1>7, RequestingKept DEF Ordered
<1>9. Counting' /\ Settling'
  BY <1>1, <1>5, HistoryKept
<1>10. Holding'
  BY <1>1, HoldingKept
<1>11. Alone'
  BY <1>1 DEF Ordered, Alone, Idle
<1>12. "Success" = status => m.ok
  OBVIOUS
<1> HIDE DEF status
<1>13. Answering'
  <2>1. \A d \in DOMAIN calls : "Success" \in ToSet(outcomes'[d]) => d \in applied
    BY <1>2, <1>3, <1>4, <1>12 DEF Ordered, Answering
  <2> QED BY <1>1, <2>1 DEF Ordered, Answering, IsAck
<1>14. ReportedConfigured'
  <2>1. SUFFICES ASSUME NEW h \in is_update_cfg', TypeOf[h] = "Mid360"
                 PROVE  \E d \in applied : calls[d].by = "det" /\ calls[d].h = h
    BY <1>1 DEF ReportedConfigured
  <2>2. CASE h \in is_update_cfg
    BY <2>1, <2>2 DEF Ordered, ReportedConfigured
  <2>3. CASE h \notin is_update_cfg
    <3>1. PICK d \in Match(m) : calls[d].by = "det" /\ calls[d].h = h /\ Reports(TypeOf[h], m.ok)
      BY <1>1, <2>1, <2>3
    <3>2. m.ok
      BY <2>1, <3>1 DEF Reports
    <3> QED BY <1>2, <1>3, <3>1, <3>2
  <2> QED BY <2>2, <2>3
<1> QED BY <1>8, <1>9, <1>10, <1>11, <1>13, <1>14 DEF Ordered

LEMMA OrderedPush == ASSUME Base, Ordered, HandlePush PROVE Ordered'
<1>1. /\ net' \subseteq net
      /\ UNCHANGED <<calls, seq, outcomes, thread, is_update_cfg, device, applied>>
  BY DEF HandlePush, sdkVars, lidarVars
<1>2. \A d \in DOMAIN calls :
        /\ (Answered(d)' <=> Answered(d)) /\ (Pending(d)' <=> Pending(d))
        /\ (InNet(d)' => InNet(d)) /\ (Acked(d)' => Acked(d))
  BY <1>1 DEF Answered, Pending, InNet, Acked, IsAck
<1>3. Requesting'
  BY <1>1, <1>2, RequestingKept DEF Ordered
<1>4. Counting' /\ Settling'
  BY <1>1, <1>2, HistoryKept
<1>5. Holding'
  BY <1>1, HoldingKept
<1>6. Alone' /\ Answering' /\ ReportedConfigured'
  BY <1>1 DEF Ordered, Alone, Idle, Answering, IsAck, ReportedConfigured
<1> QED BY <1>3, <1>4, <1>5, <1>6 DEF Ordered

LEMMA OrderedTimeout == ASSUME Base, Ordered, CommandsHandle PROVE Ordered'
<1>1. PICK cs \in SUBSET commands : commands' = commands \ cs /\ Calls(cs, "Timeout")
  BY DEF CommandsHandle
<1>2. UNCHANGED <<calls, seq, net, thread, is_update_cfg, device, applied>>
  BY DEF CommandsHandle, lidarVars
<1>3. \A d \in DOMAIN calls, s \in {"Success", "Refused"} :
        s \in ToSet(outcomes'[d]) <=> s \in ToSet(outcomes[d])
  <2>1. commands' \subseteq commands
    BY <1>1
  <2>2. \A d \in DOMAIN calls : \A s :
          s \in ToSet(outcomes'[d]) <=> s \in ToSet(outcomes[d]) \/ (d \in cs /\ s = "Timeout")
    BY <1>1, <1>2, <2>1, Called DEF Base
  <2> QED BY <2>2
<1>4. \A d \in DOMAIN calls :
        /\ (Answered(d)' <=> Answered(d)) /\ (Pending(d)' <=> Pending(d))
        /\ (InNet(d)' => InNet(d)) /\ (Acked(d)' => Acked(d))
  BY <1>2, <1>3 DEF Answered, Pending, InNet, Acked, IsAck
<1>5. Requesting'
  BY <1>2, <1>4, RequestingKept DEF Ordered
<1>6. Counting' /\ Settling'
  BY <1>2, <1>4, HistoryKept
<1>7. Holding'
  BY <1>2, HoldingKept
<1>8. Alone' /\ Answering' /\ ReportedConfigured'
  BY <1>2, <1>3 DEF Ordered, Alone, Idle, Answering, IsAck, ReportedConfigured
<1> QED BY <1>5, <1>6, <1>7, <1>8 DEF Ordered

LEMMA OrderedStutter == ASSUME Ordered, UNCHANGED vars PROVE Ordered'
<1>1. UNCHANGED <<calls, seq, outcomes, net, thread, is_update_cfg, device, applied>>
  BY DEF vars, sdkVars, lidarVars
<1>2. \A d \in DOMAIN calls :
        /\ (Answered(d)' <=> Answered(d)) /\ (Pending(d)' <=> Pending(d))
        /\ (InNet(d)' => InNet(d)) /\ (Acked(d)' => Acked(d))
  BY <1>1 DEF Answered, Pending, InNet, Acked, IsAck
<1>3. Requesting'
  BY <1>1, <1>2, RequestingKept DEF Ordered
<1>4. Counting' /\ Settling'
  BY <1>1, <1>2, HistoryKept
<1>5. Holding'
  BY <1>1, HoldingKept
<1>6. Alone' /\ Answering' /\ ReportedConfigured'
  BY <1>1 DEF Ordered, Alone, Idle, Answering, IsAck, ReportedConfigured
<1> QED BY <1>3, <1>4, <1>5, <1>6 DEF Ordered

LEMMA OrderedInit == ASSUME Init PROVE Ordered
<1>1. /\ calls = <<>> /\ seq = 1 /\ outcomes = <<>> /\ applied = {} /\ net = {}
      /\ is_update_cfg = {} /\ thread = [t \in Threads |-> Idle]
  BY DEF Init
<1>2. Len(calls) = 0 /\ DOMAIN calls = {}
  BY <1>1
<1>3. Counting
  BY <1>1, <1>2, MaxSeqNumber, BoundAssumption DEF Counting, NumberOf
<1> QED BY <1>1, <1>2, <1>3 DEF Ordered, Alone, Requesting, Answering, Settling, Holding,
                             ReportedConfigured

LEMMA OrderedNext == ASSUME Base, Ordered, MaxCalls <= MaxSeq, [Next]_vars PROVE Ordered'
<1>1. ASSUME NEW t \in Apps, Invoke(t) PROVE Ordered'
  <2>1. t \in Threads
    BY DEF Threads
  <2> QED BY <1>1, <2>1, InvokeMakes, OrderedCallMade
<1>2. CASE UpdateLidarCfg
  <2>1. "det" \in Threads
    BY DEF Threads
  <2> QED BY <1>2, <2>1, UpdateMakes, OrderedCallMade
<1>3. ASSUME NEW t \in Threads, Step(t) PROVE Ordered'
  BY <1>3, OrderedAdd, SendSends, OrderedSends DEF Step
<1>4. CASE Serve
  BY <1>4, ServeServes, OrderedServed
<1>5. CASE Push
  BY <1>5, PushReports, OrderedReports
<1>6. CASE HandleAck
  BY <1>6, AckAcks, OrderedAcks
<1>7. CASE HandlePush
  BY <1>7, OrderedPush
<1>8. CASE CommandsHandle
  BY <1>8, OrderedTimeout
<1>9. CASE UNCHANGED vars
  BY <1>9, OrderedStutter
<1> QED BY <1>1, <1>2, <1>3, <1>4, <1>5, <1>6, <1>7, <1>8, <1>9 DEF Next

\* What holds of all calls gives what the properties say of those that succeeded.
LEMMA OrderedTrue == ASSUME Base, Ordered PROVE AnswersTrue
<1>1. AckedHeld
  <2>1. \A c \in DOMAIN calls : "Success" \in ToSet(outcomes[c]) => c \in applied
    BY DEF Ordered, Answering
  <2> QED BY <2>1 DEF Ordered, Holding, AckedHeld
<1> QED BY <1>1 DEF Ordered, AnswersTrue

\* As long as no sequence number is given twice, whatever else the network does to
\* requests and answers, what the SDK calls a success was one for the lidar.
THEOREM SuccessTrue == ASSUME MaxCalls <= MaxSeq PROVE Spec => []AnswersTrue
<1>1. Init => Base /\ Ordered
  BY BaseInit, OrderedInit
<1>2. Base /\ Ordered /\ [Next]_vars => (Base /\ Ordered)'
  BY BaseNext, OrderedNext
<1>3. Base /\ Ordered => AnswersTrue
  BY OrderedTrue
<1> QED BY <1>1, <1>2, <1>3, PTL DEF Spec

=============================================================================
