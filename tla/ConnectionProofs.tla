-------------------------- MODULE ConnectionProofs --------------------------
(***************************************************************************)
(* Proofs about a connection, for any number of messages and any kinds of  *)
(* packet.                                                                 *)
(***************************************************************************)
EXTENDS Connection, FiniteSetTheorems, SequenceTheorems, TLAPS

-----------------------------------------------------------------------------
(* The dispatcher's queue, seen through what is queued.                    *)

Positions(q, k) == {i \in DOMAIN q : q[i].kind = k}

Num(q, k) == Cardinality(Positions(q, k))

IsRelease(t, m) == t.kind = "releaseMessage" /\ t.msg = m

Releasing(q, m) == \E i \in DOMAIN q : IsRelease(q[i], m)

\* No message is released twice, and a login never waits behind the close.
QueueOK(q) ==
    /\ q \in Seq(Tasks)
    /\ \A i, j \in DOMAIN q :
          q[i].kind = "releaseMessage" /\ q[j] = q[i] => i = j
    /\ \A i, j \in DOMAIN q : q[i].kind = "close" /\ q[j].kind = "login" => j < i

\* As many positions, each one further.
LEMMA Shifted ==
    ASSUME NEW S \in SUBSET Nat, IsFiniteSet(S), NEW T,
           \A i \in S : i + 1 \in T,
           \A j \in T : j \in Nat \ {0} /\ j - 1 \in S
    PROVE  IsFiniteSet(T) /\ Cardinality(T) = Cardinality(S)
<1> DEFINE f == [i \in S |-> i + 1]
<1>1. f \in [S -> T]
  OBVIOUS
<1>2. \A a, b \in S : f[a] = f[b] => a = b
  OBVIOUS
<1>3. \A t \in T : \E s \in S : f[s] = t
  <2>1. ASSUME NEW t \in T PROVE t - 1 \in S /\ f[t - 1] = t
    OBVIOUS
  <2> QED BY <2>1
<1>4. f \in Bijection(S, T)
  BY <1>1, <1>2, <1>3 DEF Bijection, Injection, Surjection, IsInjective
<1>5. ExistsBijection(S, T)
  BY <1>4 DEF ExistsBijection
<1> QED BY <1>5, FS_Bijection

LEMMA PositionsFinite ==
    ASSUME NEW q \in Seq(Tasks), NEW k
    PROVE  /\ IsFiniteSet(Positions(q, k))
           /\ Positions(q, k) \subseteq 1 .. Len(q)
           /\ Num(q, k) \in Nat
           /\ Num(q, k) = 0 <=> \A i \in DOMAIN q : q[i].kind # k
<1>1. Positions(q, k) \subseteq 1 .. Len(q) /\ Len(q) \in Nat
  BY DEF Positions
<1>2. IsFiniteSet(1 .. Len(q))
  BY <1>1, FS_Interval
<1>3. IsFiniteSet(Positions(q, k))
  BY <1>1, <1>2, FS_Subset
<1>4. Num(q, k) \in Nat
  BY <1>3, FS_CardinalityType DEF Num
<1>5. Num(q, k) = 0 <=> Positions(q, k) = {}
  BY <1>3, FS_EmptySet DEF Num
<1>6. Positions(q, k) = {} <=> \A i \in DOMAIN q : q[i].kind # k
  BY DEF Positions
<1> QED BY <1>1, <1>3, <1>4, <1>5, <1>6

\* addTask at the back of the queue.
LEMMA Appended ==
    ASSUME NEW q, QueueOK(q), NEW t \in Tasks, t.kind # "releaseMessage",
           t.kind = "login" => Num(q, "close") = 0
    PROVE  /\ QueueOK(Append(q, t))
           /\ \A k \in TaskKind : Num(Append(q, t), k) = Num(q, k) + (IF k = t.kind THEN 1 ELSE 0)
           /\ \A m : Releasing(Append(q, t), m) <=> Releasing(q, m)
<1> DEFINE r == Append(q, t)
<1>1. q \in Seq(Tasks)
  BY DEF QueueOK
<1>2. /\ r \in Seq(Tasks)
      /\ Len(q) \in Nat
      /\ DOMAIN q = 1 .. Len(q)
      /\ DOMAIN r = 1 .. Len(q) + 1
      /\ r[Len(q) + 1] = t
      /\ \A i \in DOMAIN q : r[i] = q[i]
  BY <1>1
<1> HIDE DEF r
<1>3. QueueOK(r)
  <2>1. \A i, j \in DOMAIN r : r[i].kind = "releaseMessage" /\ r[j] = r[i] => i = j
    BY <1>2 DEF QueueOK
  <2>2. \A i \in DOMAIN q : t.kind = "login" => q[i].kind # "close"
    BY <1>1, PositionsFinite
  <2>3. ASSUME NEW i \in DOMAIN r, NEW j \in DOMAIN r, r[i].kind = "close", r[j].kind = "login"
        PROVE  j < i
    <3>1. CASE i \in DOMAIN q /\ j \in DOMAIN q
      BY <2>3, <3>1, <1>2 DEF QueueOK
    <3>2. CASE i = Len(q) + 1
      <4>1. j # i
        BY <2>3
      <4> QED BY <3>2, <4>1, <1>2
    <3>3. CASE i \in DOMAIN q /\ j = Len(q) + 1
      BY <2>3, <3>3, <2>2, <1>2
    <3> QED BY <3>1, <3>2, <3>3, <1>2
  <2> QED BY <1>2, <2>1, <2>3 DEF QueueOK
<1>4. ASSUME NEW k \in TaskKind
      PROVE  Num(r, k) = Num(q, k) + (IF k = t.kind THEN 1 ELSE 0)
  <2>1. CASE k = t.kind
    <3>1. Positions(r, k) = Positions(q, k) \cup {Len(q) + 1}
      BY <1>2, <2>1 DEF Positions
    <3>2. Len(q) + 1 \notin Positions(q, k)
      BY <1>2 DEF Positions
    <3>3. IsFiniteSet(Positions(q, k))
      BY <1>1, PositionsFinite
    <3>4. Cardinality(Positions(r, k)) = Cardinality(Positions(q, k)) + 1
      BY <3>1, <3>2, <3>3, FS_AddElement
    <3> QED BY <2>1, <3>4 DEF Num
  <2>2. CASE k # t.kind
    <3>1. Positions(r, k) = Positions(q, k)
      BY <1>2, <2>2 DEF Positions
    <3> QED BY <1>1, <2>2, <3>1, PositionsFinite DEF Num
  <2> QED BY <2>1, <2>2
<1>5. \A m : Releasing(r, m) <=> Releasing(q, m)
  BY <1>2 DEF Releasing, IsRelease
<1> QED BY <1>3, <1>4, <1>5 DEF r

\* addTask at the front, for the release of a message.
LEMMA Pushed ==
    ASSUME NEW q, QueueOK(q), NEW t \in Tasks, t.kind = "releaseMessage",
           ~Releasing(q, t.msg)
    PROVE  /\ QueueOK(<<t>> \o q)
           /\ \A k \in TaskKind \ {"releaseMessage"} : Num(<<t>> \o q, k) = Num(q, k)
           /\ \A m : Releasing(<<t>> \o q, m) <=> Releasing(q, m) \/ m = t.msg
<1> DEFINE r == <<t>> \o q
<1>1. q \in Seq(Tasks)
  BY DEF QueueOK
<1>2. /\ r \in Seq(Tasks)
      /\ Len(q) \in Nat
      /\ DOMAIN q = 1 .. Len(q)
      /\ DOMAIN r = 1 .. Len(q) + 1
      /\ r[1] = t
      /\ \A i \in 2 .. Len(q) + 1 : r[i] = q[i - 1]
  <2>1. <<t>> \in Seq(Tasks) /\ Len(<<t>>) = 1 /\ <<t>>[1] = t
    OBVIOUS
  <2>2. r \in Seq(Tasks) /\ Len(r) = 1 + Len(q)
    BY <1>1, <2>1
  <2>3. \A i \in 1 .. 1 + Len(q) : r[i] = IF i <= 1 THEN <<t>>[i] ELSE q[i - 1]
    BY <1>1, <2>1
  <2> QED BY <1>1, <2>1, <2>2, <2>3
<1> HIDE DEF r
<1>3. \A i \in DOMAIN q : i + 1 \in DOMAIN r /\ i + 1 # 1 /\ r[i + 1] = q[i]
  BY <1>2
<1>4. \A i \in DOMAIN r : i # 1 => i - 1 \in DOMAIN q /\ r[i] = q[i - 1]
  BY <1>2
<1>5. QueueOK(r)
  <2>1. ASSUME NEW i \in DOMAIN r, NEW j \in DOMAIN r,
               r[i].kind = "releaseMessage", r[j] = r[i]
        PROVE  i = j
    <3>1. \A n \in DOMAIN q : q[n] # t
      BY DEF Releasing, IsRelease
    <3>2. CASE i = 1 \/ j = 1
      BY <2>1, <3>1, <3>2, <1>2, <1>4
    <3>3. CASE i # 1 /\ j # 1
      <4>1. i - 1 = j - 1
        BY <2>1, <3>3, <1>4 DEF QueueOK
      <4> QED BY <4>1, <1>2
    <3> QED BY <3>2, <3>3
  <2>2. ASSUME NEW i \in DOMAIN r, NEW j \in DOMAIN r, r[i].kind = "close", r[j].kind = "login"
        PROVE  j < i
    <3>1. i # 1 /\ j # 1
      BY <2>2, <1>2
    <3>2. j - 1 < i - 1
      BY <2>2, <3>1, <1>4 DEF QueueOK
    <3> QED BY <3>2, <1>2
  <2> QED BY <1>2, <2>1, <2>2 DEF QueueOK
<1>6. ASSUME NEW k \in TaskKind \ {"releaseMessage"} PROVE Num(r, k) = Num(q, k)
  <2>1. \A i \in Positions(q, k) : i + 1 \in Positions(r, k)
    BY <1>3 DEF Positions
  <2>2. \A j \in Positions(r, k) : j \in Nat \ {0} /\ j - 1 \in Positions(q, k)
    BY <1>2, <1>4 DEF Positions
  <2>3. IsFiniteSet(Positions(q, k)) /\ Positions(q, k) \in SUBSET Nat
    BY <1>1, PositionsFinite
  <2> QED BY <2>1, <2>2, <2>3, Shifted DEF Num
<1>7. \A m : Releasing(r, m) <=> Releasing(q, m) \/ m = t.msg
  <2>1. Releasing(r, t.msg)
    BY <1>2 DEF Releasing, IsRelease
  <2>2. ASSUME NEW m PROVE Releasing(q, m) => Releasing(r, m)
    BY <1>3 DEF Releasing, IsRelease
  <2>3. ASSUME NEW m, Releasing(r, m), m # t.msg PROVE Releasing(q, m)
    <3>1. PICK i \in DOMAIN r : IsRelease(r[i], m)
      BY <2>3 DEF Releasing
    <3>2. i # 1
      BY <2>3, <3>1, <1>2 DEF IsRelease
    <3> QED BY <3>1, <3>2, <1>4 DEF Releasing
  <2> QED BY <2>1, <2>2, <2>3
<1> QED BY <1>5, <1>6, <1>7 DEF r

\* The dispatcher takes the first task.
LEMMA Taken ==
    ASSUME NEW q, QueueOK(q), q # <<>>
    PROVE  /\ QueueOK(Tail(q))
           /\ Head(q) \in Tasks
           /\ \A k \in TaskKind : Num(q, k) = Num(Tail(q), k) + (IF k = Head(q).kind THEN 1 ELSE 0)
           /\ \A m : Releasing(Tail(q), m) => Releasing(q, m)
           /\ Head(q).kind = "releaseMessage" =>
                 Releasing(q, Head(q).msg) /\ ~Releasing(Tail(q), Head(q).msg)
           /\ Head(q).kind = "close" => Num(Tail(q), "login") = 0
<1> DEFINE r == Tail(q)
<1>1. q \in Seq(Tasks)
  BY DEF QueueOK
<1>2. /\ r \in Seq(Tasks)
      /\ Len(q) \in Nat \ {0}
      /\ DOMAIN q = 1 .. Len(q)
      /\ DOMAIN r = 1 .. Len(q) - 1
      /\ Head(q) = q[1]
      /\ q[1] \in Tasks
      /\ \A i \in 1 .. Len(q) - 1 : r[i] = q[i + 1]
  BY <1>1
<1> HIDE DEF r
<1>3. \A i \in DOMAIN r : i + 1 \in DOMAIN q /\ i + 1 # 1 /\ r[i] = q[i + 1]
  BY <1>2
<1>4. \A i \in DOMAIN q : i # 1 => i - 1 \in DOMAIN r /\ q[i] = r[i - 1]
  BY <1>2
<1>5. QueueOK(r)
  <2>1. ASSUME NEW i \in DOMAIN r, NEW j \in DOMAIN r,
               r[i].kind = "releaseMessage", r[j] = r[i]
        PROVE  i = j
    <3>1. i + 1 = j + 1
      BY <2>1, <1>3 DEF QueueOK
    <3> QED BY <3>1, <1>2
  <2>2. ASSUME NEW i \in DOMAIN r, NEW j \in DOMAIN r, r[i].kind = "close", r[j].kind = "login"
        PROVE  j < i
    <3>1. j + 1 < i + 1
      BY <2>2, <1>3 DEF QueueOK
    <3> QED BY <3>1, <1>2
  <2> QED BY <1>2, <2>1, <2>2 DEF QueueOK
<1>6. ASSUME NEW k \in TaskKind
      PROVE  Num(q, k) = Num(r, k) + (IF k = q[1].kind THEN 1 ELSE 0)
  <2> DEFINE S == Positions(q, k) \ {1}
  <2>1. \A i \in Positions(r, k) : i + 1 \in S
    BY <1>3 DEF Positions
  <2>2. \A j \in S : j \in Nat \ {0} /\ j - 1 \in Positions(r, k)
    BY <1>2, <1>4 DEF Positions
  <2>3. IsFiniteSet(Positions(r, k)) /\ Positions(r, k) \in SUBSET Nat
    BY <1>2, PositionsFinite
  <2>4. Cardinality(S) = Num(r, k)
    <3> HIDE DEF S
    <3> QED BY <2>1, <2>2, <2>3, Shifted DEF Num
  <2>5. 1 \in Positions(q, k) <=> k = q[1].kind
    BY <1>2 DEF Positions
  <2>6. IsFiniteSet(Positions(q, k)) /\ Num(q, k) \in Nat
    BY <1>1, PositionsFinite
  <2>7. Cardinality(S) = IF 1 \in Positions(q, k) THEN Num(q, k) - 1 ELSE Num(q, k)
    BY <2>6, FS_RemoveElement DEF Num
  <2> QED BY <2>4, <2>5, <2>6, <2>7
<1>7. \A m : Releasing(r, m) => Releasing(q, m)
  BY <1>3 DEF Releasing, IsRelease
<1>8. ASSUME q[1].kind = "releaseMessage"
      PROVE  Releasing(q, q[1].msg) /\ ~Releasing(r, q[1].msg)
  <2>1. Releasing(q, q[1].msg)
    BY <1>2, <1>8 DEF Releasing, IsRelease
  <2>2. ASSUME NEW i \in DOMAIN r, IsRelease(r[i], q[1].msg) PROVE FALSE
    <3>1. q[i + 1].kind = q[1].kind /\ q[i + 1].msg = q[1].msg /\ q[i + 1] \in Tasks
      BY <1>1, <1>3, <1>8, <2>2 DEF IsRelease
    <3>2. q[i + 1] = q[1]
      BY <3>1, <1>2 DEF Tasks
    <3>3. i + 1 = 1
      BY <1>2, <1>3, <1>8, <3>2, SMTT(30) DEF QueueOK
    <3> QED BY <3>3, <1>3
  <2> QED BY <2>1, <2>2 DEF Releasing
<1>9. ASSUME q[1].kind = "close" PROVE Num(r, "login") = 0
  <2>1. ASSUME NEW i \in DOMAIN r, r[i].kind = "login" PROVE FALSE
    <3>1. i + 1 < 1
      BY <1>2, <1>3, <1>9, <2>1 DEF QueueOK
    <3> QED BY <3>1, <1>2
  <2> QED BY <2>1, <1>2, PositionsFinite
<1> QED BY <1>2, <1>5, <1>6, <1>7, <1>8, <1>9 DEF r

-----------------------------------------------------------------------------
(* The inductive invariant.                                                *)

\* A handler that waits for the pool has read a packet, and the connection cannot
\* begin to close under it.  m_protocol and Protocol::m_connection go together.
HandlersInv ==
    /\ protoConn = m_protocol
    /\ iopc \in {"reply", "kick"} =>
          readOp = "body" /\ m_protocol /\ m_closeState # "CLOSING"
    /\ iopc = "returning" <=> ioMsg # NoMsg
    /\ next >= 1

\* Up to its first packet, or the answer to it, a connection has nothing: no message,
\* no player, no login under way; and nobody but the peer can have closed it.
NothingYet ==
    /\ iopc = "reply" \/ (~m_protocol /\ m_closeState # "CLOSING") =>
          /\ \A m \in Msgs : mstate[m] = "FREE"
          /\ ~client
          /\ Num(tasks, "login") = 0
          /\ Num(tasks, "connect") + timers["connect"] = 0
    /\ ~m_protocol /\ m_closeState # "CLOSING" /\ readOp # "none" => m_closeState = "NONE"
    /\ conn = "new" => readOp = "none" /\ ~m_protocol /\ m_closeState = "NONE"

\* closeConnectionTask comes once, after the login.
ClosingInv ==
    /\ Num(tasks, "close") <= 1
    /\ Num(tasks, "close") > 0 => m_closeState = "REQUESTED"
    /\ m_closeState = "CLOSING" => ~m_protocol /\ Num(tasks, "login") = 0

\* The connection is released once, when it is closing and its last operation is over;
\* its protocol once, when it is closing.
ReleasedOnce ==
    /\ Num(tasks, "releaseConnection") + timers["releaseConnection"] <= 1
    /\ conn = "deleted" => Num(tasks, "releaseConnection") + timers["releaseConnection"] = 0
    /\ Num(tasks, "releaseConnection") + timers["releaseConnection"] > 0 \/ conn = "deleted" =>
          m_closeState = "CLOSING" /\ wire = {} /\ readOp = "none"
    /\ Num(tasks, "releaseProtocol") + timers["releaseProtocol"] <= 1
    /\ proto = "deleted" => Num(tasks, "releaseProtocol") + timers["releaseProtocol"] = 0
    /\ Num(tasks, "releaseProtocol") + timers["releaseProtocol"] > 0 \/ proto = "deleted" =>
          m_closeState = "CLOSING"

NoTwice(s) == \A i, j \in DOMAIN s : s[i] = s[j] => i = j

\* A message on its way out of the program, or out of the pool.
Leaving(m) == m \in wire \/ m = ioMsg \/ Releasing(tasks, m)

\* Who has a message: the pool, or the queues and the buffer, or the socket, or the
\* handler, or its release; and the socket has one at most.
OwnersInv ==
    /\ QueueOK(tasks)
    /\ \A m \in Msgs : mstate[m] = "FREE" => ~Held(m) /\ ~Leaving(m)
    /\ \A m \in Msgs : Leaving(m) => ~Held(m)
    /\ \A m \in Msgs : Releasing(tasks, m) => m \notin wire /\ m # ioMsg
    /\ ~Releasing(tasks, NoMsg)
    /\ ioMsg \notin wire
    /\ \A m, n \in wire : m = n
    /\ m_writeError => wire = {}
    /\ NoTwice(auto) /\ NoTwice(toAdd)
    /\ \A m \in Msgs : ~(Contains(auto, m) /\ Contains(toAdd, m))

\* The references counted, and those that must be gone with the objects.
RefsInv ==
    /\ connRef = Cardinality(Allocated)
    /\ protoRef >= Cardinality(Allocated) + Num(tasks, "connect") + timers["connect"]
    /\ accepting =>
          protoRef = Cardinality(Allocated) + Num(tasks, "connect") + timers["connect"]
    /\ conn = "deleted" => \A m \in Msgs : mstate[m] = "FREE"
    /\ proto = "deleted" =>
          /\ \A m \in Msgs : mstate[m] = "FREE"
          /\ Num(tasks, "connect") + timers["connect"] = 0
          /\ ~client

\* TypeOK but for the queue, of which QueueOK and ClosingInv say the same.
Types ==
    /\ conn \in {"new", "live", "deleted"}
    /\ m_closeState \in {"NONE", "REQUESTED", "CLOSING"}
    /\ m_socketClosed \in BOOLEAN
    /\ m_writeError \in BOOLEAN
    /\ m_pendingRead = IF readOp = "none" THEN 0 ELSE 1
    /\ m_pendingWrite = Cardinality(wire)
    /\ readOp \in {"none", "header", "body"}
    /\ wire \subseteq Msgs
    /\ connRef \in Nat
    /\ m_protocol \in BOOLEAN
    /\ proto \in {"none", "live", "deleted"}
    /\ protoConn \in BOOLEAN
    /\ protoRef \in Nat
    /\ client \in BOOLEAN
    /\ buffer \in Msgs \cup {NoMsg}
    /\ mstate \in [Msgs -> {"FREE", "ALLOCATED", "ALLOCATED_NO_AUTOSEND"}]
    /\ fresh \subseteq Msgs
    /\ auto \in Seq(Msgs)
    /\ toAdd \in Seq(Msgs)
    /\ timers \in [TimerKind -> Nat]
    /\ accepting \in BOOLEAN
    /\ dpc \in {"idle", "taskDone", "moving", "sendAll"}
    /\ next \in Nat
    /\ iopc \in Location
    /\ ioMsg \in Msgs \cup {NoMsg}

LifeInv == HandlersInv /\ NothingYet /\ ClosingInv /\ ReleasedOnce

\* The inductive invariant behind ObjectsOutliveUse, NoLockCycle and BuffersPrivate.
CInv == Types /\ LifeInv /\ OwnersInv /\ RefsInv

-----------------------------------------------------------------------------
(* Queues of messages.                                                     *)

LEMMA AppendMsg ==
    ASSUME NEW s \in Seq(Msgs), NEW m \in Msgs
    PROVE  /\ Append(s, m) \in Seq(Msgs)
           /\ \A n : Contains(Append(s, m), n) <=> Contains(s, n) \/ n = m
           /\ NoTwice(s) /\ ~Contains(s, m) => NoTwice(Append(s, m))
<1> DEFINE r == Append(s, m)
<1>1. /\ r \in Seq(Msgs)
      /\ Len(s) \in Nat
      /\ Len(r) = Len(s) + 1
      /\ DOMAIN s = 1 .. Len(s)
      /\ DOMAIN r = 1 .. Len(s) + 1
      /\ r[Len(s) + 1] = m
      /\ \A i \in 1 .. Len(s) : r[i] = s[i]
  OBVIOUS
<1> HIDE DEF r
<1>2. \A n : Contains(r, n) <=> Contains(s, n) \/ n = m
  <2>1. Contains(r, m)
    BY <1>1 DEF Contains
  <2>2. \A n : Contains(s, n) => Contains(r, n)
    BY <1>1 DEF Contains
  <2>3. \A n : Contains(r, n) => Contains(s, n) \/ n = m
    BY <1>1 DEF Contains
  <2> QED BY <2>1, <2>2, <2>3
<1>3. NoTwice(s) /\ ~Contains(s, m) => NoTwice(r)
  BY <1>1 DEF NoTwice, Contains
<1> QED BY <1>1, <1>2, <1>3 DEF r

LEMMA TailMsg ==
    ASSUME NEW s \in Seq(Msgs), s # <<>>
    PROVE  /\ Tail(s) \in Seq(Msgs)
           /\ Head(s) \in Msgs
           /\ Contains(s, Head(s))
           /\ \A n : Contains(Tail(s), n) => Contains(s, n)
           /\ \A n : Contains(s, n) => n = Head(s) \/ Contains(Tail(s), n)
           /\ NoTwice(s) => NoTwice(Tail(s)) /\ ~Contains(Tail(s), Head(s))
<1> DEFINE r == Tail(s)
<1>1. /\ r \in Seq(Msgs)
      /\ Len(s) \in Nat \ {0}
      /\ Len(r) = Len(s) - 1
      /\ DOMAIN s = 1 .. Len(s)
      /\ DOMAIN r = 1 .. Len(s) - 1
      /\ Head(s) = s[1] /\ s[1] \in Msgs
      /\ \A i \in 1 .. Len(s) - 1 : r[i] = s[i + 1]
  OBVIOUS
<1> HIDE DEF r
<1>2. \A i \in 1 .. Len(r) : i + 1 \in 1 .. Len(s) /\ r[i] = s[i + 1]
  BY <1>1
<1>3. \A i \in 1 .. Len(s) : i # 1 => i - 1 \in 1 .. Len(r) /\ s[i] = r[i - 1]
  BY <1>1
<1>4. Contains(s, s[1])
  BY <1>1 DEF Contains
<1>5. \A n : Contains(r, n) => Contains(s, n)
  BY <1>2 DEF Contains
<1>6. \A n : Contains(s, n) => n = s[1] \/ Contains(r, n)
  BY <1>3 DEF Contains
<1>7. ASSUME NoTwice(s) PROVE NoTwice(r) /\ ~Contains(r, s[1])
  <2>1. ASSUME NEW i \in DOMAIN r, NEW j \in DOMAIN r, r[i] = r[j] PROVE i = j
    <3>1. i + 1 = j + 1
      BY <1>1, <1>2, <1>7, <2>1, SMTT(30) DEF NoTwice
    <3> QED BY <3>1, <1>1
  <2>2. ~Contains(r, s[1])
    <3>1. \A i \in 1 .. Len(r) : r[i] = s[1] => i + 1 = 1
      BY <1>1, <1>2, <1>7, SMTT(30) DEF NoTwice
    <3> QED BY <3>1, <1>1 DEF Contains
  <2> QED BY <2>1, <2>2 DEF NoTwice
<1> QED BY <1>1, <1>4, <1>5, <1>6, <1>7 DEF r

LEMMA RemoveMsg ==
    ASSUME NEW s \in Seq(Msgs), NEW k \in 1 .. Len(s)
    PROVE  /\ RemoveAt(s, k) \in Seq(Msgs)
           /\ \A n : Contains(RemoveAt(s, k), n) => Contains(s, n)
           /\ NoTwice(s) => NoTwice(RemoveAt(s, k)) /\ ~Contains(RemoveAt(s, k), s[k])
<1> DEFINE r == RemoveAt(s, k)
           a == SubSeq(s, 1, k - 1)
           b == SubSeq(s, k + 1, Len(s))
           at(i) == IF i < k THEN i ELSE i + 1
<1>1. Len(s) \in Nat /\ k \in Nat /\ DOMAIN s = 1 .. Len(s)
  OBVIOUS
<1>2. /\ a \in Seq(Msgs) /\ Len(a) = k - 1
      /\ \A i \in 1 .. k - 1 : a[i] = s[i]
  <2>1. \A i \in 1 .. k - 1 : s[i] \in Msgs
    BY <1>1
  <2>2. a \in Seq(Msgs)
    BY <2>1, <1>1, SubSeqProperties
  <2>3. Len(a) = k - 1
    BY <1>1, SubSeqProperties
  <2>4. \A i \in 1 .. k - 1 : a[i] = s[i]
    BY <1>1, <2>3, SubSeqProperties
  <2> QED BY <2>2, <2>3, <2>4
<1>3. /\ b \in Seq(Msgs) /\ Len(b) = Len(s) - k
      /\ \A i \in 1 .. Len(s) - k : b[i] = s[i + k]
  <2>1. /\ k + 1 \in Int /\ Len(s) \in Int
        /\ \A i \in k + 1 .. Len(s) : s[i] \in Msgs
    BY <1>1
  <2>2. /\ b \in Seq(Msgs)
        /\ Len(b) = IF k + 1 <= Len(s) THEN Len(s) - (k + 1) + 1 ELSE 0
        /\ \A i \in 1 .. Len(s) - (k + 1) + 1 : b[i] = s[k + 1 + i - 1]
    BY <2>1, SubSeqProperties
  <2>3. Len(b) = Len(s) - k
    BY <1>1, <2>2
  <2>4. \A i \in 1 .. Len(s) - k : b[i] = s[i + k]
    <3>1. ASSUME NEW i \in 1 .. Len(s) - k PROVE b[i] = s[i + k]
      <4>1. i \in 1 .. Len(s) - (k + 1) + 1 /\ k + 1 + i - 1 = i + k
        BY <1>1
      <4> QED BY <4>1, <2>2
    <3> QED BY <3>1
  <2> QED BY <2>2, <2>3, <2>4
<1>4. r = a \o b
  BY DEF RemoveAt
<1> HIDE DEF r, a, b
<1>5. /\ r \in Seq(Msgs) /\ Len(r) = Len(s) - 1
      /\ DOMAIN r = 1 .. Len(s) - 1
      /\ \A i \in 1 .. Len(s) - 1 : at(i) \in 1 .. Len(s) /\ at(i) # k /\ r[i] = s[at(i)]
  <2>1. r \in Seq(Msgs) /\ Len(r) = Len(s) - 1
    <3>1. r \in Seq(Msgs) /\ Len(r) = Len(a) + Len(b)
      BY <1>2, <1>3, <1>4, ConcatProperties
    <3> QED BY <3>1, <1>1, <1>2, <1>3
  <2>2. ASSUME NEW i \in 1 .. Len(s) - 1 PROVE r[i] = s[at(i)]
    <3>0. r[i] = IF i <= k - 1 THEN a[i] ELSE b[i - (k - 1)]
      BY <1>1, <1>2, <1>3, <1>4, ConcatProperties, SMTT(30)
    <3>1. CASE i < k
      <4>1. i \in 1 .. k - 1
        BY <3>1, <1>1
      <4> QED BY <3>0, <3>1, <4>1, <1>2
    <3>2. CASE ~(i < k)
      <4>1. i - (k - 1) \in 1 .. Len(s) - k
        BY <3>2, <1>1
      <4>2. r[i] = b[i - (k - 1)]
        BY <3>0, <3>2, <1>1
      <4>3. i - (k - 1) + k = i + 1
        BY <1>1
      <4> QED BY <3>2, <4>1, <4>2, <4>3, <1>3
    <3> QED BY <3>1, <3>2
  <2> QED BY <1>1, <2>1, <2>2
<1>6. \A n : Contains(r, n) => Contains(s, n)
  BY <1>5 DEF Contains
<1>7. ASSUME NoTwice(s) PROVE NoTwice(r) /\ ~Contains(r, s[k])
  <2>1. ASSUME NEW i \in DOMAIN r, NEW j \in DOMAIN r, r[i] = r[j] PROVE i = j
    <3>1. at(i) = at(j)
      BY <1>1, <1>5, <1>7, <2>1 DEF NoTwice
    <3> QED BY <3>1, <1>1, <1>5
  <2>2. ~Contains(r, s[k])
    <3>1. \A i \in 1 .. Len(r) : r[i] = s[k] => at(i) = k
      BY <1>1, <1>5, <1>7 DEF NoTwice
    <3> QED BY <3>1, <1>5 DEF Contains
  <2> QED BY <2>1, <2>2 DEF NoTwice
<1> QED BY <1>5, <1>6, <1>7 DEF r

-----------------------------------------------------------------------------
(* The operators the actions are built from.                               *)

\* r has what q has, and one more task of each kind of K; releases apart.
More(q, r, K) ==
    /\ QueueOK(r)
    /\ \A k \in TaskKind \ {"releaseMessage"} :
          Num(r, k) = Num(q, k) + (IF k \in K THEN 1 ELSE 0)

\* The same, if tasks are still accepted.
MoreIf(q, r, k) ==
    \/ accepting /\ More(q, r, {k})
    \/ ~accepting /\ More(q, r, {})

LEMMA AddedKeeps ==
    ASSUME NEW q, QueueOK(q), accepting \in BOOLEAN,
           NEW k \in TaskKind \ {"releaseMessage"},
           k = "login" => Num(q, "close") = 0
    PROVE  /\ MoreIf(q, Added(q, k), k)
           /\ \A m : Releasing(Added(q, k), m) <=> Releasing(q, m)
<1>1. CASE accepting
  <2>1. Added(q, k) = Append(q, Task(k))
    BY <1>1 DEF Added
  <2>2. Task(k) \in Tasks /\ Task(k).kind = k
    BY DEF Task, Tasks
  <2> QED BY <1>1, <2>1, <2>2, Appended DEF More, MoreIf
<1>2. CASE ~accepting
  <2>1. \A j : Num(q, j) \in Nat
    BY PositionsFinite DEF QueueOK
  <2> QED BY <1>2, <2>1 DEF Added, More, MoreIf
<1> QED BY <1>1, <1>2

LEMMA ReleasedKeeps ==
    ASSUME NEW q, QueueOK(q), NEW m \in Msgs, ~Releasing(q, m)
    PROVE  /\ More(q, Released(q, m), {})
           /\ \A n : Releasing(Released(q, m), n) => Releasing(q, n) \/ n = m
<1>0. \A j : Num(q, j) \in Nat
  BY PositionsFinite DEF QueueOK
<1>1. CASE accepting
  <2> DEFINE t == [kind |-> "releaseMessage", msg |-> m]
  <2>1. Released(q, m) = <<t>> \o q
    BY <1>1 DEF Released
  <2>2. t \in Tasks /\ t.kind = "releaseMessage" /\ t.msg = m
    BY DEF Tasks, TaskKind
  <2> HIDE DEF t
  <2> QED BY <1>0, <2>1, <2>2, Pushed DEF More, MoreIf
<1>2. CASE ~accepting
  BY <1>0, <1>2 DEF Released, More, MoreIf
<1> QED BY <1>1, <1>2

LEMMA AfterSendKeeps ==
    ASSUME NEW q, QueueOK(q), NEW m \in Msgs, ~Releasing(q, m)
    PROVE  /\ More(q, AfterSend(q, m), {})
           /\ \A n : Releasing(AfterSend(q, m), n) => Releasing(q, n) \/ (n = m /\ Refuses)
<1>0. \A j : Num(q, j) \in Nat
  BY PositionsFinite DEF QueueOK
<1>1. CASE Refuses
  BY <1>1, ReleasedKeeps DEF AfterSend
<1>2. CASE ~Refuses
  BY <1>0, <1>2 DEF AfterSend, More, MoreIf
<1> QED BY <1>1, <1>2

LEMMA CloseKeeps ==
    ASSUME NEW q, QueueOK(q), accepting \in BOOLEAN, CloseConnection(q)
    PROVE  /\ \A m : Releasing(tasks', m) <=> Releasing(q, m)
           /\ \/ /\ m_closeState = "NONE" /\ m_closeState' = "REQUESTED"
                 /\ MoreIf(q, tasks', "close")
              \/ /\ m_closeState # "NONE" /\ m_closeState' = m_closeState
                 /\ More(q, tasks', {})
<1>0. \A j : Num(q, j) \in Nat
  BY PositionsFinite DEF QueueOK
<1>1. CASE m_closeState = "NONE"
  BY <1>1, AddedKeeps DEF CloseConnection, TaskKind
<1>2. CASE m_closeState # "NONE"
  BY <1>0, <1>2 DEF CloseConnection, More, MoreIf
<1> QED BY <1>1, <1>2

LEMMA ClosingKeeps ==
    ASSUME NEW q, QueueOK(q), accepting \in BOOLEAN, NEW read, NEW write, NEW werr \in BOOLEAN,
           m_socketClosed \in BOOLEAN,
           ClosingConnection(read, write, werr, q)
    PROVE  /\ \A m : Releasing(tasks', m) <=> Releasing(q, m)
           /\ \/ /\ Releases(read, write, werr)
                 /\ MoreIf(q, tasks', "releaseConnection")
              \/ /\ ~Releases(read, write, werr)
                 /\ More(q, tasks', {})
           /\ m_socketClosed' \in BOOLEAN
<1>0. \A j : Num(q, j) \in Nat
  BY PositionsFinite DEF QueueOK
<1>1. m_socketClosed' \in BOOLEAN
  BY DEF ClosingConnection
<1>2. CASE Releases(read, write, werr)
  BY <1>1, <1>2, AddedKeeps DEF ClosingConnection, TaskKind, TimerKind
<1>3. CASE ~Releases(read, write, werr)
  BY <1>0, <1>1, <1>3 DEF ClosingConnection, More, MoreIf
<1> QED BY <1>2, <1>3

\* The dispatcher begins one of these tasks.
LEMMA RunKeeps ==
    ASSUME NEW kind \in TaskKind, QueueOK(tasks), RunTask(kind)
    PROVE  /\ QueueOK(Tail(tasks))
           /\ Head(tasks) \in Tasks
           /\ Head(tasks).kind = kind
           /\ \A k \in TaskKind :
                 Num(tasks, k) = Num(Tail(tasks), k) + (IF k = kind THEN 1 ELSE 0)
           /\ \A k \in TaskKind : Num(tasks, k) \in Nat /\ Num(Tail(tasks), k) \in Nat
           /\ \A m : Releasing(Tail(tasks), m) => Releasing(tasks, m)
           /\ kind = "releaseMessage" =>
                 Releasing(tasks, Head(tasks).msg) /\ ~Releasing(Tail(tasks), Head(tasks).msg)
           /\ kind = "close" => Num(Tail(tasks), "login") = 0
           /\ dpc' = "taskDone"
           /\ UNCHANGED <<next, iopc, ioMsg, accepting>>
<1>1. tasks # <<>> /\ Head(tasks).kind = kind /\ dpc' = "taskDone"
      /\ UNCHANGED <<next, iopc, ioMsg, accepting>>
  BY DEF RunTask, ioVars
<1>2. \A k : Num(tasks, k) \in Nat
  BY PositionsFinite DEF QueueOK
<1>3. \A k : Num(Tail(tasks), k) \in Nat
  BY <1>1, Taken, PositionsFinite DEF QueueOK
<1> QED BY <1>1, <1>2, <1>3, Taken

LEMMA NumIsNat == ASSUME NEW q, QueueOK(q) PROVE \A k : Num(q, k) \in Nat
BY PositionsFinite DEF QueueOK

\* The writes in flight are counted: no more than one.
LEMMA WireCount ==
    ASSUME ConstantsAssumption, wire \subseteq Msgs
    PROVE  /\ IsFiniteSet(wire) /\ Cardinality(wire) \in Nat
           /\ Cardinality(wire) = 0 <=> wire = {}
           /\ \A m : m \notin wire => Cardinality(wire \cup {m}) = Cardinality(wire) + 1
           /\ \A m \in wire : Cardinality(wire \ {m}) = Cardinality(wire) - 1
<1>1. IsFiniteSet(wire)
  BY FS_Subset DEF ConstantsAssumption
<1> QED BY <1>1, FS_EmptySet, FS_CardinalityType, FS_AddElement, FS_RemoveElement

\* A message taken from the pool is a reference more, whoever takes it.
LEMMA ConfigureCounts ==
    ASSUME Types, NEW m \in Msgs, NEW autosend, NEW refs, Configure(m, autosend, refs)
    PROVE  /\ mstate[m] = "FREE" /\ mstate'[m] # "FREE"
           /\ \A n \in Msgs : n # m => mstate'[n] = mstate[n]
           /\ mstate' \in [Msgs -> {"FREE", "ALLOCATED", "ALLOCATED_NO_AUTOSEND"}]
           /\ fresh' \subseteq Msgs
           /\ connRef' = connRef + 1 /\ protoRef' = refs + 1
           /\ Cardinality(Allocated') = Cardinality(Allocated) + 1
<1>1. /\ mstate[m] = "FREE" /\ mstate'[m] # "FREE"
      /\ \A n \in Msgs : n # m => mstate'[n] = mstate[n]
      /\ mstate' \in [Msgs -> {"FREE", "ALLOCATED", "ALLOCATED_NO_AUTOSEND"}]
      /\ fresh' \subseteq Msgs
      /\ connRef' = connRef + 1 /\ protoRef' = refs + 1
  BY DEF Types, Configure
<1>2. Allocated' = Allocated \cup {m} /\ m \notin Allocated
  BY <1>1 DEF Allocated
<1>3. IsFiniteSet(Allocated)
  BY ConstantsAssumption, FS_Subset DEF ConstantsAssumption, Allocated
<1> QED BY <1>1, <1>2, <1>3, FS_AddElement

LEMMA AllocatedCount ==
    /\ IsFiniteSet(Allocated) /\ Cardinality(Allocated) \in Nat
    /\ Cardinality(Allocated) = 0 <=> \A m \in Msgs : mstate[m] = "FREE"
<1>1. IsFiniteSet(Allocated)
  BY ConstantsAssumption, FS_Subset DEF ConstantsAssumption, Allocated
<1>2. Allocated = {} <=> \A m \in Msgs : mstate[m] = "FREE"
  BY DEF Allocated
<1> QED BY <1>1, <1>2, FS_EmptySet, FS_CardinalityType

-----------------------------------------------------------------------------
(* The io thread's steps keep the invariant.                               *)

\* No message changes hands.
LEMMA OwnersKept ==
    ASSUME CInv, UNCHANGED <<buffer, auto, toAdd, mstate, wire, ioMsg, m_writeError>>,
           QueueOK(tasks'), \A m : Releasing(tasks', m) => Releasing(tasks, m)
    PROVE  OwnersInv'
<1>1. \A m : Held(m)' <=> Held(m)
  BY DEF Held
<1>2. \A m : Leaving(m)' => Leaving(m)
  BY DEF Leaving
<1> QED BY <1>1, <1>2 DEF CInv, OwnersInv

\* No reference is added or taken.
LEMMA RefsKept ==
    ASSUME CInv, UNCHANGED <<connRef, protoRef, mstate, accepting, conn, proto, client, timers>>,
           Num(tasks', "connect") = Num(tasks, "connect")
    PROVE  RefsInv'
<1>1. Allocated' = Allocated
  BY DEF Allocated
<1> QED BY <1>1 DEF CInv, RefsInv

\* References and messages allocated change together.
LEMMA RefsFollow ==
    ASSUME CInv, NEW refs \in Nat,
           connRef' = Cardinality(Allocated'), Cardinality(Allocated') \in Nat,
           protoRef' \in Nat, Num(tasks', "connect") \in Nat, timers'["connect"] \in Nat,
           protoRef' - Cardinality(Allocated') = refs - Cardinality(Allocated),
           refs >= Cardinality(Allocated) + Num(tasks', "connect") + timers'["connect"],
           accepting' =>
              refs = Cardinality(Allocated) + Num(tasks', "connect") + timers'["connect"],
           conn' = "deleted" => \A m \in Msgs : mstate'[m] = "FREE",
           proto' = "deleted" =>
              /\ \A m \in Msgs : mstate'[m] = "FREE"
              /\ Num(tasks', "connect") + timers'["connect"] = 0
              /\ ~client'
    PROVE  RefsInv'
<1>1. Cardinality(Allocated) \in Nat
  BY AllocatedCount
<1>2. ASSUME NEW a \in Nat, NEW b \in Nat, NEW p \in Nat, NEW n \in Nat, NEW t \in Nat,
             p - b = refs - a
      PROVE  /\ refs >= a + n + t => p >= b + n + t
             /\ refs = a + n + t => p = b + n + t
  BY <1>2
<1>3. protoRef' >= Cardinality(Allocated') + Num(tasks', "connect") + timers'["connect"]
  BY <1>1, <1>2
<1>4. accepting' =>
         protoRef' = Cardinality(Allocated') + Num(tasks', "connect") + timers'["connect"]
  BY <1>1, <1>2
<1> QED BY <1>3, <1>4 DEF RefsInv

LEMMA NotReleasedYet ==
    ASSUME CInv, m_closeState # "CLOSING"
    PROVE  /\ Num(tasks, "releaseConnection") = 0 /\ timers["releaseConnection"] = 0
           /\ Num(tasks, "releaseProtocol") = 0 /\ timers["releaseProtocol"] = 0
           /\ conn # "deleted" /\ proto # "deleted"
<1>1. \A k : Num(tasks, k) \in Nat
  BY NumIsNat DEF CInv, OwnersInv
<1>2. timers["releaseConnection"] \in Nat /\ timers["releaseProtocol"] \in Nat
  BY DEF CInv, Types, TimerKind
<1>3. /\ ~(Num(tasks, "releaseConnection") + timers["releaseConnection"] > 0)
      /\ ~(Num(tasks, "releaseProtocol") + timers["releaseProtocol"] > 0)
      /\ conn # "deleted" /\ proto # "deleted"
  BY DEF CInv, LifeInv, ReleasedOnce
<1> QED BY <1>1, <1>2, <1>3

LEMMA AcceptKeeps == ASSUME CInv, Accept PROVE CInv'
<1> USE DEF Accept, Read, protoVars, poolVars, refVars, dispVars, ioVars
<1>1. Types'
  BY DEF CInv, Types
<1>2. LifeInv'
  BY DEF CInv, LifeInv, HandlersInv, NothingYet, ClosingInv, ReleasedOnce
<1>3. OwnersInv'
  BY OwnersKept DEF CInv, OwnersInv
<1>4. RefsInv'
  <2>1. Allocated' = Allocated
    BY DEF Allocated
  <2> QED BY <2>1 DEF CInv, RefsInv
<1> QED BY <1>1, <1>2, <1>3, <1>4 DEF CInv

\* Nothing but the read operation changes, and it goes on only after a packet.
LEMMA ReadKeeps ==
    ASSUME CInv, NEW op \in {"none", "header", "body"}, Read(op),
           iopc = "idle", readOp # "none", m_closeState # "CLOSING",
           m_protocol \/ op = "body" \/ op = "none",
           UNCHANGED <<conn, m_closeState, m_socketClosed, m_writeError, m_pendingWrite,
                       wire, m_protocol, protoVars, buffer, poolVars, refVars, tasks,
                       timers, accepting, dispVars, ioVars>>
    PROVE  CInv'
<1> USE DEF Read, protoVars, poolVars, refVars, dispVars, ioVars
<1>1. Types'
  BY DEF CInv, Types
<1>2. LifeInv'
  BY DEF CInv, LifeInv, HandlersInv, NothingYet, ClosingInv, ReleasedOnce, Types
<1>3. OwnersInv'
  BY OwnersKept DEF CInv, OwnersInv
<1>4. RefsInv'
  BY RefsKept
<1> QED BY <1>1, <1>2, <1>3, <1>4 DEF CInv

LEMMA ParseHeaderKeeps == ASSUME CInv, ParseHeader PROVE CInv'
BY ReadKeeps DEF ParseHeader

LEMMA ParseGameKeeps == ASSUME CInv, ParseGame PROVE CInv'
BY ReadKeeps DEF ParseGame, CanParse

LEMMA ReadEndsKeeps == ASSUME CInv, ReadEnds PROVE CInv'
<1> USE DEF Read, protoVars, poolVars, refVars, dispVars, ioVars
<1>1. /\ iopc = "idle" /\ readOp # "none" /\ readOp' = "none" /\ m_pendingRead' = 0
      /\ UNCHANGED <<conn, m_writeError, m_pendingWrite, wire, m_protocol, proto, protoConn,
                     client, buffer, mstate, fresh, auto, toAdd, connRef, protoRef, timers,
                     accepting, dpc, next, iopc, ioMsg>>
      /\ accepting \in BOOLEAN /\ m_writeError \in BOOLEAN /\ m_socketClosed \in BOOLEAN
      /\ m_pendingWrite = Cardinality(wire)
  BY DEF ReadEnds, CInv, Types
<1>2. QueueOK(tasks) /\ \A k : Num(tasks, k) \in Nat
  BY NumIsNat DEF CInv, OwnersInv
<1>3. Num(tasks, "releaseConnection") + timers["releaseConnection"] = 0 /\ conn # "deleted"
  BY <1>1, <1>2 DEF CInv, LifeInv, ReleasedOnce, Types, TimerKind
<1>4. CASE m_closeState = "CLOSING"
  <2>1. ClosingConnection(0, m_pendingWrite, m_writeError, tasks) /\ m_closeState' = m_closeState
    BY <1>4 DEF ReadEnds
  <2>2. /\ \A m : Releasing(tasks', m) <=> Releasing(tasks, m)
        /\ \/ /\ Releases(0, m_pendingWrite, m_writeError)
              /\ MoreIf(tasks, tasks', "releaseConnection")
           \/ /\ ~Releases(0, m_pendingWrite, m_writeError)
              /\ More(tasks, tasks', {})
        /\ m_socketClosed' \in BOOLEAN
    BY <1>1, <1>2, <2>1, ClosingKeeps
  <2>3. Releases(0, m_pendingWrite, m_writeError) => wire = {}
    BY <1>1, ConstantsAssumption, WireCount DEF Releases, CInv, OwnersInv, Types
  <2>4. Types'
    BY <1>1, <2>1, <2>2 DEF CInv, Types
  <2>5. LifeInv'
    <3>1. HandlersInv'
      BY <1>1, <1>2, <1>3, <1>4, <2>1, <2>2, <2>3 DEF CInv, LifeInv, HandlersInv
    <3>2. NothingYet'
      BY <1>1, <1>2, <1>3, <1>4, <2>1, <2>2, <2>3 DEF CInv, LifeInv, HandlersInv, NothingYet, More, MoreIf, TaskKind, TimerKind
    <3>3. ClosingInv'
      BY <1>1, <1>2, <1>3, <1>4, <2>1, <2>2, <2>3 DEF CInv, LifeInv, HandlersInv, NothingYet, ClosingInv, More, MoreIf, TaskKind, TimerKind
    <3>4. ReleasedOnce'
      BY <1>1, <1>2, <1>3, <1>4, <2>1, <2>2, <2>3
         DEF CInv, Types, LifeInv, ReleasedOnce, More, MoreIf, TaskKind, TimerKind
    <3> QED BY <3>1, <3>2, <3>3, <3>4 DEF LifeInv
  <2>6. OwnersInv'
    BY <1>1, <2>2, OwnersKept DEF More, MoreIf
  <2>7. RefsInv'
    BY <1>1, <1>2, <2>2, RefsKept DEF More, MoreIf, TaskKind, TimerKind
  <2> QED BY <2>4, <2>5, <2>6, <2>7 DEF CInv
<1>5. CASE m_closeState # "CLOSING"
  <2>1. CloseConnection(tasks) /\ m_socketClosed' = m_socketClosed
    BY <1>5 DEF ReadEnds
  <2>2. /\ \A m : Releasing(tasks', m) <=> Releasing(tasks, m)
        /\ \/ /\ m_closeState = "NONE" /\ m_closeState' = "REQUESTED"
              /\ MoreIf(tasks, tasks', "close")
           \/ /\ m_closeState # "NONE" /\ m_closeState' = m_closeState
              /\ More(tasks, tasks', {})
    BY <1>1, <1>2, <2>1, CloseKeeps
  <2>4. Types'
    BY <1>1, <2>1, <2>2 DEF CInv, Types
  <2>5. LifeInv'
    <3>1. HandlersInv'
      BY <1>1, <1>2, <1>3, <1>5, <2>1, <2>2 DEF CInv, LifeInv, HandlersInv
    <3>2. NothingYet'
      BY <1>1, <1>2, <1>3, <1>5, <2>1, <2>2 DEF CInv, LifeInv, HandlersInv, NothingYet, More, MoreIf, TaskKind, TimerKind
    <3>3. ClosingInv'
      BY <1>1, <1>2, <1>3, <1>5, <2>1, <2>2 DEF CInv, LifeInv, HandlersInv, NothingYet, ClosingInv, More, MoreIf, TaskKind, TimerKind
    <3>4. ReleasedOnce'
      BY <1>1, <1>2, <1>3, <1>5, <2>1, <2>2
         DEF CInv, Types, LifeInv, ReleasedOnce, More, MoreIf, TaskKind, TimerKind
    <3> QED BY <3>1, <3>2, <3>3, <3>4 DEF LifeInv
  <2>6. OwnersInv'
    BY <1>1, <2>2, OwnersKept DEF More, MoreIf
  <2>7. RefsInv'
    BY <1>1, <1>2, <2>2, RefsKept DEF More, MoreIf, TaskKind, TimerKind
  <2> QED BY <2>4, <2>5, <2>6, <2>7 DEF CInv
<1> QED BY <1>4, <1>5

LEMMA ParseBadProtocolKeeps == ASSUME CInv, ParseBadProtocol PROVE CInv'
<1> USE DEF Read, protoVars, poolVars, refVars, dispVars, ioVars
<1>1. /\ iopc = "idle" /\ readOp # "none" /\ readOp' = "none" /\ m_pendingRead' = 0
      /\ m_closeState # "CLOSING"
      /\ CloseConnection(tasks)
      /\ UNCHANGED <<conn, m_socketClosed, m_writeError, m_pendingWrite, wire, m_protocol, proto,
                     protoConn, client, buffer, mstate, fresh, auto, toAdd, connRef, protoRef,
                     timers, accepting, dpc, next, iopc, ioMsg>>
      /\ accepting \in BOOLEAN
  BY DEF ParseBadProtocol, CanParse, CInv, Types
<1>2. QueueOK(tasks) /\ \A k : Num(tasks, k) \in Nat
  BY NumIsNat DEF CInv, OwnersInv
<1>3. /\ \A m : Releasing(tasks', m) <=> Releasing(tasks, m)
      /\ \/ /\ m_closeState = "NONE" /\ m_closeState' = "REQUESTED"
            /\ MoreIf(tasks, tasks', "close")
         \/ /\ m_closeState # "NONE" /\ m_closeState' = m_closeState
            /\ More(tasks, tasks', {})
  BY <1>1, <1>2, CloseKeeps
<1>4. Types'
  BY <1>1, <1>3 DEF CInv, Types
<1>5. LifeInv'
  <2>1. HandlersInv'
    BY <1>1, <1>2, <1>3 DEF CInv, LifeInv, HandlersInv
  <2>2. NothingYet'
    BY <1>1, <1>2, <1>3 DEF CInv, LifeInv, HandlersInv, NothingYet, More, MoreIf, TaskKind, TimerKind
  <2>3. ClosingInv'
    BY <1>1, <1>2, <1>3 DEF CInv, LifeInv, HandlersInv, NothingYet, ClosingInv, More, MoreIf, TaskKind, TimerKind
  <2>4. ReleasedOnce'
    BY <1>1, <1>2, <1>3
       DEF CInv, Types, LifeInv, ReleasedOnce, More, MoreIf, TaskKind, TimerKind
  <2> QED BY <2>1, <2>2, <2>3, <2>4 DEF LifeInv
<1>6. OwnersInv'
  BY <1>1, <1>3, OwnersKept DEF More, MoreIf
<1>7. RefsInv'
  BY <1>1, <1>2, <1>3, RefsKept DEF More, MoreIf, TaskKind, TimerKind
<1> QED BY <1>4, <1>5, <1>6, <1>7 DEF CInv

LEMMA ParseFirstKeeps ==
    ASSUME CInv, NEW kind \in Packets, ParseFirst(kind) PROVE CInv'
<1> USE DEF Read, protoVars, poolVars, refVars, dispVars, ioVars
<1>1. /\ iopc = "idle" /\ readOp = "body" /\ m_closeState # "CLOSING" /\ ~m_protocol
      /\ m_protocol' = TRUE /\ proto' = "live" /\ protoConn' = TRUE
      /\ UNCHANGED <<conn, m_socketClosed, m_writeError, m_pendingWrite, wire,
                     client, buffer, mstate, fresh, auto, toAdd, connRef, protoRef,
                     timers, accepting, dpc, next, ioMsg>>
      /\ accepting \in BOOLEAN
  BY DEF ParseFirst, CanParse, CInv, Types
<1>2. QueueOK(tasks) /\ \A k : Num(tasks, k) \in Nat
  BY NumIsNat DEF CInv, OwnersInv
<1>3. m_closeState = "NONE" /\ Num(tasks, "close") = 0 /\ conn # "deleted" /\ proto # "deleted"
  BY <1>1, <1>2 DEF CInv, LifeInv, NothingYet, ClosingInv, ReleasedOnce
<1>4. /\ \A m : Releasing(tasks', m) <=> Releasing(tasks, m)
      /\ \/ /\ iopc' = "reply" /\ More(tasks, tasks', {})
            /\ UNCHANGED <<readOp, m_pendingRead, m_closeState>>
         \/ /\ iopc' = "idle" /\ readOp' = "header" /\ m_pendingRead' = 1
            /\ m_closeState' = "REQUESTED"
            /\ MoreIf(tasks, tasks', "close")
         \/ /\ iopc' = "idle" /\ readOp' = "header" /\ m_pendingRead' = 1
            /\ m_closeState' = m_closeState
            /\ MoreIf(tasks, tasks', "login")
  <2>1. CASE iopc' = "reply" /\ UNCHANGED <<readOp, m_pendingRead, m_closeState, tasks>>
    BY <1>2, <2>1 DEF More, MoreIf
  <2>2. CASE CloseConnection(tasks) /\ Read("header") /\ UNCHANGED iopc
    <3>1. /\ \A m : Releasing(tasks', m) <=> Releasing(tasks, m)
          /\ m_closeState' = "REQUESTED"
          /\ MoreIf(tasks, tasks', "close")
      BY <1>1, <1>2, <1>3, <2>2, CloseKeeps
    <3> QED BY <1>1, <2>2, <3>1
  <2>3. CASE tasks' = Added(tasks, "login") /\ Read("header") /\ UNCHANGED <<iopc, m_closeState>>
    <3>1. /\ \A m : Releasing(tasks', m) <=> Releasing(tasks, m)
          /\ MoreIf(tasks, tasks', "login")
      BY <1>1, <1>2, <1>3, <2>3, AddedKeeps DEF TaskKind
    <3> QED BY <1>1, <2>3, <3>1
  <2> QED BY <2>1, <2>2, <2>3 DEF ParseFirst
<1>5. Types'
  BY <1>1, <1>3, <1>4 DEF CInv, Types, Location
<1>6. LifeInv'
  <2>1. HandlersInv'
    BY <1>1, <1>2, <1>3, <1>4 DEF CInv, LifeInv, HandlersInv
  <2>2. NothingYet'
    BY <1>1, <1>2, <1>3, <1>4 DEF CInv, LifeInv, HandlersInv, NothingYet, More, MoreIf, TaskKind, TimerKind
  <2>3. ClosingInv'
    BY <1>1, <1>2, <1>3, <1>4 DEF CInv, LifeInv, HandlersInv, NothingYet, ClosingInv, More, MoreIf, TaskKind, TimerKind
  <2>4. ReleasedOnce'
    BY <1>1, <1>2, <1>3, <1>4
       DEF CInv, Types, LifeInv, ReleasedOnce, More, MoreIf, TaskKind, TimerKind
  <2> QED BY <2>1, <2>2, <2>3, <2>4 DEF LifeInv
<1>7. OwnersInv'
  BY <1>1, <1>4, OwnersKept DEF More, MoreIf
<1>8. RefsInv'
  <2>1. Allocated' = Allocated
    BY <1>1 DEF Allocated
  <2>2. Num(tasks', "connect") = Num(tasks, "connect")
    BY <1>2, <1>4 DEF More, MoreIf, TaskKind, TimerKind
  <2> QED BY <1>1, <1>3, <2>1, <2>2 DEF CInv, RefsInv
<1> QED BY <1>5, <1>6, <1>7, <1>8 DEF CInv

\* getOutputBuffer: the buffer there is, or a new message in the hands of the pool's list
\* and the protocol.
LEMMA WriteKeeps ==
    ASSUME CInv, NEW refs \in Nat, WriteToBuffer(refs),
           UNCHANGED <<toAdd, wire, ioMsg, m_writeError>>,
           QueueOK(tasks'), \A m : Releasing(tasks', m) => Releasing(tasks, m)
    PROVE  /\ OwnersInv'
           /\ mstate' \in [Msgs -> {"FREE", "ALLOCATED", "ALLOCATED_NO_AUTOSEND"}]
           /\ fresh' \subseteq Msgs /\ auto' \in Seq(Msgs) /\ buffer' \in Msgs \cup {NoMsg}
           /\ connRef' \in Nat /\ protoRef' \in Nat
           /\ connRef' = Cardinality(Allocated') /\ Cardinality(Allocated') \in Nat
           /\ protoRef' - Cardinality(Allocated') = refs - Cardinality(Allocated)
           /\ ~protoConn => mstate' = mstate
<1>0. Cardinality(Allocated) \in Nat /\ connRef = Cardinality(Allocated)
  BY AllocatedCount DEF CInv, RefsInv
<1>1. CASE buffer = NoMsg /\ protoConn /\ \E m \in Msgs : /\ Configure(m, TRUE, refs)
                                                         /\ auto' = Append(auto, m)
                                                         /\ buffer' = m
  <2>1. PICK m \in Msgs : Configure(m, TRUE, refs) /\ auto' = Append(auto, m) /\ buffer' = m
    BY <1>1
  <2>2. /\ mstate[m] = "FREE" /\ mstate'[m] # "FREE"
        /\ \A n \in Msgs : n # m => mstate'[n] = mstate[n]
        /\ mstate' \in [Msgs -> {"FREE", "ALLOCATED", "ALLOCATED_NO_AUTOSEND"}]
        /\ fresh' \subseteq Msgs
        /\ connRef' = connRef + 1 /\ protoRef' = refs + 1
        /\ Cardinality(Allocated') = Cardinality(Allocated) + 1
    BY <2>1, ConfigureCounts DEF CInv
  <2>3. ~Held(m) /\ ~Leaving(m)
    BY <2>2 DEF CInv, OwnersInv
  <2>4. /\ auto' \in Seq(Msgs)
        /\ \A n : Contains(auto', n) <=> Contains(auto, n) \/ n = m
        /\ NoTwice(auto')
    BY <2>1, <2>3, AppendMsg DEF CInv, OwnersInv, Types, Held
  <2>5. \A n : Held(n)' => Held(n) \/ n = m
    BY <2>1, <2>4 DEF Held
  <2>6. \A n : Leaving(n)' => Leaving(n)
    BY DEF Leaving
  <2>7. OwnersInv'
    BY <2>2, <2>3, <2>4, <2>5, <2>6 DEF CInv, OwnersInv, Held
  <2> QED BY <1>0, <1>1, <2>1, <2>2, <2>4, <2>7
<1>2. CASE /\ buffer # NoMsg \/ ~protoConn
           /\ protoRef' = refs
           /\ UNCHANGED <<buffer, mstate, fresh, auto, connRef>>
  <2>1. Allocated' = Allocated
    BY <1>2 DEF Allocated
  <2>2. OwnersInv'
    BY <1>2, OwnersKept
  <2> QED BY <1>0, <1>2, <2>1, <2>2 DEF CInv, Types
<1> QED BY <1>1, <1>2 DEF WriteToBuffer

\* A message taken from the pool and sent at once.
LEMMA FreshSent ==
    ASSUME CInv, NEW refs \in Nat, NEW m \in Msgs, Configure(m, FALSE, refs), Send(m),
           UNCHANGED <<auto, ioMsg, m_writeError>>,
           QueueOK(tasks'),
           \A n : Releasing(tasks', n) => Releasing(tasks, n) \/ (n = m /\ Refuses)
    PROVE  /\ OwnersInv'
           /\ mstate' \in [Msgs -> {"FREE", "ALLOCATED", "ALLOCATED_NO_AUTOSEND"}]
           /\ fresh' \subseteq Msgs /\ toAdd' \in Seq(Msgs) /\ buffer' \in Msgs \cup {NoMsg}
           /\ wire' \subseteq Msgs /\ m_pendingWrite' = Cardinality(wire')
           /\ m_closeState = "CLOSING" => wire' = wire
           /\ connRef' \in Nat /\ protoRef' \in Nat
           /\ connRef' = Cardinality(Allocated') /\ Cardinality(Allocated') \in Nat
           /\ protoRef' - Cardinality(Allocated') = refs - Cardinality(Allocated)
<1>0. Cardinality(Allocated) \in Nat /\ connRef = Cardinality(Allocated)
  BY AllocatedCount DEF CInv, RefsInv
<1>1. /\ mstate[m] = "FREE" /\ mstate'[m] # "FREE"
      /\ \A n \in Msgs : n # m => mstate'[n] = mstate[n]
      /\ mstate' \in [Msgs -> {"FREE", "ALLOCATED", "ALLOCATED_NO_AUTOSEND"}]
      /\ fresh' \subseteq Msgs
      /\ connRef' = connRef + 1 /\ protoRef' = refs + 1
      /\ Cardinality(Allocated') = Cardinality(Allocated) + 1
  BY ConfigureCounts DEF CInv
<1>2. ~Held(m) /\ ~Leaving(m) /\ m # NoMsg
  BY <1>1, ConstantsAssumption DEF CInv, OwnersInv, ConstantsAssumption
<1>3. buffer # m /\ ~Contains(auto, m) /\ ~Contains(toAdd, m) /\ m \notin wire /\ m # ioMsg
      /\ ~Releasing(tasks, m)
  BY <1>2 DEF Held, Leaving
<1>4. OnSendMessage(m) = buffer
  BY <1>3 DEF OnSendMessage
<1>8. /\ connRef' \in Nat /\ protoRef' \in Nat
      /\ connRef' = Cardinality(Allocated') /\ Cardinality(Allocated') \in Nat
      /\ protoRef' - Cardinality(Allocated') = refs - Cardinality(Allocated)
  BY <1>0, <1>1
<1>5. CASE Refuses
  <2>1. UNCHANGED <<buffer, wire, m_pendingWrite, toAdd>>
    BY <1>4, <1>5 DEF Send
  <2>2. \A n : Held(n)' <=> Held(n)
    BY <2>1 DEF Held
  <2>3. \A n : Leaving(n)' => Leaving(n) \/ n = m
    BY <2>1 DEF Leaving
  <2>4. OwnersInv'
    BY <1>1, <1>2, <1>3, <2>1, <2>2, <2>3 DEF CInv, OwnersInv
  <2> QED BY <1>1, <1>8, <2>1, <2>4 DEF CInv, Types
<1>6. CASE ~Refuses /\ SendsNow
  <2>1. UNCHANGED <<buffer, toAdd>> /\ wire' = wire \cup {m} /\ m_pendingWrite' = m_pendingWrite + 1
    BY <1>4, <1>6 DEF Send
  <2>2. wire = {} /\ wire' = {m} /\ m_pendingWrite' = Cardinality(wire')
    BY <1>3, <1>6, <2>1, ConstantsAssumption, WireCount DEF SendsNow, CInv, Types
  <2>3. m_closeState # "CLOSING" /\ ~m_writeError
    BY <1>6 DEF Refuses
  <2>4. \A n : Held(n)' <=> Held(n)
    BY <2>1 DEF Held
  <2>5. \A n : Leaving(n)' => Leaving(n) \/ n = m
    BY <1>6, <2>1 DEF Leaving
  <2>6. \A n \in Msgs : Releasing(tasks', n) => n # m
    BY <1>3, <1>6
  <2>7. OwnersInv'
    BY <1>1, <1>2, <1>3, <1>6, <2>1, <2>2, <2>3, <2>4, <2>5, <2>6 DEF CInv, OwnersInv
  <2> QED BY <1>1, <1>8, <2>1, <2>2, <2>3, <2>7 DEF CInv, Types
<1>7. CASE ~Refuses /\ ~SendsNow
  <2>1. toAdd' = Append(toAdd, m) /\ UNCHANGED <<buffer, wire, m_pendingWrite>>
    BY <1>7 DEF Send
  <2>2. /\ toAdd' \in Seq(Msgs) /\ NoTwice(toAdd')
        /\ \A n : Contains(toAdd', n) <=> Contains(toAdd, n) \/ n = m
    BY <1>3, <2>1, AppendMsg DEF CInv, Types, OwnersInv
  <2>3. \A n : Held(n)' <=> Held(n) \/ n = m
    BY <2>1, <2>2 DEF Held
  <2>4. \A n : Leaving(n)' => Leaving(n)
    BY <1>7, <2>1 DEF Leaving
  <2>5. OwnersInv'
    BY <1>1, <1>2, <1>3, <1>7, <2>1, <2>2, <2>3, <2>4 DEF CInv, OwnersInv
  <2> QED BY <1>1, <1>8, <2>1, <2>2, <2>5 DEF CInv, Types
<1> QED BY <1>5, <1>6, <1>7

LEMMA ReplyKeeps == ASSUME CInv, Reply PROVE CInv' /\ toAdd' = toAdd
<1> USE DEF protoVars, dispVars
<1>1. PICK m \in Msgs : /\ Configure(m, FALSE, protoRef)
                        /\ Send(m)
                        /\ CloseConnection(AfterSend(tasks, m))
  BY DEF Reply
<1>2. /\ iopc = "reply" /\ iopc' = "idle" /\ readOp' = "header" /\ m_pendingRead' = 1
      /\ UNCHANGED <<conn, m_socketClosed, m_writeError, m_protocol, proto, protoConn, client,
                     auto, timers, accepting, dpc, next, ioMsg>>
      /\ accepting \in BOOLEAN /\ protoRef \in Nat
  BY DEF Reply, Read, CInv, Types
<1>3. QueueOK(tasks) /\ \A k : Num(tasks, k) \in Nat
  BY NumIsNat DEF CInv, OwnersInv
<1>4. /\ \A n \in Msgs : mstate[n] = "FREE"
      /\ m_closeState # "CLOSING" /\ m_protocol /\ readOp = "body"
  BY <1>2 DEF CInv, LifeInv, NothingYet, HandlersInv
<1>5. ~Releasing(tasks, m) /\ \A n \in Msgs : n \notin wire
  BY <1>4 DEF CInv, OwnersInv, Leaving
<1>6. /\ More(tasks, AfterSend(tasks, m), {})
      /\ \A n : Releasing(AfterSend(tasks, m), n) => Releasing(tasks, n) \/ (n = m /\ Refuses)
  BY <1>3, <1>5, AfterSendKeeps
<1>7. /\ \A n : Releasing(tasks', n) <=> Releasing(AfterSend(tasks, m), n)
      /\ \/ /\ m_closeState = "NONE" /\ m_closeState' = "REQUESTED"
            /\ MoreIf(AfterSend(tasks, m), tasks', "close")
         \/ /\ m_closeState # "NONE" /\ m_closeState' = m_closeState
            /\ More(AfterSend(tasks, m), tasks', {})
  BY <1>1, <1>2, <1>6, CloseKeeps DEF More
<1>8. \A k : Num(AfterSend(tasks, m), k) \in Nat
  BY <1>6, NumIsNat DEF More
<1>9. \/ /\ m_closeState = "NONE" /\ m_closeState' = "REQUESTED"
         /\ MoreIf(tasks, tasks', "close")
      \/ /\ m_closeState # "NONE" /\ m_closeState' = m_closeState
         /\ More(tasks, tasks', {})
  BY <1>3, <1>6, <1>7, <1>8 DEF More, MoreIf
<1>10. /\ OwnersInv'
       /\ mstate' \in [Msgs -> {"FREE", "ALLOCATED", "ALLOCATED_NO_AUTOSEND"}]
       /\ fresh' \subseteq Msgs /\ toAdd' \in Seq(Msgs) /\ buffer' \in Msgs \cup {NoMsg}
       /\ wire' \subseteq Msgs /\ m_pendingWrite' = Cardinality(wire')
       /\ connRef' \in Nat /\ protoRef' \in Nat
       /\ connRef' = Cardinality(Allocated') /\ Cardinality(Allocated') \in Nat
       /\ protoRef' - Cardinality(Allocated') = protoRef - Cardinality(Allocated)
  BY <1>1, <1>2, <1>6, <1>7, <1>9, FreshSent DEF More, MoreIf
<1>11. toAdd' = toAdd
  <2>1. wire = {}
    BY <1>5 DEF CInv, Types
  <2>2. SendsNow
    BY <2>1, ConstantsAssumption, WireCount DEF SendsNow, CInv, Types
  <2> QED BY <1>1, <2>2 DEF Send
<1>12. Types'
  BY <1>2, <1>4, <1>7, <1>10 DEF CInv, Types, Location
<1>13. LifeInv'
  <2>1. HandlersInv'
    BY <1>2, <1>4 DEF CInv, LifeInv, HandlersInv
  <2>2. NothingYet'
    BY <1>2, <1>4 DEF CInv, LifeInv, NothingYet
  <2>3. ClosingInv'
    BY <1>2, <1>3, <1>4, <1>9 DEF CInv, LifeInv, ClosingInv, More, MoreIf, TaskKind, TimerKind
  <2>4. ReleasedOnce'
    BY <1>2, <1>3, <1>4, <1>9
       DEF CInv, Types, LifeInv, ReleasedOnce, More, MoreIf, TaskKind, TimerKind
  <2> QED BY <2>1, <2>2, <2>3, <2>4 DEF LifeInv
<1>14. RefsInv'
  <2>1. Num(tasks', "connect") = Num(tasks, "connect")
    BY <1>3, <1>9 DEF More, MoreIf, TaskKind, TimerKind
  <2>2. conn # "deleted" /\ proto # "deleted"
    BY <1>4 DEF CInv, LifeInv, ReleasedOnce
  <2>3. Cardinality(Allocated) \in Nat /\ timers["connect"] \in Nat
    BY AllocatedCount DEF CInv, Types, TimerKind
  <2>4. /\ protoRef >= Cardinality(Allocated) + Num(tasks', "connect") + timers'["connect"]
        /\ accepting' =>
              protoRef = Cardinality(Allocated) + Num(tasks', "connect") + timers'["connect"]
    BY <1>2, <1>3, <1>10, <2>1 DEF CInv, RefsInv
  <2>5. Num(tasks', "connect") \in Nat /\ timers'["connect"] \in Nat
    BY <1>2, <1>3, <1>10, <2>1, <2>3
  <2> QED BY <1>2, <1>3, <1>10, <2>2, <2>4, <2>5, RefsFollow
<1> QED BY <1>10, <1>11, <1>12, <1>13, <1>14 DEF CInv

LEMMA ParseUnknownKeeps == ASSUME CInv, ParseUnknown PROVE CInv'
<1> USE DEF sockVars, protoVars, poolVars, refVars, dispVars
<1>1. /\ iopc = "idle" /\ readOp = "body" /\ m_closeState # "CLOSING" /\ m_protocol
      /\ iopc' = "kick"
      /\ UNCHANGED <<conn, m_closeState, m_socketClosed, m_writeError, m_pendingRead,
                     m_pendingWrite, readOp, wire, m_protocol, proto, protoConn, client, buffer,
                     mstate, fresh, auto, toAdd, connRef, protoRef, tasks, timers, accepting,
                     dpc, next, ioMsg>>
  BY DEF ParseUnknown, CanParse
<1>2. Types'
  BY <1>1 DEF CInv, Types, Location
<1>3. LifeInv'
  BY <1>1 DEF CInv, LifeInv, HandlersInv, NothingYet, ClosingInv, ReleasedOnce
<1>4. OwnersInv'
  BY <1>1, OwnersKept DEF CInv, OwnersInv
<1>5. RefsInv'
  BY <1>1, RefsKept
<1> QED BY <1>2, <1>3, <1>4, <1>5 DEF CInv

LEMMA KickKeeps == ASSUME CInv, Kick PROVE CInv'
<1> USE DEF protoVars, dispVars
<1>1. /\ iopc = "kick" /\ iopc' = "idle" /\ readOp' = "header" /\ m_pendingRead' = 1
      /\ WriteToBuffer(protoRef) /\ CloseConnection(tasks)
      /\ UNCHANGED <<conn, m_socketClosed, m_writeError, m_pendingWrite, wire, m_protocol, proto,
                     protoConn, client, toAdd, timers, accepting, dpc, next, ioMsg>>
      /\ accepting \in BOOLEAN /\ protoRef \in Nat
  BY DEF Kick, Read, CInv, Types
<1>2. QueueOK(tasks) /\ \A k : Num(tasks, k) \in Nat
  BY NumIsNat DEF CInv, OwnersInv
<1>3. m_closeState # "CLOSING" /\ m_protocol /\ readOp = "body"
  BY <1>1 DEF CInv, LifeInv, HandlersInv
<1>4. /\ \A m : Releasing(tasks', m) <=> Releasing(tasks, m)
      /\ \/ /\ m_closeState = "NONE" /\ m_closeState' = "REQUESTED"
            /\ MoreIf(tasks, tasks', "close")
         \/ /\ m_closeState # "NONE" /\ m_closeState' = m_closeState
            /\ More(tasks, tasks', {})
  BY <1>1, <1>2, CloseKeeps
<1>5. /\ OwnersInv'
      /\ mstate' \in [Msgs -> {"FREE", "ALLOCATED", "ALLOCATED_NO_AUTOSEND"}]
      /\ fresh' \subseteq Msgs /\ auto' \in Seq(Msgs) /\ buffer' \in Msgs \cup {NoMsg}
      /\ connRef' \in Nat /\ protoRef' \in Nat
      /\ connRef' = Cardinality(Allocated') /\ Cardinality(Allocated') \in Nat
      /\ protoRef' - Cardinality(Allocated') = protoRef - Cardinality(Allocated)
  BY <1>1, <1>4, WriteKeeps DEF More, MoreIf
<1>6. Types'
  BY <1>1, <1>3, <1>4, <1>5 DEF CInv, Types, Location
<1>7. LifeInv'
  <2>1. HandlersInv'
    BY <1>1, <1>3, <1>4 DEF CInv, LifeInv, HandlersInv
  <2>2. NothingYet'
    BY <1>1, <1>3, <1>4 DEF CInv, LifeInv, NothingYet
  <2>3. ClosingInv'
    BY <1>1, <1>2, <1>3, <1>4 DEF CInv, LifeInv, ClosingInv, More, MoreIf, TaskKind, TimerKind
  <2>4. ReleasedOnce'
    BY <1>1, <1>2, <1>3, <1>4
       DEF CInv, Types, LifeInv, ReleasedOnce, More, MoreIf, TaskKind, TimerKind
  <2> QED BY <2>1, <2>2, <2>3, <2>4 DEF LifeInv
<1>8. RefsInv'
  <2>1. Num(tasks', "connect") = Num(tasks, "connect")
    BY <1>2, <1>4 DEF More, MoreIf, TaskKind, TimerKind
  <2>2. conn # "deleted" /\ proto # "deleted"
    BY <1>3 DEF CInv, LifeInv, ReleasedOnce
  <2>3. Cardinality(Allocated) \in Nat /\ timers["connect"] \in Nat
    BY AllocatedCount DEF CInv, Types, TimerKind
  <2>4. /\ protoRef >= Cardinality(Allocated) + Num(tasks', "connect") + timers'["connect"]
        /\ accepting' =>
              protoRef = Cardinality(Allocated) + Num(tasks', "connect") + timers'["connect"]
    BY <1>1, <1>2, <1>5, <2>1 DEF CInv, RefsInv
  <2>5. Num(tasks', "connect") \in Nat /\ timers'["connect"] \in Nat
    BY <1>1, <1>2, <1>5, <2>1, <2>3
  <2> QED BY <1>1, <1>2, <1>5, <2>2, <2>4, <2>5, RefsFollow
<1> QED BY <1>5, <1>6, <1>7, <1>8 DEF CInv

LEMMA OnWriteOperationKeeps ==
    ASSUME CInv, NEW m \in Msgs, NEW error \in BOOLEAN, OnWriteOperation(m, error)
    PROVE  CInv'
<1> USE DEF protoVars, poolVars, refVars, dispVars
<1>1. /\ iopc = "idle" /\ m \in wire /\ wire' = wire \ {m} /\ m_pendingWrite' = m_pendingWrite - 1
      /\ m_writeError' = (m_writeError \/ error) /\ iopc' = "returning" /\ ioMsg' = m
      /\ UNCHANGED <<conn, m_pendingRead, readOp, m_protocol, proto, protoConn, client, buffer,
                     mstate, fresh, auto, toAdd, connRef, protoRef, timers, accepting, dpc, next>>
      /\ accepting \in BOOLEAN /\ m_socketClosed \in BOOLEAN
  BY DEF OnWriteOperation, CInv, Types
<1>2. QueueOK(tasks) /\ \A k : Num(tasks, k) \in Nat
  BY NumIsNat DEF CInv, OwnersInv
<1>3. Num(tasks, "releaseConnection") + timers["releaseConnection"] = 0 /\ conn # "deleted"
  BY <1>1, <1>2 DEF CInv, LifeInv, ReleasedOnce, Types, TimerKind
<1>4. wire' = {} /\ m_pendingWrite' = Cardinality(wire') /\ m_pendingWrite' = 0
  <2>1. wire' = {}
    BY <1>1 DEF CInv, OwnersInv
  <2>2. Cardinality(wire \ {m}) = Cardinality(wire) - 1
    BY <1>1, ConstantsAssumption, WireCount DEF CInv, Types
  <2> QED BY <1>1, <2>1, <2>2, FS_EmptySet DEF CInv, Types
<1>5. m # NoMsg /\ m_writeError' \in BOOLEAN
  BY <1>1, ConstantsAssumption DEF ConstantsAssumption, CInv, Types
<1>6. /\ \A n : Releasing(tasks', n) <=> Releasing(tasks, n)
      /\ m_socketClosed' \in BOOLEAN
      /\ \/ /\ m_closeState = "CLOSING" /\ m_closeState' = "CLOSING" /\ readOp = "none"
            /\ MoreIf(tasks, tasks', "releaseConnection")
         \/ /\ m_closeState = "NONE" /\ m_closeState' = "REQUESTED"
            /\ MoreIf(tasks, tasks', "close")
         \/ /\ m_closeState' = m_closeState
            /\ More(tasks, tasks', {})
  <2>1. CASE /\ m_closeState = "CLOSING"
             /\ ClosingConnection(m_pendingRead, m_pendingWrite', m_writeError', tasks)
             /\ UNCHANGED m_closeState
    <3>1. Releases(m_pendingRead, m_pendingWrite', m_writeError') => readOp = "none"
      BY DEF Releases, CInv, Types
    <3>2. /\ \A n : Releasing(tasks', n) <=> Releasing(tasks, n)
          /\ \/ /\ Releases(m_pendingRead, m_pendingWrite', m_writeError')
                /\ MoreIf(tasks, tasks', "releaseConnection")
             \/ /\ ~Releases(m_pendingRead, m_pendingWrite', m_writeError')
                /\ More(tasks, tasks', {})
          /\ m_socketClosed' \in BOOLEAN
      BY <1>1, <1>2, <1>5, <2>1, ClosingKeeps
    <3> QED BY <2>1, <3>1, <3>2
  <2>2. CASE m_closeState # "CLOSING" /\ CloseConnection(tasks) /\ UNCHANGED m_socketClosed
    BY <1>1, <1>2, <2>2, CloseKeeps
  <2>3. CASE UNCHANGED <<m_closeState, tasks, m_socketClosed>>
    BY <1>1, <1>2, <2>3 DEF More
  <2> QED BY <2>1, <2>2, <2>3 DEF OnWriteOperation
<1>7. Types'
  BY <1>1, <1>4, <1>5, <1>6 DEF CInv, Types, Location
<1>8. LifeInv'
  <2>1. HandlersInv'
    BY <1>1, <1>5 DEF CInv, LifeInv, HandlersInv
  <2>2. NothingYet'
    <3>1. mstate[m] # "FREE"
      BY <1>1 DEF CInv, OwnersInv, Leaving
    <3>2. m_protocol \/ m_closeState = "CLOSING"
      BY <3>1 DEF CInv, LifeInv, NothingYet
    <3> QED BY <1>1, <1>6, <3>2 DEF CInv, LifeInv, NothingYet
  <2>3. ClosingInv'
    BY <1>1, <1>2, <1>6 DEF CInv, LifeInv, ClosingInv, More, MoreIf, TaskKind, TimerKind
  <2>4. ReleasedOnce'
    BY <1>1, <1>2, <1>3, <1>4, <1>6
       DEF CInv, Types, LifeInv, ReleasedOnce, More, MoreIf, TaskKind, TimerKind
  <2> QED BY <2>1, <2>2, <2>3, <2>4 DEF LifeInv
<1>9. OwnersInv'
  <2>1. \A n : Held(n)' <=> Held(n)
    BY <1>1 DEF Held
  <2>2. ~Held(m) /\ ~Releasing(tasks, m) /\ mstate[m] # "FREE"
    BY <1>1 DEF CInv, OwnersInv, Leaving
  <2>3. \A n : Leaving(n)' => Leaving(n)
    BY <1>1, <1>6 DEF Leaving
  <2>4. QueueOK(tasks')
    BY <1>6 DEF More, MoreIf
  <2> QED BY <1>1, <1>4, <1>6, <2>1, <2>2, <2>3, <2>4 DEF CInv, OwnersInv
<1>10. RefsInv'
  <2>1. Num(tasks', "connect") = Num(tasks, "connect")
    BY <1>2, <1>6 DEF More, MoreIf, TaskKind, TimerKind
  <2> QED BY <1>1, <2>1, RefsKept
<1> QED BY <1>7, <1>8, <1>9, <1>10 DEF CInv

LEMMA HandlerReturnsKeeps == ASSUME CInv, HandlerReturns PROVE CInv'
<1> USE DEF sockVars, protoVars, poolVars, refVars, dispVars
<1>1. /\ iopc = "returning" /\ iopc' = "idle" /\ ioMsg' = NoMsg
      /\ tasks' = IF Held(ioMsg) THEN tasks ELSE Released(tasks, ioMsg)
      /\ UNCHANGED <<conn, m_closeState, m_socketClosed, m_writeError, m_pendingRead,
                     m_pendingWrite, readOp, wire, m_protocol, proto, protoConn, client, buffer,
                     mstate, fresh, auto, toAdd, connRef, protoRef, timers, accepting, dpc, next>>
  BY DEF HandlerReturns
<1>2. QueueOK(tasks) /\ \A k : Num(tasks, k) \in Nat
  BY NumIsNat DEF CInv, OwnersInv
<1>3. ioMsg \in Msgs /\ ~Held(ioMsg) /\ ~Releasing(tasks, ioMsg) /\ mstate[ioMsg] # "FREE"
      /\ ioMsg \notin wire
  BY <1>1 DEF CInv, OwnersInv, Leaving, LifeInv, HandlersInv, Types
<1>4. /\ More(tasks, tasks', {})
      /\ \A n : Releasing(tasks', n) => Releasing(tasks, n) \/ n = ioMsg
  BY <1>1, <1>2, <1>3, ReleasedKeeps
<1>5. Types'
  BY <1>1 DEF CInv, Types, Location
<1>6. LifeInv'
  <2>1. HandlersInv'
    BY <1>1 DEF CInv, LifeInv, HandlersInv
  <2>2. /\ Num(tasks', "login") = Num(tasks, "login")
        /\ Num(tasks', "connect") = Num(tasks, "connect")
        /\ Num(tasks', "close") = Num(tasks, "close")
        /\ Num(tasks', "releaseConnection") = Num(tasks, "releaseConnection")
        /\ Num(tasks', "releaseProtocol") = Num(tasks, "releaseProtocol")
    BY <1>2, <1>4 DEF More, TaskKind, TimerKind
  <2>3. NothingYet'
    BY <1>1, <2>2 DEF CInv, LifeInv, NothingYet
  <2>4. ClosingInv'
    BY <1>1, <2>2 DEF CInv, LifeInv, ClosingInv
  <2>5. ReleasedOnce'
    BY <1>1, <2>2 DEF CInv, LifeInv, ReleasedOnce
  <2> QED BY <2>1, <2>3, <2>4, <2>5 DEF LifeInv
<1>7. OwnersInv'
  <2>1. \A n : Held(n)' <=> Held(n)
    BY <1>1 DEF Held
  <2>2. \A n \in Msgs : Leaving(n)' => Leaving(n)
    BY <1>1, <1>4, ConstantsAssumption DEF Leaving, ConstantsAssumption
  <2>3. \A n \in Msgs : n # NoMsg
    BY ConstantsAssumption DEF ConstantsAssumption
  <2>4. NoMsg \notin wire'
    BY <1>1, <2>3 DEF CInv, Types
  <2> QED BY <1>1, <1>3, <1>4, <2>1, <2>2, <2>3, <2>4 DEF CInv, OwnersInv, More
<1>8. RefsInv'
  BY <1>1, <1>2, <1>4, RefsKept DEF More, TaskKind, TimerKind
<1> QED BY <1>5, <1>6, <1>7, <1>8 DEF CInv

-----------------------------------------------------------------------------
(* The dispatcher's steps keep the invariant.                              *)

LEMMA CloseConnectionTaskKeeps == ASSUME CInv, CloseConnectionTask PROVE CInv'
<1> USE DEF protoVars, poolVars, refVars
<1> DEFINE q == Tail(tasks)
           q2 == IF m_protocol THEN Added(q, "releaseProtocol") ELSE q
<1>1. /\ RunTask("close") /\ ~ConnLocked
      /\ m_closeState = "REQUESTED" /\ m_closeState' = "CLOSING"
      /\ protoConn' = (protoConn /\ ~m_protocol) /\ m_protocol' = FALSE
      /\ ClosingConnection(m_pendingRead, m_pendingWrite, m_writeError, q2)
      /\ UNCHANGED <<conn, m_writeError, m_pendingRead, m_pendingWrite, readOp, wire, proto,
                     client, buffer, mstate, fresh, auto, toAdd, connRef, protoRef, timers>>
      /\ accepting \in BOOLEAN /\ m_socketClosed \in BOOLEAN /\ m_writeError \in BOOLEAN
  BY DEF CloseConnectionTask, CInv, Types
<1>2. QueueOK(tasks)
  BY DEF CInv, OwnersInv
<1>3. /\ QueueOK(q) /\ dpc' = "taskDone" /\ UNCHANGED <<next, iopc, ioMsg, accepting>>
      /\ \A k \in TaskKind :
            Num(tasks, k) = Num(q, k) + (IF k = "close" THEN 1 ELSE 0)
      /\ \A k \in TaskKind : Num(tasks, k) \in Nat /\ Num(q, k) \in Nat
      /\ \A m : Releasing(q, m) => Releasing(tasks, m)
      /\ Num(q, "login") = 0
  BY <1>1, <1>2, RunKeeps DEF TaskKind
<1> HIDE DEF q
<1>4. /\ \/ m_protocol /\ MoreIf(q, q2, "releaseProtocol")
         \/ ~m_protocol /\ More(q, q2, {})
      /\ \A m : Releasing(q2, m) <=> Releasing(q, m)
  <2>1. CASE m_protocol
    BY <1>1, <1>3, <2>1, AddedKeeps DEF TaskKind, TimerKind
  <2>2. CASE ~m_protocol
    BY <1>3, <2>2 DEF More
  <2> QED BY <2>1, <2>2
<1> HIDE DEF q2
<1>5. QueueOK(q2) /\ \A k : Num(q2, k) \in Nat
  BY <1>4, NumIsNat DEF More, MoreIf
<1>6. /\ \A m : Releasing(tasks', m) <=> Releasing(q2, m)
      /\ \/ /\ Releases(m_pendingRead, m_pendingWrite, m_writeError)
            /\ MoreIf(q2, tasks', "releaseConnection")
         \/ /\ ~Releases(m_pendingRead, m_pendingWrite, m_writeError)
            /\ More(q2, tasks', {})
      /\ m_socketClosed' \in BOOLEAN
  BY <1>1, <1>5, ClosingKeeps
<1>7. Releases(m_pendingRead, m_pendingWrite, m_writeError) => wire = {} /\ readOp = "none"
  BY ConstantsAssumption, WireCount DEF Releases, CInv, OwnersInv, Types
<1>8. /\ Num(tasks', "login") = 0 /\ Num(tasks', "close") = 0
      /\ Num(tasks', "connect") = Num(tasks, "connect")
      /\ \/ /\ wire = {} /\ readOp = "none"
            /\ Num(tasks', "releaseConnection") = Num(tasks, "releaseConnection") + 1
         \/ Num(tasks', "releaseConnection") = Num(tasks, "releaseConnection")
      /\ \/ Num(tasks', "releaseProtocol") = Num(tasks, "releaseProtocol") + 1
         \/ Num(tasks', "releaseProtocol") = Num(tasks, "releaseProtocol")
      /\ QueueOK(tasks')
  <2>1. Num(q, "close") = 0
    BY <1>3 DEF CInv, LifeInv, ClosingInv, TaskKind
  <2>2. /\ Num(q2, "login") = 0 /\ Num(q2, "close") = 0
        /\ Num(q2, "connect") = Num(tasks, "connect")
        /\ Num(q2, "releaseConnection") = Num(tasks, "releaseConnection")
        /\ \/ Num(q2, "releaseProtocol") = Num(tasks, "releaseProtocol") + 1
           \/ Num(q2, "releaseProtocol") = Num(tasks, "releaseProtocol")
    BY <1>3, <1>4, <2>1, SMTT(30) DEF More, MoreIf, TaskKind, TimerKind
  <2> QED BY <1>3, <1>5, <1>6, <1>7, <2>2 DEF More, MoreIf, TaskKind, TimerKind
<1>9. Types'
  BY <1>1, <1>3, <1>6, ZenonT(30) DEF CInv, Types
<1>10. LifeInv'
  <2>1. protoConn' = FALSE /\ iopc \notin {"reply", "kick"}
    BY <1>1 DEF CInv, LifeInv, HandlersInv, ConnLocked
  <2>2. HandlersInv'
    BY <1>1, <1>3, <2>1 DEF CInv, LifeInv, HandlersInv
  <2>3. NothingYet'
    BY <1>1, <1>3, <2>1 DEF CInv, LifeInv, NothingYet
  <2>4. ClosingInv'
    BY <1>1, <1>8 DEF ClosingInv
  <2>5. /\ Num(tasks, "releaseConnection") = 0 /\ timers["releaseConnection"] = 0
        /\ Num(tasks, "releaseProtocol") = 0 /\ timers["releaseProtocol"] = 0
        /\ conn # "deleted" /\ proto # "deleted"
    BY <1>1, NotReleasedYet
  <2>6. ReleasedOnce'
    BY <1>1, <1>8, <2>5 DEF ReleasedOnce
  <2> QED BY <2>2, <2>3, <2>4, <2>6 DEF LifeInv
<1>11. OwnersInv'
  BY <1>1, <1>3, <1>4, <1>6, <1>8, OwnersKept
<1>12. RefsInv'
  BY <1>1, <1>3, <1>8, RefsKept
<1> QED BY <1>9, <1>10, <1>11, <1>12 DEF CInv

\* Nothing but tasks taken out of the queue, and messages and players where they can be.
LEMMA LifeKept ==
    ASSUME CInv,
           UNCHANGED <<conn, m_closeState, readOp, m_protocol, proto, protoConn, timers,
                       iopc, ioMsg>>,
           next' >= 1, m_closeState = "CLOSING" => wire' = wire,
           \A k \in TaskKind \ {"releaseMessage"} : Num(tasks', k) \in Nat /\ Num(tasks', k) <= Num(tasks, k),
           \/ iopc # "reply" /\ (m_protocol \/ m_closeState = "CLOSING")
           \/ (client' => client) /\ \A m \in Msgs : mstate[m] = "FREE" => mstate'[m] = "FREE"
    PROVE  LifeInv'
<1>1. QueueOK(tasks) /\ \A k : Num(tasks, k) \in Nat
  BY NumIsNat DEF CInv, OwnersInv
<1>2. \A k \in TimerKind : timers[k] \in Nat
  BY DEF CInv, Types
<1>3. HandlersInv'
  BY DEF CInv, LifeInv, HandlersInv
<1>4. NothingYet'
  <2>1. Num(tasks, "login") = 0 => Num(tasks', "login") = 0
    BY <1>1 DEF TaskKind
  <2>2. Num(tasks, "connect") + timers["connect"] = 0 =>
           Num(tasks', "connect") + timers'["connect"] = 0
    BY <1>1, <1>2 DEF TaskKind, TimerKind
  <2> QED BY <2>1, <2>2 DEF CInv, LifeInv, NothingYet
<1>5. ClosingInv'
  BY <1>1 DEF CInv, LifeInv, ClosingInv, TaskKind
<1>6. ReleasedOnce'
  <2>1. /\ Num(tasks', "releaseConnection") \in Nat
        /\ Num(tasks', "releaseConnection") <= Num(tasks, "releaseConnection")
        /\ Num(tasks', "releaseProtocol") \in Nat
        /\ Num(tasks', "releaseProtocol") <= Num(tasks, "releaseProtocol")
        /\ timers["releaseConnection"] \in Nat /\ timers["releaseProtocol"] \in Nat
    BY <1>2 DEF TaskKind, TimerKind
  <2> QED BY <1>1, <2>1 DEF CInv, LifeInv, ReleasedOnce
<1> QED BY <1>3, <1>4, <1>5, <1>6 DEF LifeInv

LEMMA ReleaseConnectionKeeps == ASSUME CInv, ReleaseConnection PROVE CInv'
<1> USE DEF sockVars, protoVars, poolVars, refVars
<1>1. /\ RunTask("releaseConnection") /\ tasks' = Tail(tasks)
      /\ UNCHANGED <<m_closeState, m_socketClosed, m_writeError, m_pendingRead,
                     m_pendingWrite, readOp, wire, m_protocol, proto, protoConn, client, buffer,
                     mstate, fresh, auto, toAdd, connRef, protoRef>>
  BY DEF ReleaseConnection
<1>2. QueueOK(tasks)
  BY DEF CInv, OwnersInv
<1>3. /\ QueueOK(tasks') /\ dpc' = "taskDone" /\ UNCHANGED <<next, iopc, ioMsg, accepting>>
      /\ \A k \in TaskKind :
            Num(tasks, k) = Num(tasks', k) + (IF k = "releaseConnection" THEN 1 ELSE 0)
      /\ \A k \in TaskKind : Num(tasks, k) \in Nat /\ Num(tasks', k) \in Nat
      /\ \A m : Releasing(tasks', m) => Releasing(tasks, m)
  BY <1>1, <1>2, RunKeeps DEF TaskKind, TimerKind
<1>4. /\ Num(tasks', "releaseConnection") = 0 /\ timers["releaseConnection"] = 0
      /\ conn # "deleted" /\ m_closeState = "CLOSING" /\ wire = {} /\ readOp = "none"
  <2>1. /\ Num(tasks, "releaseConnection") = Num(tasks', "releaseConnection") + 1
        /\ Num(tasks', "releaseConnection") \in Nat /\ timers["releaseConnection"] \in Nat
    BY <1>3 DEF CInv, Types, TaskKind, TimerKind
  <2> QED BY <2>1 DEF CInv, LifeInv, ReleasedOnce
<1>5. /\ timers' \in [TimerKind -> Nat]
      /\ \A k \in TimerKind \ {"releaseConnection"} : timers'[k] = timers[k]
      /\ \/ conn' = conn /\ timers'["releaseConnection"] \in {0, 1}
         \/ conn' = "deleted" /\ connRef = 0 /\ timers'["releaseConnection"] = 0
  <2>1. CASE AddEvent("releaseConnection") /\ UNCHANGED conn
    BY <1>4, <2>1 DEF AddEvent, CInv, Types, TimerKind
  <2>2. CASE ConnUnused /\ conn' = "deleted" /\ UNCHANGED timers
    BY <1>4, <2>2 DEF ConnUnused, CInv, Types
  <2> QED BY <2>1, <2>2 DEF ReleaseConnection
<1>6. Types'
  BY <1>1, <1>3, <1>5 DEF CInv, Types
<1>7. LifeInv'
  <2>1. HandlersInv'
    BY <1>1, <1>3 DEF CInv, LifeInv, HandlersInv
  <2>2. NothingYet'
    BY <1>1, <1>3, <1>4, <1>5 DEF CInv, LifeInv, NothingYet, HandlersInv
  <2>3. ClosingInv'
    BY <1>1, <1>3 DEF CInv, LifeInv, ClosingInv, TaskKind, TimerKind
  <2>4. ReleasedOnce'
    BY <1>1, <1>3, <1>4, <1>5, SMTT(30) DEF CInv, LifeInv, ReleasedOnce, TaskKind, TimerKind
  <2> QED BY <2>1, <2>2, <2>3, <2>4 DEF LifeInv
<1>8. OwnersInv'
  BY <1>1, <1>3, OwnersKept
<1>9. RefsInv'
  <2>1. Allocated' = Allocated
    BY <1>1 DEF Allocated
  <2>2. connRef = 0 => \A m \in Msgs : mstate[m] = "FREE"
    BY AllocatedCount DEF CInv, RefsInv
  <2>3. /\ Num(tasks', "connect") = Num(tasks, "connect")
        /\ timers'["connect"] = timers["connect"]
    BY <1>3, <1>5 DEF TaskKind, TimerKind
  <2> QED BY <1>1, <1>3, <1>4, <1>5, <2>1, <2>2, <2>3 DEF CInv, RefsInv
<1> QED BY <1>6, <1>7, <1>8, <1>9 DEF CInv

LEMMA ReleaseProtocolKeeps == ASSUME CInv, ReleaseProtocol PROVE CInv'
<1> USE DEF sockVars, poolVars, refVars
<1>1. /\ RunTask("releaseProtocol") /\ tasks' = Tail(tasks) /\ client' = FALSE
      /\ UNCHANGED <<conn, m_closeState, m_socketClosed, m_writeError, m_pendingRead,
                     m_pendingWrite, readOp, wire, m_protocol, mstate, fresh, auto, toAdd,
                     connRef, protoRef>>
  BY DEF ReleaseProtocol, NoClient
<1>2. QueueOK(tasks)
  BY DEF CInv, OwnersInv
<1>3. /\ QueueOK(tasks') /\ dpc' = "taskDone" /\ UNCHANGED <<next, iopc, ioMsg, accepting>>
      /\ \A k \in TaskKind :
            Num(tasks, k) = Num(tasks', k) + (IF k = "releaseProtocol" THEN 1 ELSE 0)
      /\ \A k \in TaskKind : Num(tasks, k) \in Nat /\ Num(tasks', k) \in Nat
      /\ \A m : Releasing(tasks', m) => Releasing(tasks, m)
  BY <1>1, <1>2, RunKeeps DEF TaskKind, TimerKind
<1>4. /\ Num(tasks', "releaseProtocol") = 0 /\ timers["releaseProtocol"] = 0
      /\ proto # "deleted" /\ m_closeState = "CLOSING" /\ m_protocol = FALSE /\ protoConn = FALSE
  <2>1. /\ Num(tasks, "releaseProtocol") = Num(tasks', "releaseProtocol") + 1
        /\ Num(tasks', "releaseProtocol") \in Nat /\ timers["releaseProtocol"] \in Nat
    BY <1>3 DEF CInv, Types, TaskKind, TimerKind
  <2> QED BY <2>1 DEF CInv, Types, LifeInv, ReleasedOnce, ClosingInv, HandlersInv
<1>5. /\ timers' \in [TimerKind -> Nat]
      /\ \A k \in TimerKind \ {"releaseProtocol"} : timers'[k] = timers[k]
      /\ protoConn' = protoConn
      /\ \/ proto' = proto /\ timers'["releaseProtocol"] \in {0, 1} /\ buffer' = buffer
         \/ /\ proto' = "deleted" /\ protoRef = 0 /\ timers'["releaseProtocol"] = 0
            /\ buffer' = NoMsg
  <2>1. CASE AddEvent("releaseProtocol") /\ UNCHANGED <<proto, protoConn, buffer>>
    BY <1>4, <2>1 DEF AddEvent, CInv, Types, TimerKind
  <2>2. CASE /\ ProtocolUnused /\ proto' = "deleted" /\ protoConn' = FALSE /\ buffer' = NoMsg
             /\ UNCHANGED timers
    BY <1>4, <2>2 DEF ProtocolUnused, CInv, Types
  <2> QED BY <2>1, <2>2 DEF ReleaseProtocol
<1>6. Types'
  <2>1. /\ proto' \in {"none", "live", "deleted"} /\ protoConn' \in BOOLEAN
        /\ buffer' \in Msgs \cup {NoMsg} /\ client' \in BOOLEAN
    BY <1>1, <1>4, <1>5 DEF CInv, Types
  <2>2. timers' \in [TimerKind -> Nat]
    BY <1>5
  <2> QED BY <1>1, <1>3, <2>1, <2>2 DEF CInv, Types
<1>7. LifeInv'
  <2>1. HandlersInv'
    BY <1>1, <1>3, <1>4, <1>5 DEF CInv, LifeInv, HandlersInv
  <2>2. NothingYet'
    BY <1>1, <1>3, <1>4, <1>5 DEF CInv, LifeInv, NothingYet, HandlersInv
  <2>3. ClosingInv'
    BY <1>1, <1>3 DEF CInv, LifeInv, ClosingInv, TaskKind, TimerKind
  <2>4. ReleasedOnce'
    <3>1. /\ Num(tasks', "releaseConnection") = Num(tasks, "releaseConnection")
          /\ timers'["releaseConnection"] = timers["releaseConnection"]
      BY <1>3, <1>5 DEF TaskKind, TimerKind
    <3>2. /\ Num(tasks', "releaseProtocol") + timers'["releaseProtocol"] <= 1
          /\ proto' = "deleted" => Num(tasks', "releaseProtocol") + timers'["releaseProtocol"] = 0
      BY <1>4, <1>5
    <3> QED BY <1>1, <1>4, <3>1, <3>2 DEF CInv, LifeInv, ReleasedOnce
  <2> QED BY <2>1, <2>2, <2>3, <2>4 DEF LifeInv
<1>8. OwnersInv'
  <2>1. \A m \in Msgs : Held(m)' => Held(m)
    BY <1>1, <1>5, ConstantsAssumption DEF Held, ConstantsAssumption
  <2>2. \A m : Leaving(m)' => Leaving(m)
    BY <1>1, <1>3 DEF Leaving
  <2> QED BY <1>1, <1>3, <2>1, <2>2 DEF CInv, OwnersInv
<1>9. RefsInv'
  <2>1. Allocated' = Allocated
    BY <1>1 DEF Allocated
  <2>2. /\ Num(tasks', "connect") = Num(tasks, "connect") /\ Num(tasks, "connect") \in Nat
        /\ timers'["connect"] = timers["connect"] /\ timers["connect"] \in Nat
    BY <1>3, <1>5 DEF TaskKind, TimerKind, CInv, Types
  <2>3. protoRef = 0 => /\ \A m \in Msgs : mstate[m] = "FREE"
                        /\ Num(tasks, "connect") + timers["connect"] = 0
    <3>1. Cardinality(Allocated) \in Nat
      BY AllocatedCount
    <3>2. protoRef = 0 => /\ Cardinality(Allocated) = 0
                          /\ Num(tasks, "connect") + timers["connect"] = 0
      BY <2>2, <3>1 DEF CInv, RefsInv
    <3> QED BY <3>2, AllocatedCount
  <2> QED BY <1>1, <1>3, <1>4, <1>5, <2>1, <2>2, <2>3 DEF CInv, RefsInv
<1> QED BY <1>6, <1>7, <1>8, <1>9 DEF CInv

LEMMA InternalReleaseMessageKeeps == ASSUME CInv, InternalReleaseMessage PROVE CInv'
<1> USE DEF sockVars, protoVars
<1>0. PICK m : m = Head(tasks).msg
  OBVIOUS
<1>1. /\ RunTask("releaseMessage") /\ tasks' = Tail(tasks)
      /\ protoRef' = protoRef - 1 /\ connRef' = connRef - 1
      /\ mstate' = [mstate EXCEPT ![m] = "FREE"] /\ fresh' = fresh \ {m}
      /\ UNCHANGED <<conn, m_closeState, m_socketClosed, m_writeError, m_pendingRead,
                     m_pendingWrite, readOp, wire, m_protocol, proto, protoConn, client, buffer,
                     auto, toAdd, timers>>
  BY <1>0 DEF InternalReleaseMessage
<1>2. QueueOK(tasks)
  BY DEF CInv, OwnersInv
<1>3. /\ QueueOK(tasks') /\ dpc' = "taskDone" /\ UNCHANGED <<next, iopc, ioMsg, accepting>>
      /\ \A k \in TaskKind :
            Num(tasks, k) = Num(tasks', k) + (IF k = "releaseMessage" THEN 1 ELSE 0)
      /\ \A k \in TaskKind : Num(tasks, k) \in Nat /\ Num(tasks', k) \in Nat
      /\ \A n : Releasing(tasks', n) => Releasing(tasks, n)
      /\ Releasing(tasks, m) /\ ~Releasing(tasks', m)
      /\ m \in Msgs \cup {NoMsg}
  BY <1>0, <1>1, <1>2, RunKeeps DEF TaskKind, Tasks
<1>4. /\ m \in Msgs /\ mstate[m] # "FREE" /\ ~Held(m) /\ m \notin wire /\ m # ioMsg
  BY <1>3 DEF CInv, OwnersInv, Leaving
<1>5. /\ Allocated' = Allocated \ {m} /\ m \in Allocated
      /\ mstate' \in [Msgs -> {"FREE", "ALLOCATED", "ALLOCATED_NO_AUTOSEND"}]
      /\ mstate'[m] = "FREE" /\ \A n \in Msgs : n # m => mstate'[n] = mstate[n]
  BY <1>1, <1>4 DEF Allocated, CInv, Types
<1>6. /\ Cardinality(Allocated') = Cardinality(Allocated) - 1
      /\ Cardinality(Allocated) \in Nat /\ Cardinality(Allocated') \in Nat
      /\ connRef' = Cardinality(Allocated')
      /\ protoRef' \in Nat /\ protoRef \in Nat
      /\ protoRef' - Cardinality(Allocated') = protoRef - Cardinality(Allocated)
  <2>1. /\ Cardinality(Allocated') = Cardinality(Allocated) - 1
        /\ Cardinality(Allocated) \in Nat /\ Cardinality(Allocated') \in Nat
    BY <1>5, AllocatedCount, FS_RemoveElement, FS_CardinalityType
  <2>2. Num(tasks, "connect") \in Nat /\ timers["connect"] \in Nat
    BY <1>3 DEF TaskKind, TimerKind, CInv, Types
  <2>3. protoRef >= Cardinality(Allocated)
    BY <2>1, <2>2 DEF CInv, RefsInv, Types
  <2> QED BY <1>1, <2>1, <2>3 DEF CInv, RefsInv, Types
<1>7. Types'
  BY <1>1, <1>3, <1>5, <1>6 DEF CInv, Types
<1>8. LifeInv'
  <2>1. \A k \in TaskKind \ {"releaseMessage"} : Num(tasks', k) \in Nat /\ Num(tasks', k) <= Num(tasks, k)
    BY <1>3
  <2>2. \A n \in Msgs : mstate[n] = "FREE" => mstate'[n] = "FREE"
    BY <1>4, <1>5
  <2> QED BY <1>1, <1>3, <2>1, <2>2, LifeKept DEF CInv, LifeInv, HandlersInv
<1>9. OwnersInv'
  <2>1. \A n : Held(n)' <=> Held(n)
    BY <1>1 DEF Held
  <2>2. \A n : Leaving(n)' => Leaving(n)
    BY <1>1, <1>3 DEF Leaving
  <2>3. ~Leaving(m)'
    BY <1>1, <1>3, <1>4 DEF Leaving
  <2> QED BY <1>1, <1>3, <1>4, <1>5, <2>1, <2>2, <2>3 DEF CInv, OwnersInv
<1>10. RefsInv'
  <2>1. /\ Num(tasks', "connect") = Num(tasks, "connect") /\ Num(tasks', "connect") \in Nat
        /\ timers'["connect"] = timers["connect"] /\ timers'["connect"] \in Nat
    BY <1>1, <1>3 DEF TaskKind, TimerKind, CInv, Types
  <2>2. /\ protoRef >= Cardinality(Allocated) + Num(tasks', "connect") + timers'["connect"]
        /\ accepting' =>
              protoRef = Cardinality(Allocated) + Num(tasks', "connect") + timers'["connect"]
    BY <1>3, <2>1 DEF CInv, RefsInv
  <2>3. conn # "deleted" /\ proto # "deleted"
    BY <1>4 DEF CInv, RefsInv
  <2> QED BY <1>1, <1>6, <2>1, <2>2, <2>3, RefsFollow
<1> QED BY <1>7, <1>8, <1>9, <1>10 DEF CInv

\* What the tasks that use the protocol find, and the references they count with.
Usable(kind, refs) ==
    /\ iopc # "reply"
    /\ m_protocol \/ m_closeState = "CLOSING"
    /\ proto # "deleted"
    /\ refs \in Nat
    /\ refs >= Cardinality(Allocated) + Num(Tail(tasks), "connect") + timers["connect"]
    /\ accepting => refs = Cardinality(Allocated) + Num(Tail(tasks), "connect") + timers["connect"]

LEMMA TaskFindsProtocol ==
    ASSUME CInv, NEW kind \in {"login", "connect", "game"}, RunTask(kind), kind = "game" => client
    PROVE  Usable(kind, IF kind = "connect" THEN protoRef - 1 ELSE protoRef)
<1>1. QueueOK(tasks)
  BY DEF CInv, OwnersInv
<1>2. \A k \in TaskKind :
         /\ Num(tasks, k) = Num(Tail(tasks), k) + (IF k = kind THEN 1 ELSE 0)
         /\ Num(tasks, k) \in Nat /\ Num(Tail(tasks), k) \in Nat
  BY <1>1, RunKeeps DEF TaskKind, TimerKind
<1>3. /\ Num(Tail(tasks), "connect") \in Nat /\ timers["connect"] \in Nat
      /\ Num(tasks, "connect") = Num(Tail(tasks), "connect") + (IF kind = "connect" THEN 1 ELSE 0)
      /\ Cardinality(Allocated) \in Nat /\ protoRef \in Nat
  BY <1>2, AllocatedCount DEF CInv, Types, TaskKind, TimerKind
<1>4. \/ client
      \/ Num(tasks, "login") # 0
      \/ Num(tasks, "connect") + timers["connect"] # 0
  BY <1>2, <1>3 DEF TaskKind, TimerKind
<1>5. iopc # "reply" /\ (m_protocol \/ m_closeState = "CLOSING")
  BY <1>4 DEF CInv, LifeInv, NothingYet
<1>6. proto # "deleted"
  <2>1. CASE kind = "login"
    <3>1. Num(tasks, "login") # 0
      BY <1>2, <2>1 DEF TaskKind
    <3> QED BY <3>1 DEF CInv, LifeInv, ClosingInv, ReleasedOnce
  <2>2. CASE kind \in {"connect", "game"}
    BY <1>3, <2>2 DEF CInv, RefsInv
  <2> QED BY <2>1, <2>2
<1>7. CASE kind = "connect"
  BY <1>3, <1>5, <1>6, <1>7 DEF Usable, CInv, RefsInv
<1>8. CASE kind # "connect"
  BY <1>3, <1>5, <1>6, <1>8 DEF Usable, CInv, RefsInv
<1> QED BY <1>7, <1>8

\* A task writes to the player.
LEMMA TaskWrites ==
    ASSUME CInv, NEW kind \in {"login", "connect", "game"}, RunTask(kind), tasks' = Tail(tasks),
           NEW refs, Usable(kind, refs), WriteToBuffer(refs), client' \in BOOLEAN,
           UNCHANGED <<conn, m_closeState, m_socketClosed, m_writeError, m_pendingRead,
                       m_pendingWrite, readOp, wire, m_protocol, proto, protoConn, toAdd, timers>>
    PROVE  CInv'
<1>1. QueueOK(tasks) /\ refs \in Nat
  BY DEF CInv, OwnersInv, Usable
<1>2. /\ QueueOK(tasks') /\ dpc' = "taskDone" /\ UNCHANGED <<next, iopc, ioMsg, accepting>>
      /\ \A k \in TaskKind :
            Num(tasks, k) = Num(tasks', k) + (IF k = kind THEN 1 ELSE 0)
      /\ \A k \in TaskKind : Num(tasks, k) \in Nat /\ Num(tasks', k) \in Nat
      /\ \A n : Releasing(tasks', n) => Releasing(tasks, n)
  BY <1>1, RunKeeps DEF TaskKind, TimerKind
<1>3. /\ OwnersInv'
      /\ mstate' \in [Msgs -> {"FREE", "ALLOCATED", "ALLOCATED_NO_AUTOSEND"}]
      /\ fresh' \subseteq Msgs /\ auto' \in Seq(Msgs) /\ buffer' \in Msgs \cup {NoMsg}
      /\ connRef' \in Nat /\ protoRef' \in Nat
      /\ connRef' = Cardinality(Allocated') /\ Cardinality(Allocated') \in Nat
      /\ protoRef' - Cardinality(Allocated') = refs - Cardinality(Allocated)
      /\ ~protoConn => mstate' = mstate
  BY <1>1, <1>2, WriteKeeps
<1>4. Types'
  BY <1>2, <1>3 DEF CInv, Types
<1>5. LifeInv'
  <2>1. \A k \in TaskKind \ {"releaseMessage"} : Num(tasks', k) \in Nat /\ Num(tasks', k) <= Num(tasks, k)
    BY <1>2
  <2> QED BY <1>2, <2>1, LifeKept DEF Usable, CInv, LifeInv, HandlersInv
<1>6. RefsInv'
  <2>1. Num(tasks', "connect") \in Nat /\ timers'["connect"] \in Nat
    BY <1>2 DEF TaskKind, TimerKind, CInv, Types
  <2>2. conn' = "deleted" => \A m \in Msgs : mstate'[m] = "FREE"
    <3>1. conn = "deleted" => ~protoConn
      BY DEF CInv, LifeInv, HandlersInv, ClosingInv, ReleasedOnce
    <3> QED BY <1>3, <3>1 DEF CInv, RefsInv
  <2>3. /\ refs >= Cardinality(Allocated) + Num(tasks', "connect") + timers'["connect"]
        /\ accepting' =>
              refs = Cardinality(Allocated) + Num(tasks', "connect") + timers'["connect"]
        /\ proto' # "deleted"
    BY <1>2 DEF Usable
  <2> QED BY <1>1, <1>3, <2>1, <2>2, <2>3, RefsFollow
<1> QED BY <1>3, <1>4, <1>5, <1>6 DEF CInv

\* A task disconnects the client, with an answer if the protocol has its connection.
LEMMA TaskDisconnects ==
    ASSUME CInv, NEW kind \in {"login", "connect"}, RunTask(kind),
           NEW refs, Usable(kind, refs), DisconnectClient(refs),
           UNCHANGED <<conn, m_socketClosed, m_writeError, m_pendingRead, readOp, m_protocol,
                       proto, protoConn, client, auto, timers>>
    PROVE  CInv'
<1> DEFINE q == Tail(tasks)
<1>1. QueueOK(tasks) /\ refs \in Nat /\ accepting \in BOOLEAN
  BY DEF CInv, OwnersInv, Usable, Types
<1>2. /\ QueueOK(q) /\ dpc' = "taskDone" /\ UNCHANGED <<next, iopc, ioMsg, accepting>>
      /\ \A k \in TaskKind :
            Num(tasks, k) = Num(q, k) + (IF k = kind THEN 1 ELSE 0)
      /\ \A k \in TaskKind : Num(tasks, k) \in Nat /\ Num(q, k) \in Nat
      /\ \A n : Releasing(q, n) => Releasing(tasks, n)
  BY <1>1, RunKeeps DEF TaskKind, TimerKind
<1>3. /\ refs >= Cardinality(Allocated) + Num(q, "connect") + timers["connect"]
      /\ accepting => refs = Cardinality(Allocated) + Num(q, "connect") + timers["connect"]
      /\ Cardinality(Allocated) \in Nat /\ timers["connect"] \in Nat /\ Num(q, "connect") \in Nat
  BY <1>2, AllocatedCount DEF Usable, CInv, Types, TaskKind, TimerKind
<1>q. q = Tail(tasks)
  OBVIOUS
<1> HIDE DEF q
<1>4. CASE /\ ~protoConn /\ protoRef' = refs /\ tasks' = q
           /\ UNCHANGED <<m_closeState, buffer, mstate, fresh, connRef, wire, m_pendingWrite, toAdd>>
  <2>1. Types'
    BY <1>1, <1>2, <1>4 DEF CInv, Types
  <2>2. LifeInv'
    <3>1. \A k \in TaskKind \ {"releaseMessage"} : Num(tasks', k) \in Nat /\ Num(tasks', k) <= Num(tasks, k)
      BY <1>2, <1>4
    <3> QED BY <1>2, <1>4, <3>1, LifeKept DEF Usable, CInv, LifeInv, HandlersInv
  <2>3. OwnersInv'
    BY <1>2, <1>4, OwnersKept
  <2>4. RefsInv'
    <3>1. Allocated' = Allocated
      BY <1>4 DEF Allocated
    <3> QED BY <1>2, <1>3, <1>4, <3>1 DEF CInv, RefsInv, Usable
  <2> QED BY <2>1, <2>2, <2>3, <2>4 DEF CInv
<1>5. CASE /\ protoConn /\ ~ConnLocked
           /\ \E m \in Msgs : /\ Configure(m, FALSE, refs)
                              /\ Send(m)
                              /\ CloseConnection(AfterSend(q, m))
  <2>1. PICK m \in Msgs : /\ Configure(m, FALSE, refs)
                          /\ Send(m)
                          /\ CloseConnection(AfterSend(q, m))
    BY <1>5
  <2>2. /\ m_closeState # "CLOSING" /\ m_protocol
        /\ iopc \notin {"reply", "kick"}
    BY <1>5 DEF CInv, LifeInv, HandlersInv, ClosingInv, ConnLocked
  <2>3. ~Releasing(q, m)
    BY <1>2, <2>1 DEF Configure, CInv, OwnersInv, Leaving
  <2>4. /\ More(q, AfterSend(q, m), {})
        /\ \A n : Releasing(AfterSend(q, m), n) => Releasing(q, n) \/ (n = m /\ Refuses)
    BY <1>2, <2>3, AfterSendKeeps
  <2>5. /\ \A n : Releasing(tasks', n) <=> Releasing(AfterSend(q, m), n)
        /\ \/ /\ m_closeState = "NONE" /\ m_closeState' = "REQUESTED"
              /\ MoreIf(AfterSend(q, m), tasks', "close")
           \/ /\ m_closeState # "NONE" /\ m_closeState' = m_closeState
              /\ More(AfterSend(q, m), tasks', {})
    BY <1>1, <2>1, <2>4, CloseKeeps DEF More
  <2>6. \A k : Num(AfterSend(q, m), k) \in Nat
    BY <2>4, NumIsNat DEF More
  <2>7. \/ /\ m_closeState = "NONE" /\ m_closeState' = "REQUESTED"
           /\ MoreIf(q, tasks', "close")
        \/ /\ m_closeState # "NONE" /\ m_closeState' = m_closeState
           /\ More(q, tasks', {})
    BY <1>2, <2>4, <2>5, <2>6 DEF More, MoreIf
  <2>8. /\ OwnersInv'
        /\ mstate' \in [Msgs -> {"FREE", "ALLOCATED", "ALLOCATED_NO_AUTOSEND"}]
        /\ fresh' \subseteq Msgs /\ toAdd' \in Seq(Msgs) /\ buffer' \in Msgs \cup {NoMsg}
        /\ wire' \subseteq Msgs /\ m_pendingWrite' = Cardinality(wire')
        /\ connRef' \in Nat /\ protoRef' \in Nat
        /\ connRef' = Cardinality(Allocated') /\ Cardinality(Allocated') \in Nat
        /\ protoRef' - Cardinality(Allocated') = refs - Cardinality(Allocated)
    BY <1>1, <1>2, <2>1, <2>4, <2>5, <2>7, FreshSent DEF More, MoreIf
  <2>9. Types'
    BY <1>1, <1>2, <2>5, <2>8 DEF CInv, Types
  <2>10. /\ Num(tasks', "connect") = Num(q, "connect")
         /\ Num(tasks', "releaseConnection") = Num(tasks, "releaseConnection")
         /\ Num(tasks', "releaseProtocol") = Num(tasks, "releaseProtocol")
         /\ \/ /\ m_closeState = "NONE" /\ m_closeState' = "REQUESTED"
               /\ Num(tasks', "close") \in {Num(tasks, "close"), Num(tasks, "close") + 1}
            \/ m_closeState' = m_closeState /\ Num(tasks', "close") = Num(tasks, "close")
    BY <1>2, <2>7 DEF More, MoreIf, TaskKind, TimerKind
  <2>11. LifeInv'
    <3>1. HandlersInv'
      BY <1>2, <2>2, <2>5 DEF CInv, LifeInv, HandlersInv
    <3>2. NothingYet'
      BY <1>2, <2>2, <2>5 DEF CInv, LifeInv, NothingYet
    <3>3. ClosingInv'
      BY <1>2, <2>2, <2>10 DEF CInv, LifeInv, ClosingInv, TaskKind
    <3>4. /\ Num(tasks, "releaseConnection") = 0 /\ timers["releaseConnection"] = 0
          /\ Num(tasks, "releaseProtocol") = 0 /\ timers["releaseProtocol"] = 0
          /\ conn # "deleted" /\ proto # "deleted"
      BY <2>2, NotReleasedYet
    <3>5. ReleasedOnce'
      BY <2>10, <3>4 DEF ReleasedOnce
    <3> QED BY <3>1, <3>2, <3>3, <3>5 DEF LifeInv
  <2>12. RefsInv'
    <3>1. conn' # "deleted" /\ proto' # "deleted"
      BY <2>2, NotReleasedYet
    <3> QED BY <1>1, <1>2, <1>3, <2>8, <2>10, <3>1, RefsFollow
  <2> QED BY <2>8, <2>9, <2>11, <2>12 DEF CInv
<1> QED BY <1>4, <1>5, <1>q DEF DisconnectClient

LEMMA LoginKeeps == ASSUME CInv, Login PROVE CInv'
<1> USE DEF poolVars
<1>1. RunTask("login") /\ Usable("login", protoRef)
  BY TaskFindsProtocol DEF Login
<1>2. UNCHANGED <<conn, m_socketClosed, m_writeError, m_pendingRead, readOp, m_protocol, proto,
                  protoConn>>
  BY DEF Login
<1>3. CASE DisconnectClient(protoRef) /\ UNCHANGED <<client, auto, timers>>
  BY <1>1, <1>2, <1>3, TaskDisconnects
<1>4. CASE EnterGame(protoRef) /\ UNCHANGED timers
  BY <1>1, <1>2, <1>4, TaskWrites DEF EnterGame
<1>5. CASE /\ AddEvent("connect") /\ protoRef' = protoRef + 1 /\ tasks' = Tail(tasks)
           /\ UNCHANGED <<client, buffer, m_closeState, m_pendingWrite, wire, poolVars, connRef>>
  <2>1. QueueOK(tasks)
    BY DEF CInv, OwnersInv
  <2>2. /\ QueueOK(tasks') /\ dpc' = "taskDone" /\ UNCHANGED <<next, iopc, ioMsg, accepting>>
        /\ \A k \in TaskKind :
              Num(tasks, k) = Num(tasks', k) + (IF k = "login" THEN 1 ELSE 0)
        /\ \A k \in TaskKind : Num(tasks, k) \in Nat /\ Num(tasks', k) \in Nat
        /\ \A n : Releasing(tasks', n) => Releasing(tasks, n)
    BY <1>1, <1>5, <2>1, RunKeeps DEF TaskKind, TimerKind
  <2>3. /\ timers' \in [TimerKind -> Nat]
        /\ \A k \in TimerKind \ {"connect"} : timers'[k] = timers[k]
        /\ timers'["connect"] = timers["connect"] + (IF accepting THEN 1 ELSE 0)
        /\ timers["connect"] \in Nat
    BY <1>5 DEF AddEvent, CInv, Types, TimerKind
  <2>4. Types'
    BY <1>2, <1>5, <2>2, <2>3 DEF CInv, Types
  <2>5. LifeInv'
    <3>1. Num(tasks, "login") # 0 /\ m_closeState # "CLOSING"
      BY <2>2 DEF TaskKind, CInv, LifeInv, ClosingInv
    <3>2. HandlersInv'
      BY <1>2, <1>5, <2>2 DEF CInv, LifeInv, HandlersInv
    <3>3. NothingYet'
      BY <1>1, <1>2, <1>5, <2>2, <3>1 DEF Usable, CInv, LifeInv, NothingYet
    <3>4. ClosingInv'
      BY <1>2, <1>5, <2>2 DEF CInv, LifeInv, ClosingInv, TaskKind, TimerKind
    <3>5. ReleasedOnce'
      <4>1. /\ Num(tasks', "releaseConnection") = Num(tasks, "releaseConnection")
            /\ Num(tasks', "releaseProtocol") = Num(tasks, "releaseProtocol")
            /\ timers'["releaseConnection"] = timers["releaseConnection"]
            /\ timers'["releaseProtocol"] = timers["releaseProtocol"]
        BY <2>2, <2>3 DEF TaskKind, TimerKind
      <4> QED BY <1>2, <1>5, <4>1 DEF CInv, LifeInv, ReleasedOnce
    <3> QED BY <3>2, <3>3, <3>4, <3>5 DEF LifeInv
  <2>6. OwnersInv'
    BY <1>2, <1>5, <2>2, OwnersKept
  <2>7. RefsInv'
    <3>1. Allocated' = Allocated /\ Cardinality(Allocated) \in Nat /\ protoRef \in Nat
      BY <1>5, AllocatedCount DEF Allocated, CInv, Types
    <3>2. Num(tasks', "connect") = Num(tasks, "connect") /\ Num(tasks', "connect") \in Nat
      BY <2>2 DEF TaskKind, TimerKind
    <3>3. /\ protoRef >= Cardinality(Allocated) + Num(tasks', "connect") + timers["connect"]
          /\ accepting => protoRef = Cardinality(Allocated) + Num(tasks', "connect") + timers["connect"]
          /\ proto # "deleted"
      BY <1>1, <3>2 DEF Usable, CInv, RefsInv
    <3>4. /\ protoRef' >= Cardinality(Allocated) + Num(tasks', "connect") + timers'["connect"]
          /\ accepting => protoRef' = Cardinality(Allocated) + Num(tasks', "connect") + timers'["connect"]
      BY <1>5, <2>3, <3>1, <3>2, <3>3
    <3> QED BY <1>2, <1>5, <2>2, <3>1, <3>3, <3>4 DEF CInv, RefsInv
  <2> QED BY <2>4, <2>5, <2>6, <2>7 DEF CInv
<1> QED BY <1>3, <1>4, <1>5 DEF Login

LEMMA ConnectKeeps == ASSUME CInv, Connect PROVE CInv'
<1>1. RunTask("connect") /\ Usable("connect", ConnectRefs)
  BY TaskFindsProtocol DEF Connect, ConnectRefs
<1>2. UNCHANGED <<conn, m_socketClosed, m_writeError, m_pendingRead, readOp, m_protocol, proto,
                  protoConn, timers>>
  BY DEF Connect
<1>3. CASE DisconnectClient(ConnectRefs) /\ UNCHANGED <<client, auto>>
  BY <1>1, <1>2, <1>3, TaskDisconnects
<1>4. CASE EnterGame(ConnectRefs)
  BY <1>1, <1>2, <1>4, TaskWrites DEF EnterGame
<1> QED BY <1>3, <1>4 DEF Connect

LEMMA GameWritesKeeps == ASSUME CInv, GameWrites PROVE CInv'
<1> USE DEF sockVars, protoVars
<1>1. /\ RunTask("game") /\ client /\ WriteToBuffer(protoRef) /\ tasks' = Tail(tasks)
      /\ UNCHANGED <<conn, m_closeState, m_socketClosed, m_writeError, m_pendingRead,
                     m_pendingWrite, readOp, wire, m_protocol, proto, protoConn, client, toAdd,
                     timers>>
  BY DEF GameWrites
<1>2. Usable("game", protoRef)
  BY <1>1, TaskFindsProtocol
<1>3. client' \in BOOLEAN
  BY <1>1 DEF CInv, Types
<1> QED BY <1>1, <1>2, <1>3, TaskWrites

LEMMA GameElsewhereKeeps == ASSUME CInv, GameElsewhere PROVE CInv'
<1> USE DEF sockVars, protoVars, poolVars, refVars
<1>1. /\ RunTask("game") /\ tasks' = Tail(tasks)
      /\ UNCHANGED <<conn, m_closeState, m_socketClosed, m_writeError, m_pendingRead,
                     m_pendingWrite, readOp, wire, m_protocol, proto, protoConn, client, buffer,
                     mstate, fresh, auto, toAdd, connRef, protoRef, timers>>
  BY DEF GameElsewhere
<1>2. QueueOK(tasks)
  BY DEF CInv, OwnersInv
<1>3. /\ QueueOK(tasks') /\ dpc' = "taskDone" /\ UNCHANGED <<next, iopc, ioMsg, accepting>>
      /\ \A k \in TaskKind :
            Num(tasks, k) = Num(tasks', k) + (IF k = "game" THEN 1 ELSE 0)
      /\ \A k \in TaskKind : Num(tasks, k) \in Nat /\ Num(tasks', k) \in Nat
      /\ \A n : Releasing(tasks', n) => Releasing(tasks, n)
  BY <1>1, <1>2, RunKeeps DEF TaskKind
<1>4. Types'
  BY <1>1, <1>3 DEF CInv, Types
<1>5. LifeInv'
  <2>1. \A k \in TaskKind \ {"releaseMessage"} : Num(tasks', k) \in Nat /\ Num(tasks', k) <= Num(tasks, k)
    BY <1>3
  <2> QED BY <1>1, <1>3, <2>1, LifeKept DEF CInv, LifeInv, HandlersInv
<1>6. OwnersInv'
  BY <1>1, <1>3, OwnersKept
<1>7. RefsInv'
  BY <1>1, <1>3, RefsKept DEF TaskKind, TimerKind
<1> QED BY <1>4, <1>5, <1>6, <1>7 DEF CInv

LEMMA GameClosesKeeps == ASSUME CInv, GameCloses PROVE CInv'
<1> USE DEF sockVars, protoVars, poolVars, refVars
<1> DEFINE q == Tail(tasks)
<1>1. /\ RunTask("game") /\ protoConn /\ ~ConnLocked /\ CloseConnection(q)
      /\ UNCHANGED <<conn, m_socketClosed, m_writeError, m_pendingRead,
                     m_pendingWrite, readOp, wire, m_protocol, proto, protoConn, client, buffer,
                     mstate, fresh, auto, toAdd, connRef, protoRef, timers>>
      /\ accepting \in BOOLEAN
  BY DEF GameCloses, CInv, Types
<1>2. QueueOK(tasks)
  BY DEF CInv, OwnersInv
<1>3. /\ QueueOK(q) /\ dpc' = "taskDone" /\ UNCHANGED <<next, iopc, ioMsg, accepting>>
      /\ \A k \in TaskKind :
            Num(tasks, k) = Num(q, k) + (IF k = "game" THEN 1 ELSE 0)
      /\ \A k \in TaskKind : Num(tasks, k) \in Nat /\ Num(q, k) \in Nat
      /\ \A n : Releasing(q, n) => Releasing(tasks, n)
  BY <1>1, <1>2, RunKeeps DEF TaskKind
<1> HIDE DEF q
<1>4. /\ \A m : Releasing(tasks', m) <=> Releasing(q, m)
      /\ \/ /\ m_closeState = "NONE" /\ m_closeState' = "REQUESTED"
            /\ MoreIf(q, tasks', "close")
         \/ /\ m_closeState # "NONE" /\ m_closeState' = m_closeState
            /\ More(q, tasks', {})
  BY <1>1, <1>3, CloseKeeps
<1>5. m_closeState # "CLOSING" /\ m_protocol /\ iopc \notin {"reply", "kick"}
  BY <1>1 DEF CInv, LifeInv, HandlersInv, ClosingInv, ConnLocked
<1>6. /\ Num(tasks', "connect") = Num(tasks, "connect")
      /\ Num(tasks', "releaseConnection") = Num(tasks, "releaseConnection")
      /\ Num(tasks', "releaseProtocol") = Num(tasks, "releaseProtocol")
      /\ \/ /\ m_closeState = "NONE" /\ m_closeState' = "REQUESTED"
            /\ Num(tasks', "close") \in {Num(tasks, "close"), Num(tasks, "close") + 1}
         \/ m_closeState' = m_closeState /\ Num(tasks', "close") = Num(tasks, "close")
      /\ QueueOK(tasks')
  BY <1>3, <1>4 DEF More, MoreIf, TaskKind, TimerKind
<1>7. Types'
  BY <1>1, <1>3, <1>4 DEF CInv, Types
<1>8. LifeInv'
  <2>1. HandlersInv'
    BY <1>1, <1>3, <1>5, <1>6 DEF CInv, LifeInv, HandlersInv
  <2>2. NothingYet'
    BY <1>1, <1>3, <1>5, <1>6 DEF CInv, LifeInv, NothingYet
  <2>3. ClosingInv'
    BY <1>2, <1>3, <1>5, <1>6, NumIsNat DEF CInv, LifeInv, ClosingInv
  <2>4. ReleasedOnce'
    BY <1>1, <1>5, <1>6, NotReleasedYet DEF ReleasedOnce
  <2> QED BY <2>1, <2>2, <2>3, <2>4 DEF LifeInv
<1>9. OwnersInv'
  BY <1>1, <1>3, <1>4, <1>6, OwnersKept
<1>10. RefsInv'
  BY <1>1, <1>3, <1>6, RefsKept
<1> QED BY <1>7, <1>8, <1>9, <1>10 DEF CInv

-----------------------------------------------------------------------------
(* sendAll keeps the invariant, and so do the game's tasks and time.       *)

\* Only where the dispatcher stands, what is young, or whether tasks are taken.
LEMMA NothingMoves ==
    ASSUME CInv,
           UNCHANGED <<conn, m_closeState, m_socketClosed, m_writeError, m_pendingRead,
                       m_pendingWrite, readOp, wire, m_protocol, proto, protoConn, client, buffer,
                       mstate, auto, toAdd, connRef, protoRef, tasks, timers, iopc, ioMsg>>,
           dpc' \in {"idle", "taskDone", "moving", "sendAll"}, next' \in Nat, next' >= 1,
           fresh' \subseteq Msgs, accepting' \in BOOLEAN, accepting' => accepting
    PROVE  CInv'
<1>1. Types'
  BY DEF CInv, Types
<1>2. LifeInv'
  BY DEF CInv, LifeInv, HandlersInv, NothingYet, ClosingInv, ReleasedOnce
<1>3. OwnersInv'
  BY OwnersKept DEF CInv, OwnersInv
<1>4. RefsInv'
  <2>1. Allocated' = Allocated
    BY DEF Allocated
  <2> QED BY <2>1 DEF CInv, RefsInv
<1> QED BY <1>1, <1>2, <1>3, <1>4 DEF CInv

LEMMA QuietSteps ==
    ASSUME CInv,
           \/ StopServer \/ BeginSendAll \/ BeginSending \/ SkipMessage \/ EndSendAll
           \/ \E m \in Msgs : Age(m)
           \/ UNCHANGED vars
    PROVE  CInv'
<1> USE DEF sockVars, protoVars, poolVars, refVars, dispVars, ioVars
<1>0. /\ dpc \in {"idle", "taskDone", "moving", "sendAll"} /\ next \in Nat /\ next >= 1
      /\ next + 1 \in Nat /\ next + 1 >= 1 /\ fresh \subseteq Msgs /\ accepting \in BOOLEAN
  BY DEF CInv, Types, LifeInv, HandlersInv
<1>1. CASE StopServer
  BY <1>0, <1>1, NothingMoves DEF StopServer
<1>2. CASE BeginSendAll
  BY <1>0, <1>2, NothingMoves DEF BeginSendAll
<1>3. CASE BeginSending
  BY <1>0, <1>3, NothingMoves DEF BeginSending
<1>4. CASE SkipMessage
  BY <1>0, <1>4, NothingMoves DEF SkipMessage
<1>5. CASE EndSendAll
  BY <1>0, <1>5, NothingMoves DEF EndSendAll
<1>6. CASE \E m \in Msgs : Age(m)
  BY <1>0, <1>6, NothingMoves DEF Age
<1>7. CASE UNCHANGED vars
  BY <1>0, <1>7, NothingMoves DEF vars
<1> QED BY <1>1, <1>2, <1>3, <1>4, <1>5, <1>6, <1>7

LEMMA GameTaskKeeps == ASSUME CInv, GameTask PROVE CInv'
<1> USE DEF sockVars, protoVars, poolVars, refVars, dispVars, ioVars
<1>1. /\ tasks' = Added(tasks, "game")
      /\ UNCHANGED <<conn, m_closeState, m_socketClosed, m_writeError, m_pendingRead,
                     m_pendingWrite, readOp, wire, m_protocol, proto, protoConn, client, buffer,
                     mstate, fresh, auto, toAdd, connRef, protoRef, timers, accepting, dpc, next,
                     iopc, ioMsg>>
      /\ accepting \in BOOLEAN
  BY DEF GameTask, CInv, Types
<1>2. QueueOK(tasks) /\ \A k : Num(tasks, k) \in Nat
  BY NumIsNat DEF CInv, OwnersInv
<1>3. /\ MoreIf(tasks, tasks', "game")
      /\ \A m : Releasing(tasks', m) <=> Releasing(tasks, m)
  BY <1>1, <1>2, AddedKeeps DEF TaskKind
<1>4. /\ QueueOK(tasks')
      /\ \A k \in TaskKind \ {"releaseMessage", "game"} :
            Num(tasks', k) = Num(tasks, k) /\ Num(tasks', k) \in Nat
  BY <1>2, <1>3 DEF More, MoreIf
<1>5. Types'
  BY <1>1 DEF CInv, Types
<1>6. LifeInv'
  <2>1. /\ Num(tasks', "login") = Num(tasks, "login")
        /\ Num(tasks', "connect") = Num(tasks, "connect")
        /\ Num(tasks', "close") = Num(tasks, "close")
        /\ Num(tasks', "releaseConnection") = Num(tasks, "releaseConnection")
        /\ Num(tasks', "releaseProtocol") = Num(tasks, "releaseProtocol")
    BY <1>4 DEF TaskKind, TimerKind
  <2>2. HandlersInv'
    BY <1>1 DEF CInv, LifeInv, HandlersInv
  <2>3. NothingYet'
    BY <1>1, <2>1 DEF CInv, LifeInv, NothingYet
  <2>4. ClosingInv'
    BY <1>1, <2>1 DEF CInv, LifeInv, ClosingInv
  <2>5. ReleasedOnce'
    BY <1>1, <2>1 DEF CInv, LifeInv, ReleasedOnce
  <2> QED BY <2>2, <2>3, <2>4, <2>5 DEF LifeInv
<1>7. OwnersInv'
  BY <1>1, <1>3, <1>4, OwnersKept
<1>8. RefsInv'
  BY <1>1, <1>4, RefsKept DEF TaskKind, TimerKind
<1> QED BY <1>5, <1>6, <1>7, <1>8 DEF CInv

\* An event is pending as long as its task, and lost when no task is taken.
LEMMA TimerKeeps == ASSUME CInv, NEW k \in TimerKind, Timer(k) PROVE CInv'
<1> USE DEF sockVars, protoVars, poolVars, refVars, dispVars, ioVars
<1>1. /\ tasks' = Added(tasks, k) /\ timers[k] > 0 /\ timers' = [timers EXCEPT ![k] = @ - 1]
      /\ UNCHANGED <<conn, m_closeState, m_socketClosed, m_writeError, m_pendingRead,
                     m_pendingWrite, readOp, wire, m_protocol, proto, protoConn, client, buffer,
                     mstate, fresh, auto, toAdd, connRef, protoRef, accepting, dpc, next,
                     iopc, ioMsg>>
      /\ accepting \in BOOLEAN
  BY DEF Timer, CInv, Types
<1>2. QueueOK(tasks) /\ \A j : Num(tasks, j) \in Nat
  BY NumIsNat DEF CInv, OwnersInv
<1>3. /\ MoreIf(tasks, tasks', k)
      /\ \A m : Releasing(tasks', m) <=> Releasing(tasks, m)
  BY <1>1, <1>2, AddedKeeps DEF TaskKind, TimerKind
<1>4. /\ timers' \in [TimerKind -> Nat]
      /\ timers'[k] = timers[k] - 1 /\ timers[k] \in Nat
      /\ \A j \in TimerKind \ {k} : timers'[j] = timers[j]
  BY <1>1 DEF CInv, Types
<1>5. /\ QueueOK(tasks')
      /\ Num(tasks', "login") = Num(tasks, "login")
      /\ Num(tasks', "close") = Num(tasks, "close")
      /\ \A j \in TimerKind \ {k} : Num(tasks', j) = Num(tasks, j)
      /\ Num(tasks', k) = Num(tasks, k) + (IF accepting THEN 1 ELSE 0)
  BY <1>2, <1>3 DEF More, MoreIf, TaskKind, TimerKind
<1>6. \A j \in TimerKind :
         /\ Num(tasks', j) \in Nat /\ timers'[j] \in Nat
         /\ Num(tasks', j) + timers'[j] <= Num(tasks, j) + timers[j]
         /\ accepting => Num(tasks', j) + timers'[j] = Num(tasks, j) + timers[j]
  <2>1. ASSUME NEW j \in TimerKind, j # k
        PROVE  /\ Num(tasks', j) = Num(tasks, j) /\ timers'[j] = timers[j]
               /\ Num(tasks, j) \in Nat /\ timers[j] \in Nat
    BY <1>2, <1>4, <1>5, <2>1 DEF CInv, Types
  <2>2. /\ Num(tasks', k) \in Nat /\ timers'[k] \in Nat
        /\ Num(tasks', k) + timers'[k] <= Num(tasks, k) + timers[k]
        /\ accepting => Num(tasks', k) + timers'[k] = Num(tasks, k) + timers[k]
    <3>1. Num(tasks, k) \in Nat /\ timers'[k] \in Nat
      BY <1>2, <1>4
    <3> QED BY <1>1, <1>4, <1>5, <3>1
  <2>3. ASSUME NEW j \in TimerKind
        PROVE  /\ Num(tasks', j) \in Nat /\ timers'[j] \in Nat
               /\ Num(tasks', j) + timers'[j] <= Num(tasks, j) + timers[j]
               /\ accepting => Num(tasks', j) + timers'[j] = Num(tasks, j) + timers[j]
    <3>1. CASE j = k
      BY <2>2, <3>1
    <3>2. CASE j # k
      BY <2>1, <3>2
    <3> QED BY <3>1, <3>2
  <2> QED BY <2>3
<1>7. \A j \in TimerKind : Num(tasks, j) + timers[j] \in Nat /\ Num(tasks', j) + timers'[j] \in Nat
  BY <1>2, <1>6, SMTT(30) DEF CInv, Types
<1>8. Types'
  BY <1>1, <1>4 DEF CInv, Types
<1>9. LifeInv'
  <2>1. HandlersInv'
    BY <1>1 DEF CInv, LifeInv, HandlersInv
  <2>2. NothingYet'
    <3>1. Num(tasks, "connect") + timers["connect"] = 0 =>
             Num(tasks', "connect") + timers'["connect"] = 0
      BY <1>6, <1>7 DEF TimerKind
    <3> QED BY <1>1, <1>5, <3>1 DEF CInv, LifeInv, NothingYet
  <2>3. ClosingInv'
    BY <1>1, <1>5 DEF CInv, LifeInv, ClosingInv
  <2>4. ReleasedOnce'
    <3> DEFINE c == Num(tasks, "releaseConnection") + timers["releaseConnection"]
               c2 == Num(tasks', "releaseConnection") + timers'["releaseConnection"]
               p == Num(tasks, "releaseProtocol") + timers["releaseProtocol"]
               p2 == Num(tasks', "releaseProtocol") + timers'["releaseProtocol"]
    <3>1. c \in Nat /\ c2 \in Nat /\ c2 <= c /\ p \in Nat /\ p2 \in Nat /\ p2 <= p
      BY <1>6, <1>7 DEF TimerKind
    <3>2. /\ c <= 1
          /\ conn = "deleted" => c = 0
          /\ c > 0 \/ conn = "deleted" => m_closeState = "CLOSING" /\ wire = {} /\ readOp = "none"
          /\ p <= 1
          /\ proto = "deleted" => p = 0
          /\ p > 0 \/ proto = "deleted" => m_closeState = "CLOSING"
      BY DEF CInv, LifeInv, ReleasedOnce
    <3> HIDE DEF c, c2, p, p2
    <3>3. /\ c2 <= 1
          /\ conn' = "deleted" => c2 = 0
          /\ c2 > 0 \/ conn' = "deleted" =>
                m_closeState' = "CLOSING" /\ wire' = {} /\ readOp' = "none"
          /\ p2 <= 1
          /\ proto' = "deleted" => p2 = 0
          /\ p2 > 0 \/ proto' = "deleted" => m_closeState' = "CLOSING"
      BY <1>1, <3>1, <3>2
    <3> QED BY <3>3 DEF ReleasedOnce, c2, p2
  <2> QED BY <2>1, <2>2, <2>3, <2>4 DEF LifeInv
<1>10. OwnersInv'
  BY <1>1, <1>3, <1>5, OwnersKept
<1>11. RefsInv'
  <2> DEFINE a == Cardinality(Allocated)
             c == Num(tasks, "connect") + timers["connect"]
             c2 == Num(tasks', "connect") + timers'["connect"]
  <2>1. Allocated' = Allocated /\ a \in Nat
    BY <1>1, AllocatedCount DEF Allocated
  <2>2. c \in Nat /\ c2 \in Nat /\ c2 <= c /\ (accepting => c2 = c)
    BY <1>6, <1>7 DEF TimerKind
  <2>3. /\ a + Num(tasks, "connect") + timers["connect"] = a + c
        /\ a + Num(tasks', "connect") + timers'["connect"] = a + c2
    <3>1. /\ Num(tasks, "connect") \in Nat /\ timers["connect"] \in Nat
          /\ Num(tasks', "connect") \in Nat /\ timers'["connect"] \in Nat
      BY <1>2, <1>6 DEF CInv, Types, TimerKind
    <3> HIDE DEF a
    <3> QED BY <2>1, <3>1
  <2> HIDE DEF c, c2
  <2>4. protoRef \in Nat /\ protoRef >= a + c /\ (accepting => protoRef = a + c)
    BY <2>3 DEF CInv, RefsInv, Types
  <2>5. protoRef' >= a + c2 /\ (accepting' => protoRef' = a + c2)
    BY <1>1, <2>1, <2>2, <2>4
  <2>6. proto = "deleted" => c = 0
    BY DEF CInv, RefsInv, c
  <2> QED BY <1>1, <2>1, <2>2, <2>3, <2>5, <2>6 DEF CInv, RefsInv, c2
<1> QED BY <1>8, <1>9, <1>10, <1>11 DEF CInv

LEMMA MoveMessageKeeps == ASSUME CInv, MoveMessage PROVE CInv'
<1> USE DEF sockVars, protoVars, refVars, dispVars, ioVars
<1>0. PICK m : m = Head(toAdd)
  OBVIOUS
<1>1. /\ toAdd # <<>> /\ mstate' = [mstate EXCEPT ![m] = "ALLOCATED"]
      /\ auto' = Append(auto, m) /\ toAdd' = Tail(toAdd)
      /\ UNCHANGED <<conn, m_closeState, m_socketClosed, m_writeError, m_pendingRead,
                     m_pendingWrite, readOp, wire, m_protocol, proto, protoConn, client, buffer,
                     fresh, connRef, protoRef, tasks, timers, accepting, dpc, next, iopc, ioMsg>>
  BY <1>0 DEF MoveMessage
<1>2. /\ toAdd' \in Seq(Msgs) /\ m \in Msgs /\ Contains(toAdd, m) /\ ~Contains(auto, m)
      /\ \A n : Contains(toAdd', n) => Contains(toAdd, n)
      /\ NoTwice(toAdd') /\ ~Contains(toAdd', m)
  <2>1. toAdd \in Seq(Msgs) /\ NoTwice(toAdd)
    BY DEF CInv, Types, OwnersInv
  <2>2. /\ toAdd' \in Seq(Msgs) /\ m \in Msgs /\ Contains(toAdd, m)
        /\ \A n : Contains(toAdd', n) => Contains(toAdd, n)
        /\ NoTwice(toAdd') /\ ~Contains(toAdd', m)
    BY <1>0, <1>1, <2>1, TailMsg
  <2> QED BY <2>2 DEF CInv, OwnersInv
<1>3. /\ auto' \in Seq(Msgs) /\ NoTwice(auto')
      /\ \A n : Contains(auto', n) <=> Contains(auto, n) \/ n = m
  BY <1>1, <1>2, AppendMsg DEF CInv, Types, OwnersInv
<1>4. Held(m) /\ mstate[m] # "FREE"
  BY <1>2 DEF Held, CInv, OwnersInv
<1>5. /\ mstate' \in [Msgs -> {"FREE", "ALLOCATED", "ALLOCATED_NO_AUTOSEND"}]
      /\ mstate'[m] # "FREE" /\ \A n \in Msgs : n # m => mstate'[n] = mstate[n]
  BY <1>1, <1>2 DEF CInv, Types
<1>6. \A n \in Msgs : mstate'[n] = "FREE" <=> mstate[n] = "FREE"
  BY <1>4, <1>5
<1>7. Types'
  BY <1>1, <1>2, <1>3, <1>5 DEF CInv, Types
<1>8. LifeInv'
  BY <1>1, <1>6 DEF CInv, LifeInv, HandlersInv, NothingYet, ClosingInv, ReleasedOnce
<1>9. OwnersInv'
  <2>1. \A n : Held(n)' => Held(n)
    BY <1>1, <1>2, <1>3, <1>4 DEF Held
  <2>2. \A n : Leaving(n)' <=> Leaving(n)
    BY <1>1 DEF Leaving
  <2> QED BY <1>1, <1>2, <1>3, <1>6, <2>1, <2>2 DEF CInv, OwnersInv
<1>10. RefsInv'
  <2>1. Allocated' = Allocated
    BY <1>6 DEF Allocated
  <2> QED BY <1>1, <1>6, <2>1 DEF CInv, RefsInv
<1> QED BY <1>7, <1>8, <1>9, <1>10 DEF CInv

LEMMA DropMessageKeeps == ASSUME CInv, DropMessage PROVE CInv'
<1> USE DEF sockVars, protoVars, refVars, dispVars, ioVars
<1>0. PICK m : m = Head(toAdd)
  OBVIOUS
<1>1. /\ toAdd # <<>> /\ toAdd' = Tail(toAdd) /\ buffer' = OnSendMessage(m)
      /\ tasks' = Released(tasks, m)
      /\ UNCHANGED <<conn, m_closeState, m_socketClosed, m_writeError, m_pendingRead,
                     m_pendingWrite, readOp, wire, m_protocol, proto, protoConn, client, mstate,
                     auto, fresh, connRef, protoRef, timers, accepting, dpc, next, iopc, ioMsg>>
  BY <1>0 DEF DropMessage
<1>2. /\ toAdd' \in Seq(Msgs) /\ m \in Msgs /\ Contains(toAdd, m) /\ ~Contains(auto, m)
      /\ \A n : Contains(toAdd', n) => Contains(toAdd, n)
      /\ NoTwice(toAdd') /\ ~Contains(toAdd', m)
  <2>1. toAdd \in Seq(Msgs) /\ NoTwice(toAdd)
    BY DEF CInv, Types, OwnersInv
  <2>2. /\ toAdd' \in Seq(Msgs) /\ m \in Msgs /\ Contains(toAdd, m)
        /\ \A n : Contains(toAdd', n) => Contains(toAdd, n)
        /\ NoTwice(toAdd') /\ ~Contains(toAdd', m)
    BY <1>0, <1>1, <2>1, TailMsg
  <2> QED BY <2>2 DEF CInv, OwnersInv
<1>3. Held(m) /\ mstate[m] # "FREE" /\ m \notin wire /\ m # ioMsg /\ ~Releasing(tasks, m)
      /\ m # NoMsg
  BY <1>2, ConstantsAssumption DEF Held, CInv, OwnersInv, Leaving, ConstantsAssumption
<1>4. buffer' # m /\ buffer' \in Msgs \cup {NoMsg} /\ (buffer' = buffer \/ buffer' = NoMsg)
  BY <1>1, <1>3 DEF OnSendMessage, CInv, Types
<1>5. QueueOK(tasks) /\ \A k : Num(tasks, k) \in Nat
  BY NumIsNat DEF CInv, OwnersInv
<1>6. /\ More(tasks, tasks', {})
      /\ \A n : Releasing(tasks', n) => Releasing(tasks, n) \/ n = m
  BY <1>1, <1>2, <1>3, <1>5, ReleasedKeeps
<1>7. \A k \in TaskKind \ {"releaseMessage"} : Num(tasks', k) = Num(tasks, k)
  BY <1>5, <1>6 DEF More
<1>8. Types'
  BY <1>1, <1>2, <1>4 DEF CInv, Types
<1>9. LifeInv'
  <2>1. \A k \in TaskKind \ {"releaseMessage"} : Num(tasks', k) \in Nat /\ Num(tasks', k) <= Num(tasks, k)
    BY <1>5, <1>7
  <2> QED BY <1>1, <2>1, LifeKept DEF CInv, LifeInv, HandlersInv
<1>10. OwnersInv'
  <2>1. \A n \in Msgs : Held(n)' => Held(n) /\ n # m
    BY <1>1, <1>2, <1>4, ConstantsAssumption DEF Held, ConstantsAssumption
  <2>2. \A n : Leaving(n)' => Leaving(n) \/ n = m
    BY <1>1, <1>6 DEF Leaving
  <2>3. QueueOK(tasks')
    BY <1>6 DEF More
  <2> QED BY <1>1, <1>2, <1>3, <1>6, <2>1, <2>2, <2>3 DEF CInv, OwnersInv
<1>11. RefsInv'
  BY <1>1, <1>7, RefsKept DEF TaskKind, TimerKind
<1> QED BY <1>8, <1>9, <1>10, <1>11 DEF CInv

LEMMA SendMessageKeeps == ASSUME CInv, SendMessage PROVE CInv'
<1> USE DEF protoVars, refVars, dispVars, ioVars
<1>0. PICK m : m = auto[next]
  OBVIOUS
<1>1. /\ dpc = "sendAll" /\ next <= Len(auto) /\ ~ConnLocked /\ Send(m)
      /\ auto' = RemoveAt(auto, next) /\ tasks' = AfterSend(tasks, m)
      /\ UNCHANGED <<conn, m_closeState, m_socketClosed, m_writeError, m_pendingRead, readOp,
                     m_protocol, proto, protoConn, client, mstate, fresh, connRef, protoRef,
                     timers, accepting, dpc, next, iopc, ioMsg>>
  BY <1>0 DEF SendMessage
<1>2. /\ m \in Msgs /\ Contains(auto, m) /\ ~Contains(toAdd, m)
      /\ auto' \in Seq(Msgs) /\ NoTwice(auto') /\ ~Contains(auto', m)
      /\ \A n : Contains(auto', n) => Contains(auto, n)
  <2>1. auto \in Seq(Msgs) /\ NoTwice(auto) /\ next \in 1 .. Len(auto)
    BY <1>1 DEF CInv, Types, OwnersInv, LifeInv, HandlersInv
  <2>2. m \in Msgs /\ Contains(auto, m)
    BY <1>0, <2>1 DEF Contains
  <2>3. /\ auto' \in Seq(Msgs) /\ NoTwice(auto') /\ ~Contains(auto', m)
        /\ \A n : Contains(auto', n) => Contains(auto, n)
    BY <1>0, <1>1, <2>1, RemoveMsg
  <2> QED BY <2>2, <2>3 DEF CInv, OwnersInv
<1>3. Held(m) /\ mstate[m] # "FREE" /\ m \notin wire /\ m # ioMsg /\ ~Releasing(tasks, m)
      /\ m # NoMsg
  BY <1>2, ConstantsAssumption DEF Held, CInv, OwnersInv, Leaving, ConstantsAssumption
<1>4. QueueOK(tasks) /\ \A k : Num(tasks, k) \in Nat
  BY NumIsNat DEF CInv, OwnersInv
<1>5. /\ More(tasks, tasks', {})
      /\ \A n : Releasing(tasks', n) => Releasing(tasks, n) \/ (n = m /\ Refuses)
  BY <1>1, <1>2, <1>3, <1>4, AfterSendKeeps
<1>6. /\ QueueOK(tasks')
      /\ \A k \in TaskKind \ {"releaseMessage"} : Num(tasks', k) = Num(tasks, k)
  BY <1>4, <1>5 DEF More
<1>7. OnSendMessage(m) # m /\ OnSendMessage(m) \in {buffer, NoMsg}
  BY <1>3 DEF OnSendMessage
<1>8. /\ wire' \subseteq Msgs /\ m_pendingWrite' = Cardinality(wire')
      /\ toAdd' \in Seq(Msgs) /\ buffer' \in {buffer, NoMsg}
      /\ m_closeState = "CLOSING" => wire' = wire
      /\ OwnersInv'
  <2>1. CASE Refuses /\ buffer' = OnSendMessage(m) /\ UNCHANGED <<wire, m_pendingWrite, toAdd>>
    <3>1. \A n \in Msgs : Held(n)' => Held(n) /\ n # m
      BY <1>2, <1>7, <2>1, ConstantsAssumption DEF Held, ConstantsAssumption
    <3>2. \A n : Leaving(n)' => Leaving(n) \/ n = m
      BY <1>1, <1>5, <2>1 DEF Leaving
    <3>3. OwnersInv'
      BY <1>1, <1>2, <1>3, <1>5, <1>6, <2>1, <3>1, <3>2 DEF CInv, OwnersInv
    <3> QED BY <1>7, <2>1, <3>3 DEF CInv, Types
  <2>2. CASE /\ ~Refuses /\ SendsNow /\ buffer' = OnSendMessage(m) /\ wire' = wire \cup {m}
             /\ m_pendingWrite' = m_pendingWrite + 1 /\ UNCHANGED toAdd
    <3>1. wire = {} /\ wire' = {m} /\ m_pendingWrite' = Cardinality(wire')
      BY <1>3, <2>2, ConstantsAssumption, WireCount DEF SendsNow, CInv, Types
    <3>2. m_closeState # "CLOSING" /\ ~m_writeError
      BY <2>2 DEF Refuses
    <3>3. \A n \in Msgs : Held(n)' => Held(n) /\ n # m
      BY <1>2, <1>7, <2>2, ConstantsAssumption DEF Held, ConstantsAssumption
    <3>4. \A n : Leaving(n)' => Leaving(n) \/ n = m
      BY <1>1, <1>5, <2>2 DEF Leaving
    <3>5. \A n \in Msgs : Releasing(tasks', n) => n # m
      BY <1>3, <1>5, <2>2
    <3>6. OwnersInv'
      BY <1>1, <1>2, <1>3, <1>5, <1>6, <2>2, <3>1, <3>2, <3>3, <3>4, <3>5 DEF CInv, OwnersInv
    <3> QED BY <1>2, <1>7, <2>2, <3>1, <3>2, <3>6 DEF CInv, Types
  <2>3. CASE /\ ~Refuses /\ ~SendsNow /\ toAdd' = Append(toAdd, m)
             /\ UNCHANGED <<buffer, wire, m_pendingWrite>>
    <3>1. /\ toAdd' \in Seq(Msgs) /\ NoTwice(toAdd')
          /\ \A n : Contains(toAdd', n) <=> Contains(toAdd, n) \/ n = m
      BY <1>2, <2>3, AppendMsg DEF CInv, Types, OwnersInv
    <3>2. \A n : Held(n)' => Held(n)
      BY <1>2, <1>3, <2>3, <3>1 DEF Held
    <3>3. \A n : Leaving(n)' => Leaving(n)
      BY <1>1, <1>5, <2>3 DEF Leaving
    <3>4. OwnersInv'
      BY <1>1, <1>2, <1>3, <1>5, <1>6, <2>3, <3>1, <3>2, <3>3 DEF CInv, OwnersInv
    <3> QED BY <2>3, <3>1, <3>4 DEF CInv, Types
  <2> QED BY <1>1, <2>1, <2>2, <2>3 DEF Send
<1>9. Types'
  BY <1>1, <1>2, <1>8 DEF CInv, Types
<1>10. LifeInv'
  <2>1. \A k \in TaskKind \ {"releaseMessage"} : Num(tasks', k) \in Nat /\ Num(tasks', k) <= Num(tasks, k)
    BY <1>4, <1>6
  <2> QED BY <1>1, <1>8, <2>1, LifeKept DEF CInv, LifeInv, HandlersInv
<1>11. RefsInv'
  BY <1>1, <1>6, RefsKept DEF TaskKind, TimerKind
<1> QED BY <1>8, <1>9, <1>10, <1>11 DEF CInv

-----------------------------------------------------------------------------
(* The theorems.                                                           *)

LEMMA InitEstablishes == Init => CInv
<1> SUFFICES ASSUME Init PROVE CInv
  OBVIOUS
<1> USE DEF Init
<1>0. QueueOK(tasks) /\ \A k : Num(tasks, k) = 0
  <2>1. <<>> \in Seq(Tasks) /\ DOMAIN <<>> = {}
    OBVIOUS
  <2> QED BY <2>1, PositionsFinite DEF QueueOK
<1>1. Types
  <2>1. mstate \in [Msgs -> {"FREE", "ALLOCATED", "ALLOCATED_NO_AUTOSEND"}]
        /\ timers \in [TimerKind -> Nat]
    OBVIOUS
  <2>2. m_pendingWrite = Cardinality(wire) /\ wire \subseteq Msgs
    BY FS_EmptySet
  <2>3. auto \in Seq(Msgs) /\ toAdd \in Seq(Msgs)
    OBVIOUS
  <2> QED BY <2>1, <2>2, <2>3 DEF Types, Location
<1>2. LifeInv
  <2>1. timers["connect"] = 0 /\ timers["releaseConnection"] = 0 /\ timers["releaseProtocol"] = 0
    BY DEF TimerKind
  <2>2. HandlersInv
    BY <1>1 DEF HandlersInv, Types
  <2>3. NothingYet
    BY <1>0, <2>1 DEF NothingYet
  <2>4. ClosingInv
    BY <1>0 DEF ClosingInv
  <2>5. ReleasedOnce
    BY <1>0, <2>1 DEF ReleasedOnce
  <2> QED BY <2>2, <2>3, <2>4, <2>5 DEF LifeInv
<1>3. OwnersInv
  <2>1. \A m : ~Contains(<<>>, m)
    BY DEF Contains
  <2>2. \A m : ~Releasing(<<>>, m)
    BY DEF Releasing
  <2>3. NoTwice(<<>>)
    BY DEF NoTwice
  <2> QED BY <1>0, <2>1, <2>2, <2>3, ConstantsAssumption
          DEF OwnersInv, Held, Leaving, ConstantsAssumption
<1>4. RefsInv
  <2>1. \A m \in Msgs : mstate[m] = "FREE"
    OBVIOUS
  <2>2. Cardinality(Allocated) = 0
    BY <2>1, AllocatedCount
  <2> QED BY <1>0, <2>1, <2>2 DEF RefsInv, TimerKind
<1> QED BY <1>1, <1>2, <1>3, <1>4 DEF CInv

LEMMA NextKeeps == CInv /\ [Next]_vars => CInv'
<1> SUFFICES ASSUME CInv, [Next]_vars PROVE CInv'
  OBVIOUS
<1>1. CASE Accept
  BY <1>1, AcceptKeeps
<1>2. CASE IoStep
  BY <1>2, ReadEndsKeeps, ParseHeaderKeeps, ParseBadProtocolKeeps, ParseFirstKeeps, ReplyKeeps,
     ParseGameKeeps, ParseUnknownKeeps, KickKeeps, OnWriteOperationKeeps, HandlerReturnsKeeps
     DEF IoStep
<1>3. CASE TaskStep
  BY <1>3, CloseConnectionTaskKeeps, ReleaseConnectionKeeps, ReleaseProtocolKeeps,
     InternalReleaseMessageKeeps, LoginKeeps, ConnectKeeps, GameWritesKeeps, GameClosesKeeps,
     GameElsewhereKeeps DEF TaskStep
<1>4. CASE SendStep
  BY <1>4, QuietSteps, MoveMessageKeeps, DropMessageKeeps, SendMessageKeeps DEF SendStep
<1>5. CASE GameTask
  BY <1>5, GameTaskKeeps
<1>6. CASE StopServer \/ (\E m \in Msgs : Age(m)) \/ UNCHANGED vars
  BY <1>6, QuietSteps
<1>7. CASE \E k \in TimerKind : Timer(k)
  BY <1>7, TimerKeeps
<1> QED BY <1>1, <1>2, <1>3, <1>4, <1>5, <1>6, <1>7 DEF Next

\* The invariant behind the theorems below: who owns a message, what the references
\* count, what is queued once, and what a handler that waits can rely on.
THEOREM OwnershipInductive == Spec => []CInv
<1>1. Init => CInv
  BY InitEstablishes
<1>2. CInv /\ [Next]_vars => CInv'
  BY NextKeeps
<1> QED BY <1>1, <1>2, PTL DEF Spec

LEMMA OwnershipSuffices == CInv => ObjectsOutliveUse
<1> SUFFICES ASSUME CInv PROVE ObjectsOutliveUse
  OBVIOUS
<1>1. QueueOK(tasks) /\ tasks \in Seq(Tasks)
  BY DEF CInv, OwnersInv, QueueOK
<1>2. /\ \A k : Num(tasks, k) \in Nat
      /\ \A k : Queued(k) => Num(tasks, k) # 0
      /\ \A k : Pending(k) = Num(tasks, k) + timers[k]
      /\ Num(tasks, "close") = Cardinality({i \in DOMAIN tasks : tasks[i].kind = "close"})
  BY <1>1, PositionsFinite DEF Queued, Pending, Num, Positions
<1>3. \A k \in TimerKind : timers[k] \in Nat
  BY DEF CInv, Types
<1>4. TypeOK
  <2>1. /\ Cardinality({i \in DOMAIN tasks : tasks[i].kind = "close"}) <= 1
        /\ (\E i \in DOMAIN tasks : tasks[i].kind = "close") => m_closeState = "REQUESTED"
    <3>1. (\E i \in DOMAIN tasks : tasks[i].kind = "close") => Num(tasks, "close") # 0
      BY <1>2 DEF Queued
    <3>2. Num(tasks, "close") \in Nat
      BY <1>2
    <3> QED BY <1>2, <3>1, <3>2 DEF CInv, LifeInv, ClosingInv
  <2> QED BY <1>1, <2>1 DEF TypeOK, CInv, Types
<1>5. LoginHasConnection
  BY <1>2 DEF LoginHasConnection, CInv, LifeInv, NothingYet, ClosingInv, HandlersInv
<1>6. Allocated = {} <=> \A m \in Msgs : mstate[m] = "FREE"
  BY DEF Allocated
<1>7. ConnectionOutlivesUse
  <2>1. Pending("releaseConnection") <= 1
    BY <1>2 DEF CInv, LifeInv, ReleasedOnce
  <2>2. ASSUME conn = "deleted"
        PROVE  /\ m_pendingRead = 0 /\ wire = {} /\ ~ConnLocked
               /\ ~Queued("close") /\ Pending("releaseConnection") = 0
               /\ Allocated = {}
               /\ ~protoConn
    <3>1. m_closeState = "CLOSING" /\ wire = {} /\ readOp = "none"
      BY <2>2 DEF CInv, LifeInv, ReleasedOnce
    <3>2. m_pendingRead = 0 /\ ~ConnLocked /\ ~protoConn
      BY <3>1 DEF CInv, Types, LifeInv, HandlersInv, ClosingInv, ConnLocked
    <3>3. ~Queued("close")
      BY <1>4, <3>1 DEF Queued, TypeOK
    <3>4. Pending("releaseConnection") = 0 /\ Allocated = {}
      BY <1>2, <1>6, <2>2 DEF CInv, LifeInv, ReleasedOnce, RefsInv
    <3> QED BY <3>1, <3>2, <3>3, <3>4
  <2> QED BY <2>1, <2>2 DEF ConnectionOutlivesUse
<1>8. ProtocolOutlivesUse
  <2>1. Pending("releaseProtocol") <= 1
    BY <1>2 DEF CInv, LifeInv, ReleasedOnce
  <2>2. ASSUME proto = "deleted"
        PROVE  /\ ~Queued("login")
               /\ Pending("connect") + Pending("releaseProtocol") = 0
               /\ Allocated = {}
               /\ ~m_protocol
               /\ ~client
    <3>1. m_closeState = "CLOSING"
      BY <2>2 DEF CInv, LifeInv, ReleasedOnce
    <3>2. ~m_protocol /\ ~Queued("login")
      BY <1>2, <3>1 DEF CInv, LifeInv, ClosingInv
    <3>3. Pending("connect") = 0 /\ Pending("releaseProtocol") = 0 /\ Allocated = {} /\ ~client
      BY <1>2, <1>6, <2>2 DEF CInv, LifeInv, ReleasedOnce, RefsInv
    <3> QED BY <3>2, <3>3
  <2> QED BY <2>1, <2>2 DEF ProtocolOutlivesUse
<1>9. ReferencesCounted
  <2>1. /\ Num(tasks, "connect") \in Nat /\ timers["connect"] \in Nat
        /\ Cardinality(Allocated) \in Nat
        /\ Pending("connect") = Num(tasks, "connect") + timers["connect"]
    BY <1>2, <1>3, AllocatedCount DEF TimerKind
  <2>2. connRef = Cardinality(Allocated)
    BY DEF CInv, RefsInv
  <2>3. accepting => protoRef = Cardinality(Allocated) + Num(tasks, "connect") + timers["connect"]
    BY DEF CInv, RefsInv
  <2>4. accepting => protoRef = Cardinality(Allocated) + Pending("connect")
    BY <2>1, <2>3
  <2> QED BY <2>2, <2>4 DEF ReferencesCounted
<1> QED BY <1>4, <1>5, <1>7, <1>8, <1>9 DEF ObjectsOutliveUse

\* A Connection or a Protocol is never used, and never released again, once it is
\* deleted (connection.cpp releaseConnection, protocol.cpp deleteProtocolTask), and the
\* references are those of the messages and events there are.
THEOREM UseEndsBeforeDelete == Spec => []ObjectsOutliveUse
BY OwnershipInductive, OwnershipSuffices, PTL

\* The io thread never touches m_toAddQueue: its one message is the first of the
\* connection.
LEMMA ToAddQueueKept == ASSUME CInv, IoStep PROVE toAdd' = toAdd
<1> USE DEF poolVars
<1>1. CASE Reply
  BY <1>1, ReplyKeeps
<1>2. CASE ReadEnds \/ ParseHeader \/ ParseBadProtocol \/ ParseGame \/ ParseUnknown \/ Kick
           \/ HandlerReturns
  BY <1>2 DEF ReadEnds, ParseHeader, ParseBadProtocol, ParseGame, ParseUnknown, Kick, HandlerReturns
<1>3. ASSUME NEW kind \in Packets, ParseFirst(kind) PROVE toAdd' = toAdd
  BY <1>3 DEF ParseFirst
<1>4. ASSUME NEW m \in Msgs, NEW error \in BOOLEAN, OnWriteOperation(m, error)
      PROVE  toAdd' = toAdd
  BY <1>4 DEF OnWriteOperation
<1> QED BY <1>1, <1>2, <1>3, <1>4 DEF IoStep

LEMMA WireAlone == CInv => WireIsPrivate
<1> SUFFICES ASSUME CInv PROVE WireIsPrivate
  OBVIOUS
<1>1. Cardinality(wire) <= 1
  <2>1. CASE wire = {}
    BY <2>1, FS_EmptySet
  <2>2. CASE wire # {}
    <3>1. PICK m \in wire : TRUE
      BY <2>2
    <3>2. wire = {m}
      BY <3>1 DEF CInv, OwnersInv
    <3> QED BY <3>2, FS_Singleton
  <2> QED BY <2>1, <2>2
<1>2. \A m \in wire : ~Held(m)
  BY DEF CInv, OwnersInv, Leaving, Types
<1> QED BY <1>1, <1>2 DEF WireIsPrivate

\* No step writes into a message the socket is sending, and m_toAddQueue, used without
\* its lock in Connection::send, is used by the dispatcher's thread alone.
THEOREM BuffersStayPrivate == Spec => BuffersPrivate
<1>1. CInv => WireIsPrivate
  BY WireAlone
<1>2. CInv /\ WireIsPrivate' /\ [Next]_vars => [WireIsPrivate' /\ ToAddQueueConfined]_vars
  BY ToAddQueueKept DEF ToAddQueueConfined
<1> QED BY <1>1, <1>2, OwnershipInductive, PTL DEF Spec, BuffersPrivate

\* kickPlayer on the io thread is the one call that can wait for the pool while the
\* dispatcher's thread waits for the connection: as long as no client sends a header
\* parsePacket does not know, the two locks are never waited for in a circle.
THEOREM LocksInOrder == ASSUME "unknown" \notin Packets PROVE Spec => []NoLockCycle
<1> DEFINE NoKick == iopc # "kick"
<1>1. Init => NoKick
  BY DEF Init
<1>2. NoKick /\ [Next]_vars => NoKick'
  <2> SUFFICES ASSUME NoKick, [Next]_vars PROVE NoKick'
    OBVIOUS
  <2> USE DEF ioVars
  <2>1. CASE Accept
    BY <2>1 DEF Accept
  <2>2. CASE IoStep
    <3>1. ASSUME NEW kind \in Packets, ParseFirst(kind) PROVE NoKick'
      BY <3>1 DEF ParseFirst
    <3>2. ~ParseUnknown
      BY DEF ParseUnknown, CanParse
    <3>3. ASSUME NEW m \in Msgs, NEW error \in BOOLEAN, OnWriteOperation(m, error) PROVE NoKick'
      BY <3>3 DEF OnWriteOperation
    <3> QED BY <2>2, <3>1, <3>2, <3>3
            DEF IoStep, ReadEnds, ParseHeader, ParseBadProtocol, Reply, ParseGame, Kick,
                HandlerReturns
  <2>3. CASE TaskStep
    BY <2>3 DEF TaskStep, RunTask, CloseConnectionTask, ReleaseConnection, ReleaseProtocol,
                InternalReleaseMessage, Login, Connect, GameWrites, GameCloses, GameElsewhere
  <2>4. CASE SendStep
    BY <2>4 DEF SendStep, BeginSendAll, MoveMessage, DropMessage, BeginSending, SkipMessage,
                SendMessage, EndSendAll
  <2>5. CASE GameTask \/ StopServer
    BY <2>5 DEF GameTask, StopServer
  <2>6. CASE \E k \in TimerKind : Timer(k)
    BY <2>6 DEF Timer
  <2>7. CASE \E m \in Msgs : Age(m)
    BY <2>7 DEF Age
  <2>8. CASE UNCHANGED vars
    BY <2>8 DEF vars
  <2> QED BY <2>1, <2>2, <2>3, <2>4, <2>5, <2>6, <2>7, <2>8 DEF Next
<1>3. CInv /\ NoKick => NoLockCycle
  <2> SUFFICES ASSUME CInv, NoKick, iopc = "reply", next <= Len(auto) PROVE FALSE
    BY DEF NoLockCycle
  <2>1. \A m \in Msgs : mstate[m] = "FREE"
    BY DEF CInv, LifeInv, NothingYet
  <2>2. next \in 1 .. Len(auto) /\ auto \in Seq(Msgs)
    BY DEF CInv, Types, LifeInv, HandlersInv
  <2>3. auto[next] \in Msgs /\ Contains(auto, auto[next])
    BY <2>2 DEF Contains
  <2> QED BY <2>1, <2>3 DEF CInv, OwnersInv, Held
<1> QED BY <1>1, <1>2, <1>3, OwnershipInductive, PTL DEF Spec
=============================================================================
