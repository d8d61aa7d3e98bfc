------------------------- MODULE ReplicationStream -------------------------
(***************************************************************************)
(* Every reachable state of Replication is well typed; and what each step  *)
(* does to the stream of one replica, from PSYNC to the last write it ran. *)
(***************************************************************************)
EXTENDS Replication, WellFoundedInduction, TLAPS

----------------------------------------------------------------------------
(* Induction up to a bound, stated of a set.                               *)

Less == {p \in Nat \X Nat : p[1] < p[2]}

LEMMA BoundedInduction ==
    ASSUME NEW n \in Nat, NEW T, 0 \in T, \A i \in 1..n : i - 1 \in T => i \in T
    PROVE  0..n \subseteq T
<1> DEFINE Left == {i \in 0..n : i \notin T}
<1>1. SUFFICES ASSUME Left # {} PROVE FALSE
  OBVIOUS
<1>2. IsWellFoundedOn(Less, Nat)
  BY NatLessThanWellFounded DEF Less, OpToRel
<1>3. Left \subseteq Nat
  OBVIOUS
<1>4. PICK x \in Left : \A y \in Left : ~(<<y, x>> \in Less)
  <2> HIDE DEF Left
  <2> QED
    BY <1>1, <1>2, <1>3, WFMin, Zenon
<1>5. x \in 1..n /\ x - 1 \in 0..n /\ <<x - 1, x>> \in Nat \X Nat /\ x - 1 < x
  OBVIOUS
<1>6. x - 1 \notin Left
  BY <1>4, <1>5 DEF Less
<1> QED
  BY <1>5, <1>6

----------------------------------------------------------------------------
(* Parts of a sequence.                                                    *)

LEMMA SuffixFacts ==
    ASSUME NEW S, NEW q \in Seq(S), NEW k \in 0..Len(q)
    PROVE  LET s == SubSeq(q, k + 1, Len(q))
           IN  s \in Seq(S) /\ Len(s) = Len(q) - k /\ \A i \in 1..(Len(q) - k) : s[i] = q[i + k]
<1>1. \A i \in (k + 1)..Len(q) : q[i] \in S
  OBVIOUS
<1> QED
  BY <1>1

LEMMA PrefixFacts ==
    ASSUME NEW S, NEW q \in Seq(S), NEW k \in 0..Len(q)
    PROVE  LET s == SubSeq(q, 1, k)
           IN  s \in Seq(S) /\ Len(s) = k /\ \A i \in 1..k : s[i] = q[i]
<1>1. \A i \in 1..k : q[i] \in S
  OBVIOUS
<1> QED
  BY <1>1

LEMMA ConcatFacts ==
    ASSUME NEW p \in Seq(ToReplica), NEW q \in Seq(ToReplica)
    PROVE  /\ p \o q \in Seq(ToReplica) /\ Len(p \o q) = Len(p) + Len(q)
           /\ \A i \in 1..Len(p) : (p \o q)[i] = p[i]
           /\ \A i \in 1..Len(q) : (p \o q)[Len(p) + i] = q[i]
  OBVIOUS

LEMMA AckConcat ==
    ASSUME NEW p \in Seq(ToMaster), NEW q \in Seq(ToMaster)
    PROVE  /\ p \o q \in Seq(ToMaster) /\ Len(p \o q) = Len(p) + Len(q)
           /\ \A i \in 1..Len(p) : (p \o q)[i] = p[i]
           /\ \A i \in 1..Len(q) : (p \o q)[Len(p) + i] = q[i]
  OBVIOUS

LEMMA TailFacts ==
    ASSUME NEW S, NEW q \in Seq(S), q # <<>>
    PROVE  /\ Head(q) = q[1] /\ Head(q) \in S /\ Len(q) >= 1 /\ Len(q) \in Nat
           /\ Tail(q) \in Seq(S) /\ Len(Tail(q)) = Len(q) - 1
           /\ \A i \in 1..(Len(q) - 1) : Tail(q)[i] = q[i + 1]
  OBVIOUS

LEMMA LastOrBefore ==
    ASSUME NEW k \in Nat
    PROVE  \A i \in 1..(k + 1) : i = k + 1 \/ i \in 1..k
  OBVIOUS

LEMMA SameSeq ==
    ASSUME NEW S, NEW p \in Seq(S), NEW q \in Seq(S), Len(p) = Len(q), \A i \in 1..Len(p) : p[i] = q[i]
    PROVE  p = q
  OBVIOUS

LEMMA ConcatAppend ==
    ASSUME NEW p \in Seq(ToReplica), NEW q \in Seq(ToReplica), NEW m \in ToReplica
    PROVE  p \o q \in Seq(ToReplica) /\ p \o Append(q, m) = Append(p \o q, m)
<1> DEFINE a == Append(q, m)
           l == p \o a
           s == p \o q
           t == Append(s, m)
<1>1. s \in Seq(ToReplica) /\ Len(s) = Len(p) + Len(q) /\ Len(p) \in Nat /\ Len(q) \in Nat
  BY ConcatFacts
<1>2. a \in Seq(ToReplica) /\ Len(a) = Len(q) + 1 /\ a[Len(q) + 1] = m /\ \A i \in 1..Len(q) : a[i] = q[i]
  OBVIOUS
<1> HIDE DEF a
<1>3. /\ l \in Seq(ToReplica) /\ Len(l) = Len(p) + Len(q) + 1
      /\ \A i \in 1..Len(p) : l[i] = p[i]
      /\ \A i \in 1..Len(a) : l[Len(p) + i] = a[i]
  <2>1. Len(l) = Len(p) + Len(a)
    BY <1>2, ConcatFacts, Zenon
  <2>2. l \in Seq(ToReplica) /\ \A i \in 1..Len(p) : l[i] = p[i]
    BY <1>2, ConcatFacts, Zenon
  <2>3. \A i \in 1..Len(a) : l[Len(p) + i] = a[i]
    BY <1>2, ConcatFacts
  <2> QED
    BY <1>1, <1>2, <2>1, <2>2, <2>3
<1>4. t \in Seq(ToReplica) /\ Len(t) = Len(s) + 1 /\ t[Len(s) + 1] = m /\ \A i \in 1..Len(s) : t[i] = s[i]
  BY <1>1
<1>5. /\ \A i \in 1..Len(p) : s[i] = p[i]
      /\ \A i \in 1..Len(q) : s[Len(p) + i] = q[i]
  BY ConcatFacts
<1> HIDE DEF l, s, t
<1>6. ASSUME NEW i \in 1..Len(l) PROVE l[i] = t[i]
  <2>1. CASE i \in 1..Len(p)
    BY <1>1, <1>3, <1>4, <1>5, <2>1
  <2>2. CASE i \notin 1..Len(p)
    <3> DEFINE j == i - Len(p)
    <3>1. j \in 1..(Len(q) + 1) /\ i = Len(p) + j
      BY <1>1, <1>3, <2>2
    <3> HIDE DEF j
    <3>2. l[i] = a[j]
      BY <1>2, <1>3, <3>1
    <3>3. CASE j = Len(q) + 1
      BY <1>1, <1>2, <1>4, <3>1, <3>2, <3>3
    <3>4. CASE j \in 1..Len(q)
      <4>1. a[j] = q[j] /\ s[i] = q[j] /\ i \in 1..Len(s)
        BY <1>1, <1>2, <1>5, <3>1, <3>4
      <4> QED
        BY <1>4, <3>2, <4>1
    <3> QED
      BY <1>1, <3>1, <3>3, <3>4, LastOrBefore
  <2> QED
    BY <2>1, <2>2
<1>7. Len(l) = Len(t)
  BY <1>1, <1>3, <1>4
<1>8. l = t
  BY <1>3, <1>4, <1>6, <1>7, SameSeq
<1> QED
  BY <1>1, <1>8 DEF l, s, t, a

LEMMA ConcatTwo ==
    ASSUME NEW p \in Seq(ToReplica), NEW g \in ToReplica, NEW w \in ToReplica
    PROVE  p \o <<g, w>> = Append(Append(p, g), w)
<1> DEFINE d == <<g, w>>
           l == p \o d
           a == Append(p, g)
           t == Append(a, w)
<1>1. d \in Seq(ToReplica) /\ Len(d) = 2 /\ d[1] = g /\ d[2] = w
  OBVIOUS
<1>2. Len(p) \in Nat /\ a \in Seq(ToReplica) /\ Len(a) = Len(p) + 1 /\ a[Len(p) + 1] = g
      /\ \A i \in 1..Len(p) : a[i] = p[i]
  OBVIOUS
<1> HIDE DEF d, a
<1>3. /\ l \in Seq(ToReplica) /\ Len(l) = Len(p) + 2
      /\ \A i \in 1..Len(p) : l[i] = p[i]
      /\ \A i \in 1..2 : l[Len(p) + i] = d[i]
  <2>1. /\ l \in Seq(ToReplica) /\ Len(l) = Len(p) + Len(d)
        /\ \A i \in 1..Len(p) : l[i] = p[i]
    BY <1>1, ConcatFacts, Zenon
  <2>2. \A i \in 1..Len(d) : l[Len(p) + i] = d[i]
    BY <1>1, ConcatFacts
  <2> HIDE DEF l
  <2> QED
    BY <1>1, <2>1, <2>2
<1>4. /\ t \in Seq(ToReplica) /\ Len(t) = Len(p) + 2 /\ t[Len(p) + 2] = w
      /\ \A i \in 1..(Len(p) + 1) : t[i] = a[i]
  BY <1>2
<1> HIDE DEF l, t
<1>5. ASSUME NEW i \in 1..Len(l) PROVE l[i] = t[i]
  <2>1. CASE i \in 1..Len(p)
    BY <1>2, <1>3, <1>4, <2>1
  <2>2. CASE i = Len(p) + 1
    <3>1. l[Len(p) + 1] = d[1] /\ t[Len(p) + 1] = a[Len(p) + 1]
      BY <1>2, <1>3, <1>4
    <3> QED
      BY <1>1, <1>2, <2>2, <3>1
  <2>3. CASE i = Len(p) + 2
    <3>1. l[Len(p) + 2] = d[2]
      BY <1>3
    <3> QED
      BY <1>1, <1>4, <2>3, <3>1
  <2> QED
    BY <1>2, <1>3, <2>1, <2>2, <2>3
<1>6. l = t
  BY <1>3, <1>4, <1>5, SameSeq
<1> QED
  BY <1>6 DEF l, t, a, d

LEMMA ConcatAssoc ==
    ASSUME NEW a \in Seq(ToReplica), NEW b \in Seq(ToReplica), NEW c \in Seq(ToReplica)
    PROVE  (a \o b) \o c = a \o (b \o c)
<1> DEFINE ab == a \o b
           bc == b \o c
           l == ab \o c
           t == a \o bc
<1>1. Len(a) \in Nat /\ Len(b) \in Nat /\ Len(c) \in Nat
  OBVIOUS
<1>2. /\ ab \in Seq(ToReplica) /\ Len(ab) = Len(a) + Len(b)
      /\ \A i \in 1..Len(a) : ab[i] = a[i]
      /\ \A i \in 1..Len(b) : ab[Len(a) + i] = b[i]
  BY ConcatFacts
<1>3. /\ bc \in Seq(ToReplica) /\ Len(bc) = Len(b) + Len(c)
      /\ \A i \in 1..Len(b) : bc[i] = b[i]
      /\ \A i \in 1..Len(c) : bc[Len(b) + i] = c[i]
  BY ConcatFacts
<1> HIDE DEF ab, bc
<1>4. l \in Seq(ToReplica) /\ Len(l) = Len(ab) + Len(c) /\ \A i \in 1..Len(ab) : l[i] = ab[i]
  BY <1>2, ConcatFacts, Zenon
<1>5. \A i \in 1..Len(c) : l[Len(ab) + i] = c[i]
  BY <1>2, ConcatFacts
<1>6. t \in Seq(ToReplica) /\ Len(t) = Len(a) + Len(bc) /\ \A i \in 1..Len(a) : t[i] = a[i]
  BY <1>3, ConcatFacts, Zenon
<1>7. \A i \in 1..Len(bc) : t[Len(a) + i] = bc[i]
  BY <1>3, ConcatFacts
<1> HIDE DEF l, t
<1>8. ASSUME NEW i \in 1..Len(l) PROVE l[i] = t[i]
  <2>1. i \in Nat /\ i >= 1 /\ i <= Len(a) + Len(b) + Len(c)
    BY <1>1, <1>2, <1>4
  <2>2. CASE i <= Len(a)
    BY <1>1, <1>2, <1>4, <1>6, <2>1, <2>2
  <2>3. CASE i > Len(a) /\ i <= Len(a) + Len(b)
    <3> DEFINE j == i - Len(a)
    <3>1. j \in 1..Len(b) /\ j \in 1..Len(bc) /\ i = Len(a) + j /\ i \in 1..Len(ab)
      BY <1>1, <1>2, <1>3, <2>1, <2>3
    <3> HIDE DEF j
    <3>2. l[i] = b[j] /\ t[i] = b[j]
      BY <1>2, <1>3, <1>4, <1>7, <3>1
    <3> QED
      BY <3>2
  <2>4. CASE i > Len(a) + Len(b)
    <3> DEFINE j == i - (Len(a) + Len(b))
    <3>1. /\ j \in 1..Len(c) /\ Len(b) + j \in 1..Len(bc) /\ i = Len(ab) + j
          /\ i = Len(a) + (Len(b) + j)
      BY <1>1, <1>2, <1>3, <2>1, <2>4
    <3> HIDE DEF j
    <3>2. l[i] = c[j]
      BY <1>5, <3>1
    <3>3. t[i] = bc[Len(b) + j] /\ bc[Len(b) + j] = c[j]
      BY <1>3, <1>7, <3>1, Zenon
    <3> QED
      BY <3>2, <3>3
  <2> QED
    BY <1>1, <2>1, <2>2, <2>3, <2>4
<1>9. Len(l) = Len(t)
  BY <1>1, <1>2, <1>3, <1>4, <1>6
<1>10. l = t
  BY <1>4, <1>6, <1>8, <1>9, SameSeq
<1> QED
  BY <1>10 DEF l, t, ab, bc

LEMMA OneLeft ==
    ASSUME NEW q \in Seq(ToMaster), q # <<>>, Len(q) <= 1
    PROVE  Len(q) = 1 /\ Tail(q) = <<>> /\ Head(q) = q[1]
<1>1. \A k \in Nat : k >= 1 /\ k <= 1 => k = 1 /\ k - 1 = 0
  OBVIOUS
<1>2. /\ Len(q) \in Nat /\ Len(q) >= 1 /\ Head(q) = q[1]
      /\ Tail(q) \in Seq(ToMaster) /\ Len(Tail(q)) = Len(q) - 1
  BY TailFacts
<1>3. Len(q) = 1 /\ Len(Tail(q)) = 0
  BY <1>1, <1>2, Zenon
<1>4. \A s \in Seq(ToMaster) : Len(s) = 0 => s = <<>>
  OBVIOUS
<1>5. Tail(q) = <<>>
  BY <1>2, <1>3, <1>4, Zenon
<1> QED
  BY <1>2, <1>3, <1>5

----------------------------------------------------------------------------
(* Types.                                                                  *)

Waiting == [client_fd : Clients, numreplicas : Int, target_offset : Nat, deadline : Int]
Requests == [num : Int, upto : Nat, all : Nat]

\* The types of the master's own state, and of the connections.
MasterTypes ==
    /\ master_offset \in Nat
    /\ Attached \subseteq Replicas /\ replicas \in [Attached -> Nat]
    /\ wait_state \in Waiting \cup {None}
LoopTypes == now \in Nat /\ sleeping \in BOOLEAN /\ alarm \in Int \cup {Forever}
LinkTypes ==
    /\ toReplica \in [Replicas -> Seq(ToReplica)] /\ toMaster \in [Replicas -> Seq(ToMaster)]
    /\ node \in [Replicas -> Node]
    /\ applied \in [Replicas -> Nat] /\ asked \in [Replicas -> Nat]
ClientTypes ==
    /\ awaiting \in [Clients -> Requests \cup {None}]
    /\ faults \subseteq Noted

CoreTypes == MasterTypes /\ LoopTypes /\ LinkTypes /\ ClientTypes
JoinTypes == written \in BOOLEAN /\ missed \in [Replicas -> BOOLEAN]

LEMMA TypeParts == TypeOK <=> MasterTypes /\ LoopTypes /\ LinkTypes /\ ClientTypes /\ JoinTypes
  BY Zenon DEF TypeOK, MasterTypes, LoopTypes, LinkTypes, ClientTypes, JoinTypes, Waiting, Requests

LEMMA TypePartsNext == CoreTypes' /\ JoinTypes' => TypeOK'
  BY DEF TypeOK, CoreTypes, MasterTypes, LoopTypes, LinkTypes, ClientTypes, JoinTypes, Waiting, Requests,
         Attached

LEMMA InitTypes == Init => TypeOK
<1> SUFFICES ASSUME Init PROVE TypeOK
  OBVIOUS
<1>1. Attached = {} /\ replicas \in [Attached -> Nat]
  BY DEF Init, Attached
<1>2. Fresh("off") \in Node
  BY DEF Fresh, Node, Phases
<1>3. MasterTypes /\ LoopTypes /\ ClientTypes
  BY <1>1, Zenon DEF Init, MasterTypes, LoopTypes, ClientTypes
<1>4. LinkTypes
  BY <1>2 DEF Init, LinkTypes
<1>5. JoinTypes
  BY Zenon DEF Init, JoinTypes
<1> QED
  BY <1>3, <1>4, <1>5, TypeParts

\* A step of the event loop other than compute_timeout.
LEMMA AwakeTypes ==
    ASSUME LoopTypes, WakeLoop, now' = now
    PROVE  LoopTypes'
  BY Zenon DEF LoopTypes, WakeLoop

LEMMA MessageTypes ==
    ASSUME NEW n \in Nat
    PROVE  /\ \A t \in {"pong", "ok", "fullresync", "rdb", "write", "getack"} : Message(t, n) \in ToReplica
           /\ \A t \in {"ping", "replconf", "psync", "ack"} : Message(t, n) \in ToMaster
  BY DEF Message, ToReplica, ToMaster

LEMMA AnswerTypes ==
    ASSUME ClientTypes, NEW c \in Clients, NEW req, NEW n, Answer(c, req, n)
    PROVE  ClientTypes'
  BY DEF ClientTypes, Answer

LEMMA AskTypes ==
    ASSUME MasterTypes, ClientTypes, NEW c \in Clients, NEW num \in NumReplicas, NEW t \in Timeouts,
           NEW all \in Nat, now \in Nat
    PROVE  start_wait(c, num, t) \in Waiting /\ Request(num, master_offset, all) \in Requests
  BY ReplicationAssumption DEF MasterTypes, start_wait, Waiting, Request, Requests

\* When epoll_wait ends is a time or never, whatever the int wraps around to.
LEMMA WakeTimeType ==
    ASSUME NEW d \in Int \cup {Forever}, NEW t \in Nat
    PROVE  WakeTime(d, t) \in Int \cup {Forever}
<1>1. TimeoutMs(d, t) \in Int
  BY EventLoopAssumption DEF TimeoutMs
<1>2. \A ms \in Int : ToInt(ms) \in Int
  BY EventLoopAssumption DEF ToInt
<1> QED
  BY <1>1, <1>2 DEF WakeTime, EpollTimeout

LEMMA WriteTypes == ASSUME TypeOK, Write PROVE CoreTypes'
<1> MasterTypes /\ LoopTypes /\ LinkTypes /\ ClientTypes
  BY TypeParts
<1>1. master_offset' \in Nat
  BY ReplicationAssumption DEF MasterTypes, Write
<1>2. MasterTypes'
  BY <1>1 DEF MasterTypes, Write, Attached
<1>3. LoopTypes'
  BY AwakeTypes DEF Write
<1>4. toReplica' \in [Replicas -> Seq(ToReplica)]
  BY <1>1, MessageTypes DEF LinkTypes, Write, SendAll
<1>5. LinkTypes'
  BY <1>4 DEF LinkTypes, Write
<1>6. ClientTypes'
  BY DEF ClientTypes, Write
<1> QED
  BY <1>2, <1>3, <1>5, <1>6 DEF CoreTypes

LEMMA WaitTypes ==
    ASSUME TypeOK, NEW c \in Clients, NEW num \in NumReplicas, NEW t \in Timeouts,
           Wait(c, num, t) \/ WriteThenWait(c, num, t)
    PROVE  CoreTypes'
<1> MasterTypes /\ LoopTypes /\ LinkTypes /\ ClientTypes
  BY TypeParts
<1>1. master_offset \in Nat /\ master_offset' \in Nat /\ now \in Nat
  BY ReplicationAssumption DEF MasterTypes, LoopTypes, Wait, WriteThenWait
<1>2. /\ start_wait(c, num, t) \in Waiting
      /\ Request(num, master_offset, master_offset) \in Requests
      /\ Request(num, master_offset, master_offset') \in Requests
  BY <1>1, AskTypes
<1>3. /\ replicas' = replicas /\ now' = now /\ WakeLoop /\ toMaster' = toMaster
      /\ node' = node /\ applied' = applied
      /\ wait_state' \in {wait_state, start_wait(c, num, t)}
  BY DEF Wait, WriteThenWait
<1>4. MasterTypes'
  BY <1>1, <1>2, <1>3 DEF MasterTypes, Attached
<1>5. LoopTypes'
  BY <1>3, AwakeTypes
<1>6. asked' \in [Replicas -> Nat]
  <2>1. asked' = asked \/ AskAll
    BY DEF Wait, WriteThenWait
  <2> QED
    <3>1. asked \in [Replicas -> Nat]
      BY DEF LinkTypes
    <3> QED
      BY <2>1, <3>1 DEF AskAll
<1>7. \A r \in Replicas : GetAck(r) \in ToReplica
  BY MessageTypes DEF LinkTypes, GetAck
<1>8. Message("write", master_offset') \in ToReplica
  BY <1>1, MessageTypes
<1>9. toReplica' \in [Replicas -> Seq(ToReplica)]
  <2>1. ASSUME NEW r \in Replicas
        PROVE  /\ Append(toReplica[r], GetAck(r)) \in Seq(ToReplica)
               /\ toReplica[r] \o <<GetAck(r), Message("write", master_offset')>> \in Seq(ToReplica)
               /\ Append(toReplica[r], Message("write", master_offset')) \in Seq(ToReplica)
    BY <1>7, <1>8 DEF LinkTypes
  <2>2. toReplica \in [Replicas -> Seq(ToReplica)]
    BY DEF LinkTypes
  <2>3. \/ toReplica' = toReplica
        \/ toReplica' = SendAll(Message("write", master_offset'))
        \/ toReplica' = [r \in Replicas |-> IF r \in Attached THEN Append(toReplica[r], GetAck(r))
                                            ELSE toReplica[r]]
        \/ toReplica' = [r \in Replicas |->
                            IF r \in Attached
                            THEN toReplica[r] \o <<GetAck(r), Message("write", master_offset')>>
                            ELSE toReplica[r]]
    BY Zenon DEF Wait, WriteThenWait
  <2> QED
    BY <2>1, <2>2, <2>3, Zenon DEF SendAll
<1>10. LinkTypes'
  BY <1>3, <1>6, <1>9 DEF LinkTypes
<1>11. ClientTypes'
  <2>1. CASE Satisfied(num)
    BY <2>1, AnswerTypes DEF Wait, WriteThenWait
  <2>2. CASE ~Satisfied(num)
    BY <2>2, <1>2 DEF Wait, WriteThenWait, ClientTypes
  <2> QED
    BY <2>1, <2>2
<1> QED
  BY <1>4, <1>5, <1>10, <1>11 DEF CoreTypes

LEMMA ReadTypes ==
    ASSUME TypeOK, NEW r \in Replicas, MasterReads(r)
    PROVE  CoreTypes'
<1> MasterTypes /\ LoopTypes /\ LinkTypes /\ ClientTypes
  BY TypeParts
<1>1. CASE HandshakeCommand(r)
  <2>1. toMaster[r] \in Seq(ToMaster) /\ toMaster[r] # <<>>
    BY <1>1 DEF HandshakeCommand, LinkTypes
  <2>2. Tail(toMaster[r]) \in Seq(ToMaster)
    BY <2>1
  <2>3. master_offset \in Nat
    BY DEF MasterTypes
  <2>4. /\ toReplica[r] \o <<Message("pong", 0)>> \in Seq(ToReplica)
        /\ toReplica[r] \o <<Message("ok", 0)>> \in Seq(ToReplica)
        /\ toReplica[r] \o <<Message("fullresync", master_offset), Message("rdb", 0)>> \in Seq(ToReplica)
    BY <2>3, MessageTypes DEF LinkTypes
  <2>5. toReplica' \in [Replicas -> Seq(ToReplica)]
    BY <1>1, <2>4 DEF HandshakeCommand, LinkTypes
  <2>6. applied' \in [Replicas -> Nat]
    BY <1>1, <2>3 DEF HandshakeCommand, LinkTypes
  <2>7. LinkTypes'
    BY <1>1, <2>2, <2>5, <2>6 DEF HandshakeCommand, LinkTypes
  <2>8. Attached' \subseteq Replicas /\ replicas' \in [Attached' -> Nat]
    BY <1>1 DEF HandshakeCommand, add_replica, MasterTypes, Attached
  <2>9. MasterTypes'
    BY <1>1, <2>8 DEF HandshakeCommand, MasterTypes
  <2>10. LoopTypes' /\ ClientTypes'
    BY <1>1, AwakeTypes DEF HandshakeCommand, clientVars, ClientTypes
  <2> QED
    BY <2>7, <2>9, <2>10 DEF CoreTypes
<1>2. ASSUME NEW n \in 1..Len(toMaster[r]), process_ack(r, n) PROVE CoreTypes'
  <2>1. toMaster[r] \in Seq(ToMaster) /\ toMaster[r][n] \in ToMaster
    BY <1>2 DEF LinkTypes
  <2>2. SubSeq(toMaster[r], n + 1, Len(toMaster[r])) \in Seq(ToMaster) /\ toMaster[r][n].n \in Nat
    <3>1. n \in 0..Len(toMaster[r])
      BY <2>1
    <3>2. SubSeq(toMaster[r], n + 1, Len(toMaster[r])) \in Seq(ToMaster)
      BY <2>1, <3>1, SuffixFacts
    <3> QED
      BY <2>1, <3>2 DEF ToMaster
  <2>3. LinkTypes'
    BY <1>2, <2>2 DEF process_ack, LinkTypes
  <2>4. Attached' = Attached /\ replicas' \in [Attached -> Nat]
    BY <1>2, <2>2 DEF process_ack, MasterTypes, Attached
  <2>5. MasterTypes'
    BY <1>2, <2>4 DEF process_ack, MasterTypes
  <2>6. LoopTypes'
    BY <1>2, AwakeTypes DEF process_ack
  <2>7. ClientTypes'
    <3>1. CASE UNCHANGED <<awaiting, faults>>
      BY <3>1 DEF ClientTypes
    <3>2. CASE wait_state # None /\ \E n1 : Answer(wait_state.client_fd, awaiting[wait_state.client_fd], n1)
      <4>1. wait_state.client_fd \in Clients
        BY <3>2 DEF MasterTypes, Waiting
      <4> QED
        BY <3>2, <4>1, AnswerTypes
    <3> QED
      BY <1>2, <3>1, <3>2 DEF process_ack
  <2> QED
    BY <2>3, <2>5, <2>6, <2>7 DEF CoreTypes
<1> QED
  BY <1>1, <1>2 DEF MasterReads

LEMMA RemoveTypes ==
    ASSUME TypeOK, NEW r \in Replicas, remove_replica(r)
    PROVE  CoreTypes'
<1> MasterTypes /\ LoopTypes /\ LinkTypes /\ ClientTypes
  BY TypeParts
<1> USE DEF remove_replica, CloseReplica
<1>1. Fresh("off") \in Node
  BY DEF Fresh, Node, Phases
<1>2. LinkTypes'
  BY <1>1 DEF LinkTypes
<1>3. Attached' \subseteq Replicas /\ replicas' \in [Attached' -> Nat]
  BY DEF MasterTypes, Attached
<1>4. MasterTypes'
  BY <1>3 DEF MasterTypes
<1>5. LoopTypes' /\ ClientTypes'
  BY AwakeTypes DEF ClientTypes, clientVars
<1> QED
  BY <1>2, <1>4, <1>5 DEF CoreTypes

LEMMA LoopStepTypes ==
    ASSUME TypeOK,
           \/ \E c \in Clients : Reconnect(c)
           \/ Loop \/ EpollReturns \/ Tick
    PROVE  CoreTypes'
<1> MasterTypes /\ LoopTypes /\ LinkTypes /\ ClientTypes
  BY TypeParts
<1>1. ASSUME NEW c \in Clients, Reconnect(c) PROVE CoreTypes'
  <2>1. LoopTypes'
    BY <1>1, AwakeTypes DEF Reconnect
  <2>2. MasterTypes' /\ LinkTypes' /\ ClientTypes'
    BY <1>1 DEF Reconnect, MasterTypes, LinkTypes, ClientTypes, Attached
  <2> QED
    BY <2>1, <2>2 DEF CoreTypes
<1>2. ASSUME NEW blocking \in {MaxTime, Forever}, compute_timeout(blocking) PROVE CoreTypes'
  <2>1. MasterTypes' /\ LinkTypes'
    BY <1>2 DEF compute_timeout, check_wait_timeout, MasterTypes, LinkTypes, Attached
  <2>2. alarm' \in Int \cup {Forever}
    <3> DEFINE d == NextDeadline(blocking, next_deadline(wait_state'))
    <3>1. alarm' = WakeTime(d, now) /\ wait_state' \in Waiting \cup {None} /\ now \in Nat
      BY <1>2, <2>1 DEF compute_timeout, MasterTypes, LoopTypes
    <3>2. d \in Int \cup {Forever}
      BY <3>1, ReplicationAssumption DEF NextDeadline, next_deadline, Waiting
    <3> HIDE DEF d
    <3> QED
      BY <3>1, <3>2, WakeTimeType
  <2>3. LoopTypes'
    BY <1>2, <2>2 DEF compute_timeout, LoopTypes
  <2>4. ClientTypes'
    <3>1. CASE UNCHANGED <<awaiting, faults>>
      BY <3>1 DEF ClientTypes
    <3>2. CASE wait_state # None /\ \E n1 : Answer(wait_state.client_fd, awaiting[wait_state.client_fd], n1)
      <4>1. wait_state.client_fd \in Clients
        BY <3>2 DEF MasterTypes, Waiting
      <4> QED
        BY <3>2, <4>1, AnswerTypes
    <3> QED
      BY <1>2, <3>1, <3>2 DEF compute_timeout, check_wait_timeout
  <2> QED
    BY <2>1, <2>3, <2>4 DEF CoreTypes
<1>3. CASE EpollReturns \/ Tick
  <2>1. LoopTypes'
    BY <1>3, AwakeTypes DEF EpollReturns, Tick, LoopTypes
  <2>2. MasterTypes' /\ LinkTypes' /\ ClientTypes'
    BY <1>3 DEF EpollReturns, Tick, MasterTypes, LinkTypes, ClientTypes, Attached, clientVars
  <2> QED
    BY <2>1, <2>2 DEF CoreTypes
<1> QED
  BY <1>1, <1>2, <1>3 DEF Loop

\* A step of the process of a replica.
LEMMA StepTypes ==
    ASSUME TypeOK, NEW r \in Replicas, NEW n \in Node, NEW rest \in Seq(ToReplica),
           NEW sent \in Seq(ToMaster), Step(r, n, rest, sent), applied' \in [Replicas -> Nat]
    PROVE  CoreTypes'
<1> MasterTypes /\ LoopTypes /\ LinkTypes /\ ClientTypes
  BY TypeParts
<1>1. LinkTypes'
  BY AckConcat DEF LinkTypes, Step
<1>2. MasterTypes' /\ LoopTypes' /\ ClientTypes'
  BY DEF Step, masterVars, clientVars, MasterTypes, LoopTypes, ClientTypes, Attached
<1> QED
  BY <1>1, <1>2 DEF CoreTypes

LEMMA NodeTypes ==
    ASSUME NEW n \in Node
    PROVE  /\ n.phase \in Phases /\ n.offset \in Nat /\ n.pending \in Seq(ToReplica)
           /\ n.commands \in Seq(ToReplica) /\ n.acks \in Seq(ToMaster)
  BY DEF Node

\* What ParseOne makes of a node.
Parsed(p, n, m) ==
    /\ p.phase = n.phase
    /\ m.type = "getack" => /\ p.offset = n.offset + GetAckLen
                            /\ p.acks = Append(n.acks, Message("ack", n.offset))
                            /\ p.commands = n.commands
    /\ m.type # "getack" => /\ p.offset = n.offset + WriteLen /\ p.acks = n.acks
                            /\ p.commands = Append(n.commands, m)

LEMMA ParseFacts ==
    ASSUME NEW n \in Node, NEW m \in ToReplica
    PROVE  LET p == ParseOne(n, m)
           IN  p \in Node /\ p.pending = n.pending /\ Parsed(p, n, m)
<1> USE NodeTypes
<1>1. CASE m.type = "getack"
  <2>1. Message("ack", n.offset) \in ToMaster /\ n.offset + GetAckLen \in Nat
    BY MessageTypes, ReplicationAssumption
  <2>2. Append(n.acks, Message("ack", n.offset)) \in Seq(ToMaster)
    BY <2>1
  <2>3. ParseOne(n, m) = [n EXCEPT !.offset = n.offset + GetAckLen,
                                   !.acks = Append(n.acks, Message("ack", n.offset))]
    BY <1>1 DEF ParseOne
  <2> QED
    BY <1>1, <2>1, <2>2, <2>3, Zenon DEF Node, Parsed
<1>2. CASE m.type # "getack"
  <2>1. n.offset + WriteLen \in Nat /\ Append(n.commands, m) \in Seq(ToReplica)
    BY ReplicationAssumption
  <2>2. ParseOne(n, m) = [n EXCEPT !.offset = n.offset + WriteLen, !.commands = Append(n.commands, m)]
    BY <1>2 DEF ParseOne
  <2> QED
    BY <1>2, <2>1, <2>2, Zenon DEF Node, Parsed
<1> QED
  BY <1>1, <1>2

LEMMA NewNode ==
    ASSUME NEW n \in Node, NEW phase \in Phases
    PROVE  /\ [n EXCEPT !.phase = phase] \in Node
           /\ [n EXCEPT !.phase = phase, !.commands = <<>>, !.acks = <<>>] \in Node
           /\ Fresh(phase) \in Node
<1>1. <<>> \in Seq(ToReplica) /\ <<>> \in Seq(ToMaster) /\ 0 \in Nat
  OBVIOUS
<1>2. [n EXCEPT !.phase = phase] \in Node
  BY Zenon DEF Node
<1>3. [n EXCEPT !.phase = phase, !.commands = <<>>, !.acks = <<>>] \in Node
  BY <1>1, Zenon DEF Node
<1>4. Fresh(phase) \in Node
  BY <1>1 DEF Node, Fresh
<1> QED
  BY <1>2, <1>3, <1>4

LEMMA ReplicaTypes ==
    ASSUME TypeOK, NEW r \in Replicas, Connect(r) \/ ReplicaSteps(r) \/ Dies(r)
    PROVE  CoreTypes'
<1> MasterTypes /\ LoopTypes /\ LinkTypes /\ ClientTypes
  BY TypeParts
<1>1. /\ node[r] \in Node /\ toReplica[r] \in Seq(ToReplica) /\ applied \in [Replicas -> Nat]
      /\ toMaster[r] \in Seq(ToMaster)
  BY DEF LinkTypes
<1>2. \A p \in Phases : Fresh(p) \in Node /\ To(r, p) \in Node
  BY <1>1, NewNode, Zenon DEF To
<1>3. <<>> \in Seq(ToMaster) /\ \A t \in {"ping", "replconf", "psync"} : <<Message(t, 0)>> \in Seq(ToMaster)
  BY MessageTypes
<1>4. \A k \in 0..Len(toReplica[r]) : After(r, k) \in Seq(ToReplica) /\ UpTo(r, k) \in Seq(ToReplica)
  BY <1>1, SuffixFacts, PrefixFacts DEF After, UpTo
<1>5. CASE Connect(r) \/ Dies(r)
  BY <1>1, <1>2, <1>3, <1>5, StepTypes, Zenon DEF Connect, Dies, Phases
<1>6. CASE send_ping(r) \/ send_replconf(r)
  <2>1. PICK phase \in Phases, reply \in {"pong", "ok"}, next \in Phases, command \in {"replconf", "psync"} :
           Expect(r, phase, reply, next, command)
    BY <1>6 DEF send_ping, send_replconf, Phases
  <2>2. 1 \in 0..Len(toReplica[r])
    BY <2>1, <1>1 DEF Expect
  <2>3. PICK n \in Node : Step(r, n, After(r, 1), <<Message(command, 0)>>) /\ UNCHANGED applied
    BY <2>1, <1>2 DEF Expect, Phases
  <2> QED
    BY <1>1, <1>3, <1>4, <2>2, <2>3, StepTypes, Zenon
<1>7. ASSUME NEW k \in 1..Len(toReplica[r]), send_psync(r, k) PROVE CoreTypes'
  <2> DEFINE o == IF r \in Others THEN Head(toReplica[r]).n ELSE 0
             p == SubSeq(toReplica[r], 2, k)
  <2>1. k \in 0..Len(toReplica[r]) /\ 1 \in 0..Len(toReplica[r]) /\ toReplica[r] # <<>>
    BY <1>1
  <2>2. o \in Nat
    <3>1. Head(toReplica[r]) \in ToReplica
      BY <1>1, <2>1, TailFacts
    <3> QED
      BY <3>1 DEF ToReplica
  <2>3. p \in Seq(ToReplica)
    <3>1. \A i \in 2..k : toReplica[r][i] \in ToReplica
      BY <1>1
    <3> QED
      BY <1>1, <3>1
  <2> HIDE DEF o, p
  <2>4. [To(r, "rdb") EXCEPT !.pending = p, !.offset = o] \in Node
    BY <1>2, <2>2, <2>3, Zenon DEF Node, Phases
  <2> QED
    BY <1>1, <1>3, <1>4, <1>7, <2>1, <2>4, StepTypes, Zenon DEF send_psync, o, p
<1>8. ASSUME NEW k \in 0..Len(toReplica[r]), receive_rdb(r, k) PROVE CoreTypes'
  <2>1. node[r].pending \in Seq(ToReplica) /\ UpTo(r, k) \in Seq(ToReplica) /\ Len(UpTo(r, k)) = k
    BY <1>1, <1>4, NodeTypes, PrefixFacts DEF UpTo
  <2>2. node[r].pending \o UpTo(r, k) \in Seq(ToReplica) /\ Len(node[r].pending \o UpTo(r, k)) >= 1
    BY <1>8, <2>1 DEF receive_rdb
  <2>3. Tail(node[r].pending \o UpTo(r, k)) \in Seq(ToReplica)
    BY <2>2, TailFacts
  <2>4. LoadRdb(r, node[r].pending \o UpTo(r, k)) \in Node
    BY <1>2, <2>3, Zenon DEF LoadRdb, Node, Phases
  <2> QED
    BY <1>1, <1>3, <1>4, <1>8, <2>4, StepTypes, Zenon DEF receive_rdb
<1>9. CASE process_pending_buffer(r)
  <2> DEFINE n == [node[r] EXCEPT !.pending = Tail(node[r].pending)]
  <2>1. node[r].pending \in Seq(ToReplica) /\ node[r].pending # <<>>
    BY <1>1, <1>9, NodeTypes DEF process_pending_buffer
  <2>2. Head(node[r].pending) \in ToReplica /\ Tail(node[r].pending) \in Seq(ToReplica)
    BY <2>1, TailFacts
  <2>3. n \in Node
    BY <1>1, <2>2, Zenon DEF Node
  <2>4. Step(r, ParseOne(n, Head(node[r].pending)), toReplica[r], <<>>) /\ UNCHANGED applied
    BY <1>9 DEF process_pending_buffer
  <2> HIDE DEF n
  <2> QED
    BY <1>1, <1>3, <2>2, <2>3, <2>4, ParseFacts, StepTypes, Zenon
<1>10. CASE process_propagated_commands(r)
  <2>1. Head(toReplica[r]) \in ToReplica /\ 1 \in 0..Len(toReplica[r])
    BY <1>1, <1>10, TailFacts DEF process_propagated_commands
  <2> QED
    BY <1>1, <1>3, <1>4, <1>10, <2>1, ParseFacts, StepTypes, Zenon DEF process_propagated_commands
<1>11. CASE RunCommands(r)
  <2>1. CASE node[r].commands # <<>> /\ r \notin Others
    BY <1>1, <1>2, <1>3, <1>11, <2>1, StepTypes, Zenon DEF RunCommands, Phases
  <2>2. CASE ~(node[r].commands # <<>> /\ r \notin Others)
    <3>1. [node[r] EXCEPT !.phase = "running", !.commands = <<>>, !.acks = <<>>] \in Node
      BY <1>1, NewNode, Zenon DEF Phases
    <3>2. node[r].commands \in Seq(ToReplica) /\ node[r].acks \in Seq(ToMaster)
      BY <1>1, NodeTypes
    <3>3. node[r].commands # <<>> => node[r].commands[Len(node[r].commands)] \in ToReplica
      BY <3>2
    <3>4. applied' \in [Replicas -> Nat]
      BY <1>1, <1>11, <2>2, <3>3 DEF RunCommands, ToReplica
    <3> QED
      BY <1>1, <1>11, <2>2, <3>1, <3>2, <3>4, StepTypes DEF RunCommands
  <2> QED
    BY <2>1, <2>2
<1> QED
  BY <1>5, <1>6, <1>7, <1>8, <1>9, <1>10, <1>11 DEF ReplicaSteps

LEMMA CoreNext == ASSUME TypeOK, [Next]_vars PROVE CoreTypes'
<1>1. CASE UNCHANGED vars
  BY <1>1, TypeParts
  DEF vars, masterVars, clientVars, CoreTypes, MasterTypes, LoopTypes, LinkTypes, ClientTypes, Attached
<1> QED
  BY <1>1, WriteTypes, WaitTypes, ReadTypes, RemoveTypes, LoopStepTypes, ReplicaTypes DEF Next

\* What the writes that a replica missed depend on: writes and PSYNC.
LEMMA JoinNext == ASSUME JoinTypes, [Next]_vars PROVE JoinTypes'
<1>1. CASE UNCHANGED joinVars
  BY <1>1, Zenon DEF joinVars, JoinTypes
<1>2. CASE written' = TRUE /\ missed' = missed
  BY <1>2, Zenon DEF JoinTypes
<1>3. ASSUME NEW r \in Replicas, HandshakeCommand(r) PROVE JoinTypes'
  <2>1. written' = written /\ missed' \in {missed, [missed EXCEPT ![r] = written]}
    BY <1>3, Zenon DEF HandshakeCommand
  <2> QED
    BY <2>1, Zenon DEF JoinTypes
<1>4. ASSUME NEW r \in Replicas, remove_replica(r) PROVE JoinTypes'
  BY <1>4, Zenon DEF remove_replica, CloseReplica, JoinTypes
<1>5. CASE Write
  BY <1>2, <1>5, Zenon DEF Write
<1>6. ASSUME NEW c \in Clients, NEW num \in NumReplicas, NEW t \in Timeouts,
             Wait(c, num, t) \/ WriteThenWait(c, num, t)
      PROVE  JoinTypes'
  BY <1>1, <1>2, <1>6, Zenon DEF Wait, WriteThenWait
<1>7. ASSUME NEW r \in Replicas, NEW n, process_ack(r, n) PROVE JoinTypes'
  BY <1>1, <1>7, Zenon DEF process_ack
<1>8. ASSUME NEW r \in Replicas, Connect(r) \/ ReplicaSteps(r) \/ Dies(r) PROVE JoinTypes'
  <2>1. UNCHANGED joinVars
    BY <1>8, Zenon
    DEF Connect, ReplicaSteps, Dies, send_ping, send_replconf, Expect, send_psync, receive_rdb,
        process_pending_buffer, process_propagated_commands, RunCommands, Step
  <2> QED
    BY <1>1, <2>1
<1>9. ASSUME \/ \E c \in Clients : Reconnect(c)
             \/ Loop \/ EpollReturns \/ Tick \/ UNCHANGED vars
      PROVE  JoinTypes'
  BY <1>1, <1>9, Zenon DEF Reconnect, Loop, compute_timeout, EpollReturns, Tick, vars
<1> QED
  BY <1>3, <1>4, <1>5, <1>6, <1>7, <1>8, <1>9 DEF Next, MasterReads

LEMMA NextTypes == ASSUME TypeOK, [Next]_vars PROVE TypeOK'
  BY TypeParts, CoreNext, JoinNext, TypePartsNext

\* Every handler of the master and every step of a replica keep the fields of
\* ReplicaManager, ReplicaConnector and the connections within their types.
THEOREM TypeCorrect == Spec => []TypeOK
  BY InitTypes, NextTypes, PTL DEF Spec

----------------------------------------------------------------------------
(* Writes without a gap.                                                   *)

\* The message m leads from the offset a to the offset b.
Leads(m, a, b) ==
    IF m.type = "write" THEN b = a + WriteLen /\ m.n = b ELSE b = a

\* The messages of q lead from the offset a to the offset z, by way of f.
Along(f, q) == f \in [0..Len(q) -> Nat] /\ \A i \in 1..Len(q) : Leads(q[i], f[i - 1], f[i])
Chain(q, a, z) == \E f : Along(f, q) /\ f[0] = a /\ f[Len(q)] = z

LEMMA ChainNil == ASSUME NEW a \in Nat PROVE Chain(<<>>, a, a)
<1> DEFINE f == [i \in 0..0 |-> a]
<1>1. Along(f, <<>>) /\ f[0] = a
  BY DEF Along
<1> QED
  BY <1>1 DEF Chain

LEMMA ChainEnds ==
    ASSUME NEW q \in Seq(ToReplica), NEW a, NEW z, Chain(q, a, z)
    PROVE  a \in Nat /\ z \in Nat /\ (q = <<>> => a = z)
<1>1. Len(q) \in Nat /\ 0 \in 0..Len(q) /\ Len(q) \in 0..Len(q)
  OBVIOUS
<1> QED
  BY <1>1 DEF Chain, Along

LEMMA ChainAppend ==
    ASSUME NEW q \in Seq(ToReplica), NEW a, NEW y, NEW m \in ToReplica, NEW z \in Nat,
           Chain(q, a, y), Leads(m, y, z)
    PROVE  Chain(Append(q, m), a, z)
<1>1. PICK f : Along(f, q) /\ f[0] = a /\ f[Len(q)] = y
  BY DEF Chain
<1> DEFINE g == [i \in 0..(Len(q) + 1) |-> IF i = Len(q) + 1 THEN z ELSE f[i]]
<1>2. Len(q) \in Nat /\ Len(Append(q, m)) = Len(q) + 1
  OBVIOUS
<1>3. \A i \in 0..Len(q) : f[i] \in Nat
  BY <1>1 DEF Along
<1>4. g \in [0..(Len(q) + 1) -> Nat]
  BY <1>2, <1>3
<1>5. ASSUME NEW i \in 1..(Len(q) + 1) PROVE Leads(Append(q, m)[i], g[i - 1], g[i])
  <2>1. CASE i = Len(q) + 1
    <3>1. Append(q, m)[i] = m /\ g[i] = z /\ g[i - 1] = y
      BY <1>1, <1>2, <2>1
    <3> QED
      BY <3>1
  <2>2. CASE i # Len(q) + 1
    <3>1. i \in 1..Len(q) /\ Append(q, m)[i] = q[i] /\ g[i] = f[i] /\ g[i - 1] = f[i - 1]
      BY <1>2, <2>2
    <3> QED
      BY <1>1, <3>1 DEF Along
  <2> QED
    BY <2>1, <2>2
<1>6. g[0] = a /\ g[Len(q) + 1] = z
  BY <1>1, <1>2
<1> HIDE DEF g
<1> QED
  BY <1>2, <1>4, <1>5, <1>6, Zenon DEF Chain, Along

LEMMA ChainTail ==
    ASSUME NEW q \in Seq(ToReplica), NEW a, NEW z, q # <<>>, Chain(q, a, z)
    PROVE  \E y \in Nat : Leads(q[1], a, y) /\ Chain(Tail(q), y, z)
<1>1. PICK f : Along(f, q) /\ f[0] = a /\ f[Len(q)] = z
  BY DEF Chain
<1> DEFINE g == [i \in 0..(Len(q) - 1) |-> f[i + 1]]
<1>2. Len(q) \in Nat /\ Len(q) >= 1 /\ Len(Tail(q)) = Len(q) - 1
      /\ \A i \in 1..(Len(q) - 1) : Tail(q)[i] = q[i + 1]
  BY TailFacts
<1>3. \A i \in 0..Len(q) : f[i] \in Nat
  BY <1>1 DEF Along
<1>4. g \in [0..(Len(q) - 1) -> Nat]
  BY <1>2, <1>3
<1>5. ASSUME NEW i \in 1..(Len(q) - 1) PROVE Leads(Tail(q)[i], g[i - 1], g[i])
  <2>1. i + 1 \in 1..Len(q) /\ g[i] = f[i + 1] /\ g[i - 1] = f[(i + 1) - 1] /\ Tail(q)[i] = q[i + 1]
    BY <1>2
  <2> QED
    BY <1>1, <2>1 DEF Along
<1>6. g[0] = f[1] /\ g[Len(q) - 1] = z /\ f[1] \in Nat
  BY <1>1, <1>2, <1>3
<1>7. Leads(q[1], a, f[1])
  BY <1>1, <1>2 DEF Along
<1> HIDE DEF g
<1>8. Chain(Tail(q), f[1], z)
  BY <1>2, <1>4, <1>5, <1>6 DEF Chain, Along
<1> QED
  BY <1>6, <1>7, <1>8

LEMMA ChainConcat ==
    ASSUME NEW p \in Seq(ToReplica), NEW q \in Seq(ToReplica), NEW a, NEW y, NEW z,
           Chain(p, a, y), Chain(q, y, z)
    PROVE  Chain(p \o q, a, z)
<1>1. PICK f : Along(f, p) /\ f[0] = a /\ f[Len(p)] = y
  BY DEF Chain
<1>2. PICK g : Along(g, q) /\ g[0] = y /\ g[Len(q)] = z
  BY DEF Chain
<1> DEFINE h == [i \in 0..(Len(p) + Len(q)) |-> IF i <= Len(p) THEN f[i] ELSE g[i - Len(p)]]
<1>3. /\ Len(p) \in Nat /\ Len(q) \in Nat /\ Len(p \o q) = Len(p) + Len(q)
      /\ \A i \in 1..Len(p) : (p \o q)[i] = p[i]
      /\ \A i \in 1..Len(q) : (p \o q)[Len(p) + i] = q[i]
  BY ConcatFacts
<1>4. (\A i \in 0..Len(p) : f[i] \in Nat) /\ (\A i \in 0..Len(q) : g[i] \in Nat)
  BY <1>1, <1>2, Zenon DEF Along
<1>5. h \in [0..(Len(p) + Len(q)) -> Nat]
  BY <1>3, <1>4
<1>6. ASSUME NEW i \in 1..(Len(p) + Len(q)) PROVE Leads((p \o q)[i], h[i - 1], h[i])
  <2>1. CASE i <= Len(p)
    <3>1. i \in 1..Len(p) /\ (p \o q)[i] = p[i] /\ h[i - 1] = f[i - 1] /\ h[i] = f[i]
      BY <1>3, <2>1
    <3> QED
      BY <1>1, <3>1 DEF Along
  <2>2. CASE i > Len(p)
    <3> DEFINE j == i - Len(p)
    <3>1. j \in 1..Len(q) /\ i = Len(p) + j
      BY <1>3, <2>2
    <3>2. (p \o q)[i] = q[j]
      BY <1>3, <3>1
    <3>3. h[i] = g[j]
      BY <1>3, <2>2
    <3>4. h[i - 1] = g[j - 1]
      <4>1. CASE i - 1 = Len(p)
        BY <1>1, <1>2, <1>3, <4>1
      <4>2. CASE i - 1 # Len(p)
        BY <1>3, <2>2, <4>2
      <4> QED
        BY <4>1, <4>2
    <3> HIDE DEF j
    <3> QED
      BY <1>2, <3>1, <3>2, <3>3, <3>4 DEF Along
  <2> QED
    BY <1>3, <2>1, <2>2
<1>7. h[0] = a /\ h[Len(p) + Len(q)] = z
  <2>1. CASE Len(q) = 0
    BY <1>1, <1>2, <1>3, <2>1
  <2>2. CASE Len(q) # 0
    BY <1>1, <1>2, <1>3, <2>2
  <2> QED
    BY <2>1, <2>2
<1> HIDE DEF h
<1> QED
  BY <1>3, <1>5, <1>6, <1>7, Zenon DEF Chain, Along

\* The offsets that OffsetsAlong computes are those of the chain.
LEMMA ChainOffsets ==
    ASSUME NEW q \in Seq(ToReplica), NEW a, NEW z, Chain(q, a, z)
    PROVE  LET upto == OffsetsAlong(q, a) IN
           /\ \A i \in 1..Len(q) : q[i].type = "write" => q[i].n = upto[i]
           /\ z = upto[Len(q)]
<1> DEFINE Is(u) == u = [i \in 0..Len(q) |->
                           IF i = 0 THEN a
                           ELSE IF q[i].type = "write" THEN u[i - 1] + WriteLen ELSE u[i - 1]]
           upto == CHOOSE u : Is(u)
<1>1. PICK f : Along(f, q) /\ f[0] = a /\ f[Len(q)] = z
  BY DEF Chain
<1>2. \A i \in 1..Len(q) : f[i] = IF q[i].type = "write" THEN f[i - 1] + WriteLen ELSE f[i - 1]
  BY <1>1 DEF Along, Leads
<1>3. f = [i \in 0..Len(q) |-> f[i]]
  BY <1>1 DEF Along
<1>4. Is(f)
  <2>1. \A i \in 0..Len(q) : i # 0 => i \in 1..Len(q)
    OBVIOUS
  <2>2. \A i \in 0..Len(q) : f[i] = IF i = 0 THEN a
                                   ELSE IF q[i].type = "write" THEN f[i - 1] + WriteLen ELSE f[i - 1]
    BY <1>1, <1>2, <2>1
  <2> QED
    BY <1>3, <2>2
<1>5. OffsetsAlong(q, a) = upto
  BY DEF OffsetsAlong
<1>6. Is(upto)
  BY <1>4, Zenon
<1> DEFINE T == {i \in 0..Len(q) : upto[i] = f[i]}
<1> HIDE DEF upto
<1>7. 0 \in T
  BY <1>1, <1>6
<1>8. ASSUME NEW i \in 1..Len(q), i - 1 \in T PROVE i \in T
  <2>1. upto[i] = IF q[i].type = "write" THEN upto[i - 1] + WriteLen ELSE upto[i - 1]
    BY <1>6
  <2> QED
    BY <1>2, <1>8, <2>1
<1>9. Len(q) \in Nat
  OBVIOUS
<1> HIDE DEF T
<1>10. 0..Len(q) \subseteq T
  BY <1>7, <1>8, <1>9, BoundedInduction, Zenon
<1>11. \A i \in 0..Len(q) : upto[i] = f[i]
  BY <1>10 DEF T
<1>12. \A i \in 1..Len(q) : q[i].type = "write" => q[i].n = f[i]
  BY <1>1 DEF Along, Leads
<1> QED
  BY <1>1, <1>5, <1>9, <1>11, <1>12

LEMMA ChainGrows ==
    ASSUME NEW q \in Seq(ToReplica), NEW a, NEW z, Chain(q, a, z)
    PROVE  a <= z
<1>1. PICK f : Along(f, q) /\ f[0] = a /\ f[Len(q)] = z
  BY DEF Chain
<1>2. Len(q) \in Nat /\ \A i \in 0..Len(q) : f[i] \in Nat
  <2>1. f \in [0..Len(q) -> Nat]
    BY <1>1 DEF Along
  <2> QED
    BY <2>1
<1> DEFINE T == {i \in 0..Len(q) : a <= f[i]}
<1>3. 0 \in T
  BY <1>1, <1>2
<1>4. ASSUME NEW i \in 1..Len(q), i - 1 \in T PROVE i \in T
  <2>1. i \in 0..Len(q) /\ i - 1 \in 0..Len(q) /\ a \in Nat /\ a <= f[i - 1]
    BY <1>1, <1>2, <1>4
  <2>2. f[i] = f[i - 1] + WriteLen \/ f[i] = f[i - 1]
    BY <1>1 DEF Along, Leads
  <2>3. f[i - 1] \in Nat
    BY <1>2, <2>1
  <2> QED
    BY <2>1, <2>2, <2>3, ReplicationAssumption
<1> HIDE DEF T
<1>5. 0..Len(q) \subseteq T
  BY <1>2, <1>3, <1>4, BoundedInduction, Zenon
<1> QED
  BY <1>1, <1>2, <1>5 DEF T

LEMMA ChainLast ==
    ASSUME NEW q \in Seq(ToReplica), NEW a, NEW z, Chain(q, a, z), q # <<>>, q[Len(q)].type = "write"
    PROVE  q[Len(q)].n = z
<1>1. Len(q) \in 1..Len(q)
  OBVIOUS
<1> QED
  BY <1>1 DEF Chain, Along, Leads

----------------------------------------------------------------------------
(* The session of a replica.  n is the state of its process, tr and tm what *)
(* is on its way to it and back, app the offset of the last write it has   *)
(* run, ask how often it was asked, rep the offset it has acknowledged and *)
(* mo the master's offset.                                                 *)

\* Before PSYNC there is at most one message under way, and nothing else.
Before(n, tr, tm, ask) ==
    /\ n.phase \in {"off", "ping", "port", "capa", "psync", "dead"}
    /\ ask = 0
    /\ Len(tm) <= 1 /\ \A i \in 1..Len(tm) : tm[i].type # "ack"
    /\ n.phase # "dead" =>
         /\ Len(tr) + Len(tm) <= 1
         /\ n.pending = <<>> /\ n.commands = <<>> /\ n.acks = <<>> /\ n.offset = 0
         /\ \A i \in 1..Len(tm) : tm[i].type = "psync" <=> n.phase = "psync"
    /\ n.phase = "off" => tm = <<>>
    /\ n.phase \in {"off", "psync"} => tr = <<>>

\* The messages of the stream that come before what is propagated.
Header(phase) == IF phase = "psync" THEN 2 ELSE IF phase = "rdb" THEN 1 ELSE 0
Propagated(m) == m.type \in {"write", "getack"}
Framed(q, h) == Len(q) >= h /\ \A i \in 1..Len(q) : Propagated(q[i]) <=> i > h

\* Of a replica that was asked once at most, y is the offset of the last write
\* it has parsed: what it acknowledges is not beyond y.
Counted(n, q, y, ask) ==
    /\ \A i \in 1..Len(n.acks) : n.acks[i].n <= y
    /\ ask = 0 => \A i \in 1..Len(q) : q[i].type # "getack"
    /\ \A i, j \in 1..Len(q) : q[i].type = "getack" /\ q[j].type = "getack" => i = j
    /\ (ask = 0 \/ \E i \in 1..Len(q) : q[i].type = "getack") => n.offset <= y

\* Between PSYNC and the end of the process, with the stream q still to parse.
Flows(n, q, app, ask, mo) ==
    \E y \in Nat : /\ Chain(n.commands, app, y)
                   /\ Chain(q, y, mo)
                   /\ ask <= 1 => Counted(n, q, y, ask)
Live(n, q, app, ask, mo) ==
    /\ n.phase \in {"psync", "rdb", "loaded", "running"}
    /\ Framed(q, Header(n.phase))
    /\ n.phase = "psync" => q[1].n <= app
    /\ n.phase \in {"psync", "rdb"} => n.commands = <<>> /\ n.acks = <<>>
    /\ \A i \in 1..Len(n.commands) : n.commands[i].type = "write"
    /\ \A i \in 1..Len(n.acks) : n.acks[i].type = "ack"
    /\ Flows(n, q, app, ask, mo)

Joined(n, tr, tm, app, ask, rep, mo) ==
    /\ \A i \in 1..Len(tm) : tm[i].type = "ack"
    /\ ask <= 1 => rep <= app /\ \A i \in 1..Len(tm) : tm[i].n <= app
    /\ n.phase # "dead" => /\ Live(n, n.pending \o tr, app, ask, mo)
                           /\ n.phase \in {"psync", "running"} => n.pending = <<>>

LEMMA FramedAppend ==
    ASSUME NEW q \in Seq(ToReplica), NEW h \in Nat, Framed(q, h), NEW m \in ToReplica, Propagated(m)
    PROVE  Framed(Append(q, m), h)
<1>1. Len(q) \in Nat /\ Len(Append(q, m)) = Len(q) + 1 /\ Append(q, m)[Len(q) + 1] = m
      /\ \A i \in 1..Len(q) : Append(q, m)[i] = q[i]
  OBVIOUS
<1>2. Len(q) >= h /\ Len(q) + 1 > h
  BY <1>1 DEF Framed
<1>3. ASSUME NEW i \in 1..(Len(q) + 1) PROVE Propagated(Append(q, m)[i]) <=> i > h
  <2>1. CASE i = Len(q) + 1
    BY <1>1, <1>2, <2>1
  <2>2. CASE i # Len(q) + 1
    <3>1. i \in 1..Len(q)
      BY <1>1, <2>2
    <3> QED
      BY <1>1, <3>1 DEF Framed
  <2> QED
    BY <2>1, <2>2
<1> QED
  BY <1>1, <1>2, <1>3 DEF Framed

LEMMA FramedTail ==
    ASSUME NEW q \in Seq(ToReplica), NEW h \in Nat, Framed(q, h), q # <<>>
    PROVE  /\ h > 0 => Framed(Tail(q), h - 1) /\ ~Propagated(q[1])
           /\ h = 0 => Framed(Tail(q), 0) /\ Propagated(q[1])
<1>1. /\ Len(q) \in Nat /\ Len(q) >= 1 /\ Len(Tail(q)) = Len(q) - 1
      /\ \A i \in 1..(Len(q) - 1) : Tail(q)[i] = q[i + 1]
  BY TailFacts
<1>2. \A i \in 1..(Len(q) - 1) : i + 1 \in 1..Len(q) /\ (Propagated(Tail(q)[i]) <=> i + 1 > h)
  BY <1>1 DEF Framed
<1>3. 1 \in 1..Len(q) /\ (Propagated(q[1]) <=> 1 > h)
  BY <1>1 DEF Framed
<1>4. Len(q) >= h
  BY DEF Framed
<1>5. CASE h > 0
  <2>1. \A i \in 1..(Len(q) - 1) : Propagated(Tail(q)[i]) <=> i > h - 1
    BY <1>2
  <2>2. Len(Tail(q)) >= h - 1
    BY <1>1, <1>4
  <2> QED
    BY <1>1, <1>3, <1>5, <2>1, <2>2 DEF Framed
<1>6. CASE h = 0
  <2>1. \A i \in 1..(Len(q) - 1) : Propagated(Tail(q)[i]) <=> i > 0
    BY <1>2, <1>6
  <2> QED
    BY <1>1, <1>3, <1>6, <2>1 DEF Framed
<1> QED
  BY <1>5, <1>6

\* A write is propagated.
LEMMA LiveWrite ==
    ASSUME NEW n \in Node, NEW q \in Seq(ToReplica), NEW app \in Nat, NEW ask \in Nat, NEW mo \in Nat,
           Live(n, q, app, ask, mo)
    PROVE  Live(n, Append(q, Message("write", mo + WriteLen)), app, ask, mo + WriteLen)
<1> DEFINE m == Message("write", mo + WriteLen)
           p == Append(q, m)
<1>0. mo + WriteLen \in Nat
  BY ReplicationAssumption
<1>1. mo + WriteLen \in Nat /\ m \in ToReplica /\ m.type = "write" /\ m.n = mo + WriteLen
  BY <1>0, MessageTypes, Zenon DEF Message
<1>2. Propagated(m) /\ Leads(m, mo, mo + WriteLen)
  BY <1>1 DEF Propagated, Leads
<1> HIDE DEF m
<1>3. Len(q) \in Nat /\ Len(p) = Len(q) + 1 /\ p[Len(q) + 1] = m /\ \A i \in 1..Len(q) : p[i] = q[i]
  BY <1>1
<1>4. Header(n.phase) \in Nat /\ (n.phase = "psync" => 1 \in 1..Len(q))
  BY <1>3 DEF Header, Live, Framed
<1>5. Framed(p, Header(n.phase))
  BY <1>1, <1>2, <1>4, FramedAppend DEF Live
<1>6. PICK y \in Nat : /\ Chain(n.commands, app, y)
                       /\ Chain(q, y, mo)
                       /\ ask <= 1 => Counted(n, q, y, ask)
  BY DEF Live, Flows
<1>7. Chain(p, y, mo + WriteLen)
  BY <1>1, <1>2, <1>6, ChainAppend
<1>8. ASSUME ask <= 1 PROVE Counted(n, p, y, ask)
  <2>1. \A i \in 1..Len(p) : p[i].type = "getack" => i \in 1..Len(q) /\ q[i].type = "getack"
    BY <1>1, <1>3
  <2> HIDE DEF p
  <2> QED
    BY <1>6, <1>8, <2>1 DEF Counted
<1> HIDE DEF p
<1>9. Flows(n, p, app, ask, mo + WriteLen)
  BY <1>6, <1>7, <1>8 DEF Flows
<1> QED
  BY <1>3, <1>4, <1>5, <1>9 DEF Live, p, m

\* Its offset is asked for.
LEMMA LiveAsk ==
    ASSUME NEW n \in Node, NEW q \in Seq(ToReplica), NEW app \in Nat, NEW ask \in Nat, NEW mo \in Nat,
           NEW k \in Nat, Live(n, q, app, ask, mo)
    PROVE  Live(n, Append(q, Message("getack", k)), app, ask + 1, mo)
<1> DEFINE m == Message("getack", k)
           p == Append(q, m)
<1>1. m \in ToReplica /\ m.type = "getack"
  BY MessageTypes, Zenon DEF Message
<1>2. Propagated(m) /\ Leads(m, mo, mo)
  BY <1>1 DEF Propagated, Leads
<1> HIDE DEF m
<1>3. Len(q) \in Nat /\ Len(p) = Len(q) + 1 /\ p[Len(q) + 1] = m /\ \A i \in 1..Len(q) : p[i] = q[i]
  BY <1>1
<1>4. Header(n.phase) \in Nat /\ (n.phase = "psync" => 1 \in 1..Len(q))
  BY <1>3 DEF Header, Live, Framed
<1>5. Framed(p, Header(n.phase))
  BY <1>1, <1>2, <1>4, FramedAppend DEF Live
<1>6. PICK y \in Nat : /\ Chain(n.commands, app, y)
                       /\ Chain(q, y, mo)
                       /\ ask <= 1 => Counted(n, q, y, ask)
  BY DEF Live, Flows
<1>7. Chain(p, y, mo)
  BY <1>1, <1>2, <1>6, ChainAppend
<1>8. ASSUME ask + 1 <= 1 PROVE Counted(n, p, y, ask + 1)
  <2>1. ask = 0 /\ Counted(n, q, y, 0)
    BY <1>6, <1>8
  <2>2. \A i \in 1..Len(q) : q[i].type # "getack"
    BY <2>1 DEF Counted
  <2>3. \A i \in 1..Len(p) : p[i].type = "getack" => i = Len(q) + 1
    BY <1>3, <2>2
  <2>4. n.offset <= y /\ \A i \in 1..Len(n.acks) : n.acks[i].n <= y
    BY <2>1 DEF Counted
  <2> HIDE DEF p
  <2> QED
    BY <2>1, <2>3, <2>4 DEF Counted
<1> HIDE DEF p
<1>9. Flows(n, p, app, ask + 1, mo)
  BY <1>6, <1>7, <1>8 DEF Flows
<1> QED
  BY <1>3, <1>4, <1>5, <1>9 DEF Live, p, m

\* Of the stream that is left, what was counted stays counted.
LEMMA CountedTail ==
    ASSUME NEW n \in Node, NEW p \in Node, NEW q \in Seq(ToReplica), q # <<>>, q[1].type # "getack",
           NEW y \in Nat, NEW z \in Nat, NEW ask \in Nat, Counted(n, q, y, ask),
           p.acks = n.acks, y <= z,
           p.offset <= z \/ \E d \in Nat : p.offset = n.offset + d /\ z = y + d
    PROVE  Counted(p, Tail(q), z, ask)
<1>1. /\ Len(q) \in Nat /\ Len(q) >= 1 /\ Len(Tail(q)) = Len(q) - 1
      /\ \A i \in 1..(Len(q) - 1) : Tail(q)[i] = q[i + 1]
  BY TailFacts
<1>2. \A i \in 1..Len(Tail(q)) : i + 1 \in 1..Len(q) /\ Tail(q)[i] = q[i + 1]
  BY <1>1
<1>3. n.acks \in Seq(ToMaster) /\ n.offset \in Nat /\ p.offset \in Nat
  BY NodeTypes
<1>4. ASSUME NEW i \in 1..Len(p.acks) PROVE p.acks[i].n <= z
  <2>1. n.acks[i] \in ToMaster /\ n.acks[i].n <= y
    BY <1>3 DEF Counted
  <2> QED
    BY <2>1 DEF ToMaster
<1>5. ask = 0 => \A i \in 1..Len(Tail(q)) : Tail(q)[i].type # "getack"
  BY <1>2 DEF Counted
<1>6. ASSUME NEW i \in 1..Len(Tail(q)), NEW j \in 1..Len(Tail(q)),
             Tail(q)[i].type = "getack", Tail(q)[j].type = "getack"
      PROVE  i = j
  <2>1. i + 1 = j + 1
    BY <1>2, <1>6 DEF Counted
  <2> QED
    BY <2>1
<1>7. ASSUME ask = 0 \/ \E i \in 1..Len(Tail(q)) : Tail(q)[i].type = "getack"
      PROVE  p.offset <= z
  <2>1. ask = 0 \/ \E i \in 1..Len(q) : q[i].type = "getack"
    BY <1>2, <1>7
  <2>2. n.offset <= y
    BY <2>1 DEF Counted
  <2> QED
    BY <1>3, <2>2
<1> QED
  BY <1>4, <1>5, <1>6, <1>7 DEF Counted

\* A message of the header is taken off the stream.
LEMMA LiveHeader ==
    ASSUME NEW n \in Node, NEW p \in Node, NEW q \in Seq(ToReplica), NEW app \in Nat, NEW ask \in Nat,
           NEW mo \in Nat, Live(n, q, app, ask, mo),
           \/ n.phase = "psync" /\ p.phase = "rdb" /\ p.offset \in {0, q[1].n}
           \/ n.phase = "rdb" /\ p.phase = "loaded" /\ p.offset = n.offset,
           p.commands = n.commands, p.acks = n.acks
    PROVE  q # <<>> /\ Live(p, Tail(q), app, ask, mo)
<1>1. Header(n.phase) > 0 /\ Header(n.phase) \in Nat /\ Header(p.phase) = Header(n.phase) - 1
  BY DEF Header
<1>2. q # <<>> /\ 1 \in 1..Len(q)
  <2>1. Len(q) >= Header(n.phase) /\ Len(q) \in Nat
    BY DEF Live, Framed
  <2> QED
    BY <1>1, <2>1
<1>3. Framed(Tail(q), Header(p.phase)) /\ ~Propagated(q[1])
  BY <1>1, <1>2, FramedTail DEF Live
<1>4. n.commands = <<>> /\ n.acks = <<>>
  BY DEF Live
<1>5. PICK y \in Nat : /\ Chain(n.commands, app, y)
                       /\ Chain(q, y, mo)
                       /\ ask <= 1 => Counted(n, q, y, ask)
  BY DEF Live, Flows
<1>6. y = app
  BY <1>4, <1>5, ChainEnds, NodeTypes
<1>7. q[1].type # "getack" /\ q[1].type # "write"
  BY <1>3 DEF Propagated
<1>8. Chain(Tail(q), y, mo)
  BY <1>2, <1>5, <1>7, ChainTail DEF Leads
<1>9. ASSUME ask <= 1 PROVE Counted(p, Tail(q), y, ask)
  <2>1. Counted(n, q, y, ask)
    BY <1>5, <1>9
  <2>2. CASE n.phase = "psync"
    <3>1. q[1].n <= app
      BY <2>2 DEF Live
    <3>2. p.offset <= y
      BY <1>6, <2>2, <3>1
    <3>3. y <= y
      OBVIOUS
    <3> QED
      BY <1>2, <1>7, <2>1, <3>2, <3>3, CountedTail
  <2>3. CASE n.phase = "rdb"
    <3>1. p.offset = n.offset + 0 /\ y = y + 0 /\ y <= y
      BY <2>3, NodeTypes
    <3> QED
      BY <1>2, <1>7, <2>1, <3>1, CountedTail
  <2> QED
    BY <2>2, <2>3
<1>10. Flows(p, Tail(q), app, ask, mo)
  BY <1>5, <1>8, <1>9 DEF Flows
<1>11. p.phase \in {"rdb", "loaded"}
  OBVIOUS
<1> QED
  BY <1>2, <1>3, <1>4, <1>10, <1>11 DEF Live

\* A propagated message is parsed.
LEMMA LiveParse ==
    ASSUME NEW n \in Node, NEW p \in Node, NEW q \in Seq(ToReplica), NEW app \in Nat, NEW ask \in Nat,
           NEW mo \in Nat, Live(n, q, app, ask, mo), n.phase \in {"loaded", "running"}, q # <<>>,
           Parsed(p, n, q[1])
    PROVE  Live(p, Tail(q), app, ask, mo)
<1>1. /\ Len(q) \in Nat /\ Len(q) >= 1 /\ Len(Tail(q)) = Len(q) - 1 /\ q[1] \in ToReplica
      /\ \A i \in 1..(Len(q) - 1) : Tail(q)[i] = q[i + 1]
  BY TailFacts
<1>0. p.phase = n.phase
  BY DEF Parsed
<1>2. Framed(Tail(q), Header(p.phase)) /\ Propagated(q[1])
  <2>1. Header(n.phase) = 0 /\ 0 \in Nat
    BY DEF Header
  <2> QED
    BY <1>0, <2>1, FramedTail DEF Live
<1>3. PICK y \in Nat : /\ Chain(n.commands, app, y)
                       /\ Chain(q, y, mo)
                       /\ ask <= 1 => Counted(n, q, y, ask)
  BY DEF Live, Flows
<1>4. PICK z \in Nat : Leads(q[1], y, z) /\ Chain(Tail(q), z, mo)
  BY <1>3, ChainTail
<1>5. n.commands \in Seq(ToReplica) /\ n.acks \in Seq(ToMaster) /\ n.offset \in Nat
  BY NodeTypes
<1> USE DEF Parsed
<1>6. CASE q[1].type = "getack"
  <2>1. z = y /\ p.commands = n.commands
    BY <1>4, <1>6 DEF Leads
  <2> DEFINE m == Message("ack", n.offset)
  <2>2. m \in ToMaster /\ m.type = "ack" /\ m.n = n.offset
    BY <1>5, MessageTypes, ZenonT(30) DEF Message
  <2> HIDE DEF m
  <2>3. Len(n.acks) \in Nat /\ Len(p.acks) = Len(n.acks) + 1 /\ p.acks[Len(n.acks) + 1] = m
        /\ \A i \in 1..Len(n.acks) : p.acks[i] = n.acks[i]
    <3>1. p.acks = Append(n.acks, m)
      BY <1>6, SMTT(30) DEF m
    <3> QED BY <1>5, <2>2, <3>1, SMTT(30)
  <2>4. \A i \in 1..Len(p.acks) : p.acks[i].type = "ack"
    <3>1. \A i \in 1..Len(n.acks) : n.acks[i].type = "ack"
      BY DEF Live
    <3> QED
      BY <2>2, <2>3, <3>1, LastOrBefore, Zenon
  <2>5. ASSUME ask <= 1 PROVE Counted(p, Tail(q), y, ask)
    <3>1. Counted(n, q, y, ask) /\ 1 \in 1..Len(q)
      BY <1>1, <1>3, <2>5
    <3>2. n.offset <= y /\ ask # 0
      BY <1>6, <3>1 DEF Counted
    <3>3. \A i \in 1..Len(n.acks) : n.acks[i].n <= y
      BY <3>1 DEF Counted
    <3>4. \A i \in 1..Len(p.acks) : p.acks[i].n <= y
      BY <2>2, <2>3, <3>2, <3>3, LastOrBefore, ZenonT(30)
    <3>5. \A i \in 1..Len(q) : q[i].type = "getack" => i = 1
      BY <1>6, <3>1 DEF Counted
    <3>6. \A i \in 1..Len(Tail(q)) : Tail(q)[i].type # "getack"
      BY <1>1, <3>5
    <3> QED
      BY <3>2, <3>4, <3>6 DEF Counted
  <2>6. Flows(p, Tail(q), app, ask, mo)
    BY <1>3, <1>4, <2>1, <2>5 DEF Flows
  <2> QED
    BY <1>2, <2>1, <2>4, <2>6 DEF Live
<1>7. CASE q[1].type # "getack"
  <2>1. q[1].type = "write" /\ z = y + WriteLen /\ y <= z
    BY <1>2, <1>4, <1>7, ReplicationAssumption DEF Propagated, Leads
  <2>2. Chain(p.commands, app, z)
    BY <1>1, <1>3, <1>4, <1>5, <1>7, ChainAppend, Zenon
  <2>3. \A i \in 1..Len(p.commands) : p.commands[i].type = "write"
    <3>1. \A i \in 1..Len(n.commands) : n.commands[i].type = "write"
      BY DEF Live
    <3>2. /\ Len(n.commands) \in Nat /\ Len(p.commands) = Len(n.commands) + 1
          /\ p.commands[Len(n.commands) + 1] = q[1]
          /\ \A i \in 1..Len(n.commands) : p.commands[i] = n.commands[i]
      BY <1>1, <1>5, <1>7
    <3> QED
      BY <2>1, <3>1, <3>2, LastOrBefore, Zenon
  <2>4. ASSUME ask <= 1 PROVE Counted(p, Tail(q), z, ask)
    <3>1. Counted(n, q, y, ask)
      BY <1>3, <2>4
    <3>2. p.offset = n.offset + WriteLen /\ p.acks = n.acks /\ WriteLen \in Nat
      BY <1>7, ReplicationAssumption
    <3> QED
      BY <1>7, <2>1, <3>1, <3>2, CountedTail
  <2>5. Flows(p, Tail(q), app, ask, mo)
    BY <1>4, <2>2, <2>4 DEF Flows
  <2> QED
    BY <1>2, <1>7, <2>3, <2>5 DEF Live
<1> QED
  BY <1>6, <1>7

\* The commands parsed are run, and the answers sent.
Ran(n, app) == IF n.commands = <<>> THEN app ELSE n.commands[Len(n.commands)].n

LEMMA LiveRun ==
    ASSUME NEW n \in Node, NEW p \in Node, NEW q \in Seq(ToReplica), NEW app \in Nat, NEW ask \in Nat,
           NEW mo \in Nat, Live(n, q, app, ask, mo), n.phase \in {"loaded", "running"},
           p.phase = "running", p.offset = n.offset, p.commands = <<>>, p.acks = <<>>,
           NEW z, z = Ran(n, app)
    PROVE  /\ z \in Nat /\ app <= z /\ Live(p, q, z, ask, mo)
           /\ ask <= 1 => \A i \in 1..Len(n.acks) : n.acks[i].n <= z
<1>1. PICK y \in Nat : /\ Chain(n.commands, app, y)
                       /\ Chain(q, y, mo)
                       /\ ask <= 1 => Counted(n, q, y, ask)
  BY DEF Live, Flows
<1>2. n.commands \in Seq(ToReplica)
  BY NodeTypes
<1>3. z = y
  <2>1. CASE n.commands = <<>>
    BY <1>1, <1>2, <2>1, ChainEnds, Zenon DEF Ran
  <2>2. CASE n.commands # <<>>
    <3>1. n.commands[Len(n.commands)].type = "write"
      BY <1>2, <2>2 DEF Live
    <3> QED
      BY <1>1, <1>2, <2>2, <3>1, ChainLast DEF Ran
  <2> QED
    BY <2>1, <2>2
<1>4. app <= z
  BY <1>1, <1>2, <1>3, ChainGrows
<1>5. Framed(q, Header(p.phase))
  BY DEF Live, Header
<1>6. Chain(p.commands, z, y)
  BY <1>3, ChainNil
<1>7. ask <= 1 => Counted(p, q, y, ask)
  BY <1>1 DEF Counted
<1>8. Flows(p, q, z, ask, mo)
  BY <1>1, <1>6, <1>7 DEF Flows
<1>9. Live(p, q, z, ask, mo)
  BY <1>5, <1>8 DEF Live
<1>10. ask <= 1 => \A i \in 1..Len(n.acks) : n.acks[i].n <= z
  BY <1>1, <1>3 DEF Counted
<1> QED
  BY <1>1, <1>3, <1>4, <1>9, <1>10

----------------------------------------------------------------------------
(* What the master does to a session.                                      *)

LEMMA JoinedWrite ==
    ASSUME NEW n \in Node, NEW tr \in Seq(ToReplica), NEW tm, NEW app \in Nat, NEW ask \in Nat, NEW rep,
           NEW mo \in Nat, Joined(n, tr, tm, app, ask, rep, mo)
    PROVE  Joined(n, Append(tr, Message("write", mo + WriteLen)), tm, app, ask, rep, mo + WriteLen)
<1> DEFINE m == Message("write", mo + WriteLen)
<1>1. mo + WriteLen \in Nat
  BY ReplicationAssumption
<1>2. m \in ToReplica
  BY <1>1, MessageTypes
<1>3. n.pending \in Seq(ToReplica)
  BY NodeTypes
<1> HIDE DEF m
<1>4. n.pending \o tr \in Seq(ToReplica) /\ n.pending \o Append(tr, m) = Append(n.pending \o tr, m)
  <2>1. n.pending \o tr \in Seq(ToReplica)
    BY <1>2, <1>3, ConcatFacts
  <2>2. n.pending \o Append(tr, m) = Append(n.pending \o tr, m)
    BY <1>2, <1>3, ConcatAppend, Zenon
  <2> QED
    BY <2>1, <2>2
<1>5. n.phase # "dead" => Live(n, n.pending \o Append(tr, m), app, ask, mo + WriteLen)
  BY <1>4, LiveWrite, Zenon DEF Joined, m
<1> QED
  BY <1>5 DEF Joined, m

LEMMA JoinedAsk ==
    ASSUME NEW n \in Node, NEW tr \in Seq(ToReplica), NEW tm, NEW app \in Nat, NEW ask \in Nat, NEW rep,
           NEW mo \in Nat, NEW k \in Nat, Joined(n, tr, tm, app, ask, rep, mo)
    PROVE  Joined(n, Append(tr, Message("getack", k)), tm, app, ask + 1, rep, mo)
<1> DEFINE m == Message("getack", k)
<1>1. m \in ToReplica
  BY MessageTypes
<1>2. n.pending \in Seq(ToReplica) /\ (ask + 1 <= 1 => ask <= 1)
  BY NodeTypes
<1> HIDE DEF m
<1>3. n.pending \o tr \in Seq(ToReplica) /\ n.pending \o Append(tr, m) = Append(n.pending \o tr, m)
  <2>1. n.pending \o tr \in Seq(ToReplica)
    BY <1>1, <1>2, ConcatFacts
  <2>2. n.pending \o Append(tr, m) = Append(n.pending \o tr, m)
    BY <1>1, <1>2, ConcatAppend, Zenon
  <2> QED
    BY <2>1, <2>2
<1>4. n.phase # "dead" => Live(n, n.pending \o Append(tr, m), app, ask + 1, mo)
  BY <1>3, LiveAsk, Zenon DEF Joined, m
<1> QED
  BY <1>2, <1>4 DEF Joined, m

\* PSYNC: the session starts with a header and no writes.
LEMMA JoinedPsync ==
    ASSUME NEW n \in Node, NEW tr \in Seq(ToReplica), NEW tm \in Seq(ToMaster), NEW ask \in Nat,
           NEW mo \in Nat, Before(n, tr, tm, ask), tm # <<>>, tm[1].type = "psync"
    PROVE  Joined(n, tr \o <<Message("fullresync", mo), Message("rdb", 0)>>, Tail(tm), mo, ask, 0, mo)
<1> DEFINE q == <<Message("fullresync", mo), Message("rdb", 0)>>
<1>1. ask = 0 /\ Len(Tail(tm)) = 0 /\ 1 \in 1..Len(tm)
  <2>1. Len(tm) \in Nat /\ Len(tm) >= 1 /\ Len(Tail(tm)) = Len(tm) - 1
    BY TailFacts
  <2> QED
    BY <2>1 DEF Before
<1>2. q \in Seq(ToReplica) /\ Len(q) = 2
  BY MessageTypes
<1>3. q[1].type = "fullresync" /\ q[2].type = "rdb" /\ q[1].n = mo
  BY DEF Message
<1> HIDE DEF q
<1>4. ASSUME n.phase # "dead"
      PROVE  Live(n, n.pending \o (tr \o q), mo, ask, mo) /\ n.pending = <<>>
  <2>1. /\ n.phase = "psync" /\ tr = <<>>
        /\ n.pending = <<>> /\ n.commands = <<>> /\ n.acks = <<>> /\ n.offset = 0
    BY <1>1, <1>4 DEF Before
  <2>2. n.pending \o (tr \o q) = q
    BY <1>2, <2>1
  <2>3. Header(n.phase) = 2
    BY <2>1 DEF Header
  <2>4. \A i \in 1..Len(q) : ~Propagated(q[i]) /\ q[i].type # "getack" /\ i \in {1, 2}
    BY <1>2, <1>3 DEF Propagated
  <2>5. Framed(q, 2)
    BY <1>2, <2>4 DEF Framed
  <2>6. Chain(n.commands, mo, mo)
    BY <2>1, ChainNil
  <2>7. Chain(q, mo, mo)
    <3>1. \A i \in 1..Len(q) : Leads(q[i], mo, mo)
      BY <2>4 DEF Propagated, Leads
    <3> DEFINE f == [i \in 0..2 |-> mo]
    <3>2. Along(f, q) /\ f[0] = mo /\ f[Len(q)] = mo
      BY <1>2, <3>1 DEF Along
    <3> QED
      BY <3>2 DEF Chain
  <2>8. Counted(n, q, mo, ask)
    BY <2>1, <2>4 DEF Counted
  <2>9. Flows(n, q, mo, ask, mo)
    BY <2>6, <2>7, <2>8 DEF Flows
  <2>10. Live(n, q, mo, ask, mo)
    BY <1>3, <2>1, <2>3, <2>5, <2>9 DEF Live
  <2> QED
    BY <2>1, <2>2, <2>10
<1>5. 0 <= mo /\ \A i \in 1..Len(Tail(tm)) : FALSE
  BY <1>1
<1>6. Joined(n, tr \o q, Tail(tm), mo, ask, 0, mo)
  BY <1>4, <1>5 DEF Joined
<1> QED
  BY <1>6 DEF q

=============================================================================
