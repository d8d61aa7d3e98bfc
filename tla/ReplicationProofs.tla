------------------------- MODULE ReplicationProofs -------------------------
(***************************************************************************)
(* Theorems about Replication, for any number of clients and replicas: the *)
(* stream of writes to a replica is whole, and WAIT is a barrier.          *)
(***************************************************************************)
EXTENDS ReplicationStream, FiniteSetTheorems

----------------------------------------------------------------------------
(* The sessions of all replicas.                                           *)

SessionOK(r) ==
    IF r \in Attached
    THEN Joined(node[r], toReplica[r], toMaster[r], applied[r], asked[r], replicas[r], master_offset)
    ELSE Before(node[r], toReplica[r], toMaster[r], asked[r])
Sessions == \A r \in Replicas : SessionOK(r)

LEMMA RowTypes ==
    ASSUME TypeOK, NEW r \in Replicas
    PROVE  /\ node[r] \in Node /\ toReplica[r] \in Seq(ToReplica) /\ toMaster[r] \in Seq(ToMaster)
           /\ applied[r] \in Nat /\ asked[r] \in Nat /\ master_offset \in Nat
           /\ r \in Attached => replicas[r] \in Nat
  BY DEF TypeOK

\* What a step leaves alone.
LEMMA SameSession ==
    ASSUME NEW r \in Replicas, SessionOK(r),
           node'[r] = node[r], toReplica'[r] = toReplica[r], toMaster'[r] = toMaster[r],
           applied'[r] = applied[r], asked'[r] = asked[r],
           r \in Attached' <=> r \in Attached,
           r \in Attached => replicas'[r] = replicas[r] /\ master_offset' = master_offset
    PROVE  SessionOK(r)'
  BY DEF SessionOK

LEMMA WriteSessions == ASSUME TypeOK, Sessions, Write PROVE Sessions'
<1> SUFFICES ASSUME NEW r \in Replicas PROVE SessionOK(r)'
  BY DEF Sessions
<1>1. SessionOK(r)
  BY DEF Sessions
<1>2. /\ node' = node /\ toMaster' = toMaster /\ applied' = applied /\ asked' = asked /\ replicas' = replicas
      /\ Attached' = Attached /\ (Attached # {} => master_offset' = master_offset + WriteLen)
      /\ toReplica'[r] = IF r \in Attached THEN Append(toReplica[r], Message("write", master_offset + WriteLen))
                         ELSE toReplica[r]
  BY DEF Write, SendAll, Attached
<1>3. CASE r \in Attached
  BY <1>1, <1>2, <1>3, RowTypes, JoinedWrite DEF SessionOK
<1>4. CASE r \notin Attached
  BY <1>1, <1>2, <1>4, SameSession
<1> QED
  BY <1>3, <1>4

LEMMA WaitSessions ==
    ASSUME TypeOK, Sessions, NEW c \in Clients, NEW num \in NumReplicas, NEW t \in Timeouts, Wait(c, num, t)
    PROVE  Sessions'
<1> SUFFICES ASSUME NEW r \in Replicas PROVE SessionOK(r)'
  BY DEF Sessions
<1>1. SessionOK(r)
  BY DEF Sessions
<1>2. /\ node' = node /\ toMaster' = toMaster /\ applied' = applied /\ replicas' = replicas
      /\ Attached' = Attached /\ master_offset' = master_offset
  BY DEF Wait, Attached
<1>3. CASE Satisfied(num) \/ r \notin Attached
  <2>1. toReplica'[r] = toReplica[r] /\ asked'[r] = asked[r]
    BY <1>3 DEF Wait, AskAll
  <2> QED
    BY <1>1, <1>2, <2>1, SameSession
<1>4. CASE ~Satisfied(num) /\ r \in Attached
  <2>1. toReplica'[r] = Append(toReplica[r], Message("getack", asked[r] + 1)) /\ asked'[r] = asked[r] + 1
    BY <1>4 DEF Wait, AskAll, GetAck
  <2>2. asked[r] + 1 \in Nat
    BY RowTypes
  <2> QED
    BY <1>1, <1>2, <1>4, <2>1, <2>2, RowTypes, JoinedAsk DEF SessionOK
<1> QED
  BY <1>3, <1>4

LEMMA WriteThenWaitSessions ==
    ASSUME TypeOK, Sessions, NEW c \in Clients, NEW num \in NumReplicas, NEW t \in Timeouts,
           WriteThenWait(c, num, t)
    PROVE  Sessions'
<1> SUFFICES ASSUME NEW r \in Replicas PROVE SessionOK(r)'
  BY DEF Sessions
<1>1. SessionOK(r)
  BY DEF Sessions
<1>2. /\ node' = node /\ toMaster' = toMaster /\ applied' = applied /\ replicas' = replicas
      /\ Attached' = Attached /\ master_offset' = master_offset + WriteLen
  BY DEF WriteThenWait, Attached
<1> DEFINE w == Message("write", master_offset + WriteLen)
           g == Message("getack", asked[r] + 1)
<1>3. CASE r \notin Attached
  <2>1. toReplica'[r] = toReplica[r] /\ asked'[r] = asked[r]
    BY <1>3, ZenonT(30) DEF WriteThenWait, AskAll, SendAll
  <2> QED
    BY <1>1, <1>2, <1>3, <2>1, SameSession
<1>4. CASE Satisfied(num) /\ r \in Attached
  <2>1. toReplica'[r] = Append(toReplica[r], w) /\ asked'[r] = asked[r]
    BY <1>2, <1>4 DEF WriteThenWait, SendAll
  <2> QED
    BY <1>1, <1>2, <1>4, <2>1, RowTypes, JoinedWrite DEF SessionOK
<1>5. CASE ~Satisfied(num) /\ r \in Attached
  <2>1. toReplica'[r] = toReplica[r] \o <<g, w>> /\ asked'[r] = asked[r] + 1
    BY <1>2, <1>5 DEF WriteThenWait, AskAll, GetAck
  <2>2. asked[r] + 1 \in Nat /\ master_offset + WriteLen \in Nat
    BY RowTypes, ReplicationAssumption
  <2>3. g \in ToReplica /\ w \in ToReplica
    BY <2>2, MessageTypes
  <2> HIDE DEF g, w
  <2>4. toReplica[r] \o <<g, w>> = Append(Append(toReplica[r], g), w)
    BY <2>3, RowTypes, ConcatTwo
  <2>5. Append(toReplica[r], g) \in Seq(ToReplica)
    BY <2>3, RowTypes
  <2>6. Joined(node[r], Append(toReplica[r], g), toMaster[r], applied[r], asked[r] + 1, replicas[r], master_offset)
    BY <1>1, <1>5, <2>2, RowTypes, JoinedAsk DEF SessionOK, g
  <2>7. Joined(node[r], Append(Append(toReplica[r], g), w), toMaster[r], applied[r], asked[r] + 1, replicas[r],
               master_offset + WriteLen)
    BY <2>2, <2>5, <2>6, RowTypes, JoinedWrite, Zenon DEF w
  <2> QED
    BY <1>2, <1>5, <2>1, <2>4, <2>7, Zenon DEF SessionOK
<1> QED
  BY <1>3, <1>4, <1>5

LEMMA HandshakeSessions ==
    ASSUME TypeOK, Sessions, NEW r \in Replicas, HandshakeCommand(r)
    PROVE  Sessions'
<1> DEFINE cmd == Head(toMaster[r]).type
           n == node[r]
           tr == toReplica[r]
           tm == toMaster[r]
<1>1. /\ node' = node /\ asked' = asked /\ master_offset' = master_offset
      /\ toMaster' = [toMaster EXCEPT ![r] = Tail(@)] /\ r \notin Attached /\ tm # <<>>
  BY DEF HandshakeCommand
<1>2. ASSUME NEW s \in Replicas, s # r PROVE SessionOK(s)'
  <2>1. SessionOK(s)
    BY DEF Sessions
  <2>2. toReplica'[s] = toReplica[s] /\ toMaster'[s] = toMaster[s] /\ applied'[s] = applied[s]
    BY <1>2 DEF HandshakeCommand, TypeOK
  <2>3. (s \in Attached' <=> s \in Attached) /\ (s \in Attached => replicas'[s] = replicas[s])
    BY <1>2 DEF HandshakeCommand, add_replica, Attached
  <2> QED
    BY <1>1, <2>1, <2>2, <2>3, SameSession
<1>3. Before(n, tr, tm, asked[r])
  BY <1>1 DEF Sessions, SessionOK
<1>4. /\ n \in Node /\ tr \in Seq(ToReplica) /\ tm \in Seq(ToMaster) /\ asked[r] \in Nat
      /\ master_offset \in Nat
  BY RowTypes
<1>5. toMaster'[r] = Tail(tm)
  BY <1>1 DEF TypeOK
<1>6. /\ Len(tm) \in Nat /\ Len(tm) = 1 /\ Len(Tail(tm)) = 0 /\ Tail(tm) = <<>> /\ tm[1].type = cmd
      /\ 1 \in 1..Len(tm)
  <2>1. Len(tm) <= 1
    BY <1>3 DEF Before
  <2>2. Len(tm) = 1 /\ Tail(tm) = <<>> /\ Head(tm) = tm[1]
    BY <1>1, <1>4, <2>1, OneLeft
  <2> QED
    BY <2>2
<1>7. CASE cmd = "psync"
  <2>1. /\ toReplica'[r] = tr \o <<Message("fullresync", master_offset), Message("rdb", 0)>>
        /\ applied'[r] = master_offset
    BY <1>7 DEF HandshakeCommand, TypeOK
  <2>2. r \in Attached' /\ replicas'[r] = 0
    BY <1>7 DEF HandshakeCommand, add_replica, Attached
  <2>3. Joined(n, tr \o <<Message("fullresync", master_offset), Message("rdb", 0)>>, Tail(tm), master_offset,
               asked[r], 0, master_offset)
    BY <1>1, <1>3, <1>4, <1>6, <1>7, JoinedPsync
  <2>4. SessionOK(r)'
    BY <1>1, <1>5, <2>1, <2>2, <2>3 DEF SessionOK
  <2> QED
    BY <1>2, <2>4 DEF Sessions
<1>8. CASE cmd # "psync"
  <2>1. cmd \in {"ping", "replconf"}
    <3>1. tm[1] \in ToMaster /\ tm[1].type # "ack"
      BY <1>3, <1>4, <1>6 DEF Before
    <3> QED
      BY <1>6, <1>8, <3>1 DEF ToMaster
  <2>2. PICK m \in ToReplica : toReplica'[r] = tr \o <<m>>
    <3>1. Message("pong", 0) \in ToReplica /\ Message("ok", 0) \in ToReplica
      BY MessageTypes
    <3>2. \/ toReplica'[r] = tr \o <<Message("pong", 0)>>
          \/ toReplica'[r] = tr \o <<Message("ok", 0)>>
      BY <2>1 DEF HandshakeCommand, TypeOK
    <3> QED
      BY <3>1, <3>2
  <2>3. r \notin Attached'
    BY <1>1, <1>8 DEF HandshakeCommand, Attached
  <2>4. /\ n.phase # "dead" => /\ n.phase \in {"ping", "port", "capa"} /\ Len(tr) = 0
                               /\ n.pending = <<>> /\ n.commands = <<>> /\ n.acks = <<>> /\ n.offset = 0
        /\ n.phase = "dead" \/ n.phase \in {"ping", "port", "capa"}
        /\ asked[r] = 0
    BY <1>3, <1>4, <1>6, <1>8 DEF Before
  <2>5. Len(tr) = 0 => Len(tr \o <<m>>) = 1
    BY <1>4
  <2>6. Before(n, tr \o <<m>>, <<>>, asked[r])
    BY <2>4, <2>5 DEF Before
  <2>7. SessionOK(r)'
    BY <1>1, <1>5, <1>6, <2>2, <2>3, <2>6, ZenonT(30) DEF SessionOK
  <2> QED
    BY <1>2, <2>7 DEF Sessions
<1> QED
  BY <1>7, <1>8

\* The last of the acknowledgements read is not beyond what the replica ran.
LEMMA AckSessions ==
    ASSUME TypeOK, Sessions, NEW r \in Replicas, NEW n \in 1..Len(toMaster[r]), process_ack(r, n)
    PROVE  Sessions'
<1> DEFINE tm == toMaster[r]
           rest == SubSeq(tm, n + 1, Len(tm))
<1>1. /\ node' = node /\ asked' = asked /\ master_offset' = master_offset /\ toReplica' = toReplica
      /\ applied' = applied /\ r \in Attached
      /\ toMaster' = [toMaster EXCEPT ![r] = rest]
      /\ replicas' = [replicas EXCEPT ![r] = tm[n].n]
  BY DEF process_ack
<1>2. Attached' = Attached
  BY <1>1 DEF Attached
<1>3. ASSUME NEW s \in Replicas, s # r PROVE SessionOK(s)'
  <2>1. SessionOK(s) /\ toMaster'[s] = toMaster[s]
    BY <1>1, <1>3 DEF Sessions, TypeOK
  <2>2. s \in Attached => replicas'[s] = replicas[s]
    BY <1>1, <1>3 DEF Attached
  <2> QED
    BY <1>1, <1>2, <2>1, <2>2, SameSession
<1>4. toMaster'[r] = rest /\ replicas'[r] = tm[n].n
  BY <1>1, Zenon DEF TypeOK, Attached
<1>5. Joined(node[r], toReplica[r], tm, applied[r], asked[r], replicas[r], master_offset)
  BY <1>1 DEF Sessions, SessionOK
<1>6. tm \in Seq(ToMaster) /\ n \in 0..Len(tm) /\ n \in Nat /\ Len(tm) \in Nat
  BY RowTypes
<1>7. Len(rest) = Len(tm) - n /\ \A i \in 1..(Len(tm) - n) : rest[i] = tm[i + n]
  BY <1>6, SuffixFacts
<1> HIDE DEF rest
<1>8. \A i \in 1..Len(rest) : i + n \in 1..Len(tm) /\ rest[i] = tm[i + n]
  BY <1>6, <1>7
<1>9. Joined(node[r], toReplica[r], rest, applied[r], asked[r], tm[n].n, master_offset)
  BY <1>5, <1>8, Zenon DEF Joined
<1>10. SessionOK(r)'
  BY <1>1, <1>2, <1>4, <1>9 DEF SessionOK
<1> QED
  BY <1>3, <1>10 DEF Sessions

LEMMA RemoveSessions ==
    ASSUME TypeOK, Sessions, NEW r \in Replicas, remove_replica(r)
    PROVE  Sessions'
<1> USE DEF remove_replica, CloseReplica
<1>1. ASSUME NEW s \in Replicas, s # r PROVE SessionOK(s)'
  <2>1. SessionOK(s)
    BY DEF Sessions
  <2>2. /\ node'[s] = node[s] /\ toReplica'[s] = toReplica[s] /\ toMaster'[s] = toMaster[s]
        /\ applied'[s] = applied[s] /\ asked'[s] = asked[s] /\ master_offset' = master_offset
    BY <1>1 DEF TypeOK
  <2>3. (s \in Attached' <=> s \in Attached) /\ (s \in Attached => replicas'[s] = replicas[s])
    BY <1>1 DEF Attached
  <2> QED
    BY <2>1, <2>2, <2>3, SameSession, Zenon
<1>2. r \notin Attached'
  BY DEF Attached
<1>3. /\ node'[r] = Fresh("off") /\ toReplica'[r] = <<>> /\ toMaster'[r] = <<>> /\ asked'[r] = 0
  BY DEF TypeOK
<1>4. Before(Fresh("off"), <<>>, <<>>, 0)
  BY DEF Before, Fresh
<1>5. SessionOK(r)'
  BY <1>2, <1>3, <1>4 DEF SessionOK
<1> QED
  BY <1>1, <1>5 DEF Sessions

\* A step of a process leads to a session as it should be.
SessionAs(r, n, tr, tm, app) ==
    IF r \in Attached THEN Joined(n, tr, tm, app, asked[r], replicas[r], master_offset)
    ELSE Before(n, tr, tm, asked[r])

\* The steps of a process touch its own session only.
LEMMA StepSessions ==
    ASSUME TypeOK, Sessions, NEW r \in Replicas, NEW n, NEW rest, NEW sent, Step(r, n, rest, sent),
           NEW app, applied' = [applied EXCEPT ![r] = app],
           NEW tm, tm = toMaster[r] \o sent, SessionAs(r, n, rest, tm, app)
    PROVE  Sessions'
<1> USE DEF Step, masterVars, clientVars
<1>1. Attached' = Attached /\ replicas' = replicas /\ master_offset' = master_offset /\ asked' = asked
  BY DEF Attached
<1>2. ASSUME NEW s \in Replicas, s # r PROVE SessionOK(s)'
  <2>1. SessionOK(s)
    BY DEF Sessions
  <2>2. /\ node'[s] = node[s] /\ toReplica'[s] = toReplica[s] /\ toMaster'[s] = toMaster[s]
        /\ applied'[s] = applied[s]
    BY <1>2 DEF TypeOK
  <2> QED
    BY <1>1, <2>1, <2>2, SameSession
<1>3. /\ node'[r] = n /\ toReplica'[r] = rest /\ toMaster'[r] = tm /\ applied'[r] = app
  BY DEF TypeOK
<1>4. SessionOK(r)'
  BY <1>1, <1>3, Zenon DEF SessionOK, SessionAs
<1> QED
  BY <1>2, <1>4 DEF Sessions

LEMMA SameApplied ==
    ASSUME TypeOK, NEW r \in Replicas, UNCHANGED applied
    PROVE  applied' = [applied EXCEPT ![r] = applied[r]]
  BY DEF TypeOK

LEMMA ConnectSessions ==
    ASSUME TypeOK, Sessions, NEW r \in Replicas, Connect(r)
    PROVE  Sessions'
<1>1. /\ node[r].phase = "off" /\ UNCHANGED applied
      /\ Step(r, Fresh("ping"), toReplica[r], <<Message("ping", 0)>>)
  BY DEF Connect, In
<1>2. r \notin Attached
  BY <1>1, Zenon DEF Sessions, SessionOK, Joined, Live
<1>3. toReplica[r] = <<>> /\ toMaster[r] = <<>> /\ asked[r] = 0
  BY <1>1, <1>2, Zenon DEF Sessions, SessionOK, Before
<1> DEFINE tm == <<Message("ping", 0)>>
<1>4. toMaster[r] \o tm = tm
  BY <1>3, MessageTypes
<1>5. Len(tm) = 1 /\ \A i \in 1..Len(tm) : tm[i].type = "ping"
  BY DEF Message
<1> HIDE DEF tm
<1>6. Before(Fresh("ping"), <<>>, tm, 0)
  BY <1>5 DEF Before, Fresh
<1>7. SessionAs(r, Fresh("ping"), toReplica[r], tm, applied[r])
  BY <1>2, <1>3, <1>6 DEF SessionAs
<1>8. applied' = [applied EXCEPT ![r] = applied[r]]
  BY <1>1, SameApplied
<1> QED
  BY <1>1, <1>4, <1>7, <1>8, StepSessions, Zenon DEF tm

LEMMA DiesSessions ==
    ASSUME TypeOK, Sessions, NEW r \in Replicas, Step(r, Fresh("dead"), toReplica[r], <<>>), UNCHANGED applied
    PROVE  Sessions'
<1>1. toMaster[r] \o <<>> = toMaster[r]
  BY RowTypes
<1>2. SessionOK(r) /\ Fresh("dead").phase = "dead"
  BY DEF Sessions, Fresh
<1>3. r \in Attached => SessionAs(r, Fresh("dead"), toReplica[r], toMaster[r], applied[r])
  <2> SUFFICES ASSUME r \in Attached PROVE SessionAs(r, Fresh("dead"), toReplica[r], toMaster[r], applied[r])
    OBVIOUS
  <2>1. Joined(Fresh("dead"), toReplica[r], toMaster[r], applied[r], asked[r], replicas[r], master_offset)
    BY <1>2 DEF SessionOK, Joined
  <2> QED
    BY <2>1 DEF SessionAs
<1>4. r \notin Attached => SessionAs(r, Fresh("dead"), toReplica[r], toMaster[r], applied[r])
  <2> SUFFICES ASSUME r \notin Attached PROVE SessionAs(r, Fresh("dead"), toReplica[r], toMaster[r], applied[r])
    OBVIOUS
  <2>1. Before(Fresh("dead"), toReplica[r], toMaster[r], asked[r])
    BY <1>2, Zenon DEF SessionOK, Before
  <2> QED
    BY <2>1 DEF SessionAs
<1>5. applied' = [applied EXCEPT ![r] = applied[r]]
  BY SameApplied
<1> QED
  BY <1>1, <1>3, <1>4, <1>5, StepSessions, ZenonT(30)

LEMMA ExpectSessions ==
    ASSUME TypeOK, Sessions, NEW r \in Replicas, NEW reply, NEW phase, NEW next, NEW command,
           Expect(r, phase, reply, next, command),
           \/ phase \in {"ping", "port"} /\ next \in {"port", "capa"} /\ command = "replconf"
           \/ phase = "capa" /\ next = "psync" /\ command = "psync"
    PROVE  Sessions'
<1> DEFINE p == IF Head(toReplica[r]).type = reply THEN To(r, next) ELSE To(r, "dead")
           m == Message(command, 0)
<1>1. /\ node[r].phase = phase /\ toReplica[r] # <<>> /\ UNCHANGED applied
      /\ Step(r, p, After(r, 1), <<m>>)
  BY DEF Expect, In
<1>2. /\ node[r] \in Node /\ toReplica[r] \in Seq(ToReplica) /\ toMaster[r] \in Seq(ToMaster)
      /\ m \in ToMaster /\ m.type = command
  BY RowTypes, MessageTypes, ZenonT(30) DEF Message
<1>3. r \notin Attached
  BY <1>1, Zenon DEF Sessions, SessionOK, Joined, Live
<1>4. Before(node[r], toReplica[r], toMaster[r], asked[r])
  BY <1>3 DEF Sessions, SessionOK
<1>5. Len(toReplica[r]) = 1 /\ toMaster[r] = <<>>
  <2>1. Len(toReplica[r]) + Len(toMaster[r]) <= 1
    BY <1>1, <1>4, Zenon DEF Before
  <2>2. Len(toReplica[r]) \in Nat /\ Len(toReplica[r]) # 0 /\ Len(toMaster[r]) \in Nat
    BY <1>1, <1>2
  <2>3. \A i, j \in Nat : i # 0 /\ i + j <= 1 => i = 1 /\ j = 0
    OBVIOUS
  <2>4. Len(toReplica[r]) = 1 /\ Len(toMaster[r]) = 0
    BY <2>1, <2>2, <2>3, Zenon
  <2> QED
    BY <1>2, <2>4
<1>6. After(r, 1) = <<>>
  <2>1. 1 \in 0..Len(toReplica[r])
    BY <1>5
  <2>2. After(r, 1) \in Seq(ToReplica) /\ Len(After(r, 1)) = Len(toReplica[r]) - 1
    BY <1>2, <2>1, SuffixFacts DEF After
  <2>3. Len(After(r, 1)) = 0
    BY <1>5, <2>2
  <2> QED
    BY <2>2, <2>3
<1>7. /\ p.phase \in {next, "dead"} /\ p.pending = node[r].pending /\ p.commands = node[r].commands
      /\ p.acks = node[r].acks /\ p.offset = node[r].offset
  BY <1>2 DEF To, Node
<1> HIDE DEF p, m
<1>8. toMaster[r] \o <<m>> = <<m>>
  BY <1>2, <1>5
<1>9. Len(<<m>>) = 1 /\ Len(<<>>) = 0 /\ \A i \in 1..Len(<<m>>) : <<m>>[i] = m
  OBVIOUS
<1>10. /\ node[r].pending = <<>> /\ node[r].commands = <<>> /\ node[r].acks = <<>> /\ node[r].offset = 0
       /\ asked[r] = 0
  BY <1>1, <1>4, Zenon DEF Before
<1>11. Before(p, <<>>, <<m>>, asked[r])
  <2>1. \A i \in 1..Len(<<m>>) : <<m>>[i].type # "ack" /\ <<m>>[i].type = command
    BY <1>2, <1>9
  <2> DEFINE tm == <<m>>
  <2>2. Len(tm) = 1 /\ \A i \in 1..Len(tm) : tm[i].type # "ack" /\ tm[i].type = command
    BY <1>9, <2>1
  <2> HIDE DEF tm
  <2>3. Before(p, <<>>, tm, asked[r])
    BY <1>7, <1>9, <1>10, <2>2 DEF Before
  <2> QED
    BY <2>3 DEF tm
<1>12. SessionAs(r, p, After(r, 1), <<m>>, applied[r])
  BY <1>3, <1>6, <1>11 DEF SessionAs
<1>13. applied' = [applied EXCEPT ![r] = applied[r]]
  BY <1>1, SameApplied
<1> QED
  BY <1>1, <1>8, <1>12, <1>13, StepSessions, Zenon

\* What is left of the stream when it is read in pieces.
LEMMA TailConcat ==
    ASSUME NEW p \in Seq(ToReplica), NEW q \in Seq(ToReplica), p # <<>>
    PROVE  Tail(p) \o q = Tail(p \o q) /\ (p \o q)[1] = p[1] /\ p \o q # <<>>
<1> DEFINE t == Tail(p)
           l == t \o q
           s == p \o q
           u == Tail(s)
<1>1. /\ Len(p) \in Nat /\ Len(p) >= 1 /\ t \in Seq(ToReplica) /\ Len(t) = Len(p) - 1
      /\ \A i \in 1..(Len(p) - 1) : t[i] = p[i + 1]
  BY TailFacts
<1>2. /\ s \in Seq(ToReplica) /\ Len(s) = Len(p) + Len(q) /\ Len(q) \in Nat
      /\ \A i \in 1..Len(p) : s[i] = p[i]
      /\ \A i \in 1..Len(q) : s[Len(p) + i] = q[i]
  BY ConcatFacts
<1> HIDE DEF t, s
<1>3. Len(s) >= 1 /\ s # <<>>
  <2>1. Len(s) >= 1
    BY <1>1, <1>2
  <2> QED
    BY <2>1
<1>4. /\ u \in Seq(ToReplica) /\ Len(u) = Len(s) - 1
      /\ \A i \in 1..(Len(s) - 1) : u[i] = s[i + 1]
  BY <1>2, <1>3, TailFacts
<1>5. /\ l \in Seq(ToReplica) /\ Len(l) = Len(t) + Len(q)
      /\ \A i \in 1..Len(t) : l[i] = t[i]
  BY <1>1, ConcatFacts, Zenon
<1>6. \A i \in 1..Len(q) : l[Len(t) + i] = q[i]
  BY <1>1, ConcatFacts
<1> HIDE DEF l, u
<1>7. ASSUME NEW i \in 1..Len(l) PROVE l[i] = u[i]
  <2>1. u[i] = s[i + 1]
    BY <1>1, <1>2, <1>4, <1>5
  <2>2. CASE i \in 1..(Len(p) - 1)
    BY <1>1, <1>2, <1>5, <2>1, <2>2
  <2>3. CASE i \notin 1..(Len(p) - 1)
    <3> DEFINE j == i - (Len(p) - 1)
    <3>1. j \in 1..Len(q) /\ i = Len(t) + j /\ i + 1 = Len(p) + j
      BY <1>1, <1>2, <1>5, <2>3
    <3> HIDE DEF j
    <3>2. l[i] = q[j] /\ s[i + 1] = q[j]
      BY <1>2, <1>6, <3>1
    <3> QED
      BY <2>1, <3>2
  <2> QED
    BY <2>2, <2>3
<1>8. Len(l) = Len(u)
  BY <1>1, <1>2, <1>4, <1>5
<1>9. l = u
  BY <1>4, <1>5, <1>7, <1>8, SameSeq
<1>10. s[1] = p[1]
  BY <1>1, <1>2
<1> QED
  BY <1>3, <1>9, <1>10 DEF l, u, s, t

LEMMA TailSplit ==
    ASSUME NEW q \in Seq(ToReplica), NEW k \in 1..Len(q)
    PROVE  /\ SubSeq(q, 2, k) \in Seq(ToReplica)
           /\ SubSeq(q, 2, k) \o SubSeq(q, k + 1, Len(q)) = Tail(q)
<1> DEFINE a == SubSeq(q, 2, k)
           b == SubSeq(q, k + 1, Len(q))
           l == a \o b
           t == Tail(q)
<1>1. Len(q) \in Nat /\ k \in Nat /\ k >= 1 /\ k <= Len(q) /\ k \in 0..Len(q) /\ q # <<>>
  OBVIOUS
<1>2. a \in Seq(ToReplica) /\ Len(a) = k - 1 /\ \A i \in 1..(k - 1) : a[i] = q[i + 1]
  <2>1. \A i \in 2..k : q[i] \in ToReplica
    BY <1>1
  <2>2. Len(a) = k - 1
    BY <1>1
  <2>3. \A i \in 1..(k - 1) : a[i] = q[2 + i - 1] /\ 2 + i - 1 = i + 1
    BY <1>1
  <2>4. a \in Seq(ToReplica)
    BY <1>1, <2>1
  <2> QED
    BY <2>2, <2>3, <2>4
<1>3. b \in Seq(ToReplica) /\ Len(b) = Len(q) - k /\ \A i \in 1..(Len(q) - k) : b[i] = q[i + k]
  BY <1>1, SuffixFacts
<1>4. t \in Seq(ToReplica) /\ Len(t) = Len(q) - 1 /\ \A i \in 1..(Len(q) - 1) : t[i] = q[i + 1]
  BY <1>1, TailFacts
<1> HIDE DEF a, b, t
<1>5. l \in Seq(ToReplica) /\ Len(l) = Len(a) + Len(b) /\ \A i \in 1..Len(a) : l[i] = a[i]
  BY <1>2, <1>3, ConcatFacts, Zenon
<1>6. \A i \in 1..Len(b) : l[Len(a) + i] = b[i]
  BY <1>2, <1>3, ConcatFacts
<1> HIDE DEF l
<1>7. ASSUME NEW i \in 1..Len(l) PROVE l[i] = t[i]
  <2>1. t[i] = q[i + 1]
    BY <1>1, <1>2, <1>3, <1>4, <1>5
  <2>2. CASE i \in 1..(k - 1)
    BY <1>2, <1>5, <2>1, <2>2
  <2>3. CASE i \notin 1..(k - 1)
    <3> DEFINE j == i - (k - 1)
    <3>1. j \in 1..Len(b) /\ i = Len(a) + j /\ i + 1 = j + k
      BY <1>1, <1>2, <1>3, <1>5, <2>3
    <3> HIDE DEF j
    <3>2. l[i] = b[j] /\ b[j] = q[j + k]
      BY <1>3, <1>6, <3>1
    <3> QED
      BY <2>1, <3>1, <3>2
  <2> QED
    BY <2>2, <2>3
<1>8. Len(l) = Len(t)
  BY <1>1, <1>2, <1>3, <1>4, <1>5
<1>9. l = t
  BY <1>4, <1>5, <1>7, <1>8, SameSeq
<1> QED
  BY <1>2, <1>9, Zenon DEF l, t, a, b

\* A step that only reads.
LEMMA ReadSessions ==
    ASSUME TypeOK, Sessions, NEW r \in Replicas, r \in Attached, NEW n, NEW rest,
           Step(r, n, rest, <<>>), UNCHANGED applied,
           Live(n, n.pending \o rest, applied[r], asked[r], master_offset),
           n.phase \in {"psync", "running"} => n.pending = <<>>
    PROVE  Sessions'
<1>1. Joined(node[r], toReplica[r], toMaster[r], applied[r], asked[r], replicas[r], master_offset)
  BY DEF Sessions, SessionOK
<1>2. Joined(n, rest, toMaster[r], applied[r], asked[r], replicas[r], master_offset)
  BY <1>1 DEF Joined
<1>3. SessionAs(r, n, rest, toMaster[r], applied[r])
  BY <1>2 DEF SessionAs
<1>4. toMaster[r] = toMaster[r] \o <<>>
  BY RowTypes
<1>5. applied' = [applied EXCEPT ![r] = applied[r]]
  BY SameApplied
<1> QED
  BY <1>3, <1>4, <1>5, StepSessions, ZenonT(30)

LEMMA LiveSession ==
    ASSUME TypeOK, Sessions, NEW r \in Replicas, node[r].phase \in {"psync", "rdb", "loaded", "running"},
           node[r].phase = "psync" => toReplica[r] # <<>>
    PROVE  /\ r \in Attached
           /\ Joined(node[r], toReplica[r], toMaster[r], applied[r], asked[r], replicas[r], master_offset)
           /\ Live(node[r], node[r].pending \o toReplica[r], applied[r], asked[r], master_offset)
           /\ node[r].phase \in {"psync", "running"} => node[r].pending = <<>>
           /\ node[r].pending \in Seq(ToReplica) /\ node[r].pending \o toReplica[r] \in Seq(ToReplica)
           /\ node[r].pending = <<>> => node[r].pending \o toReplica[r] = toReplica[r]
<1>1. r \in Attached
  BY Zenon DEF Sessions, SessionOK, Before
<1>2. Joined(node[r], toReplica[r], toMaster[r], applied[r], asked[r], replicas[r], master_offset)
  BY <1>1 DEF Sessions, SessionOK
<1>3. node[r].pending \in Seq(ToReplica) /\ toReplica[r] \in Seq(ToReplica)
  BY RowTypes, NodeTypes
<1>4. node[r].pending \o toReplica[r] \in Seq(ToReplica)
  BY <1>3, ConcatFacts
<1>5. node[r].pending = <<>> => node[r].pending \o toReplica[r] = toReplica[r]
  BY <1>3
<1>6. /\ Live(node[r], node[r].pending \o toReplica[r], applied[r], asked[r], master_offset)
      /\ node[r].phase \in {"psync", "running"} => node[r].pending = <<>>
  BY <1>2 DEF Joined
<1> QED
  BY <1>1, <1>2, <1>3, <1>4, <1>5, <1>6, Zenon

LEMMA PsyncSessions ==
    ASSUME TypeOK, Sessions, NEW r \in Replicas, NEW k \in 1..Len(toReplica[r]), send_psync(r, k)
    PROVE  Sessions'
<1> DEFINE q == toReplica[r]
           o == IF r \in Others THEN Head(q).n ELSE 0
           a == SubSeq(q, 2, k)
           p == [To(r, "rdb") EXCEPT !.pending = a, !.offset = o]
<1>1. node[r].phase = "psync" /\ Step(r, p, After(r, k), <<>>) /\ UNCHANGED applied
  BY DEF send_psync, In
<1>2. q \in Seq(ToReplica) /\ node[r] \in Node /\ q # <<>>
  BY RowTypes
<1>3. /\ r \in Attached /\ Live(node[r], q, applied[r], asked[r], master_offset)
  BY <1>1, <1>2, LiveSession, Zenon
<1>4. a \in Seq(ToReplica) /\ a \o After(r, k) = Tail(q)
  BY <1>2, TailSplit, Zenon DEF After
<1>5. o \in Nat /\ o \in {0, q[1].n}
  <2>1. Head(q) = q[1] /\ Head(q) \in ToReplica
    BY <1>2, TailFacts
  <2> QED
    BY <2>1 DEF ToReplica
<1> HIDE DEF a, o, q
<1>6. /\ p.phase = "rdb" /\ p.pending = a /\ p.offset = o /\ p.commands = node[r].commands
      /\ p.acks = node[r].acks /\ p \in Node
  BY <1>2, <1>4, <1>5, Zenon DEF To, Node, Phases
<1> HIDE DEF p
<1>7. applied[r] \in Nat /\ asked[r] \in Nat /\ master_offset \in Nat
  BY RowTypes
<1>8. Live(p, Tail(q), applied[r], asked[r], master_offset)
  BY <1>1, <1>2, <1>3, <1>5, <1>6, <1>7, LiveHeader
<1> QED
  BY <1>1, <1>3, <1>4, <1>6, <1>8, ReadSessions, Zenon

LEMMA RdbSessions ==
    ASSUME TypeOK, Sessions, NEW r \in Replicas, NEW k \in 0..Len(toReplica[r]), receive_rdb(r, k)
    PROVE  Sessions'
<1> DEFINE q == toReplica[r]
           d == node[r].pending
           a == Tail(d \o UpTo(r, k))
           p == [To(r, "loaded") EXCEPT !.pending = a]
<1>1. node[r].phase = "rdb" /\ Step(r, p, After(r, k), <<>>) /\ UNCHANGED applied
  BY DEF receive_rdb, In, LoadRdb
<1>2. q \in Seq(ToReplica) /\ node[r] \in Node /\ d \in Seq(ToReplica)
  BY RowTypes, NodeTypes
<1>3. /\ r \in Attached /\ Live(node[r], d \o q, applied[r], asked[r], master_offset)
      /\ d \o q \in Seq(ToReplica)
  BY <1>1, LiveSession, Zenon
<1>4. a \in Seq(ToReplica) /\ a \o After(r, k) = Tail(d \o q)
  <2>1. CASE d # <<>> /\ k = 0
    <3>1. UpTo(r, k) = <<>> /\ After(r, k) = q
      BY <1>2, <2>1 DEF UpTo, After
    <3>2. d \o UpTo(r, k) = d
      BY <1>2, <3>1
    <3>3. Tail(d) \o q = Tail(d \o q)
      BY <1>2, <2>1, TailConcat, Zenon
    <3>4. Tail(d) \in Seq(ToReplica)
      BY <1>2, <2>1, TailFacts
    <3> QED
      BY <3>1, <3>2, <3>3, <3>4, Zenon
  <2>2. CASE d = <<>> /\ k > 0
    <3>1. k \in 1..Len(q) /\ Len(q) \in Nat
      BY <1>2, <2>2
    <3>2. UpTo(r, k) \in Seq(ToReplica) /\ Len(UpTo(r, k)) = k /\ \A i \in 1..k : UpTo(r, k)[i] = q[i]
      BY <1>2, PrefixFacts DEF UpTo
    <3>3. d \o UpTo(r, k) = UpTo(r, k) /\ d \o q = q
      BY <1>2, <2>2, <3>2
    <3>4. SubSeq(q, 2, k) \in Seq(ToReplica) /\ SubSeq(q, 2, k) \o After(r, k) = Tail(q)
      BY <1>2, <3>1, TailSplit, Zenon DEF After
    <3>5. Tail(UpTo(r, k)) = SubSeq(q, 2, k)
      <4> DEFINE u == Tail(UpTo(r, k))
                 s == SubSeq(q, 2, k)
      <4>1. UpTo(r, k) # <<>>
        BY <2>2, <3>2
      <4>2. u \in Seq(ToReplica) /\ Len(u) = k - 1 /\ \A i \in 1..(k - 1) : u[i] = UpTo(r, k)[i + 1]
        BY <3>2, <4>1, TailFacts
      <4>3. Len(s) = k - 1
        BY <1>2, <3>1
      <4>4. \A i \in 1..(k - 1) : s[i] = q[2 + i - 1] /\ 2 + i - 1 = i + 1
        BY <1>2, <3>1
      <4>5. \A i \in 1..(k - 1) : i + 1 \in 1..k
        BY <3>1
      <4> HIDE DEF u, s
      <4>6. \A i \in 1..(k - 1) : u[i] = s[i]
        BY <3>2, <4>2, <4>4, <4>5
      <4>7. u = s
        BY <3>4, <4>2, <4>3, <4>6, SameSeq DEF s
      <4> QED
        BY <4>7 DEF u, s
    <3> QED
      BY <3>3, <3>4, <3>5, Zenon
  <2> QED
    BY <2>1, <2>2, Zenon DEF receive_rdb
<1> HIDE DEF a
<1>5. /\ p.phase = "loaded" /\ p.pending = a /\ p.offset = node[r].offset /\ p.commands = node[r].commands
      /\ p.acks = node[r].acks /\ p \in Node
  BY <1>2, <1>4, Zenon DEF To, Node, Phases
<1> HIDE DEF p
<1>6. applied[r] \in Nat /\ asked[r] \in Nat /\ master_offset \in Nat
  BY RowTypes
<1>7. Live(p, Tail(d \o q), applied[r], asked[r], master_offset)
  BY <1>1, <1>2, <1>3, <1>5, <1>6, LiveHeader, Zenon
<1> QED
  BY <1>1, <1>3, <1>4, <1>5, <1>7, ReadSessions, Zenon

LEMMA PendingSessions ==
    ASSUME TypeOK, Sessions, NEW r \in Replicas, process_pending_buffer(r)
    PROVE  Sessions'
<1> DEFINE q == toReplica[r]
           d == node[r].pending
           b == [node[r] EXCEPT !.pending = Tail(@)]
           p == ParseOne(b, Head(d))
<1>1. node[r].phase = "loaded" /\ d # <<>> /\ Step(r, p, q, <<>>) /\ UNCHANGED applied
  BY DEF process_pending_buffer
<1>2. q \in Seq(ToReplica) /\ node[r] \in Node /\ d \in Seq(ToReplica)
  BY RowTypes, NodeTypes
<1>3. /\ r \in Attached /\ Live(node[r], d \o q, applied[r], asked[r], master_offset)
      /\ d \o q \in Seq(ToReplica)
  BY <1>1, LiveSession, Zenon
<1>4. Tail(d) \o q = Tail(d \o q) /\ (d \o q)[1] = Head(d) /\ d \o q # <<>>
  <2>1. Head(d) = d[1]
    BY <1>1, <1>2, TailFacts
  <2> QED
    BY <1>1, <1>2, <2>1, TailConcat, Zenon
<1>5. Head(d) \in ToReplica /\ Tail(d) \in Seq(ToReplica)
  BY <1>1, <1>2, TailFacts
<1>6. /\ b \in Node /\ b.pending = Tail(d) /\ b.phase = "loaded" /\ b.offset = node[r].offset
      /\ b.commands = node[r].commands /\ b.acks = node[r].acks
  BY <1>1, <1>2, <1>5, Zenon DEF Node
<1> DEFINE m == Head(d)
<1> HIDE DEF b, m
<1>7. p \in Node /\ p.pending = Tail(d) /\ Parsed(p, b, m)
  BY <1>5, <1>6, ParseFacts DEF m
<1> HIDE DEF p
<1>0. p.phase = "loaded" /\ Parsed(p, node[r], m)
  BY <1>1, <1>6, <1>7, ZenonT(30) DEF Parsed
<1>8. applied[r] \in Nat /\ asked[r] \in Nat /\ master_offset \in Nat
  BY RowTypes
<1>9. Live(p, Tail(d \o q), applied[r], asked[r], master_offset)
  <2>1. (d \o q)[1] = m
    BY <1>4 DEF m
  <2> DEFINE dq == d \o q
  <2> HIDE DEF dq
  <2>2. /\ dq \in Seq(ToReplica) /\ dq # <<>> /\ dq[1] = m
        /\ Live(node[r], dq, applied[r], asked[r], master_offset)
    BY <1>3, <1>4, <2>1, ZenonT(30) DEF dq
  <2>3. Live(p, Tail(dq), applied[r], asked[r], master_offset)
    BY <1>1, <1>2, <1>7, <1>0, <1>8, <2>2, LiveParse
  <2> QED
    BY <2>3 DEF dq
<1> QED
  BY <1>1, <1>3, <1>4, <1>7, <1>0, <1>9, ReadSessions, Zenon

LEMMA PropagatedSessions ==
    ASSUME TypeOK, Sessions, NEW r \in Replicas, process_propagated_commands(r)
    PROVE  Sessions'
<1> DEFINE q == toReplica[r]
           p == ParseOne(node[r], Head(q))
<1>1. node[r].phase = "running" /\ q # <<>> /\ Step(r, p, After(r, 1), <<>>) /\ UNCHANGED applied
  BY DEF process_propagated_commands, In
<1>2. q \in Seq(ToReplica) /\ node[r] \in Node
  BY RowTypes
<1>3. r \in Attached /\ node[r].pending = <<>> /\ Live(node[r], q, applied[r], asked[r], master_offset)
  BY <1>1, LiveSession, Zenon
<1>4. After(r, 1) = Tail(q) /\ Tail(q) \in Seq(ToReplica)
  <2>1. 1 \in 0..Len(q) /\ 1 \in 1..Len(q)
    BY <1>1, <1>2
  <2>2. After(r, 1) \in Seq(ToReplica) /\ Len(After(r, 1)) = Len(q) - 1
        /\ \A i \in 1..(Len(q) - 1) : After(r, 1)[i] = q[i + 1]
    BY <1>2, <2>1, SuffixFacts DEF After
  <2>3. Tail(q) \in Seq(ToReplica) /\ Len(Tail(q)) = Len(q) - 1
        /\ \A i \in 1..(Len(q) - 1) : Tail(q)[i] = q[i + 1]
    BY <1>1, <1>2, TailFacts, Zenon
  <2> DEFINE a == After(r, 1)
             t == Tail(q)
  <2> HIDE DEF a, t
  <2>4. a \in Seq(ToReplica) /\ t \in Seq(ToReplica) /\ Len(a) = Len(t) /\ \A i \in 1..Len(a) : a[i] = t[i]
    BY <2>2, <2>3 DEF a, t
  <2>5. a = t
    BY <2>4, SameSeq
  <2> QED
    BY <2>3, <2>5 DEF a, t
<1>5. Head(q) \in ToReplica /\ Head(q) = q[1]
  BY <1>1, <1>2, TailFacts
<1>6. p \in Node /\ p.pending = <<>> /\ Parsed(p, node[r], q[1])
  BY <1>2, <1>3, <1>5, ParseFacts
<1> HIDE DEF p
<1>7. p.phase = "running"
  BY <1>1, <1>6 DEF Parsed
<1>8. applied[r] \in Nat /\ asked[r] \in Nat /\ master_offset \in Nat
  BY RowTypes
<1>9. Live(p, Tail(q), applied[r], asked[r], master_offset)
  BY <1>1, <1>2, <1>3, <1>6, <1>8, LiveParse
<1>10. p.pending \o Tail(q) = Tail(q)
  BY <1>4, <1>6
<1> QED
  BY <1>1, <1>3, <1>4, <1>6, <1>9, <1>10, ReadSessions, Zenon

LEMMA RunSessions ==
    ASSUME TypeOK, Sessions, NEW r \in Replicas, RunCommands(r)
    PROVE  Sessions'
<1>1. CASE node[r].commands # <<>> /\ r \notin Others
  BY <1>1, DiesSessions DEF RunCommands
<1>2. CASE ~(node[r].commands # <<>> /\ r \notin Others)
  <2> DEFINE n == node[r]
             p == [n EXCEPT !.phase = "running", !.commands = <<>>, !.acks = <<>>]
             q == n.pending \o toReplica[r]
             z == Ran(n, applied[r])
             tm == toMaster[r] \o n.acks
  <2>1. Step(r, p, toReplica[r], n.acks) /\ applied' = [applied EXCEPT ![r] = z]
    BY <1>2 DEF RunCommands, Ran
  <2>2. n.phase \in {"loaded", "running"} /\ (n.phase = "loaded" => n.pending = <<>>)
    BY DEF RunCommands, ReadEnded
  <2>3. /\ n \in Node /\ applied[r] \in Nat /\ asked[r] \in Nat /\ master_offset \in Nat
        /\ toMaster[r] \in Seq(ToMaster) /\ n.acks \in Seq(ToMaster)
    BY RowTypes, NodeTypes
  <2>4. /\ r \in Attached /\ Live(n, q, applied[r], asked[r], master_offset) /\ q \in Seq(ToReplica)
        /\ Joined(n, toReplica[r], toMaster[r], applied[r], asked[r], replicas[r], master_offset)
        /\ n.pending = <<>>
    BY <2>2, LiveSession, Zenon
  <2>5. p \in Node
    BY <2>3, NewNode, Zenon DEF Phases
  <2>6. /\ p.phase = "running" /\ p.offset = n.offset
        /\ p.commands = <<>> /\ p.acks = <<>> /\ p.pending = n.pending
    BY <2>3 DEF Node
  <2> HIDE DEF n, p, q, z
  <2>7. /\ z \in Nat /\ applied[r] <= z /\ Live(p, q, z, asked[r], master_offset)
        /\ asked[r] <= 1 => \A i \in 1..Len(n.acks) : n.acks[i].n <= z
    BY <2>2, <2>3, <2>4, <2>5, <2>6, LiveRun, ZenonT(30) DEF z
  <2>8. /\ Len(tm) = Len(toMaster[r]) + Len(n.acks) /\ Len(toMaster[r]) \in Nat /\ Len(n.acks) \in Nat
        /\ \A i \in 1..Len(toMaster[r]) : tm[i] = toMaster[r][i]
        /\ \A i \in 1..Len(n.acks) : tm[Len(toMaster[r]) + i] = n.acks[i]
    <3>1. Len(tm) = Len(toMaster[r]) + Len(n.acks) /\ \A i \in 1..Len(toMaster[r]) : tm[i] = toMaster[r][i]
      BY <2>3, AckConcat, Zenon
    <3>2. \A i \in 1..Len(n.acks) : tm[Len(toMaster[r]) + i] = n.acks[i]
      BY <2>3, AckConcat, Zenon
    <3>3. Len(toMaster[r]) \in Nat /\ Len(n.acks) \in Nat
      BY <2>3
    <3> HIDE DEF tm
    <3> QED
      BY <3>1, <3>2, <3>3, Zenon
  <2> HIDE DEF tm
  <2>9. ASSUME NEW i \in 1..Len(tm)
        PROVE  \/ i \in 1..Len(toMaster[r]) /\ tm[i] = toMaster[r][i]
               \/ \E j \in 1..Len(n.acks) : tm[i] = n.acks[j]
    <3>1. CASE i \in 1..Len(toMaster[r])
      BY <2>8, <3>1, Zenon
    <3>2. CASE i \notin 1..Len(toMaster[r])
      <4>0. \A x, y \in Nat : \A k \in 1..(x + y) : k \notin 1..x => k - x \in 1..y /\ k = x + (k - x)
        OBVIOUS
      <4>1. i - Len(toMaster[r]) \in 1..Len(n.acks) /\ i = Len(toMaster[r]) + (i - Len(toMaster[r]))
        BY <2>8, <3>2, <4>0, ZenonT(30)
      <4> QED
        BY <2>8, <4>1, Zenon
    <3> QED
      BY <3>1, <3>2
  <2>10. \A i \in 1..Len(tm) : tm[i].type = "ack"
    BY <2>4, <2>9 DEF Joined, Live
  <2>11. ASSUME asked[r] <= 1 PROVE replicas[r] <= z /\ \A i \in 1..Len(tm) : tm[i].n <= z
    <3>1. replicas[r] <= applied[r] /\ replicas[r] \in Nat
      BY <2>4, <2>11, RowTypes DEF Joined
    <3>2. ASSUME NEW i \in 1..Len(toMaster[r]) PROVE toMaster[r][i].n <= z
      <4>1. toMaster[r][i].n <= applied[r] /\ toMaster[r][i] \in ToMaster
        BY <2>3, <2>4, <2>11 DEF Joined
      <4>2. toMaster[r][i].n \in Nat
        BY <4>1 DEF ToMaster
      <4> QED
        BY <2>3, <2>7, <4>1, <4>2
    <3>3. \A i \in 1..Len(tm) : tm[i].n <= z
      BY <2>7, <2>9, <2>11, <3>2
    <3> QED
      BY <2>3, <2>7, <3>1, <3>3
  <2>12. Joined(p, toReplica[r], tm, z, asked[r], replicas[r], master_offset)
    BY <2>4, <2>6, <2>7, <2>10, <2>11 DEF Joined, q
  <2>13. SessionAs(r, p, toReplica[r], tm, z)
    BY <2>4, <2>12 DEF SessionAs
  <2> QED
    BY <2>1, <2>13, StepSessions, Zenon DEF tm
<1> QED
  BY <1>1, <1>2

LEMMA NextSessions == ASSUME TypeOK, Sessions, [Next]_vars PROVE Sessions'
<1>1. ASSUME UNCHANGED <<master_offset, replicas, toReplica, toMaster, node, applied, asked>> PROVE Sessions'
  BY <1>1 DEF Sessions, SessionOK, Attached
<1>2. CASE \/ \E c \in Clients : Reconnect(c)
           \/ Loop \/ EpollReturns \/ Tick \/ UNCHANGED vars
  BY <1>1, <1>2 DEF Reconnect, Loop, compute_timeout, EpollReturns, Tick, vars, masterVars
<1>3. ASSUME NEW c \in Clients, NEW num \in NumReplicas, NEW t \in Timeouts,
             Wait(c, num, t) \/ WriteThenWait(c, num, t)
      PROVE  Sessions'
  BY <1>3, WaitSessions, WriteThenWaitSessions
<1>4. ASSUME NEW r \in Replicas, MasterReads(r) \/ remove_replica(r) PROVE Sessions'
  BY <1>4, HandshakeSessions, AckSessions, RemoveSessions DEF MasterReads
<1>5. ASSUME NEW r \in Replicas, Connect(r) \/ Dies(r) PROVE Sessions'
  BY <1>5, ConnectSessions, DiesSessions DEF Dies
<1>6. ASSUME NEW r \in Replicas, ReplicaSteps(r) PROVE Sessions'
  <2>1. CASE send_ping(r) \/ send_replconf(r)
    BY <2>1, ExpectSessions DEF send_ping, send_replconf
  <2> QED
    BY <1>6, <2>1, PsyncSessions, RdbSessions, PendingSessions, PropagatedSessions, RunSessions
    DEF ReplicaSteps
<1> QED
  BY <1>2, <1>3, <1>4, <1>5, <1>6, WriteSessions DEF Next

LEMMA InitSessions == ASSUME Init PROVE Sessions
<1>1. Before(Fresh("off"), <<>>, <<>>, 0)
  BY DEF Before, Fresh
<1>2. Attached = {}
  BY DEF Init, Attached
<1> QED
  BY <1>1, <1>2 DEF Init, Sessions, SessionOK

LEMMA SessionsWhole == ASSUME TypeOK, Sessions PROVE StreamIsWhole
<1> SUFFICES ASSUME NEW r \in Attached, node[r].phase # "dead"
             PROVE  LET q == OnTheWay(r)
                        upto == OffsetsAlong(q, applied[r])
                    IN  /\ \A i \in 1..Len(q) : q[i].type = "write" => q[i].n = upto[i]
                        /\ master_offset = upto[Len(q)]
  BY DEF StreamIsWhole
<1> DEFINE n == node[r]
           q == n.pending \o toReplica[r]
           w == n.commands \o q
<1>1. r \in Replicas
  BY DEF TypeOK
<1>2. n.commands \in Seq(ToReplica) /\ n.pending \in Seq(ToReplica) /\ toReplica[r] \in Seq(ToReplica)
  BY <1>1, RowTypes, NodeTypes
<1>3. q \in Seq(ToReplica)
  BY <1>2, ConcatFacts
<1>4. w \in Seq(ToReplica)
  BY <1>2, <1>3, ConcatFacts
<1>5. OnTheWay(r) = w
  BY <1>2, ConcatAssoc, Zenon DEF OnTheWay
<1>6. Flows(n, q, applied[r], asked[r], master_offset)
  BY <1>1, Zenon DEF Sessions, SessionOK, Joined, Live
<1> HIDE DEF q, n
<1>7. Chain(w, applied[r], master_offset)
  BY <1>2, <1>3, <1>6, ChainConcat DEF Flows
<1> HIDE DEF w
<1> QED
  BY <1>4, <1>5, <1>7, ChainOffsets

\* Between PSYNC and the end of its process, the writes that a replica has not
\* run are those on their way to it, in the buffers of send_psync, receive_rdb
\* and process_buffer_impl or on the connection: none is lost, doubled or out
\* of order, for any number of replicas that join, end and join again, and any
\* split of the stream into reads.
THEOREM StreamWhole == Spec => []StreamIsWhole
<1>1. Init => TypeOK /\ Sessions
  BY InitTypes, InitSessions
<1>2. TypeOK /\ Sessions /\ [Next]_vars => (TypeOK /\ Sessions)'
  BY NextTypes, NextSessions
<1>3. TypeOK /\ Sessions => StreamIsWhole
  BY SessionsWhole
<1> QED
  BY <1>1, <1>2, <1>3, PTL DEF Spec

----------------------------------------------------------------------------
(* WAIT.                                                                   *)

\* No acknowledgement, counted or on its way, is beyond what its replica ran.
Acked ==
    \A r \in Attached : asked[r] <= 1 =>
        replicas[r] <= applied[r] /\ \A i \in 1..Len(toMaster[r]) : toMaster[r][i].n <= applied[r]

LEMMA SessionsAcked == ASSUME TypeOK, Sessions PROVE Acked
  BY DEF Acked, Sessions, SessionOK, Joined, TypeOK

\* wait_state_ is that of the WAIT its client waits for, unless the client has
\* gone: the question and the target are of the same offset.
Matched ==
    wait_state # None => LET req == awaiting[wait_state.client_fd]
                         IN  req # None => req.upto = wait_state.target_offset

\* The replicas counted for a target are among those that hold the writes up
\* to it.
LEMMA CountHeld ==
    ASSUME TypeOK, NEW reps, DOMAIN reps = Attached, NEW target \in Nat,
           \A r \in Attached : reps[r] \in Nat /\ reps[r] <= applied[r]
    PROVE  count_acked_for(reps, target) <= Held(target)
<1> DEFINE S == {r \in Attached : applied[r] >= target}
           T == {r \in DOMAIN reps : reps[r] >= target}
<1>1. IsFiniteSet(Attached)
  BY ReplicationAssumption, FS_Subset DEF TypeOK
<1>2. IsFiniteSet(S)
  BY <1>1, FS_Subset
<1>3. T \subseteq S
  BY DEF TypeOK
<1>4. Cardinality(T) <= Cardinality(S)
  BY <1>2, <1>3, FS_Subset
<1> QED
  BY <1>4 DEF count_acked_for, Held, HaveRun

LEMMA HeldNat == ASSUME TypeOK, NEW upto \in Nat PROVE Held(upto) \in Nat
<1> DEFINE S == {r \in Attached : applied[r] >= upto}
<1>1. IsFiniteSet(S)
  BY ReplicationAssumption, FS_Subset DEF TypeOK
<1> QED
  BY <1>1, FS_CardinalityType DEF Held, HaveRun

\* Nothing written: every replica holds it all.
LEMMA HeldNothing == ASSUME TypeOK PROVE Held(0) = count
<1>1. {r \in Attached : applied[r] >= 0} = Attached
  BY DEF TypeOK
<1> QED
  BY <1>1 DEF Held, HaveRun, count

\* The answer given at once.
LEMMA AtOnce ==
    ASSUME TypeOK, Acked, NEW num \in NumReplicas, Satisfied(num), AskedOnce, NEW all
    PROVE  Promised(Request(num, master_offset, all), count, Held(master_offset))
<1>1. CASE master_offset = 0
  <2>1. count <= Held(master_offset)
    BY <1>1, HeldNothing, HeldNat
  <2> QED
    BY <2>1 DEF Promised
<1>2. CASE count_acked_for(replicas, master_offset) >= num
  <2>1. \A r \in Attached : replicas[r] \in Nat /\ replicas[r] <= applied[r]
    BY DEF Acked, AskedOnce, TypeOK
  <2>2. count_acked_for(replicas, master_offset) <= Held(master_offset)
    BY <2>1, CountHeld DEF Attached, TypeOK
  <2>3. count_acked_for(replicas, master_offset) \in Nat
    <3> DEFINE T == {r \in DOMAIN replicas : replicas[r] >= master_offset}
    <3>1. IsFiniteSet(T)
      BY ReplicationAssumption, FS_Subset DEF TypeOK, Attached
    <3> QED
      BY <3>1, FS_CardinalityType DEF count_acked_for
  <2>4. num \in Int /\ Held(master_offset) \in Nat
    BY ReplicationAssumption, HeldNat, Zenon DEF TypeOK
  <2>5. num <= Held(master_offset)
    BY <1>2, <2>2, <2>3, <2>4
  <2> QED
    BY <2>5 DEF Promised, Request
<1> QED
  BY <1>1, <1>2 DEF Satisfied

LEMMA NotBroken ==
    ASSUME NEW req, NEW n, WaitIsBarrier, faults' = faults \cup (Faults(req, n) \cap Noted),
           req # None /\ AskedOnce => Promised(req, n, Held(req.upto))
    PROVE  WaitIsBarrier'
<1>1. "broken" \notin Faults(req, n)
  BY DEF Faults
<1> QED
  BY <1>1 DEF WaitIsBarrier

\* The answer to the WAIT in progress, with the acknowledgements reps.
LEMMA InProgress ==
    ASSUME TypeOK, Matched, WaitIsBarrier, NEW reps, DOMAIN reps = Attached, wait_state # None,
           AskedOnce => \A r \in Attached : reps[r] \in Nat /\ reps[r] <= applied[r],
           Answer(wait_state.client_fd, awaiting[wait_state.client_fd],
                  count_acked_for(reps, wait_state.target_offset))
    PROVE  WaitIsBarrier'
<1> DEFINE req == awaiting[wait_state.client_fd]
           acked == count_acked_for(reps, wait_state.target_offset)
<1>1. req # None => req.upto = wait_state.target_offset
  BY DEF Matched
<1>2. wait_state.target_offset \in Nat
  BY DEF TypeOK
<1>3. AskedOnce => acked <= Held(wait_state.target_offset)
  BY <1>2, CountHeld
<1>4. req # None /\ AskedOnce => Promised(req, acked, Held(req.upto))
  BY <1>1, <1>3 DEF Promised
<1>5. faults' = faults \cup (Faults(req, acked) \cap Noted)
  BY DEF Answer
<1> QED
  BY <1>4, <1>5, NotBroken

\* What a WAIT of c leaves behind, answered at once or not.
LEMMA WaitBarrier ==
    ASSUME TypeOK, Acked, Matched, WaitIsBarrier,
           NEW c \in Clients, NEW num \in NumReplicas, NEW t \in Timeouts, NEW all,
           \/ /\ Satisfied(num)
              /\ Answer(c, Request(num, master_offset, all), count)
              /\ wait_state' = wait_state
           \/ /\ wait_state' = start_wait(c, num, t)
              /\ awaiting' = [awaiting EXCEPT ![c] = Request(num, master_offset, all)]
              /\ faults' = faults
    PROVE  Matched' /\ WaitIsBarrier'
<1> DEFINE req == Request(num, master_offset, all)
<1>1. CASE Satisfied(num) /\ Answer(c, req, count) /\ wait_state' = wait_state
  <2>1. Matched'
    BY <1>1 DEF Matched, Answer, TypeOK
  <2>2. req.upto = master_offset
    BY DEF Request
  <2>3. AskedOnce => Promised(req, count, Held(req.upto))
    BY <1>1, <2>2, AtOnce
  <2>4. faults' = faults \cup (Faults(req, count) \cap Noted)
    BY <1>1 DEF Answer
  <2> QED
    BY <2>1, <2>3, <2>4, NotBroken
<1>2. CASE /\ wait_state' = start_wait(c, num, t)
           /\ awaiting' = [awaiting EXCEPT ![c] = req]
           /\ faults' = faults
  <2>1. awaiting'[c] = req /\ req.upto = master_offset
    BY <1>2 DEF TypeOK, Request
  <2>2. wait_state'.client_fd = c /\ wait_state'.target_offset = master_offset
    BY <1>2 DEF start_wait
  <2> QED
    BY <1>2, <2>1, <2>2 DEF Matched, WaitIsBarrier
<1> QED
  BY <1>1, <1>2

LEMMA AckBarrier ==
    ASSUME TypeOK, Acked, Matched, WaitIsBarrier,
           NEW r \in Replicas, NEW n \in 1..Len(toMaster[r]), process_ack(r, n)
    PROVE  Matched' /\ WaitIsBarrier'
<1>1. CASE UNCHANGED <<wait_state, awaiting, faults>>
  BY <1>1 DEF Matched, WaitIsBarrier
<1>2. CASE /\ wait_state # None
           /\ Answer(wait_state.client_fd, awaiting[wait_state.client_fd],
                     count_acked_for(replicas', wait_state.target_offset))
           /\ wait_state' = None
  <2>1. r \in Attached /\ replicas' = [replicas EXCEPT ![r] = toMaster[r][n].n]
    BY DEF process_ack
  <2>2. DOMAIN replicas' = Attached
    BY <2>1 DEF Attached
  <2>3. toMaster[r][n] \in ToMaster
    BY DEF TypeOK
  <2>4. toMaster[r][n].n \in Nat
    BY <2>3 DEF ToMaster
  <2>5. \A s \in Attached : replicas'[s] = IF s = r THEN toMaster[r][n].n ELSE replicas[s]
    BY <2>1 DEF Attached
  <2>6. AskedOnce => \A s \in Attached : replicas'[s] \in Nat /\ replicas'[s] <= applied[s]
    BY <2>1, <2>4, <2>5, Zenon DEF AskedOnce, Acked, TypeOK
  <2>7. WaitIsBarrier'
    BY <1>2, <2>2, <2>6, InProgress
  <2> QED
    BY <1>2, <2>7 DEF Matched
<1> QED
  BY <1>1, <1>2 DEF process_ack

LEMMA TimeoutBarrier ==
    ASSUME TypeOK, Acked, Matched, WaitIsBarrier, check_wait_timeout
    PROVE  Matched' /\ WaitIsBarrier'
<1>1. CASE UNCHANGED <<wait_state, awaiting, faults>>
  BY <1>1 DEF Matched, WaitIsBarrier
<1>2. CASE /\ wait_state # None
           /\ Answer(wait_state.client_fd, awaiting[wait_state.client_fd],
                     count_acked_for(replicas, wait_state.target_offset))
           /\ wait_state' = None
  <2>1. AskedOnce => \A s \in Attached : replicas[s] \in Nat /\ replicas[s] <= applied[s]
    BY DEF AskedOnce, Acked, TypeOK
  <2>2. WaitIsBarrier'
    BY <1>2, <2>1, InProgress DEF Attached
  <2> QED
    BY <1>2, <2>2 DEF Matched
<1> QED
  BY <1>1, <1>2 DEF check_wait_timeout

LEMMA NextBarrier ==
    ASSUME TypeOK, Acked, Matched, WaitIsBarrier, [Next]_vars
    PROVE  Matched' /\ WaitIsBarrier'
<1>1. ASSUME UNCHANGED <<wait_state, awaiting, faults>> PROVE Matched' /\ WaitIsBarrier'
  BY <1>1 DEF Matched, WaitIsBarrier
<1>2. CASE Write \/ EpollReturns \/ Tick \/ UNCHANGED vars
  BY <1>1, <1>2 DEF Write, EpollReturns, Tick, vars, masterVars, clientVars
<1>3. ASSUME NEW c \in Clients, Reconnect(c) PROVE Matched' /\ WaitIsBarrier'
  BY <1>3 DEF Reconnect, Matched, WaitIsBarrier, TypeOK
<1>4. ASSUME NEW c \in Clients, NEW num \in NumReplicas, NEW t \in Timeouts,
             Wait(c, num, t) \/ WriteThenWait(c, num, t)
      PROVE  Matched' /\ WaitIsBarrier'
  BY <1>4, WaitBarrier DEF Wait, WriteThenWait
<1>5. ASSUME NEW r \in Replicas, HandshakeCommand(r) \/ remove_replica(r) \/ Connect(r) \/ Dies(r)
      PROVE  Matched' /\ WaitIsBarrier'
  BY <1>1, <1>5, Zenon
  DEF HandshakeCommand, remove_replica, CloseReplica, Connect, Dies, Step, masterVars, clientVars
<1>6. ASSUME NEW r \in Replicas, NEW n \in 1..Len(toMaster[r]), process_ack(r, n)
      PROVE  Matched' /\ WaitIsBarrier'
  BY <1>6, AckBarrier
<1>7. ASSUME NEW r \in Replicas, ReplicaSteps(r) PROVE Matched' /\ WaitIsBarrier'
  BY <1>1, <1>7, Zenon
  DEF ReplicaSteps, send_ping, send_replconf, Expect, send_psync, receive_rdb, process_pending_buffer,
      process_propagated_commands, RunCommands, Step, masterVars, clientVars
<1>8. CASE Loop
  BY <1>8, TimeoutBarrier DEF Loop, compute_timeout
<1> QED
  BY <1>2, <1>3, <1>4, <1>5, <1>6, <1>7, <1>8 DEF Next, MasterReads

\* Of the replicas that the answer to a WAIT promises, each has run every
\* write propagated to it before the packet of that WAIT (all the writes there
\* were, if its PSYNC came before the first), as long as no replica has been
\* asked twice: for any number of replicas that join, acknowledge late,
\* end and come back, of clients whose descriptors are reused, and of WAITs
\* that take over wait_state_ from one another.
THEOREM WaitHolds == Spec => []WaitIsBarrier
<1> DEFINE Inv == TypeOK /\ Sessions /\ Matched /\ WaitIsBarrier
<1>1. Init => Inv
  <2>1. Init => Matched /\ WaitIsBarrier
    BY DEF Init, Matched, WaitIsBarrier
  <2> QED
    BY <2>1, InitTypes, InitSessions
<1>2. Inv /\ [Next]_vars => Inv'
  BY NextTypes, NextSessions, SessionsAcked, NextBarrier
<1>3. Inv => WaitIsBarrier
  OBVIOUS
<1> QED
  BY <1>1, <1>2, <1>3, PTL DEF Spec

=============================================================================
