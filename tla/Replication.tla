---------------------------- MODULE Replication ----------------------------
(***************************************************************************)
(* Replication: the master's ReplicaManager (replica/replica_manager.cpp), *)
(* the replica's ReplicaConnector (replica/replica_connector.cpp), the     *)
(* commands REPLCONF, PSYNC and WAIT (handler/server_commands.cpp) and the *)
(* branches of dispatch_event and compute_timeout that serve them          *)
(* (server/event_dispatch.cpp).                                            *)
(*                                                                         *)
(* The master handles one packet of one connection in a step.  A replica   *)
(* is a process of its own, and its steps are those of its start and of    *)
(* its event loop.  A connection carries whole commands, in order; a read  *)
(* may return any number of them.  Framing is about commands in pieces.    *)
(*                                                                         *)
(* written, missed, applied, asked, awaiting and faults are history:       *)
(* whether the master has run a write, whether it had before the PSYNC of  *)
(* a replica, which is sent an empty RDB file and never gets those writes, *)
(* how far a replica has run what was propagated to it since, as an offset *)
(* of the master, how often it was asked for its offset, the WAIT a client *)
(* waits for, and what was wrong with an answer so far.                    *)
(***************************************************************************)
EXTENDS Integers, Sequences, FiniteSets, EventLoop

CONSTANTS Clients,     \* connections of clients; a number reused is a new one
          Replicas,    \* connections of replicas
          Others,      \* those of another implementation of the protocol
          NumReplicas, \* first arguments of WAIT
          Timeouts,    \* second arguments of WAIT, in milliseconds
          WriteLen,    \* length of a propagated write
          GetAckLen,   \* length of REPLCONF GETACK *
          Noted,       \* the kinds of fault that are recorded in faults
          MaxWrites,   \* bound on the writes propagated
          MaxAsked,    \* bound on the GETACKs sent to a replica
          MaxTime,     \* bound on the steady clock
          None         \* an empty std::optional

ASSUME ReplicationAssumption ==
    /\ Others \subseteq Replicas /\ IsFiniteSet(Replicas)
    /\ NumReplicas \subseteq Int /\ Timeouts \subseteq Int
    /\ WriteLen \in Nat \ {0} /\ GetAckLen \in Nat \ {0}
    /\ Noted \subseteq {"inexact", "broken", "late", "early", "counted", "stray"}
    /\ MaxWrites \in Nat /\ MaxAsked \in Nat /\ MaxTime \in Nat

VARIABLES master_offset, \* ReplicaManager::master_offset_
          replicas,      \* ReplicaManager::replicas_: the offset of each descriptor
          wait_state,    \* ReplicaManager::wait_state_
          now,           \* the steady clock
          sleeping,      \* whether the master is in epoll_wait
          alarm,         \* when epoll_wait returns without an event
          toReplica,     \* bytes on their way to each replica
          toMaster,      \* and back
          node,          \* the state of the process behind each connection
          written, missed, applied, asked, awaiting, faults

masterVars == <<master_offset, replicas, wait_state, now, sleeping, alarm>>
clientVars == <<awaiting, faults>>
joinVars == <<written, missed>>
vars == <<masterVars, toReplica, toMaster, node, joinVars, applied, asked, clientVars>>

Message(type, n) == [type |-> type, n |-> n]
ToReplica == [type : {"pong", "ok", "fullresync", "rdb", "write", "getack"}, n : Nat]
ToMaster == [type : {"ping", "replconf", "psync", "ack"}, n : Nat]

Phases == {"off", "ping", "port", "capa", "psync", "rdb", "loaded", "running", "dead"}

\* ReplicaConnector: offset_, pending_buffer_, and the ProcessedBuffer that
\* process_buffer_impl fills.
Fresh(phase) == [phase |-> phase, offset |-> 0, pending |-> <<>>, commands |-> <<>>, acks |-> <<>>]
Node == [phase : Phases, offset : Nat, pending : Seq(ToReplica), commands : Seq(ToReplica),
         acks : Seq(ToMaster)]

\* A WAIT: how many replicas, the offset of the writes in earlier packets, and
\* of those in the packet of the WAIT too.
Request(num, upto, all) == [num |-> num, upto |-> upto, all |-> all]
Init ==
    /\ master_offset = 0
    /\ replicas = [r \in {} |-> 0]
    /\ wait_state = None
    /\ now = 0 /\ sleeping = FALSE /\ alarm = Forever
    /\ toReplica = [r \in Replicas |-> <<>>]
    /\ toMaster = [r \in Replicas |-> <<>>]
    /\ node = [r \in Replicas |-> Fresh("off")]
    /\ written = FALSE
    /\ missed = [r \in Replicas |-> FALSE]
    /\ applied = [r \in Replicas |-> 0]
    /\ asked = [r \in Replicas |-> 0]
    /\ awaiting = [c \in Clients |-> None]
    /\ faults = {}

----------------------------------------------------------------------------
(* The master.                                                             *)

Attached == DOMAIN replicas

WakeLoop == sleeping' = FALSE /\ alarm' = Forever

count == Cardinality(Attached)

\* Mutant: a replica just below the offset counts.
count_acked_for_Lax(reps, target) ==
    Cardinality({r \in DOMAIN reps : reps[r] + WriteLen >= target})

count_acked_for(reps, target) == Cardinality({r \in DOMAIN reps : reps[r] >= target})

\* send_to(c, integer), the answer n to the question req.  "inexact": fewer
\* replicas have run the writes that earlier packets propagated to them.
\* "broken": the number asked for was not reached either, although every
\* replica was asked for its offset once at most.  "late": as "broken", of all
\* the writes of earlier packets, those before a replica's PSYNC included.
\* "early": as "broken", of the writes in the same packet too.  "counted": as
\* "broken", however often replicas were asked.  "stray": there is no question.
HaveRun(upto) == {r \in Attached : applied[r] >= upto}
Held(upto) == Cardinality(HaveRun(upto))
HeldWhole(upto) == Cardinality({r \in HaveRun(upto) : ~missed[r]})
AskedOnce == \A r \in Attached : asked[r] <= 1
Promised(req, n, held) == n <= held \/ req.num <= held
Faults(req, n) ==
    IF req = None THEN {"stray"}
    ELSE {f \in {"inexact", "broken", "late", "early", "counted"} :
            \/ f = "inexact" /\ n > Held(req.upto)
            \/ f = "broken" /\ AskedOnce /\ ~Promised(req, n, Held(req.upto))
            \/ f = "late" /\ AskedOnce /\ ~Promised(req, n, HeldWhole(req.upto))
            \/ f = "counted" /\ ~Promised(req, n, Held(req.upto))
            \/ f = "early" /\ AskedOnce /\ ~Promised(req, n, Held(req.all))}
Answer(c, req, n) ==
    /\ awaiting' = [awaiting EXCEPT ![c] = None]
    /\ faults' = faults \cup (Faults(req, n) \cap Noted)

SendAll(message) ==
    [r \in Replicas |-> IF r \in Attached THEN Append(toReplica[r], message) ELSE toReplica[r]]

\* A write command: dispatch_event hands it to every replica, if there is one,
\* and only then does it count in the offset.
Write ==
    /\ master_offset + WriteLen <= MaxWrites * WriteLen
    /\ master_offset' = IF Attached = {} THEN master_offset ELSE master_offset + WriteLen
    /\ toReplica' = SendAll(Message("write", master_offset'))
    /\ written' = TRUE
    /\ WakeLoop
    /\ UNCHANGED <<replicas, wait_state, now, toMaster, node, missed, applied, asked, awaiting,
                   faults>>

start_wait(c, num, t) ==
    [client_fd |-> c, numreplicas |-> num, target_offset |-> master_offset, deadline |-> now + t]

\* WAIT is answered with the number of replicas if nothing has been written
\* or enough have acknowledged everything; otherwise they are all asked.
Satisfied(num) ==
    master_offset = 0 \/ count_acked_for(replicas, master_offset) >= num

MayWait(c, num, t) ==
    /\ awaiting[c] = None
    /\ now + t <= MaxTime
    /\ Satisfied(num) \/ \A r \in Attached : asked[r] < MaxAsked

AskAll ==
    asked' = [r \in Replicas |-> IF r \in Attached THEN asked[r] + 1 ELSE asked[r]]

GetAck(r) == Message("getack", asked[r] + 1)

Wait(c, num, t) ==
    /\ MayWait(c, num, t)
    /\ IF Satisfied(num)
       THEN /\ Answer(c, Request(num, master_offset, master_offset), count)
            /\ UNCHANGED <<wait_state, toReplica, asked>>
       ELSE /\ wait_state' = start_wait(c, num, t)
            /\ toReplica' = [r \in Replicas |-> IF r \in Attached THEN Append(toReplica[r], GetAck(r))
                                                ELSE toReplica[r]]
            /\ AskAll
            /\ awaiting' = [awaiting EXCEPT ![c] = Request(num, master_offset, master_offset)]
            /\ UNCHANGED faults
    /\ WakeLoop
    /\ UNCHANGED <<master_offset, replicas, now, toMaster, node, joinVars, applied>>

\* A write and a WAIT in one packet: the write is propagated last.  (With no
\* replica it is not propagated: Write and Wait after one another.)
WriteThenWait(c, num, t) ==
    /\ Attached # {}
    /\ MayWait(c, num, t)
    /\ master_offset + WriteLen <= MaxWrites * WriteLen
    /\ master_offset' = master_offset + WriteLen
    /\ IF Satisfied(num)
       THEN /\ Answer(c, Request(num, master_offset, master_offset'), count)
            /\ toReplica' = SendAll(Message("write", master_offset'))
            /\ UNCHANGED <<wait_state, asked>>
       ELSE /\ wait_state' = start_wait(c, num, t)
            /\ toReplica' = [r \in Replicas |->
                  IF r \in Attached
                  THEN toReplica[r] \o <<GetAck(r), Message("write", master_offset')>>
                  ELSE toReplica[r]]
            /\ AskAll
            /\ awaiting' = [awaiting EXCEPT ![c] = Request(num, master_offset, master_offset')]
            /\ UNCHANGED faults
    /\ written' = TRUE
    /\ WakeLoop
    /\ UNCHANGED <<replicas, now, toMaster, node, missed, applied>>

\* Mutant: the offset of a new replica is unknown.
add_replica_Unknown(r) == [s \in Attached \cup {r} |-> IF s = r THEN -1 ELSE replicas[s]]

add_replica(r) == [s \in Attached \cup {r} |-> IF s = r THEN 0 ELSE replicas[s]]

\* A handshake command: PING, REPLCONF and PSYNC are ordinary commands of a
\* connection that is no replica yet.  PSYNC sends an empty RDB file, whatever
\* the keyspace holds: the replica's stream begins at the offset of now.
HandshakeCommand(r) ==
    /\ r \notin Attached /\ toMaster[r] # <<>>
    /\ LET command == Head(toMaster[r]).type
           reply == CASE command = "ping" -> <<Message("pong", 0)>>
                      [] command = "replconf" -> <<Message("ok", 0)>>
                      [] OTHER -> <<Message("fullresync", master_offset), Message("rdb", 0)>>
       IN  /\ toReplica' = [toReplica EXCEPT ![r] = @ \o reply]
           /\ IF command = "psync"
              THEN /\ replicas' = add_replica(r)
                   /\ applied' = [applied EXCEPT ![r] = master_offset]
                   /\ missed' = [missed EXCEPT ![r] = written]
              ELSE UNCHANGED <<replicas, applied, missed>>
    /\ toMaster' = [toMaster EXCEPT ![r] = Tail(@)]
    /\ WakeLoop
    /\ UNCHANGED <<master_offset, wait_state, now, node, written, asked, clientVars>>

\* process_ack: the last of n acknowledgements read stands, then the WAIT in
\* progress is looked at.
process_ack(r, n) ==
    /\ r \in Attached
    /\ replicas' = [replicas EXCEPT ![r] = toMaster[r][n].n]
    /\ toMaster' = [toMaster EXCEPT ![r] = SubSeq(@, n + 1, Len(@))]
    /\ IF wait_state # None
          /\ count_acked_for(replicas', wait_state.target_offset) >= wait_state.numreplicas
       THEN LET acked == count_acked_for(replicas', wait_state.target_offset)
            IN  /\ Answer(wait_state.client_fd, awaiting[wait_state.client_fd], acked)
                /\ wait_state' = None
       ELSE UNCHANGED <<wait_state, awaiting, faults>>
    /\ WakeLoop
    /\ UNCHANGED <<master_offset, now, toReplica, node, joinVars, applied, asked>>

\* The connection of a replica that is gone.
CloseReplica(r) ==
    /\ node[r].phase = "dead"
    /\ replicas' = [s \in Attached \ {r} |-> replicas[s]]
    /\ toReplica' = [toReplica EXCEPT ![r] = <<>>]
    /\ toMaster' = [toMaster EXCEPT ![r] = <<>>]
    /\ node' = [node EXCEPT ![r] = Fresh("off")]
    /\ missed' = [missed EXCEPT ![r] = FALSE]
    /\ applied' = [applied EXCEPT ![r] = 0]
    /\ asked' = [asked EXCEPT ![r] = 0]
    /\ WakeLoop
    /\ UNCHANGED <<master_offset, now, written, clientVars>>

\* Mutant: with the replica goes the WAIT in progress.
remove_replica_DropsWait(r) == CloseReplica(r) /\ wait_state' = None

remove_replica(r) == CloseReplica(r) /\ UNCHANGED wait_state

\* A client closes, and the next one to connect gets its number; wait_state_
\* is not looked at.
Reconnect(c) ==
    /\ awaiting' = [awaiting EXCEPT ![c] = None]
    /\ WakeLoop
    /\ UNCHANGED <<master_offset, replicas, wait_state, now, toReplica, toMaster, node, joinVars,
                   applied, asked, faults>>

\* A WAIT past its deadline is answered with what has been acknowledged.
check_wait_timeout ==
    IF wait_state # None /\ wait_state.deadline <= now
    THEN /\ Answer(wait_state.client_fd, awaiting[wait_state.client_fd],
                   count_acked_for(replicas, wait_state.target_offset))
         /\ wait_state' = None
    ELSE UNCHANGED <<wait_state, awaiting, faults>>

next_deadline(wait) == IF wait = None THEN Forever ELSE wait.deadline

\* blocking is what get_next_deadline of Blocking returns.
compute_timeout(blocking) ==
    /\ ~sleeping
    /\ check_wait_timeout
    /\ sleeping' = TRUE
    /\ alarm' = WakeTime(NextDeadline(blocking, next_deadline(wait_state')), now)
    /\ UNCHANGED <<master_offset, replicas, now, toReplica, toMaster, node, joinVars, applied,
                   asked>>

EpollReturns ==
    /\ sleeping
    /\ alarm # Forever /\ alarm <= now
    /\ WakeLoop
    /\ UNCHANGED <<master_offset, replicas, wait_state, now, toReplica, toMaster, node, joinVars,
                   applied, asked, clientVars>>

Tick ==
    /\ now < MaxTime
    /\ now' = now + 1
    /\ UNCHANGED <<master_offset, replicas, wait_state, sleeping, alarm, toReplica, toMaster, node,
                   joinVars, applied, asked, clientVars>>

----------------------------------------------------------------------------
(* A replica.                                                              *)

\* The state of r becomes n, after it has read some messages and sent others.
Step(r, n, rest, sent) ==
    /\ node' = [node EXCEPT ![r] = n]
    /\ toReplica' = [toReplica EXCEPT ![r] = rest]
    /\ toMaster' = [toMaster EXCEPT ![r] = @ \o sent]
    /\ UNCHANGED <<masterVars, joinVars, asked, clientVars>>

In(r, phase) == node[r].phase = phase
To(r, phase) == [node[r] EXCEPT !.phase = phase]
After(r, k) == SubSeq(toReplica[r], k + 1, Len(toReplica[r]))
UpTo(r, k) == SubSeq(toReplica[r], 1, k)

\* connect_to_master, and PING.
Connect(r) ==
    /\ In(r, "off")
    /\ Step(r, Fresh("ping"), toReplica[r], <<Message("ping", 0)>>)
    /\ UNCHANGED applied

\* send_and_expect: PONG, then two OKs, each answered by the next command.
Expect(r, phase, reply, next, command) ==
    /\ In(r, phase) /\ toReplica[r] # <<>>
    /\ Step(r, IF Head(toReplica[r]).type = reply THEN To(r, next) ELSE To(r, "dead"),
            After(r, 1), <<Message(command, 0)>>)
    /\ UNCHANGED applied

send_ping(r) == Expect(r, "ping", "pong", "port", "replconf")
send_replconf(r) ==
    \/ Expect(r, "port", "ok", "capa", "replconf")
    \/ Expect(r, "capa", "ok", "psync", "psync")

\* send_psync: what is read behind +FULLRESYNC stays in pending_buffer_.  The
\* offset in that line is dropped; another implementation starts from it.
send_psync(r, k) ==
    /\ In(r, "psync")
    /\ Step(r, [To(r, "rdb") EXCEPT !.pending = SubSeq(toReplica[r], 2, k),
                                    !.offset = IF r \in Others THEN Head(toReplica[r]).n ELSE 0],
            After(r, k), <<>>)
    /\ UNCHANGED applied

\* Mutant: what follows the RDB file is dropped.
LoadRdb_Drops(r, buffer) == [To(r, "loaded") EXCEPT !.pending = <<>>]

\* receive_rdb: what follows the RDB file stays in pending_buffer_.
LoadRdb(r, buffer) == [To(r, "loaded") EXCEPT !.pending = Tail(buffer)]
receive_rdb(r, k) ==
    /\ In(r, "rdb")
    /\ \/ node[r].pending # <<>> /\ k = 0
       \/ node[r].pending = <<>> /\ k > 0
    /\ Step(r, LoadRdb(r, node[r].pending \o UpTo(r, k)), After(r, k), <<>>)
    /\ UNCHANGED applied

\* process_buffer_impl takes one command m off pending_buffer_.
ParseOne(n, m) ==
    IF m.type = "getack"
    THEN [n EXCEPT !.offset = @ + GetAckLen, !.acks = Append(@, Message("ack", n.offset))]
    ELSE [n EXCEPT !.offset = @ + WriteLen, !.commands = Append(@, m)]

\* process_pending_buffer, at the start of the event loop.
process_pending_buffer(r) ==
    LET n == node[r] IN
    /\ n.phase = "loaded" /\ n.pending # <<>>
    /\ Step(r, ParseOne([n EXCEPT !.pending = Tail(@)], Head(n.pending)), toReplica[r], <<>>)
    /\ UNCHANGED applied

\* process_propagated_commands: the commands of one read are taken one by one;
\* where RunCommands follows, the read ended.
process_propagated_commands(r) ==
    /\ In(r, "running") /\ toReplica[r] # <<>>
    /\ Step(r, ParseOne(node[r], Head(toReplica[r])), After(r, 1), <<>>)
    /\ UNCHANGED applied

ReadEnded(n) ==
    \/ n.phase = "loaded" /\ n.pending = <<>>
    \/ n.phase = "running" /\ (n.commands # <<>> \/ n.acks # <<>>)

\* The commands are run, then the answers are sent.  handler.process runs a
\* command for descriptor -1, and connections_.at(-1) throws: the process of
\* a Credis replica ends.  Another implementation runs them.
RunCommands(r) ==
    LET n == node[r] IN
    /\ ReadEnded(n)
    /\ IF n.commands # <<>> /\ r \notin Others
       THEN Step(r, Fresh("dead"), toReplica[r], <<>>) /\ UNCHANGED applied
       ELSE /\ Step(r, [n EXCEPT !.phase = "running", !.commands = <<>>, !.acks = <<>>],
                    toReplica[r], n.acks)
            /\ applied' = [applied EXCEPT ![r] = IF n.commands = <<>> THEN @
                                                 ELSE n.commands[Len(n.commands)].n]

\* The replica is killed.
Dies(r) ==
    /\ ~In(r, "off") /\ ~In(r, "dead")
    /\ Step(r, Fresh("dead"), toReplica[r], <<>>)
    /\ UNCHANGED applied

----------------------------------------------------------------------------

ReplicaSteps(r) ==
    \/ send_ping(r)
    \/ send_replconf(r)
    \/ \E k \in 1..Len(toReplica[r]) : send_psync(r, k)
    \/ \E k \in 0..Len(toReplica[r]) : receive_rdb(r, k)
    \/ process_pending_buffer(r)
    \/ process_propagated_commands(r)
    \/ RunCommands(r)

MasterReads(r) ==
    \/ HandshakeCommand(r)
    \/ \E n \in 1..Len(toMaster[r]) : process_ack(r, n)

\* A blocked client has a deadline ahead, or there is none.
Loop == \E blocking \in {MaxTime, Forever} : compute_timeout(blocking)

Next ==
    \/ Write
    \/ \E c \in Clients :
         \/ Reconnect(c)
         \/ \E num \in NumReplicas, t \in Timeouts : Wait(c, num, t) \/ WriteThenWait(c, num, t)
    \/ \E r \in Replicas :
         \/ MasterReads(r) \/ remove_replica(r)
         \/ Connect(r) \/ ReplicaSteps(r) \/ Dies(r)
    \/ Loop
    \/ EpollReturns
    \/ Tick

\* The master's loop and the clock go on; a replica may stop anywhere.
Fairness == WF_vars(Loop \/ EpollReturns) /\ WF_vars(Tick)

Spec == Init /\ [][Next]_vars /\ Fairness

----------------------------------------------------------------------------
(* Properties.                                                             *)

TypeOK ==
    /\ master_offset \in Nat
    /\ Attached \subseteq Replicas /\ replicas \in [Attached -> Nat]
    /\ wait_state \in [client_fd : Clients, numreplicas : Int, target_offset : Nat, deadline : Int]
                        \cup {None}
    /\ now \in Nat /\ sleeping \in BOOLEAN /\ alarm \in Int \cup {Forever}
    /\ toReplica \in [Replicas -> Seq(ToReplica)] /\ toMaster \in [Replicas -> Seq(ToMaster)]
    /\ node \in [Replicas -> Node]
    /\ written \in BOOLEAN /\ missed \in [Replicas -> BOOLEAN]
    /\ applied \in [Replicas -> Nat] /\ asked \in [Replicas -> Nat]
    /\ awaiting \in [Clients -> [num : Int, upto : Nat, all : Nat] \cup {None}]
    /\ faults \subseteq Noted

\* WAIT is a barrier for what is propagated: of the replicas it promises, each
\* has run every write propagated to it before the packet of the WAIT, whatever
\* the acknowledgements were for and however many arrived late.  For a replica
\* whose PSYNC came before the first write these are all the writes there were.
\* An answer given at once is the number of all replicas, so only as many as
\* were asked for are promised.  GETACK is counted by the replica's offset and
\* not by the master's, which is why the promise is only good while no replica
\* has been asked twice.
WaitIsBarrier == "broken" \notin faults

\* src/README.md: WAIT is a "synchronous replication barrier", and replication
\* has "eventual consistency": a replica that counts has run every write of the
\* master, those before its PSYNC too.
WaitIsBarrierForAll == "late" \notin faults

\* The same of the writes in the packet of the WAIT.
WaitCoversPacket == "early" \notin faults

\* The barrier, however often replicas have been asked.
WaitIsBarrierAlways == "counted" \notin faults

\* The number sent is that of the replicas that have run the writes.
WaitIsExact == "inexact" \notin faults

\* The offset of the last write among the first i messages of q, for every i,
\* when it was a before them.
OffsetsAlong(q, a) ==
    LET upto[i \in 0..Len(q)] ==
          IF i = 0 THEN a
          ELSE IF q[i].type = "write" THEN upto[i - 1] + WriteLen ELSE upto[i - 1]
    IN  upto

\* Nothing is lost between PSYNC and the event loop of the replica, nor later:
\* of the writes since its PSYNC, those a live replica has not run are still on
\* their way to it, in order and without a gap.
OnTheWay(r) == node[r].commands \o node[r].pending \o toReplica[r]
StreamIsWhole ==
    \A r \in Attached : node[r].phase # "dead" =>
        LET q == OnTheWay(r)
            upto == OffsetsAlong(q, applied[r])
        IN  /\ \A i \in 1..Len(q) : q[i].type = "write" => q[i].n = upto[i]
            /\ master_offset = upto[Len(q)]

\* A replica that completes its handshake is not ended by the commands that
\* are propagated to it.
CommandsDoNotEndReplica ==
    [][\A r \in Replicas : RunCommands(r) => node'[r].phase = "running"]_vars

\* An integer is only sent to a client that waits in WAIT.
AnswersAsked == "stray" \notin faults

\* A WAIT is answered.
WaitEnds ==
    \A c \in Clients : awaiting[c] # None ~> awaiting[c] = None

============================================================================
