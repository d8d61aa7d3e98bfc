------------------------------ MODULE Blocking ------------------------------
(***************************************************************************)
(* Blocking commands: blocking_manager/blocking_manager.cpp, the blocking  *)
(* handlers of list_commands.cpp and stream_commands.cpp, and the part of  *)
(* the event loop that serves deadlines (server/event_dispatch.cpp, see    *)
(* EventLoop).  Of WAIT there is its deadline, which shares the loop's      *)
(* timeout with the blocked clients; Replication has the rest.             *)
(*                                                                         *)
(* One action is one command of one client, or one pass of compute_timeout *)
(* before the loop sleeps in epoll_wait.  A command wakes the loop if it   *)
(* sleeps.  Key versions and logging are in CommandHandler.                *)
(*                                                                         *)
(* awaiting, got, pushed and popped are history: what every client waits   *)
(* for, what answered its last blocking command, and how many elements     *)
(* were accepted from RPUSH and LPUSH and taken out, for each key.         *)
(***************************************************************************)
EXTENDS Store, EventLoop

CONSTANTS Clients,      \* connections; a number reused is a new connection
          Batches,      \* argument lists of RPUSH and LPUSH
          AddIds,       \* id arguments of XADD
          AskIds,       \* id arguments of XREAD BLOCK; "last" is $
          HalfMillis,   \* BLPOP timeouts, in units of half a millisecond
          Millis,       \* XREAD BLOCK timeouts, in milliseconds
          WaitMillis,   \* WAIT timeouts, in milliseconds
          Pipelining,   \* whether clients send commands while they are blocked
          Ttls,         \* TTLs of the strings that SET stores
          BlockInExec,  \* whether BLPOP is also sent inside MULTI
          MaxPushes,    \* bound on the elements and entries added
          MaxNodes,     \* bound on the length of a queue
          MaxTime,      \* bound on the steady clock
          NoKey         \* not a key

LastId == [form |-> "last"]

ASSUME BlockingAssumption ==
    /\ Batches \subseteq Seq(Str) \ {<<>>}
    /\ AddIds \subseteq {id \in XaddIds : id.form # "auto"}
    /\ AskIds \subseteq {id \in ReadIds : id.form \notin {"min", "max"}} \cup {LastId}
    /\ HalfMillis \subseteq Nat /\ Millis \subseteq Int /\ WaitMillis \subseteq Int
    /\ Ttls \subseteq Nat
    /\ Pipelining \in BOOLEAN /\ BlockInExec \in BOOLEAN
    /\ MaxPushes \in Nat /\ MaxNodes \in Nat /\ MaxTime \in Nat
    /\ NoKey \notin Keys

VARIABLES data,      \* Store::data_
          queues,    \* BlockingManager::blocked_clients_
          index,     \* BlockingManager::fd_to_client_: the key it points into
          wait,      \* ReplicaManager::wait_state_: its deadline, or Forever
          now,       \* the steady clock
          sleeping,  \* whether the loop is in epoll_wait
          alarm,     \* when epoll_wait returns without an event
          awaiting, got, pushed, popped

vars == <<data, queues, index, wait, now, sleeping, alarm, awaiting, got, pushed, popped>>

BlockedClient == [fd : Clients, deadline : Int \cup {Forever}, last_id : StreamIds]

\* What a client asked for: a list element, or stream entries above an id,
\* and whether the timeout it gave, in half milliseconds, fits an int of
\* milliseconds.
Extent(half) == IF half = 0 THEN "none" ELSE IF half \div 2 <= IntMax THEN "near" ELSE "far"
NoRequest == [kind |-> "none", key |-> NoKey, above |-> ZeroId, timeout |-> "none"]
ListRequest(k, half) ==
    [kind |-> "list", key |-> k, above |-> ZeroId, timeout |-> Extent(half)]
StreamRequest(k, sid, ms) ==
    [kind |-> "stream", key |-> k, above |-> sid, timeout |-> Extent(2 * ms)]
Requests == [kind : {"list", "stream"}, key : Keys, above : StreamIds,
             timeout : {"none", "near", "far"}] \cup {NoRequest}

\* What answered it: "list" an element, "stream" entries, "null" the timeout.
Reply(kind, ids, request) == [kind |-> kind, ids |-> ids, request |-> request]
NoReply == Reply("none", <<>>, NoRequest)
Replies == [kind : {"none", "list", "stream", "null"}, ids : Seq(StreamIds), request : Requests]

----------------------------------------------------------------------------
(* The handlers thread this much of the state through, as a record b.      *)

Here == [data |-> data, queues |-> queues, index |-> index, awaiting |-> awaiting,
         got |-> got, popped |-> popped]

Become(b) ==
    /\ data' = b.data
    /\ queues' = b.queues
    /\ index' = b.index
    /\ awaiting' = b.awaiting
    /\ got' = b.got
    /\ popped' = b.popped

RemoveAt(q, i) == SubSeq(q, 1, i - 1) \o SubSeq(q, i + 1, Len(q))

\* Mutant: the index entry stays.
Dequeue_KeepsIndex(b, k, i) == [b EXCEPT !.queues[k] = RemoveAt(@, i)]

\* Taking node i out of the queue of k forgets the client's index entry, be
\* it for this node or for a later one of the same client.
Dequeue(b, k, i) ==
    [b EXCEPT !.queues[k] = RemoveAt(@, i), !.index[b.queues[k][i].fd] = NoKey]

\* A reply sent to c answers what it waits for, if anything.
Answer(b, c, kind, ids) ==
    IF b.awaiting[c].kind = "none" THEN b
    ELSE [b EXCEPT !.awaiting[c] = NoRequest, !.got[c] = Reply(kind, ids, b.awaiting[c])]

\* Mutant: an element is popped for a client and not sent.
PopTo_Silent(b, t, k, c) ==
    [b EXCEPT !.data = lpop(@, t, k, 1),
              !.popped[k] = IF lpop_taken(b.data, t, k, 1) # <<>> THEN @ + 1 ELSE @]

\* lpop(key, 1), and its element sent to client c, if there is one.
HasElement(b, t, k) == lpop_taken(b.data, t, k, 1) # <<>>
Pop(b, t, k) ==
    [b EXCEPT !.data = lpop(@, t, k, 1), !.popped[k] = IF HasElement(b, t, k) THEN @ + 1 ELSE @]
PopTo(b, t, k, c) ==
    IF HasElement(b, t, k) THEN Answer(Pop(b, t, k), c, "list", <<>>) ELSE Pop(b, t, k)

block_client_for_stream(b, t, c, k, sid, ms, request) ==
    LET node == [fd |-> c, deadline |-> IF ms = 0 THEN Forever ELSE t + ms, last_id |-> sid]
    IN  [b EXCEPT !.queues[k] = Append(@, node), !.index[c] = k, !.awaiting[c] = request,
                  !.got[c] = NoReply]

\* Mutant: nobody is looked for.
Waiters_None(b, k) == FALSE

\* try_wake: the head of the queue gets the first element, whatever it waits
\* for; it leaves the queue also when the list is empty.
Waiters(b, k) == b.queues[k] # <<>>
try_wake(b, t, k) == PopTo(Dequeue(b, k, 1), t, k, b.queues[k][1].fd)

\* RPUSH and LPUSH.  The first value is pushed, then a client is woken; each
\* further value is pushed only if there is no client to wake.
Push(b, t, k, v, left) ==
    [b EXCEPT !.data = IF left THEN lpush(b.data, t, k, v) ELSE rpush(b.data, t, k, v)]

\* Mutant: the first value is not pushed if a client is there to be woken.
PushAll_Skips(b, t, k, vs, left) ==
    LET run[i \in 0..Len(vs)] ==
          IF i = 0 THEN b
          ELSE IF Waiters(run[i - 1], k) THEN try_wake(run[i - 1], t, k)
          ELSE Push(run[i - 1], t, k, vs[i], left)
    IN  run[Len(vs)]

PushAll(b, t, k, vs, left) ==
    LET run[i \in 0..Len(vs)] ==
          IF i = 0 THEN b
          ELSE IF i = 1
          THEN LET p == Push(b, t, k, vs[1], left)
               IN  IF Waiters(p, k) THEN try_wake(p, t, k) ELSE p
          ELSE IF Waiters(run[i - 1], k) THEN try_wake(run[i - 1], t, k)
          ELSE Push(run[i - 1], t, k, vs[i], left)
    IN  run[Len(vs)]

\* wake_client_for_stream: the first queued client below the new id, if any.
Below(b, k, sid) == {i \in 1..Len(b.queues[k]) : Less(b.queues[k][i].last_id, sid)}
FirstBelow(b, k, sid) == CHOOSE i \in Below(b, k, sid) : \A j \in Below(b, k, sid) : i <= j

\* Mutant: the client is sent the whole stream.
WakeOne_All(b, t, k, sid) ==
    LET i == FirstBelow(b, k, sid)
    IN  Answer(Dequeue(b, k, i), b.queues[k][i].fd, "stream", xread(b.data, t, k, ZeroId))

WakeOne(b, t, k, sid) ==
    LET i == FirstBelow(b, k, sid)
        node == b.queues[k][i]
    IN  Answer(Dequeue(b, k, i), node.fd, "stream", xread(b.data, t, k, node.last_id))

\* Mutant: one client is woken.
WakeAll_One(b, t, k, sid) == IF Below(b, k, sid) = {} THEN b ELSE WakeOne(b, t, k, sid)

WakeAll(b, t, k, sid) ==
    LET run[n \in 0..Len(b.queues[k])] ==
          IF n = 0 THEN b
          ELSE IF Below(run[n - 1], k, sid) = {} THEN run[n - 1]
          ELSE WakeOne(run[n - 1], t, k, sid)
    IN  run[Len(b.queues[k])]

----------------------------------------------------------------------------
Init ==
    /\ data = [k \in Keys |-> Absent]
    /\ queues = [k \in Keys |-> <<>>]
    /\ index = [c \in Clients |-> NoKey]
    /\ wait = Forever
    /\ now = 0
    /\ sleeping = FALSE
    /\ alarm = Forever
    /\ awaiting = [c \in Clients |-> NoRequest]
    /\ got = [c \in Clients |-> NoReply]
    /\ pushed = [k \in Keys |-> 0]
    /\ popped = [k \in Keys |-> 0]

\* A command of client c arrives: the loop reads it even if c is blocked.
WakeLoop == sleeping' = FALSE /\ alarm' = Forever
Arrives(c) ==
    /\ Pipelining \/ awaiting[c].kind = "none"
    /\ WakeLoop
    /\ UNCHANGED <<wait, now>>

MayBlock(k, ms) == now + ms <= MaxTime /\ Len(queues[k]) < MaxNodes

\* Mutant: the timeout is cut to coarser units, and a short one to none.
BlpopBlocks_Coarse(c, k, half, request) ==
    block_client_for_stream(Pop(Here, now, k), now, c, k, ZeroId, 2 * (half \div 4), request)

\* BLPOP key timeout: the timeout, in seconds, is cut to whole milliseconds.
BlpopBlocks(c, k, half, request) ==
    block_client_for_stream(Pop(Here, now, k), now, c, k, ZeroId, half \div 2, request)

Blpop(c, k, half) ==
    /\ Arrives(c)
    /\ MayBlock(k, half \div 2)
    /\ Become(IF HasElement(Here, now, k) THEN Pop(Here, now, k)
              ELSE BlpopBlocks(c, k, half, ListRequest(k, half)))
    /\ UNCHANGED pushed

\* BLPOP run by EXEC: the client is queued although EXEC answers with an error
\* and the client does not wait.
BlpopInExec(c, k, half) ==
    /\ BlockInExec
    /\ Arrives(c)
    /\ MayBlock(k, half \div 2)
    /\ Become(IF HasElement(Here, now, k) THEN Pop(Here, now, k)
              ELSE BlpopBlocks(c, k, half, awaiting[c]))
    /\ UNCHANGED pushed

handle_push(c, k, vs, left) ==
    /\ Arrives(c)
    /\ pushed[k] + Len(vs) <= MaxPushes
    /\ IF holds_or_absent(data, now, k, "list")
       THEN /\ Become(PushAll(Here, now, k, vs, left))
            /\ pushed' = [pushed EXCEPT ![k] = @ + Len(vs)]
       ELSE Become(Here) /\ UNCHANGED pushed

Rpush(c, k, vs) == handle_push(c, k, vs, FALSE)
Lpush(c, k, vs) == handle_push(c, k, vs, TRUE)

Lpop(c, k) ==
    /\ Arrives(c)
    /\ Become(Pop(Here, now, k))
    /\ UNCHANGED pushed

\* SET of a string that expires: while it lives the key takes no element.
Set(c, k, ttl) ==
    /\ Arrives(c)
    /\ Become([Here EXCEPT !.data = handle_set(@, now, k, 0, ttl).data])
    /\ UNCHANGED pushed

\* XREAD BLOCK ms STREAMS k id.  The id that is read above and the id that is
\* registered are converted from the argument separately.
MaxStreamId(k) == LET s == StreamOf(data, now, k) IN IF s = <<>> THEN ZeroId ELSE s[Len(s)]
AskedId(k, id) == IF id = LastId THEN MaxStreamId(k) ELSE ReadThreshold(id)
RegisteredId(k, id) ==
    IF id = LastId THEN MaxStreamId(k)
    ELSE IF id.form = "explicit" THEN <<id.ts, id.seq>> ELSE ZeroId

XreadBlock(c, k, id, ms) ==
    /\ Arrives(c)
    /\ MayBlock(k, ms)
    /\ LET b == [Here EXCEPT !.data = Evict(@, now, k)]
           request == StreamRequest(k, AskedId(k, id), ms)
       IN  Become(IF xread(data, now, k, AskedId(k, id)) # <<>> THEN b
                  ELSE block_client_for_stream(b, now, c, k, RegisteredId(k, id), ms, request))
    /\ UNCHANGED pushed

Xadd(c, k, id) ==
    /\ Arrives(c)
    /\ Len(StreamOf(data, now, k)) < MaxPushes
    /\ LET e == handle_xadd(data, now, 0, k, id)
           b == [Here EXCEPT !.data = e.data]
       IN  Become(IF e.reply[1] = "err" THEN b ELSE WakeAll(b, now, k, e.reply[2]))
    /\ UNCHANGED pushed

\* Connection c closes, and a new one gets its number.  unblock_client takes
\* the indexed node out, the last one of c in its queue.
NodesOf(q, c) == {i \in 1..Len(q) : q[i].fd = c}
LastNode(q, c) == CHOOSE i \in NodesOf(q, c) : \A j \in NodesOf(q, c) : j <= i

\* Mutant: the node stays queued when the connection closes.
unblock_client_Forgets(b, c) == [b EXCEPT !.index[c] = NoKey]

unblock_client(b, c) ==
    IF b.index[c] = NoKey THEN b
    ELSE Dequeue(b, b.index[c], LastNode(b.queues[b.index[c]], c))

Reconnect(c) ==
    /\ WakeLoop
    /\ Become([unblock_client(Here, c) EXCEPT !.awaiting[c] = NoRequest, !.got[c] = NoReply])
    /\ UNCHANGED <<wait, now, pushed>>

\* A WAIT that the acknowledgements so far do not satisfy replaces the one
\* before, whose client is never answered.
start_wait(ms) ==
    /\ now + ms <= MaxTime
    /\ wait' = now + ms
    /\ WakeLoop
    /\ UNCHANGED <<data, queues, index, now, awaiting, got, pushed, popped>>

\* An acknowledgement satisfies it.
process_ack ==
    /\ wait # Forever
    /\ wait' = Forever
    /\ WakeLoop
    /\ UNCHANGED <<data, queues, index, now, awaiting, got, pushed, popped>>

\* compute_timeout: clients past their deadline are answered, a WAIT past its
\* own too, and epoll_wait sleeps until the earliest deadline that remains.
Expired(n) == n.deadline # Forever /\ n.deadline <= now
WithoutExpired(q) ==
    LET keep[n \in 0..Len(q)] ==
          IF n = 0 THEN <<>>
          ELSE IF Expired(q[n]) THEN keep[n - 1] ELSE Append(keep[n - 1], q[n])
    IN  keep[Len(q)]
TimedOut == {c \in Clients : \E k \in Keys : \E i \in 1..Len(queues[k]) :
                                queues[k][i].fd = c /\ Expired(queues[k][i])}
AnswerNull == {c \in TimedOut : awaiting[c].kind # "none"}

Deadlines(qs) ==
    (UNION {{qs[k][i].deadline : i \in 1..Len(qs[k])} : k \in Keys}) \ {Forever}
get_next_deadline(qs) ==
    LET finite == Deadlines(qs)
    IN  IF finite = {} THEN Forever ELSE CHOOSE d \in finite : \A e \in finite : d <= e

check_wait_timeout == IF wait # Forever /\ wait <= now THEN Forever ELSE wait

compute_timeout ==
    /\ ~sleeping
    /\ queues' = [k \in Keys |-> WithoutExpired(queues[k])]
    /\ index' = [c \in Clients |-> IF c \in TimedOut THEN NoKey ELSE index[c]]
    /\ awaiting' = [c \in Clients |-> IF c \in AnswerNull THEN NoRequest ELSE awaiting[c]]
    /\ got' = [c \in Clients |->
                 IF c \in AnswerNull THEN Reply("null", <<>>, awaiting[c]) ELSE got[c]]
    /\ wait' = check_wait_timeout
    /\ sleeping' = TRUE
    /\ alarm' = WakeTime(NextDeadline(get_next_deadline(queues'), wait'), now)
    /\ UNCHANGED <<data, now, pushed, popped>>

EpollReturns ==
    /\ sleeping
    /\ alarm # Forever /\ alarm <= now
    /\ WakeLoop
    /\ UNCHANGED <<data, queues, index, wait, now, awaiting, got, pushed, popped>>

Tick ==
    /\ now < MaxTime
    /\ now' = now + 1
    /\ UNCHANGED <<data, queues, index, wait, sleeping, alarm, awaiting, got, pushed, popped>>

Command(c, k) ==
    \/ \E half \in HalfMillis : Blpop(c, k, half) \/ BlpopInExec(c, k, half)
    \/ \E vs \in Batches : Rpush(c, k, vs) \/ Lpush(c, k, vs)
    \/ Lpop(c, k)
    \/ \E ttl \in Ttls : Set(c, k, ttl)
    \/ \E id \in AskIds, ms \in Millis : XreadBlock(c, k, id, ms)
    \/ \E id \in AddIds : Xadd(c, k, id)

Next ==
    \/ \E c \in Clients : Reconnect(c) \/ \E k \in Keys : Command(c, k)
    \/ \E ms \in WaitMillis : start_wait(ms)
    \/ process_ack
    \/ compute_timeout
    \/ EpollReturns
    \/ Tick

Fairness == WF_vars(compute_timeout) /\ WF_vars(EpollReturns) /\ WF_vars(Tick)

Spec == Init /\ [][Next]_vars /\ Fairness

----------------------------------------------------------------------------
(* Properties.                                                             *)

TypeOK ==
    /\ data \in Data
    /\ queues \in [Keys -> Seq(BlockedClient)]
    /\ index \in [Clients -> Keys \cup {NoKey}]
    /\ wait \in Int \cup {Forever}
    /\ now \in Nat /\ sleeping \in BOOLEAN /\ alarm \in Int \cup {Forever}
    /\ awaiting \in [Clients -> Requests]
    /\ got \in [Clients -> Replies]
    /\ pushed \in [Keys -> Nat] /\ popped \in [Keys -> Nat]

\* No wakeup is lost: while a client is queued on the key it waits for, there
\* is nothing it could be given.  A push serves the queue before it leaves an
\* element behind, an XADD wakes every client below the new entry, and a
\* client is only queued after it was found that there is nothing for it.
NoLostWakeup ==
    \A c \in Clients : LET r == awaiting[c] IN
        r.kind # "none" /\ NodesOf(queues[r.key], c) # {} =>
            IF r.kind = "list" THEN ~HasElement(Here, now, r.key)
            ELSE xread(data, now, r.key, r.above) = <<>>

\* fd_to_client_ never dangles: the node its iterator stands for is still in
\* the queue, so unblock_client may erase it, however blocking, waking,
\* expiry and reconnection interleave.
IndexSound ==
    \A c \in Clients : index[c] # NoKey => NodesOf(queues[index[c]], c) # {}

\* A client that waits is in the queue of its key: a push, an XADD or its
\* deadline can still reach it.
NoOrphan ==
    \A c \in Clients : awaiting[c].kind # "none" => NodesOf(queues[awaiting[c].key], c) # {}

\* A queued client is one that waits: no element is popped for a client that
\* was answered already, or for another connection that has its number.
NoStaleNode ==
    \A k \in Keys : \A i, j \in 1..Len(queues[k]) :
        LET c == queues[k][i].fd
        IN  /\ awaiting[c].kind # "none" /\ awaiting[c].key = k
            /\ queues[k][j].fd = c => i = j

\* Every element accepted by RPUSH or LPUSH is in the list or was taken out
\* once; none is dropped between the wakeups of a push.
ElementsConserved ==
    \A k \in Keys : LET e == find_valid_entry(data, now, k) IN
        pushed[k] = popped[k] + (IF e.type = "list" THEN Len(e.val) ELSE 0)

\* src/README.md: the replay of the log rebuilds the state.  BLPOP is not among
\* the commands that is_write_command lets into the log and to the replicas, so
\* it would have to leave the list alone.
UnloggedKeepsLists ==
    [][\A c \in Clients, k \in Keys, half \in HalfMillis : Blpop(c, k, half) =>
          find_valid_entry(data', now, k) = find_valid_entry(data, now, k)]_vars

\* A blocking command is answered in its own terms: BLPOP by an element or by
\* its timeout, XREAD by entries or by its timeout.
ReplyMatchesRequest ==
    \A c \in Clients : got[c].kind \in {"none", "null", got[c].request.kind}

\* An XREAD BLOCK that is woken gets the new entry, and no entry that is not
\* above the id it asked for.
EntriesAreNew ==
    \A c \in Clients : got[c].kind = "stream" /\ got[c].request.kind = "stream" =>
        /\ got[c].ids # <<>>
        /\ \A i \in 1..Len(got[c].ids) : Less(got[c].request.above, got[c].ids[i])

\* The loop never sleeps past a deadline that an int of milliseconds can
\* express: when it enters epoll_wait, the wait ends no later than the deadline
\* of any queued client and of the pending WAIT, whichever kind comes first and
\* however many further deadlines there are.
NoOversleep ==
    [][~sleeping /\ sleeping' =>
          \A d \in Deadlines(queues') \cup ({wait'} \ {Forever}) :
              d - now <= IntMax => alarm' # Forever /\ alarm' <= d]_vars

\* A blocking command given a timeout whose milliseconds fit an int is
\* answered, by data or by the timeout, also while others wait longer.
TimedWaitEnds ==
    \A c \in Clients : awaiting[c].timeout = "near" ~> awaiting[c].timeout # "near"

\* src/README.md: a blocking command suspends the client "until data is
\* available or timeout", whatever the timeout.
EveryTimedWaitEnds ==
    \A c \in Clients : awaiting[c].timeout # "none" ~> awaiting[c].timeout = "none"

============================================================================
