# A TLA+ development for Credis

Credis is a single-threaded, Redis-compatible server. One loop around
`epoll_wait` serves all clients; the only concurrency inside the process is the
fsync thread of the append-only file and the forked child of a rewrite. What is
hard about it is therefore the order of commands of several clients, what the
server remembers about a client between two commands (a transaction, a blocked
request, a subscription, unsent output), descriptors that are used again,
restarts, and the replicas, which are processes of their own.

The modules model that state and the commands that change it. TLC checks them
on small instances, and TLAPS proves the central invariants for every instance.
`PROJECT.json` maps each definition to the lines it models; source paths below
are relative to `src/src/`.

## 1. The parts of the system

| Part | State | Operations that change it | Module |
|---|---|---|---|
| Keyspace (`store/`) | entries with an expiry, key versions | the data commands, lazy expiry | `Store` |
| Dispatch, transactions (`handler/command_handler.cpp`) | `TransactionState`, authentication and subscribed mode of each connection | MULTI, EXEC, DISCARD, WATCH, UNWATCH, AUTH, ACL SETUSER, SUBSCRIBE, UNSUBSCRIBE, logging | `CommandHandler` |
| Rewrite snapshot (`aof_manager.cpp`, `rewrite_child_main`) | none | commands that rebuild the keyspace | `Rewrite` |
| Blocking commands (`blocking_manager/`) | queue per key, index per descriptor | BLPOP, XREAD BLOCK, pushes, XADD, close, deadline | `Blocking` |
| Append-only file (`aof/`) | files, manifest, open descriptor, thread, child, buffer | append, rewrite, swap, CONFIG SET, restart | `Aof` |
| Publish/subscribe (`pubsub/`) and output buffers (`connection/`) | two indexes, buffers, dirty list | SUBSCRIBE, UNSUBSCRIBE, PUBLISH, accept, close, flush | `PubSub`, `PubSubSpec` |
| Replication (`replica/`, `handler/server_commands.cpp`) | offsets, one `WaitState`; on the replica a buffer and an offset | propagation, GETACK, WAIT, REPLCONF, PSYNC, the handshake | `Replication` |
| RESP parser (`protocol/`), input buffers (`connection/`) | bytes not yet parsed, read position, size | a read of any length, the loop over its commands | `Framing` |
| Startup (`main.cpp`), RDB loader (`rdb/`) | the files found | replay, load, kill | `Startup` |
| Event loop (`event_loop/`, `server/event_dispatch.cpp`) | asleep or dispatching, deadline | one pass of the loop | `EventLoop` (its timeout), and inside `Blocking`, `PubSub`, `Aof`, `Replication`, `Framing` |
| Geo arithmetic, CLI, utilities | none | formatting, arithmetic | see section 8 |

How they interact: `dispatch_event` reads a connection and hands its bytes to
`process_with_fd`, which runs each command through `process_single_command` and
passes write commands to the log and the replicas. Handlers change the `Store`,
and may register the client with `BlockingManager` or `PubSubManager` or append
to the output buffer of any connection. Before it sleeps, the loop answers
expired clients and an expired WAIT, looks after a finished rewrite, flushes the
dirty connections and takes the earliest deadline of both kinds.

## 2. The modules

**`Store`** has no variables. A handler is an operator from a keyspace and the
two clocks to an *effect*: the new keyspace, the sequence of keys given to
`touch_key`, and the reply. Integers are bounded by `MaxInt`, which stands for
`INT64_MAX`, so overflow of INCR and of stream sequence numbers is reached with
small numbers. A string is an integer or an opaque token; a stream entry is its
id; a sorted set is a function from members to scores.

**`CommandHandler`** has one action for each branch of
`process_single_command`; each action includes the two gates before the branch,
for subscribed and for unauthenticated connections, and the logging after it,
which a refused command does not escape. `mirror` is the keyspace that the next
start builds from the logged commands: it executes them in an instant
(`main.cpp:50`), so its steady clock stands still and every relative time to
live starts again. Where an entry has expired here it is still there in the
mirror; `lapsed` collects the keys of which that may be so, with the keys an
MSET ties to them. `seen` is what a watched key held when it was watched. The
three are history: no action reads them but to bring them up to date.

**`Rewrite`** gives the commands the child writes for each entry and their
replay through the same handlers.

**`EventLoop`** has no variables: it is the end of `compute_timeout` and the
head of `EventLoop::run`. The earlier of two deadlines becomes a number of
milliseconds, which `static_cast<int>` (`event_loop.cpp:66`) takes modulo the
width of an int. A deadline too far off may so become a short timeout, after
which the loop computes again, or a negative one, with which `epoll_wait`
returns for events only. `IntMax` is the largest int.

**`Blocking`** adds the queues and the index to the handlers of `Store`. One
action is a whole command, the waking loop of a push included; `compute_timeout`
answers expired clients and then sleeps for the timeout of `EventLoop`. Beside
the deadlines of the queues there is that of a WAIT (`start_wait`,
`process_ack`, `check_wait_timeout`), of which `Blocking` keeps nothing else.
`awaiting`, `got`, `pushed` and `popped` are history.

**`Aof`** takes the content of commands away and keeps their identity: a file is
the sequence of commands in it, and how many of them were fsynced. A kill can
come between the system calls of the swap.

**`PubSub`** keeps descriptors and connections apart, so that a descriptor is
used again by another connection while the dirty list may still name it. EXEC
runs one queued command per step, because publishing inside a transaction
touches the buffers of others. **`PubSubSpec`** is the promise without
descriptors, indexes and buffers; `PubSub` implements it by the mapping at its
end.

**`Replication`** is the composition of a master with its replicas. The master
handles one packet in a step; a replica goes through the handshake command by
command, and may find the first propagated writes in the same read as the answer
to PSYNC or as the RDB file (`send_psync`, `receive_rdb`). That file is always
empty (`handle_psync`), so a replica that joins after a write never gets it.
A propagated write is known by the master's offset after it; a write made while
no replica is attached moves no offset. Replicas come in two kinds: Credis
itself, whose process ends at the first propagated command (see section 4), and
another implementation of the protocol (`Others`), which runs commands and with
which the master's part can be examined further. `written`, `missed`
(there was a write before this replica joined), `applied`, `asked`, `awaiting`
and `faults` are history.

**`Framing`** goes down to bytes: `encode_array` gives the stream of a peer, a
read returns any number of its bytes, and `parse_one` is the parser with its
positions. It has two receivers, a client connection with its growing buffer,
and the buffer of a replica's link to its master.

**`Startup`** has an encoder of RDB files and the reader of `rdb_parser.cpp`,
byte by byte, and composes the loader with the replay of a log of SET commands,
using the handlers of `Store`.

The theorems are in `CommandHandlerProofs`, `BlockingProofs`, `AofProofs`,
`PubSubProofs`, `ReplicationStream` and `ReplicationProofs`. `StoreProofs` has
the lemmas about the handlers that `CommandHandlerProofs` and `BlockingProofs`
share, `BlockingSteps` those about the operations of `BlockingManager`, and
`ReplicationStream` those about the session of one replica. `MCCommandHandler`,
`MCBlocking`, `MCFraming` and `MCStartup` have the sets of commands and files
used by TLC.

## 3. The runs that pass

| Run | What it shows |
|---|---|
| `watch` (`MCHandlerWatch`) | `WatchedKeysUnchanged`: a watched key whose version has not moved holds what it held, so EXEC never runs on a key another client has changed. `OnlyStringsExpire`: no command that changes the type of a key keeps the expiry of the string it replaces. |
| `streams` (`MCHandlerStreams`) | `StreamsAscend`: ids ascend whatever mix of automatic and explicit ids is used, with a wall clock that steps back and at the largest sequence number. `ReadsFilterStream`: the binary searches behind XRANGE and XREAD cut where a scan of the stream cuts. |
| `log` (`MCHandlerLog`) | `LogRebuildsKeyspace`: outside transactions, a restart that replays the logged commands, partly failing ones included, rebuilds the contents of every key on which no expiry has made a difference. `SnapshotRebuilds`: so does a rewrite begun in any state. |
| `block_lists` (`MCBlockLists`) | No client waits beside an element (`NoLostWakeup`) or outside every queue (`NoOrphan`); no node outlives its request (`NoStaleNode`); elements are neither lost nor doubled (`ElementsConserved`); when the loop goes to sleep, it will be awake by every deadline that an int can express, of a queued client or of a WAIT (`NoOversleep`); a BLPOP with such a timeout ends (`TimedWaitEnds`), also beside clients whose timeout is too long for an int. |
| `block_streams` (`MCBlockStreams`) | The same for XREAD BLOCK, and a client is woken with entries after the id it gave only (`EntriesAreNew`). |
| `block_mixed` (`MCBlockMixed`) | With clients that send commands while blocked and block inside EXEC, where stale nodes do arise, `fd_to_client_` still never dangles (`IndexSound`) and no wakeup is lost. |
| `aof` (`MCAof`) | With writes, transactions, both parameters changed at runtime, rewrites that succeed or fail and a kill at any point: the replay of the file that the manifest names gives the executed commands in order, as long as no write was made with logging off or with a transaction across a rewrite (`LogComplete`); whatever happens no command is replayed twice (`ReplayedOnce`), the open file is the one the manifest names (`AppendsToManifest`), the everysec thread runs whenever it should (`FsyncThreadRuns`), and what is written reaches the disk, or the log is closed (`WritesReachDisk`; CONFIG SET closes it without an fsync). |
| `replication` (`MCReplication`) | With two replicas that connect before or after a write, are killed and come back while a client writes and waits: the writes since its PSYNC that a replica has not run are on their way to it without a gap (`StreamIsWhole`); each replica that an answer of WAIT promises has run the writes of earlier packets that were propagated to it (`WaitIsBarrier`, as long as it was asked for its offset once); a WAIT whose timeout fits an int is answered, whatever the deadlines of blocked clients (`WaitEnds`). |
| `framing` (`MCFraming`) | For every cut of the stream into reads, exactly the commands sent are run, in order and once (`FramesIntact`), their bytes are handed to the log and to the replicas unchanged (`RawIsWhole`), none is forgotten in the buffer (`Drained`), and only a command that cannot fit closes the connection (`OnlyTooLongCloses`). |
| `startup` (`MCStartup`) | An RDB file is loaded as its writer meant it, with lengths of one and two bytes, non-negative integers of every width, expiries in seconds and milliseconds, and strings that hold the opcodes of the format (`FileIsLoaded`); keys that only the log has survive the load (`WritesSurvive`). |
| `pubsub` (`MCPubSub`) | The two indexes mirror each other (`IndexesMirror`), the loop does not sleep on unsent output (`SleepsFlushed`), and delivery implements `PubSubSpec` (`ImplementsPubSub`): a message goes to the connections subscribed at that moment, in order, and never to the next owner of a descriptor. `MCPubSubSelf` repeats the refinement with transactions of two commands, which can subscribe and publish to themselves. |

Each passing property has a mutant in the module of the code it is about: an
operator with a suffix (`handle_incr_NoTouch`, `WakeAll_One`, ...) that differs
from its original by one plausible slip, with which the run fails.

### Bounds

- Keys: one key reaches every change of type, since keys interact only in MSET,
  in transactions and in the log; `log` has two.
- Clients: two for WATCH (the watcher and the writer), three for blocking (two
  in a queue and the one that pushes). Two clients in `block_mixed`, where each
  may hold several nodes.
- `MaxInt` is 1 to 3, so that INCR and sequence numbers meet their limit.
- `MaxTouches`, `MaxPushes`, `MaxWrites`, `MaxPublished` bound the length of a
  history at three or four changes: enough for a change, its reversal and a
  third party in between; `block_lists` has two, beside a WAIT. `MaxTime` leaves
  room for two distinct deadlines and an expiry between them.
- `IntMax` is 1 in `block_lists`, with timeouts of 1 ms, which fits an int, and
  2 ms, which becomes negative and so for ever. In the other runs it is 2, and
  all timeouts fit.
- `MaxSeq` of 3 gives two complete rewrites; `MaxCrashes` of 1 a kill at any
  point of either, and rewrites after the restart.
- `MaxConns` of 3 on two descriptors forces a descriptor to be used again.
- Two replicas and a WAIT for one of them are enough for a WAIT that one
  satisfies and the other is late for;
  two writes for an acknowledgement of an older one; one GETACK per connection
  is what the code's offsets support (see `WaitIsBarrierAlways`).
- In `framing`, a buffer of 12 bytes that may grow to 24 stands for 4 KB and
  512 MB: commands fit, need the growth, or are too long; two commands need
  `compact`. Arguments hold CR, LF and digits.
- In `startup`, strings are up to 300 bytes long (`MCStartRdb` has a longer
  one), so that lengths take one byte and two, integers one, two and four bytes;
  `MaxTime` lets an expiry pass while the server is down.
- In `log`, `WallTimes` has a single value: a replay then reads the same wall
  clock, and automatic ids are the same. `MCHandlerAutoId` shows what happens
  without this.

Deadlock is checked except where the system may stop: in `Aof` a server with an
empty manifest stays down; in `Replication` and `Framing` nothing need happen
when the bounds are reached or all bytes are read.

### Fairness

- `Blocking`: weak fairness of `compute_timeout` and `EpollReturns`, because
  `EventLoop::run` repeats them without a condition and `epoll_wait` returns at
  its timeout; and of `Tick`, because the clock goes on. Nothing is assumed of
  clients.
- `Aof`: weak fairness of the fsync thread, a loop with a sleep of one second,
  and of the later steps of a swap, which are consecutive statements of one
  function. Neither the child nor any command is assumed to make progress.
- `Replication`: weak fairness of the loop of the master and of the clock, as
  in `Blocking`. Nothing is assumed of replicas and connections: that the master
  reads acknowledgements is not needed for `WaitEnds`, since the deadline ends a
  WAIT.
- `CommandHandler`, `PubSub`, `Framing` and `Startup` are checked for safety
  only. In `Framing` progress is stated as `Drained`: when there is nothing left
  to read, nothing is left to run, which needs no fairness.

## 4. Disagreements between code and documentation

TLC ends each of these configurations with a counterexample. The first is a run
of `PROJECT.json`, with the quoted lines; the others are kept for whoever
repairs the code (`tlc -config MCBlockKinds.cfg MCBlocking`, and so on:
`MCHandler*` with module `MCCommandHandler`, `MCBlock*` with `MCBlocking`,
`MCAof*` with `Aof`, `MCRepl*` with `Replication`, `MCFrame*` with `MCFraming`,
`MCStart*` with `MCStartup`, `MCPubSub*` with `PubSub`). A configuration named
twice or more has several invariants: TLC stops at the first one violated, so
check them one at a time, or let `-continue` report them all.

| Configuration | Property | The code | The documentation (`src/README.md`) |
|---|---|---|---|
| `MCHandlerQueueLog` (run `queue_log`) | `LogRebuildsKeyspace` | logs a write when it is queued, so a discarded transaction is replayed (`command_handler.cpp:492`) | lines 148, 150, 179 |
| `MCBlockBatch` | `ElementsConserved` | drops further elements of a push when clients are blocked (`list_commands.cpp:173`) | `src/CHANGELOG.md:90` |
| `MCAofDocs` | `ManifestNamesLog` | truncates the manifest before writing it (`aof_manager.cpp:300`) | line 178, "atomically swaps" |
| `MCHandlerCase` | `ExecRunsQueue` | looks up queued commands as typed; lower case fails in EXEC (`command_handler.cpp:635`) | line 149 |
| `MCHandlerAutoId` | `LogRebuildsKeyspace` | logs `XADD *` as sent; the replay chooses another id (`command_handler.cpp:497`) | line 179 |
| `MCHandlerRefused` | `LogRebuildsKeyspace` | logs a write that it has refused to a subscribed or an unauthenticated connection, and the replay executes it (`command_handler.cpp:492`) | line 179 |
| `MCHandlerExpiry` | `LogRebuildsLapsed` | logs relative times to live, so that an entry that has expired comes back (`string_commands.cpp:29`) | line 179 |
| `MCHandlerSnapshot` | `SnapshotKeepsExpiry` | makes a key permanent if it expires while the snapshot is written (`aof_manager.cpp:178`) | line 178 |
| `MCBlockBatch` | `NoOrphan` | takes a client from the queue without answering it (`list_commands.cpp:173`) | line 139 |
| `MCBlockKinds` | `ReplyMatchesRequest` | answers XREAD BLOCK with a list element (`blocking_manager.cpp:28`) | line 140 |
| `MCBlockLog` | `UnloggedKeepsLists` | logs neither BLPOP nor the pop that a push performs for a blocked client, so the replay keeps the element (`command_handler.cpp:27`) | line 179 |
| `MCBlockExec` | `NoStaleNode` | leaves a client queued after EXEC refused its BLPOP (`command_handler.cpp:641`) | its own error text |
| `MCBlockWhileBlocked` | `NoStaleNode` | queues a blocked client twice and forgets the first node (`blocking_manager.cpp:19`) | line 137 |
| `MCBlockSubMilli` | `TimedWaitEnds` | turns a timeout below a millisecond into none (`list_commands.cpp:135`) | lines 137, 142 |
| `MCBlockFar` | `EveryTimedWaitEnds` | cuts the milliseconds of the timeout to an int, and a negative one means for ever (`event_loop.cpp:66`) | line 137 |
| `MCBlockBareId` | `EntriesAreNew` | registers an id without a sequence number as `0-0` (`stream_commands.cpp:170`) | line 140 |
| `MCAofDocs` | `AlwaysDurable` | does not fsync the rewritten file under `always` (`aof_manager.cpp:289`) | line 176 |
| `MCAofDocs` | `LogKeepsAll` | loses a transaction queued before a rewrite and executed after its fork (`aof_manager.cpp:259`) | line 178 |
| `MCAofOff` | `ClosedWhenOff` | opens the log again when a rewrite ends after `appendonly no` (`aof_manager.cpp:313`) | line 217 |
| `MCPubSubExec` | `SubscribedRestricted` | runs other commands for a subscribed connection inside EXEC (`command_handler.cpp:634`) | line 195 |
| `MCReplEnds` | `CommandsDoNotEndReplica` | runs a propagated command for descriptor -1, and `connections_.at(-1)` throws (`command_handler.cpp:544`) | line 157, "eventual consistency" |
| `MCReplDocs` | `WaitCoversPacket` | takes the offset for WAIT before the writes of the same packet are propagated (`event_dispatch.cpp:79`) | line 162, "up to the current offset" |
| `MCReplDocs` | `WaitIsBarrierAlways` | counts GETACK in the replica's offset and not in the master's (`replica_connector.cpp:237`) | line 162, "barrier" |
| `MCReplDocs` | `WaitIsExact` | answers a satisfied WAIT with the number of all replicas (`server_commands.cpp`, WAIT) | line 164, "computes acknowledged count" |
| `MCReplDocs` | `WaitIsBarrierForAll` | gives a new replica an empty snapshot and counts it in WAIT, although it has none of the earlier writes (`server_commands.cpp:201`) | line 162, "barrier" |
| `MCReplOverlap` | `WaitEnds` | keeps one `WaitState`; a second WAIT replaces the first (`replica_manager.cpp:86`) | line 162, "block until" |
| `MCReplDocs` | `AnswersAsked` | answers the next owner of a descriptor whose client left in a WAIT (`event_dispatch.cpp:89`) | line 162 |
| `MCFrameDocs` | `NeverReadsPast` | accepts a command whose last line end has not arrived, and counts it as read (`resp_codec.cpp:123`) | line 202, "one complete command" |
| `MCFrameDocs` | `PipelineDrained` | leaves the commands behind a blocking one in the buffer until more bytes come (`command_handler.cpp:502`) | line 204, "parsed and executed sequentially" |
| `MCFrameDocs` | `ReplicaRunsAll` | stops at a line end that arrives late (`replica_connector.cpp`, `process_buffer_impl`) | line 157 |
| `MCStartRdb` | `FileIsLoaded` | skips a byte of a length in five bytes (`rdb_parser.cpp`, `read_length`) | line 169 |
| `MCStartRdb` | `FileIsLoaded` | reads integers as unsigned (`rdb_parser.cpp`, `read_string`) | line 169 |
| `MCStartDocs` | `LogWins` | loads the RDB file over the replayed log (`main.cpp:62`) | line 179, "rebuild state" |
| `MCStartDocs` | `TtlSurvives` | logs a relative time to live, which starts again at the replay (`string_commands.cpp:29`) | line 179 |

The passing runs leave these cases out by their constants (`Batches` of one
element, `HalfMillis`, `AskIds`, `Pipelining`, `BlockInExec`, `Cases`,
`Controls`, `WallTimes`, `Clients`, `MaxAsked`, `Images`), never by a change of
the model. Some properties carry the exception in their statement:
`LogRebuildsKeyspace` is about states without an open transaction and keys that
are not in `lapsed`; `NoOversleep` and `TimedWaitEnds` about timeouts that fit
an int; `LogComplete` about states in which the manifest names a file and no
`gap` was recorded; `WaitIsBarrier` about replicas asked once and the writes of
earlier packets since they joined; `RawIsWhole` and
`Drained` about streams in which no command was run before its end;
`WritesSurvive` about keys that the RDB file does not name.

## 5. What is proved

TLAPS checks the following for all values of the constants that satisfy the
named assumptions (`StoreAssumption`, `HandlerAssumption`, `BlockingAssumption`,
`EventLoopAssumption`, `PubSubAssumption`, `AofAssumption`,
`ReplicationAssumption`). They only say that
bounds are naturals, arguments of the right type, special values distinct and
the set of replicas finite. In particular the theorems hold with `Pipelining`,
`BlockInExec` and pushes of several elements, which most runs leave out.

**`CommandHandlerProofs!TypeCorrect` and `WatchSound`.** The inductive
invariant is `TypeOK /\ VersionsBounded /\ WatchedKeysUnchanged /\ Sound(data)`.
`VersionsBounded` says that no version, stored or watched, is above the counter;
without it a step could give a key a fresh version equal to an old watched one.
The argument rests on `EffectOK`, proved in `StoreProofs` for every handler and
extended to the command table (`HandleOK`) and to a whole queue
(`ExecQueueOK`): an effect is well typed, and a key it does not touch keeps its
live entry, unless that entry has expired. So a step of any client moves the
version of a watched key or leaves the key alone, and the passage of time can
only remove what has expired.

**`CommandHandlerProofs!StreamsSound`, `ExpirySound` and `ReadsExact`.** `Sound`
says of a keyspace that its streams ascend and that only strings carry an
expiry. Every handler keeps it: XADD because its three ways of choosing an id
give one above the last, also at the largest sequence number and with a wall
clock behind it; the others because an entry is replaced whole or keeps its
type. `ReadsExact` then needs that the binary searches are right on an ascending
stream. A search is a recursive function on ranges; its values are reached by
induction on the length of the range (`BoundedInduction`, stated of a set of
lengths): it returns the first position outside `G`, for every set `G` of
positions that is an initial part of the stream.

**`BlockingProofs!TypeCorrect`, `WakeupsSound`, `IndexNeverDangles` and
`SleepSound`.** `NoLostWakeup` is not inductive: it says nothing of a client
that is queued elsewhere, and for a stream it does not say that the id kept in
the node is the one asked for. `Good` says for each client that if it is queued
on the list it waits for, the list has no live element; and that if it waits for
a stream, no entry is above the id it gave *and one of its nodes has an id that
is not above it*, so that the next XADD wakes it, unless the key has become a
list, which it stays. A command that queues nobody and makes no key offer more
than before (`Calmer`) keeps this; `PopLive`, `SetLive`, `EvictLive` and
`TickLive` say so of BLPOP, SET, expiry and time. A push serves the queue first,
so an element stays only when no client is left in it: an invariant of the loop
over the elements of the push, for every number of elements. XADD answers each
client that is below the new entry. `IndexOK`, about `fd_to_client_`, has to be
carried through the same loops, because each wakeup erases a node and an index
entry in turn. `SleepSound` is about the step into `epoll_wait`:
`compute_timeout` has answered what has expired, so every deadline that remains,
of a queue or of the WAIT, is ahead; the least of them (`LeastDeadline`) is no
further than any that fits an int, so it fits too and the narrowing keeps it
(`FitsInt`, `WakeTimeFacts`). Later deadlines, which may not fit, do not matter.

**`PubSubProofs!TypeCorrect`, `MirrorSound` and `FlushSound`.** The inductive
invariant is `TypeOK /\ IndexesMirror /\ OutputInv /\ ExecOnOpen`. `OutputInv`
adds to `SleepsFlushed` that a connection with output is flagged and on the
dirty list (`PendingListed`), which is what makes `flush_all` sufficient;
`ExecOnOpen` says that a running EXEC belongs to an open connection, so that its
replies have a buffer. That a descriptor on the dirty list may belong to a
closed or to a newer connection is part of the states covered.

**`PubSubProofs!PubSubImplements`.** `PubSub` implements `PubSubSpec`. Two
things are needed besides that invariant. `ConnInv`: a connection has one
descriptor, and a descriptor without a connection has no subscriptions left and
nothing sent. And what `Messages` takes from a buffer: nothing from an empty
one, and one message more when one is appended (`MessagesEmpty`,
`MessagesAppend`; the recursive definition is reached through a table of its
values and induction over a set of lengths). `Mapped` then says what the mapping
gives for an open descriptor and for a connection that is not open, and each
action is shown to be an abstract step or a stutter: a reply and the flush
change nothing a client was given, a message reaches exactly the connections
that have the channel because the indexes mirror each other, and an accepted
connection starts with nothing because closing left nothing.

**`AofProofs!TypeCorrect`, `LogIsComplete`, `OpenFileIsManifests` and
`FsyncThreadSound`.** `LogComplete` says nothing of a rewrite in progress, so it
is not inductive. `Inv` adds three things. `FilesOK`: the manifest names the
current file until a swap truncates it, the open descriptor is that file or
none, and a file the manifest names holds a whole snapshot. `RewriteOK`: the
child writes the next file, which holds the snapshot once the child is done and
the snapshot followed by the buffer once the swap has begun. `ContentsOK`: while
there is no gap, the log is the executed commands, *and so are the image the
child was forked with and the buffer together*. The last conjunct is what makes
the switch of files sound: each command appended to the log is appended to the
buffer in the same step.

**`AofProofs!NothingTwice`.** `ReplayedOnce` also holds where the log is not
complete, so it needs an argument of its own, `OnceOK`: no command occurs twice
in the keyspace, in the queue of a transaction, in the file the manifest names,
or in the image of a rewrite followed by its buffer; the queue and the keyspace
share none; and all are numbered no higher than the last one issued, so that
the next is new everywhere. The lemmas `OnceAppend`, `OnceConcat` and `ApartAppend` are about
sequences alone.

**`ReplicationStream!TypeCorrect` and `ReplicationProofs!StreamWhole`.**
`StreamIsWhole` speaks of attached replicas, but what makes it true is decided
in the handshake. `Sessions` says of a replica that is not attached (`Before`)
that at most one message of the handshake is on its way, and PSYNC only in the
phase that sends it, so that the master attaches it to an empty link; and of an
attached one (`Joined`) that what is pending and on its way is the answer to
PSYNC, the RDB file, as far as they are still expected, and then only propagated
commands whose writes form a chain (`Chain`) from the last write run to the
master's offset. A read that takes several messages moves a prefix of the chain
from the link to the pending buffer or to the commands to run, which is the
case the code has to get right when writes arrive with the RDB file. `Chain` is
about a table of offsets along a sequence; that it is the function
`OffsetsAlong` of the property follows by induction on the length.

**`ReplicationProofs!WaitHolds`.** To `Sessions` is added that an acknowledgement
of a replica asked at most once, kept by the master or on its way, is no higher
than what the replica has run (`Acked`), and that `wait_state_` has the offset
its client asked about, unless the client has gone (`Matched`). Then the
replicas that `count_acked_for` counts are among those that hold the writes, and
a subset of a finite set has no more members (`CountHeld`). Each of the three
places that answer a WAIT is examined: at once, at an acknowledgement, at the
deadline. Nothing is said of the writes made before a replica joined
(`MCReplDocs`).

## 6. What is only model-checked

- Liveness: `TimedWaitEnds`, `WritesReachDisk`, `WaitEnds`.
- `LogRebuildsKeyspace` and `SnapshotRebuilds`.
- `NoOrphan`, `NoStaleNode`, `ElementsConserved` and `EntriesAreNew` fail in
  general (section 4) and hold where the constants leave those cases out. A
  proof would be of that part of the system only.
- `FramesIntact`, `RawIsWhole`, `OnlyTooLongCloses`, `Drained`, `FileIsLoaded`
  and `WritesSurvive` are about recursive definitions over bytes; the recursive
  operators of `Framing` and `Startup` are out of reach of the provers.

## 7. Plan

1. Proofs: `ElementsConserved` and `NoStaleNode` under the constants with which
   they hold, on the lemmas of `BlockingSteps`.
2. When the code is repaired, the configurations of section 4 become runs that
   pass, and the exceptions in the statements of the properties can go.

## 8. What is not modelled

- Sends that block or fail: sockets are blocking and what they take depends on
  the kernel's buffers.
- Geo arithmetic is floating point; GEOADD is modelled as the insertion it
  performs. SHA-256, number parsing, logging, reply formatting and the command
  line are left out: what they decide is an input of the models.
- Commands that only read and have no bearing on a property (PING, ECHO, INFO,
  CONFIG GET, ACL GETUSER).
- XREAD of several streams: the model reads one, the only case BLOCK accepts.
- Control commands queued inside MULTI, and ACL users other than the default.
- RDB files that are truncated, hold compressed strings or types other than
  strings: the loader does not claim to read them. A key that two databases of
  a file hold is outside `FileIsLoaded`.
- Time below a millisecond, except in the timeout of BLPOP (`HalfMillis`); and
  the overflow of a deadline in the nanoseconds of the steady clock, which takes
  a timeout of centuries.
- Failing system calls of the server itself; a child that fails is modelled.
