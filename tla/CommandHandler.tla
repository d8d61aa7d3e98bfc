--------------------------- MODULE CommandHandler ---------------------------
(***************************************************************************)
(* handler/command_handler.cpp: the path of one command through            *)
(* process_with_fd, process_single_command and execute_command, with the   *)
(* transaction state of every connection (handler/transaction_state.hpp),  *)
(* the gates for subscribed connections (pubsub/pubsub_manager.hpp) and    *)
(* for unauthenticated ones (server/acl_manager.hpp), and the hand-over of *)
(* write commands to the append-only file.                                 *)
(*                                                                         *)
(* One action is one command of one client: the event loop is single       *)
(* threaded, so a command, an EXEC with its whole queue included, runs     *)
(* without interleaving.  Clients interleave command by command, in any    *)
(* order.  No client is blocked on a key here; module Blocking adds that.  *)
(*                                                                         *)
(* mirror is the keyspace that the next start of the server rebuilds: it   *)
(* executes the logged commands one by one, outside any transaction and    *)
(* for no connection, before the first client is served (main.cpp).  A     *)
(* whole file is replayed in an instant, so the steady clock of the replay *)
(* stands still and every relative time to live starts again.  lapsed is   *)
(* history: the keys on which that makes a difference.                     *)
(***************************************************************************)
EXTENDS Store

CONSTANTS Clients,     \* client connections
          Commands,    \* the data commands clients send
          Controls,    \* which of the control commands they also send
          Cases,       \* {TRUE}: names sent in upper case only
          Logging,     \* whether an append-only file is open
          WallTimes,   \* readings of the wall clock
          MaxTouches,  \* bound on the version counter
          MaxQueue,    \* bound on the length of a transaction
          MaxTime      \* bound on the steady clock

\* The data commands, as the argument vectors the handlers accept.
Command ==
    [name : {"SET"}, key : Keys, value : Str, ttl : Nat \cup {NoTtl}]
      \cup {c \in [name : {"MSET"}, keys : Seq(Keys), values : Seq(Str)] :
              Len(c.keys) > 0 /\ Len(c.keys) = Len(c.values)}
      \cup [name : {"GET", "INCR", "LLEN", "TYPE", "ZCARD", "KEYS"}, key : Keys]
      \cup [name : {"RPUSH", "LPUSH"}, key : Keys, values : Seq(Str) \ {<<>>}]
      \cup [name : {"LPOP", "RPOP"}, key : Keys, count : Int64 \cup {NoCount, BadCount}]
      \cup [name : {"LRANGE", "ZRANGE"}, key : Keys, start : Int64, stop : Int64]
      \cup [name : {"XADD"}, key : Keys, id : XaddIds]
      \cup [name : {"XREAD"}, key : Keys, id : ReadIds]
      \cup [name : {"XRANGE"}, key : Keys, lo : ReadIds, hi : ReadIds]
      \cup {c \in [name : {"ZADD"}, key : Keys, scores : Seq(Int64 \cup {BadScore}),
                   members : Seq(Members)] : Len(c.scores) = Len(c.members)}
      \cup [name : {"GEOADD"}, key : Keys, score : Int64 \cup {BadScore}, member : Members]
      \cup [name : {"ZREM", "ZRANK", "ZSCORE"}, key : Keys, member : Members]

ControlCommands == {"MULTI", "WATCH", "ACL", "SUBSCRIBE"}

ASSUME HandlerAssumption ==
    /\ Commands \subseteq Command
    /\ Controls \subseteq ControlCommands
    /\ Cases \subseteq BOOLEAN /\ Logging \in BOOLEAN
    /\ WallTimes \subseteq Int64
    /\ MaxTouches \in Nat /\ MaxQueue \in Nat /\ MaxTime \in Nat

VARIABLES data,    \* Store::data_
          ver,     \* Store::key_versions_, 0 for a key never touched
          ctr,     \* Store::version_counter_
          now,     \* the steady clock
          tx,      \* TransactionState of every connection
          authed,  \* Connection::authenticated
          nopass,  \* AclUser::nopass of the default user
          subscribed, \* PubSubManager::is_subscribed of every connection
          mirror,  \* the keyspace a replay of the logged commands rebuilds
          lapsed,  \* keys with an entry that expired, and those MSET ties to them
          seen     \* the live entry of each watched key when it was watched

logVars == <<mirror, lapsed>>
vars == <<data, ver, ctr, now, tx, authed, nopass, subscribed, logVars, seen>>

NotWatched == -1
NoTx == [in_multi |-> FALSE, queued |-> <<>>, watched |-> [k \in Keys |-> NotWatched]]
NothingSeen == [k \in Keys |-> Absent]

Queued == [cmd : Command, upper : BOOLEAN]
TxState == [in_multi : BOOLEAN, queued : Seq(Queued), watched : [Keys -> Nat \cup {NotWatched}]]

----------------------------------------------------------------------------
\* Mutant: GEOADD is missing from the list.
is_write_command_NoGeo(name) ==
    name \in {"SET", "DEL", "INCR", "MSET", "RPUSH", "LPUSH", "LPOP", "RPOP", "XADD", "ZADD", "ZREM"}

is_write_command(name) ==
    name \in {"SET", "DEL", "INCR", "MSET", "RPUSH", "LPUSH", "LPOP", "RPOP",
              "XADD", "ZADD", "ZREM", "GEOADD"}

\* The command table: the handler of a command, applied.
Handle(d, t, w, c) ==
    CASE c.name = "SET"    -> handle_set(d, t, c.key, c.value, c.ttl)
      [] c.name = "MSET"   -> handle_mset(d, t, c.keys, c.values)
      [] c.name = "GET"    -> handle_get(d, t, c.key)
      [] c.name = "INCR"   -> handle_incr(d, t, c.key)
      [] c.name = "RPUSH"  -> handle_rpush(d, t, c.key, c.values)
      [] c.name = "LPUSH"  -> handle_lpush(d, t, c.key, c.values)
      [] c.name = "LLEN"   -> handle_llen(d, t, c.key)
      [] c.name = "LPOP"   -> handle_lpop(d, t, c.key, c.count)
      [] c.name = "RPOP"   -> handle_rpop(d, t, c.key, c.count)
      [] c.name = "LRANGE" -> handle_lrange(d, t, c.key, c.start, c.stop)
      [] c.name = "TYPE"   -> handle_type(d, t, c.key)
      [] c.name = "KEYS"   -> handle_keys(d, t)
      [] c.name = "XADD"   -> handle_xadd(d, t, w, c.key, c.id)
      [] c.name = "XREAD"  -> handle_xread(d, t, c.key, c.id)
      [] c.name = "XRANGE" -> handle_xrange(d, t, c.key, c.lo, c.hi)
      [] c.name = "ZADD"   -> handle_zadd(d, t, c.key, c.scores, c.members)
      [] c.name = "ZREM"   -> handle_zrem(d, t, c.key, c.member)
      [] c.name = "ZRANK"  -> handle_zrank(d, t, c.key, c.member)
      [] c.name = "ZSCORE" -> handle_zscore(d, t, c.key, c.member)
      [] c.name = "ZCARD"  -> handle_zcard(d, t, c.key)
      [] c.name = "ZRANGE" -> handle_zrange(d, t, c.key, c.start, c.stop)
      [] c.name = "GEOADD" -> handle_geoadd(d, t, c.key, c.score, c.member)

\* The table is keyed by upper case names and looked up with the name given.
execute_command(d, t, w, c, upper) ==
    IF upper THEN Handle(d, t, w, c) ELSE Unchanged(d, Err)

\* EXEC runs the queue in order.  The names are looked up as the client wrote
\* them: only a direct command is put in upper case first.
ExecQueue(d, t, w, q) ==
    LET run[i \in 0..Len(q)] ==
          IF i = 0 THEN Unchanged(d, Ok)
          ELSE LET e == execute_command(run[i - 1].data, t, w, q[i].cmd, q[i].upper)
               IN  Effect(e.data, run[i - 1].touched \o e.touched, e.reply)
    IN  run[Len(q)]

----------------------------------------------------------------------------
Init ==
    /\ data = [k \in Keys |-> Absent]
    /\ mirror = data
    /\ ver = [k \in Keys |-> 0]
    /\ ctr = 0
    /\ now = 0
    /\ tx = [c \in Clients |-> NoTx]
    /\ authed = [c \in Clients |-> FALSE]
    /\ nopass = TRUE
    /\ subscribed = [c \in Clients |-> FALSE]
    /\ lapsed = {}
    /\ seen = [c \in Clients |-> NothingSeen]

\* The gates.  A subscribed connection is refused every command but SUBSCRIBE,
\* UNSUBSCRIBE, PING and the like.  While the default user has no password a
\* connection is marked authenticated by its first command.
Known(c) == authed[c] \/ nopass
Mark(c) == Known(c) /\ authed' = [authed EXCEPT ![c] = TRUE]
Admitted(c) == ~subscribed[c] /\ Known(c)
Admit(c) == ~subscribed[c] /\ Mark(c)

\* The effect of executed commands on the store.
Apply(e) ==
    /\ ctr + Len(e.touched) <= MaxTouches
    /\ data' = e.data
    /\ ver' = touch_keys(ver, ctr, e.touched)
    /\ ctr' = ctr + Len(e.touched)

\* The steady clock of the replay, which is over before it moves.
ReplayTime == 0

\* Keys whose entry has expired after this step.
Expiring == {k \in Keys : is_expired(data'[k], now')}

\* MSET looks at all its keys before it stores any: where it is refused for
\* one of them it is refused for all.
Tied(c) ==
    IF c.name = "MSET" /\ \E i \in DOMAIN c.keys : c.keys[i] \in lapsed
    THEN {c.keys[i] : i \in DOMAIN c.keys}
    ELSE {}

\* process_with_fd logs a write command after process_single_command has
\* returned, whatever came of it.  The command is logged as received and is
\* executed again by another process, whose wall clock reads wr.
Log(c, wr) ==
    IF Logging /\ is_write_command(c.name)
    THEN /\ mirror' = Handle(mirror, ReplayTime, wr, c).data
         /\ lapsed' = lapsed \cup Tied(c) \cup Expiring
    ELSE UNCHANGED logVars

\* A data command outside MULTI.
Execute(c, cmd, w, wr) ==
    /\ Admit(c)
    /\ ~tx[c].in_multi
    /\ Apply(execute_command(data, now, w, cmd, TRUE))
    /\ UNCHANGED <<now, tx, nopass, subscribed, seen>>
    /\ Log(cmd, wr)

\* A data command inside MULTI is only queued.
Queue(c, cmd, upper, wr) ==
    /\ Admit(c)
    /\ tx[c].in_multi
    /\ Len(tx[c].queued) < MaxQueue
    /\ tx' = [tx EXCEPT ![c].queued = Append(@, [cmd |-> cmd, upper |-> upper])]
    /\ UNCHANGED <<data, ver, ctr, now, nopass, subscribed, seen>>
    /\ Log(cmd, wr)

\* A data command of a connection that is subscribed or not authenticated is
\* answered with an error, and logged.
Reject(c, cmd, wr) ==
    /\ ~Admitted(c)
    /\ UNCHANGED <<data, ver, ctr, now, tx, authed, nopass, subscribed, seen>>
    /\ Log(cmd, wr)

Multi(c) ==
    /\ "MULTI" \in Controls
    /\ Admit(c)
    /\ ~tx[c].in_multi
    /\ tx' = [tx EXCEPT ![c].in_multi = TRUE]
    /\ UNCHANGED <<data, ver, ctr, now, nopass, subscribed, logVars, seen>>

\* clear_tx forgets the queue and the watched keys together.
clear_tx(c) ==
    /\ tx' = [tx EXCEPT ![c] = NoTx]
    /\ seen' = [seen EXCEPT ![c] = NothingSeen]

Dirty(c) == \E k \in Keys : tx[c].watched[k] # NotWatched /\ ver[k] # tx[c].watched[k]

ExecAborts(c) ==
    /\ Admit(c)
    /\ tx[c].in_multi
    /\ Dirty(c)
    /\ clear_tx(c)
    /\ UNCHANGED <<data, ver, ctr, now, nopass, subscribed, logVars>>

ExecCommits(c, w) ==
    /\ Admit(c)
    /\ tx[c].in_multi
    /\ ~Dirty(c)
    /\ Apply(ExecQueue(data, now, w, tx[c].queued))
    /\ clear_tx(c)
    /\ UNCHANGED <<now, nopass, subscribed, mirror>>
    /\ lapsed' = IF Logging THEN lapsed \cup Expiring ELSE lapsed

Discard(c) ==
    /\ Admit(c)
    /\ tx[c].in_multi
    /\ clear_tx(c)
    /\ UNCHANGED <<data, ver, ctr, now, nopass, subscribed, logVars>>

\* WATCH of one key, watched already or not: the version is read anew.
Watch(c, k) ==
    /\ "WATCH" \in Controls
    /\ Admit(c)
    /\ ~tx[c].in_multi
    /\ tx' = [tx EXCEPT ![c].watched[k] = ver[k]]
    /\ seen' = [seen EXCEPT ![c][k] = find_valid_entry(data, now, k)]
    /\ UNCHANGED <<data, ver, ctr, now, nopass, subscribed, logVars>>

\* UNWATCH is carried out at once, inside MULTI too.
Unwatch(c) ==
    /\ "WATCH" \in Controls
    /\ Admit(c)
    /\ tx' = [tx EXCEPT ![c].watched = NoTx.watched]
    /\ seen' = [seen EXCEPT ![c] = NothingSeen]
    /\ UNCHANGED <<data, ver, ctr, now, nopass, subscribed, logVars>>

\* ACL SETUSER default >password; AUTH with that password.
AclSetUser(c) ==
    /\ "ACL" \in Controls
    /\ Admit(c)
    /\ ~tx[c].in_multi
    /\ nopass' = FALSE
    /\ UNCHANGED <<data, ver, ctr, now, tx, subscribed, logVars, seen>>

Auth(c) ==
    /\ ~nopass
    /\ ~subscribed[c]
    /\ ~tx[c].in_multi
    /\ authed' = [authed EXCEPT ![c] = TRUE]
    /\ UNCHANGED <<data, ver, ctr, now, tx, nopass, subscribed, logVars, seen>>

\* SUBSCRIBE, which a subscribed connection may repeat, and UNSUBSCRIBE from
\* the last of its channels.
Subscribe(c) ==
    /\ "SUBSCRIBE" \in Controls
    /\ Mark(c)
    /\ ~tx[c].in_multi
    /\ subscribed' = [subscribed EXCEPT ![c] = TRUE]
    /\ UNCHANGED <<data, ver, ctr, now, tx, nopass, logVars, seen>>

Unsubscribe(c) ==
    /\ Mark(c)
    /\ subscribed[c]
    /\ subscribed' = [subscribed EXCEPT ![c] = FALSE]
    /\ UNCHANGED <<data, ver, ctr, now, tx, nopass, logVars, seen>>

\* The connection closes and another client gets its file descriptor.
Reconnect(c) ==
    /\ clear_tx(c)
    /\ authed' = [authed EXCEPT ![c] = FALSE]
    /\ subscribed' = [subscribed EXCEPT ![c] = FALSE]
    /\ UNCHANGED <<data, ver, ctr, now, nopass, logVars>>

Tick ==
    /\ now < MaxTime
    /\ now' = now + 1
    /\ UNCHANGED <<data, ver, ctr, tx, authed, nopass, subscribed, mirror, seen>>
    /\ lapsed' = IF Logging THEN lapsed \cup Expiring ELSE lapsed

Step(c) ==
    \/ \E cmd \in Commands, wr \in WallTimes :
          \/ \E w \in WallTimes : Execute(c, cmd, w, wr)
          \/ \E upper \in Cases : Queue(c, cmd, upper, wr)
          \/ Reject(c, cmd, wr)
    \/ Multi(c)
    \/ ExecAborts(c)
    \/ \E w \in WallTimes : ExecCommits(c, w)
    \/ Discard(c)
    \/ \E k \in Keys : Watch(c, k)
    \/ Unwatch(c)
    \/ AclSetUser(c)
    \/ Auth(c)
    \/ Subscribe(c)
    \/ Unsubscribe(c)
    \/ Reconnect(c)

Next == Tick \/ \E c \in Clients : Step(c)

Spec == Init /\ [][Next]_vars

----------------------------------------------------------------------------
(* Properties.                                                             *)

TypeOK ==
    /\ data \in Data /\ mirror \in Data
    /\ ver \in [Keys -> Nat] /\ ctr \in Nat /\ now \in Nat
    /\ tx \in [Clients -> TxState]
    /\ authed \in [Clients -> BOOLEAN] /\ nopass \in BOOLEAN
    /\ subscribed \in [Clients -> BOOLEAN] /\ lapsed \subseteq Keys
    /\ seen \in [Clients -> Data]

\* Optimistic locking is sound: as long as the version of a watched key is
\* the one WATCH read, which is all that EXEC compares, the key holds what it
\* held at the WATCH, or that has expired since.  Expiry is lazy and touches
\* no version, every other change must.
WatchedKeysUnchanged ==
    \A c \in Clients, k \in Keys :
        tx[c].watched[k] = ver[k] =>
            LET e == find_valid_entry(data, now, k)
            IN  SameEntry(e, seen[c][k]) \/ (e.type = "none" /\ is_expired(seen[c][k], now))

\* Only a string can carry an expiry: every path that gives a key another
\* type starts from a fresh entry, although get_or_create_typed and the
\* in-place assignments keep the expiry of the entry they find.
OnlyStringsExpire ==
    \A k \in Keys : data[k].expiry # NoExpiry => data[k].type = "string"

\* The ids of a stream ascend strictly, whatever mix of automatic, partly
\* automatic and explicit ids was used, with the wall clock stepping back and
\* sequence numbers at INT64_MAX; the binary searches rely on it.
StreamsAscend ==
    \A k \in Keys : data[k].type = "stream" => Ascends(data[k].val)

\* XREAD and XRANGE return exactly the entries whose ids lie in the range that
\* was asked for, in order: the binary searches cut a stream where a scan does.
ReadsFilterStream ==
    \A k \in Keys : \A lo, hi \in ReadIds :
        LET s == StreamOf(data, now, k)
            from == RangeStart(lo)
            to == RangeEnd(hi)
            above == xread(data, now, k, from)
            between == xrange(data, now, k, lo, hi)
        IN  /\ Ascends(above) /\ IdsOf(above) = {x \in IdsOf(s) : Less(from, x)}
            /\ Ascends(between)
            /\ IdsOf(between) = {x \in IdsOf(s) : ~Less(x, from) /\ ~Less(to, x)}

\* A restart rebuilds the keyspace: a command that changes it is logged, and
\* replayed at the start, with every time to live counted anew, it has the
\* effect that it had here.  An entry that expires here and not there is why
\* nothing is said of a key in lapsed; how long an entry has left to live is
\* not said either.  Stated between transactions.
SameContents(e, f) == e.type = f.type /\ e.val = f.val
RebuiltAlike(k) ==
    SameContents(find_valid_entry(mirror, ReplayTime, k), find_valid_entry(data, now, k))
LogRebuildsKeyspace ==
    (\A c \in Clients : ~tx[c].in_multi) => \A k \in Keys \ lapsed : RebuiltAlike(k)

\* src/README.md: the replay of the log rebuilds the state, whether or not an
\* entry has expired since it was logged.
LogRebuildsLapsed == \A k \in Keys : RebuiltAlike(k)

\* EXEC executes the commands that were queued: whatever the state it is sent
\* in, it has the effect of the same commands sent one by one outside MULTI.
ExecRunsQueue ==
    \A c \in Clients, w \in WallTimes :
        LET direct == [i \in DOMAIN tx[c].queued |-> [tx[c].queued[i] EXCEPT !.upper = TRUE]]
        IN  \A k \in Keys : SameEntry(ExecQueue(data, now, w, tx[c].queued).data[k],
                                      ExecQueue(data, now, w, direct).data[k])

============================================================================
