------------------------------ MODULE Rewrite ------------------------------
(***************************************************************************)
(* What the child of an AOF rewrite writes (rewrite_child_main of          *)
(* aof/aof_manager.cpp): the commands that are to rebuild the keyspace it  *)
(* was forked with.  The file around them is module Aof.                   *)
(***************************************************************************)
EXTENDS CommandHandler

\* An entry that a command can rebuild.
HasValue(e) == e.type = "string" \/ (e.type # "none" /\ DOMAIN e.val # {})

Replayed(cmd) == [cmd |-> cmd, upper |-> TRUE]

\* for_each_valid_entry skips an entry that is expired at time t; the clock
\* is read again, as later, when the time it has left is written.
Remaining(e, later) == IF e.expiry > later THEN e.expiry - later ELSE NoTtl

\* Mutant: the list is pushed from the other end.
ListCommands_Left(k, e) ==
    IF e.val = <<>> THEN <<>> ELSE <<Replayed([name |-> "LPUSH", key |-> k, values |-> e.val])>>

\* One command for a list, a string or a sorted set, one for each entry of a
\* stream, and none for a list, a set or a stream that is empty.
ListCommands(k, e) ==
    IF e.val = <<>> THEN <<>> ELSE <<Replayed([name |-> "RPUSH", key |-> k, values |-> e.val])>>

StringCommands(k, e, later) ==
    <<Replayed([name |-> "SET", key |-> k, value |-> e.val, ttl |-> Remaining(e, later)])>>

StreamCommands(k, e) ==
    [i \in DOMAIN e.val |->
        Replayed([name |-> "XADD", key |-> k,
                  id |-> [form |-> "explicit", ts |-> e.val[i][1], seq |-> e.val[i][2]]])]

ZsetCommands(k, e) ==
    LET ms == zsorted(e.val)
    IN  IF ms = <<>> THEN <<>>
        ELSE <<Replayed([name |-> "ZADD", key |-> k, scores |-> [i \in DOMAIN ms |-> e.val[ms[i]]],
                         members |-> ms])>>

rewrite_child_main(d, t, later, k) ==
    LET e == find_valid_entry(d, t, k)
    IN  CASE e.type = "none"   -> <<>>
          [] e.type = "string" -> StringCommands(k, e, later)
          [] e.type = "list"   -> ListCommands(k, e)
          [] e.type = "stream" -> StreamCommands(k, e)
          [] e.type = "zset"   -> ZsetCommands(k, e)

\* The entry a replay at time t of what was written leaves.
Rebuilt(d, t, later, k) ==
    ExecQueue([x \in Keys |-> Absent], t, 0, rewrite_child_main(d, t, later, k)).data[k]

\* The snapshot rebuilds the keyspace: replayed at once, it leaves every live
\* entry as it was, its expiry included, and nothing else; only keys whose
\* list, stream or set is empty disappear.
SnapshotRebuilds ==
    \A k \in Keys :
        LET e == find_valid_entry(data, now, k)
        IN  SameEntry(Rebuilt(data, now, now, k), IF HasValue(e) THEN e ELSE Absent)

\* The snapshot is that of the keyspace at the fork, although the clock goes
\* on while it is written: a key that was to expire is not made permanent.
SnapshotKeepsExpiry ==
    \A k \in Keys :
        find_valid_entry(data, now, k).expiry # NoExpiry =>
            Rebuilt(data, now, now + 1, k).expiry # NoExpiry
=============================================================================
