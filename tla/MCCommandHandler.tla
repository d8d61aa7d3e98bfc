-------------------------- MODULE MCCommandHandler --------------------------
(* Command sets for model checking CommandHandler.                         *)
EXTENDS Rewrite

CONSTANTS k1, k2, v1, v2

\* One key of every type the commands can give it, with and without a TTL.
WatchCommands ==
    {[name |-> "SET", key |-> k1, value |-> v1, ttl |-> NoTtl],
     [name |-> "SET", key |-> k1, value |-> 1, ttl |-> 1],
     [name |-> "GET", key |-> k1],
     [name |-> "INCR", key |-> k1],
     [name |-> "LPOP", key |-> k1, count |-> NoCount],
     [name |-> "RPUSH", key |-> k1, values |-> <<v1>>],
     [name |-> "ZADD", key |-> k1, scores |-> <<1, BadScore>>, members |-> <<1, 2>>]}

\* Automatic, partly automatic and explicit ids, at INT64_MAX too, on a key
\* that may hold a string until it expires.
XaddCommands ==
    {[name |-> "SET", key |-> k1, value |-> v1, ttl |-> 1]}
      \cup {[name |-> "XADD", key |-> k1, id |-> id] :
              id \in {[form |-> "auto"], [form |-> "bad"], [form |-> "autoseq", ts |-> 0],
                      [form |-> "autoseq", ts |-> 1]}
                       \cup [form : {"explicit"}, ts : {0, 1, 2}, seq : {0, 2}]}

\* Every data command.  Only k1 holds strings with a TTL.
LogCommands ==
    WatchCommands \cup
    {[name |-> "MSET", keys |-> <<k2, k1, k2>>, values |-> <<v1, v2, 3>>],
     [name |-> "LPUSH", key |-> k2, values |-> <<v1, v2>>],
     [name |-> "RPOP", key |-> k2, count |-> 2],
     [name |-> "LPOP", key |-> k2, count |-> BadCount],
     [name |-> "RPOP", key |-> k2, count |-> 0],
     [name |-> "LRANGE", key |-> k1, start |-> 0, stop |-> -1],
     [name |-> "XADD", key |-> k2, id |-> [form |-> "auto"]],
     [name |-> "XADD", key |-> k2, id |-> [form |-> "explicit", ts |-> 0, seq |-> 0]],
     [name |-> "XREAD", key |-> k1, id |-> [form |-> "bare", ts |-> 0]],
     [name |-> "XRANGE", key |-> k1, lo |-> [form |-> "min"], hi |-> [form |-> "max"]],
     [name |-> "ZADD", key |-> k2, scores |-> <<BadScore>>, members |-> <<1>>],
     [name |-> "ZREM", key |-> k1, member |-> 1],
     [name |-> "GEOADD", key |-> k2, score |-> 2, member |-> 2],
     [name |-> "GEOADD", key |-> k2, score |-> BadScore, member |-> 2],
     [name |-> "ZRANK", key |-> k1, member |-> 1],
     [name |-> "ZSCORE", key |-> k1, member |-> 1],
     [name |-> "ZRANGE", key |-> k1, start |-> 0, stop |-> -1]}
      \cup [name : {"LLEN", "TYPE", "ZCARD", "KEYS"}, key : {k1}]

\* One write, to see what becomes of its log record.
OneWrite == {[name |-> "SET", key |-> k1, value |-> v1, ttl |-> NoTtl]}

\* A string that expires.
ExpiringWrite == {[name |-> "SET", key |-> k1, value |-> v1, ttl |-> 1]}

\* Stream entries with ids the server chooses.
AutoIdCommands == {[name |-> "XADD", key |-> k1, id |-> [form |-> "auto"]]}
============================================================================
