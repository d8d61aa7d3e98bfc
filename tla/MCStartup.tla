----------------------------- MODULE MCStartup -----------------------------
(* RDB files and commands for model checking Startup.                      *)
EXTENDS Startup

CONSTANTS k1, k2, v1, v2, v3

\* The second key is spelled with opcodes of the format; the lengths of the
\* three strings take one byte, two and five.
MCSpelling ==
    [x \in {k1, k2, v1, v2, v3} |->
        CASE x = k1 -> <<107>>
          [] x = k2 -> <<250, 255>>
          [] x = v1 -> <<118>>
          [] x = v2 -> [i \in 1..300 |-> 254]
          [] x = v3 -> [i \in 1..16384 |-> 97]]

EntriesOf(vals, k) ==
    {[key |-> k, value |-> v, expire_ms |-> NoExpiry, secs |-> FALSE] : v \in vals}
      \cup [key : {k}, value : {v1}, expire_ms : {1000}, secs : BOOLEAN]

\* No file at all stands apart: a file without databases is read like none.
ImagesOf(vals) ==
    LET one == EntriesOf(vals, k1)  two == EntriesOf(vals, k2)
    IN  {<<>>}
          \cup {<< <<a>> >> : a \in one \cup two}
          \cup {<< <<a, b>> >> : a \in one, b \in two}
          \cup {<< <<b>>, <<a>> >> : a \in one, b \in two}

UsualImages == ImagesOf({v1, v2, 7, 300, 70000})
OddImages == ImagesOf({v3, -5})

SomeWrites == [key : {k1}, value : {v2}, ttl : {NoTtl, 500}]
=============================================================================
