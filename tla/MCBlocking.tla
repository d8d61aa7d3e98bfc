---------------------------- MODULE MCBlocking ----------------------------
(* Command arguments for model checking Blocking.                         *)
EXTENDS Blocking

CONSTANTS v1, v2

One == {<<v1>>}
OneOrTwo == {<<v1>>, <<v1, v2>>}

\* Ids of two timestamps, partly automatic, refused and explicit.
NewIds == {[form |-> "autoseq", ts |-> 1], [form |-> "bad"],
           [form |-> "explicit", ts |-> 0, seq |-> 2], [form |-> "explicit", ts |-> 2, seq |-> 0]}
AutoSeq == {[form |-> "autoseq", ts |-> 1]}

FullIds == {LastId, [form |-> "explicit", ts |-> 1, seq |-> 0]}
BareIds == {[form |-> "bare", ts |-> 1]}
AnyMillis == {0, 1, -1}
JustLast == {LastId}
============================================================================
