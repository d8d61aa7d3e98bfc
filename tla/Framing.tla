------------------------------ MODULE Framing ------------------------------
(***************************************************************************)
(* From bytes to commands: the parser of protocol/resp_codec.cpp, the      *)
(* input buffer of connection/connection.cpp, the loop of process_with_fd  *)
(* (handler/command_handler.cpp), and the buffer of a replica's link to    *)
(* its master (replica/replica_connector.cpp), which uses the same parser. *)
(*                                                                         *)
(* A peer sends the commands of sent, one after the other; a read returns  *)
(* any number of the bytes that are on their way and fit.  The two ends of *)
(* a line, \r and \n, are bytes of their own and may occur in arguments.   *)
(***************************************************************************)
EXTENDS Integers, Sequences, SequencesExt

CONSTANTS Programs,    \* the sequences of commands that are sent
          Receivers,   \* who reads: a "connection" or a "connector"
          InitialSize, \* Connection::kInitialBufferSize
          MaxSize      \* Connection::kMaxBufferSize

Digits == <<"0", "1", "2", "3", "4", "5", "6", "7", "8", "9">>
IsDigit(b) == b \in Range(Digits)
ValueOf(b) == (CHOOSE i \in 1..10 : Digits[i] = b) - 1
CRLF == <<"CR", "LF">>

\* A command is a non-empty sequence of arguments, and these are sequences of
\* bytes; one named BLOCK may suspend the client.
ASSUME FramingAssumption ==
    /\ \A p \in Programs : \A i \in 1..Len(p) : p[i] \in Seq(Seq(STRING)) \ {<<>>}
    /\ Receivers \subseteq {"connection", "connector"}
    /\ InitialSize \in Nat \ {0} /\ MaxSize \in Nat /\ InitialSize <= MaxSize

VARIABLES receiver,
          sent,      \* the commands of the peer
          wire,      \* the bytes on their way
          buffer,    \* Connection::buffer_ up to data_len_, or pending_buffer_
          read_pos,  \* Connection::read_pos_
          capacity,  \* Connection::buffer_.size()
          status,    \* "idle"; "waiting", the last command waits; "closed"; or
                     \* "crashed", the server has ended
          executed,  \* the commands run, history
          raw,       \* their bytes as handed to the log and the replicas, history
          torn       \* whether a command was run before its last byte, history

vars == <<receiver, sent, wire, buffer, read_pos, capacity, status, executed, raw, torn>>

----------------------------------------------------------------------------
(* The encoder and the parser.                                             *)

\* The decimal digits of n; lengths below 100 are enough here.
Decimal(n) == IF n < 10 THEN <<Digits[n + 1]>> ELSE <<Digits[(n \div 10) + 1], Digits[(n % 10) + 1]>>

encode_bulk(arg) == <<"$">> \o Decimal(Len(arg)) \o CRLF \o arg \o CRLF
encode_array(args) ==
    <<"*">> \o Decimal(Len(args)) \o CRLF \o FlattenSeq([i \in 1..Len(args) |-> encode_bulk(args[i])])

Invalid == [ok |-> FALSE]

\* A number from position p of s, and the position behind its line end.
EndOfDigits(s, p) == CHOOSE q \in p..Len(s) + 1 :
    /\ \A i \in p..q - 1 : IsDigit(s[i])
    /\ q = Len(s) + 1 \/ ~IsDigit(s[q])
Number(s, p, q) ==
    LET upto[i \in p - 1..q - 1] == IF i = p - 1 THEN 0 ELSE 10 * upto[i - 1] + ValueOf(s[i])
    IN  upto[q - 1]
parse_int_until_crlf(s, p) ==
    IF p > Len(s) THEN Invalid
    ELSE LET neg == s[p] = "-"
             first == IF neg THEN p + 1 ELSE p
             q == EndOfDigits(s, first)
         IN  IF q + 1 > Len(s) \/ SubSeq(s, q, q + 1) # CRLF THEN Invalid
             ELSE [ok |-> TRUE, next |-> q + 2,
                   val |-> IF neg THEN -Number(s, first, q) ELSE Number(s, first, q)]

\* The bytes of an argument must be there; its line end need not.
BulkFits(s, p, len) == p - 1 + len <= Len(s)

\* Mutant: the line end is left for the next argument.
AfterBulk_NoLine(p, len) == p + len

AfterBulk(p, len) == p + len + 2

\* n more arguments from position p of s, behind the ones in args.
RECURSIVE ParseBulks(_, _, _, _)
ParseBulks(s, n, p, args) ==
    IF n = 0 THEN [ok |-> TRUE, args |-> args, consumed |-> p - 1]
    ELSE IF p > Len(s) THEN Invalid
    ELSE LET len == parse_int_until_crlf(s, p + 1) IN
         IF s[p] # "$" \/ ~len.ok THEN Invalid
         ELSE IF len.val < 0 \/ ~BulkFits(s, len.next, len.val) THEN Invalid
         ELSE ParseBulks(s, n - 1, AfterBulk(len.next, len.val),
                         Append(args, SubSeq(s, len.next, len.next + len.val - 1)))

parse_one(s) ==
    IF s = <<>> THEN Invalid
    ELSE LET count == parse_int_until_crlf(s, 2) IN
         IF s[1] # "*" \/ ~count.ok THEN Invalid
         ELSE IF count.val < 0 THEN Invalid
         ELSE ParseBulks(s, count.val, count.next, <<>>)

----------------------------------------------------------------------------
(* The loop over the commands of a read.                                   *)

Skip(s, n) == SubSeq(s, n + 1, Len(s))
\* What there is of the n bytes behind the first p, as substr returns it.
Slice(s, p, n) == SubSeq(s, p + 1, Min({p + n, Len(s)}))
EncodeAll(cmds) == FlattenSeq([i \in 1..Len(cmds) |-> encode_array(cmds[i])])

\* Blocking commands (BLPOP, XREAD BLOCK, WAIT...) end the loop of a client.
Waits(args) == receiver = "connection" /\ args[1] = <<"B">>

\* Mutant: a command that waits is not counted as consumed.
Consumed_Rerun(st, r) == IF Waits(r.args) THEN st.pos ELSE st.pos + r.consumed

\* total_consumed.
Consumed(st, r) == st.pos + r.consumed

\* Mutant: the loop ends after a command.
LeavesLoop_Always(args) == TRUE

LeavesLoop(args) == Waits(args)

\* The next command of s, behind its first st.pos bytes.
RunOne(s, st) ==
    LET r == parse_one(Skip(s, st.pos)) IN
    IF ~r.ok THEN [st EXCEPT !.stop = TRUE]
    ELSE [pos |-> Consumed(st, r), done |-> Append(st.done, r.args),
          raw |-> st.raw \o Slice(s, st.pos, r.consumed),
          stop |-> LeavesLoop(r.args), waits |-> Waits(r.args),
          torn |-> st.pos + r.consumed > Len(s)]

RECURSIVE RunFrom(_, _)
RunFrom(s, st) == IF st.stop \/ st.pos >= Len(s) THEN st ELSE RunFrom(s, RunOne(s, st))

\* The loop of process_with_fd; that of process_buffer_impl is the same.
RunAll(s) ==
    RunFrom(s, [pos |-> 0, done |-> <<>>, raw |-> <<>>,
                stop |-> FALSE, waits |-> FALSE, torn |-> FALSE])

\* The commands of a read have been run, as all records.
Process(all) ==
    /\ executed' = executed \o all.done
    /\ raw' = raw \o all.raw
    /\ status' = IF all.waits THEN "waiting" ELSE "idle"
    /\ torn' = (torn \/ all.torn)

----------------------------------------------------------------------------
(* The receivers.                                                          *)

Init ==
    /\ receiver \in Receivers
    /\ sent \in Programs
    /\ wire = EncodeAll(sent)
    /\ buffer = <<>> /\ read_pos = 0 /\ capacity = InitialSize
    /\ status = "idle"
    /\ executed = <<>> /\ raw = <<>> /\ torn = FALSE

\* Something has arrived; a client that waits is read from like any other.
Readable(who) == receiver = who /\ status \in {"idle", "waiting"} /\ wire # <<>>

\* Mutant: the buffer has no greatest size.
Grown_Unbounded(len) == IF len = capacity THEN 2 * capacity ELSE capacity

\* Mutant: the buffer never grows.
Grown_Never(len) == capacity

\* The size of the buffer for a read behind len bytes.
Grown(len) == IF len = capacity /\ capacity < MaxSize THEN 2 * capacity ELSE capacity

\* compact subtracts unsigned numbers: with read_pos behind the data it moves
\* almost 2^64 bytes, and the server ends.
CompactFails ==
    /\ Readable("connection")
    /\ read_pos > Len(buffer)
    /\ status' = "crashed"
    /\ UNCHANGED <<receiver, sent, wire, buffer, read_pos, capacity, executed, raw, torn>>

\* What compact leaves in the buffer.
Kept == Skip(buffer, read_pos)

\* A read into a full buffer returns 0, as at the end of the stream: the
\* connection is removed.
NoRoom ==
    /\ Readable("connection")
    /\ read_pos <= Len(buffer)
    /\ Grown(Len(Kept)) = Len(Kept)
    /\ status' = "closed"
    /\ UNCHANGED <<receiver, sent, wire, buffer, read_pos, capacity, executed, raw, torn>>

\* handle_read, process_with_fd and consume.
HandleRead ==
    /\ Readable("connection")
    /\ read_pos <= Len(buffer)
    /\ capacity' = Grown(Len(Kept))
    /\ \E n \in 1..Min({capacity' - Len(Kept), Len(wire)}) :
         LET bytes == Kept \o SubSeq(wire, 1, n)
             all == RunAll(bytes)
         IN  /\ wire' = Skip(wire, n)
             /\ buffer' = bytes /\ read_pos' = all.pos
             /\ Process(all)
    /\ UNCHANGED <<receiver, sent>>

\* process_propagated_commands; string::erase stops at the end of the buffer.
ProcessPropagated ==
    /\ Readable("connector")
    /\ \E n \in 1..Min({InitialSize, Len(wire)}) :
         LET bytes == buffer \o SubSeq(wire, 1, n)
             all == RunAll(bytes)
         IN  /\ wire' = Skip(wire, n)
             /\ buffer' = Skip(bytes, Min({all.pos, Len(bytes)}))
             /\ Process(all)
    /\ UNCHANGED <<receiver, sent, read_pos, capacity>>

Next == HandleRead \/ NoRoom \/ CompactFails \/ ProcessPropagated

Spec == Init /\ [][Next]_vars

----------------------------------------------------------------------------
(* Properties.                                                             *)

\* The type invariant.  A connection's data fits its buffer, and the buffer
\* stays within kMaxBufferSize.
TypeOK ==
    /\ receiver \in Receivers /\ sent \in Programs
    /\ status \in {"idle", "waiting", "closed", "crashed"}
    /\ read_pos \in 0..Len(buffer) + 2
    /\ capacity \in InitialSize..MaxSize
    /\ receiver = "connection" => Len(buffer) <= capacity
    /\ torn \in BOOLEAN

\* However the bytes are cut into reads, and whatever bytes the arguments
\* hold, the commands run are the first of those sent, in order and each of
\* them once: parse_one_into never starts inside a command, and compact and
\* consume lose and repeat nothing.
FramesIntact == IsPrefix(executed, sent)

\* The bytes that process_with_fd hands to the log and to the replicas are
\* those of the commands it ran, unless a command was run before its end.
RawIsWhole == ~torn => raw = EncodeAll(executed)

\* A connection is only closed on a command that kMaxBufferSize cannot hold.
OnlyTooLongCloses ==
    status = "closed" => /\ Len(executed) < Len(sent)
                         /\ Len(encode_array(sent[Len(executed) + 1])) > MaxSize

\* Once all that was sent has been read, all of it has been run: no command
\* is forgotten in the buffer.  Exceptions: a command was run before its end,
\* or the loop ended at a command that waits.
Drained == status = "idle" /\ wire = <<>> /\ ~torn => executed = sent

\* src/README.md: parse_one parses one complete command.  What is consumed was
\* there: read_pos_ stays within data_len_.
NeverReadsPast == read_pos <= Len(buffer)

\* src/README.md: several commands in one packet are run one after the other.
\* None is left in the buffer when all that was sent has been read.
PipelineDrained == status = "waiting" /\ wire = <<>> => executed = sent

\* src/README.md: replication with eventual consistency.  A replica that has
\* read all that its master sent has run all of it.
ReplicaRunsAll == receiver = "connector" /\ wire = <<>> => executed = sent
=============================================================================
