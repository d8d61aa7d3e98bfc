------------------------------ MODULE Startup ------------------------------
(***************************************************************************)
(* What the server finds when it starts: main.cpp replays the append-only  *)
(* file and then loads the RDB file (rdb/rdb_parser.cpp), which another    *)
(* program wrote; Credis itself writes none.                               *)
(*                                                                         *)
(* The RDB file is modelled byte by byte, since the loader is all about    *)
(* its format; the log as the SET commands in it (how it is kept is in     *)
(* Aof, and what other commands leave in it in CommandHandler).  Times are *)
(* in milliseconds, and the two clocks go at the same speed.               *)
(***************************************************************************)
EXTENDS Store
LOCAL INSTANCE SequencesExt

CONSTANTS Images,    \* what the RDB files hold: see Image
          Spelling,  \* the bytes of every key and of every token
          Writes,    \* the SET commands of clients: key, value and TTL
          MaxWrites, \* bound on their number
          Delay,     \* how far the clock goes in a step
          MaxTime    \* bound on the clock

\* A database of an RDB file is a sequence of these; secs tells whether the
\* expiry is stored in seconds.
RdbEntry == [key : Keys, value : Str, expire_ms : Expiries, secs : BOOLEAN]
Image == Seq(Seq(RdbEntry))

ASSUME StartupAssumption ==
    /\ Images \subseteq Image
    /\ \A x \in Keys \cup Tokens : Spelling[x] \in Seq(0..255)
    /\ \A x, y \in Keys \cup Tokens : Spelling[x] = Spelling[y] => x = y
    /\ Writes \subseteq [key : Keys, value : Str, ttl : Nat \cup {NoTtl}]
    /\ MaxWrites \in Nat /\ Delay \in Nat \ {0} /\ MaxTime \in Nat

VARIABLES image,   \* what the RDB file holds
          log,     \* the commands of the append-only file
          data,    \* Store::data_
          now,
          phase,   \* "down"; "started", before the first command; "running"
          since    \* when the server was started

vars == <<image, log, data, now, phase, since>>

----------------------------------------------------------------------------
(* The RDB format, as its writers encode it.                               *)

Bytes(n, k) == [i \in 1..k |-> (n \div 256 ^ (i - 1)) % 256]
LittleEndian(n, k) == IF k <= 4 THEN Bytes(n, k) ELSE Bytes(n, 4) \o [i \in 1..k - 4 |-> 0]
BigEndian(n, k) == Reverse(Bytes(n, k))

EncodeLength(n) ==
    IF n < 64 THEN <<n>>
    ELSE IF n < 16384 THEN BigEndian(64 * 256 + n, 2)
    ELSE <<128>> \o BigEndian(n, 4)
EncodeInt(n) ==
    IF n \in -128..127 THEN <<192>> \o Bytes(n, 1)
    ELSE IF n \in -32768..32767 THEN <<193>> \o Bytes(n, 2)
    ELSE <<194>> \o Bytes(n, 4)
EncodeText(x) == EncodeLength(Len(Spelling[x])) \o Spelling[x]
EncodeValue(v) == IF v \in Tokens THEN EncodeText(v) ELSE EncodeInt(v)

EncodeEntry(e) ==
    (IF e.expire_ms = NoExpiry THEN <<>>
     ELSE IF e.secs THEN <<253>> \o LittleEndian(e.expire_ms \div 1000, 4)
     ELSE <<252>> \o LittleEndian(e.expire_ms, 8))
    \o <<0>> \o EncodeText(e.key) \o EncodeValue(e.value)
Timed(db) == SelectSeq(db, LAMBDA e : e.expire_ms # NoExpiry)
EncodeDb(n, db) ==
    <<254, n, 251, Len(db), Len(Timed(db))>>
    \o FlattenSeq([i \in 1..Len(db) |-> EncodeEntry(db[i])])

\* REDIS0011, an auxiliary field (r: 64), the databases, and a checksum.
EncodeImage(dbs) ==
    <<82, 69, 68, 73, 83, 48, 48, 49, 49>> \o <<250, 1, 114, 192, 64>>
    \o FlattenSeq([i \in 1..Len(dbs) |-> EncodeDb(i - 1, dbs[i])])
    \o <<255, 250, 254, 0, 1, 107, 1, 118, 0>>

----------------------------------------------------------------------------
(* Reader: every operation returns what it read and the position after it. *)

Read(v, p) == [value |-> v, pos |-> p]

read_byte(f, p) == IF p > Len(f) THEN Read(0, p) ELSE Read(f[p], p + 1)

\* The k bytes at p as a number, most or least significant first.
read_be(f, p, k) ==
    LET upto[i \in 0..k] == IF i = 0 THEN 0 ELSE upto[i - 1] * 256 + f[p + i - 1]
    IN  Read(upto[k], p + k)
read_le(f, p, k) ==
    LET upto[i \in 0..k] == IF i = 0 THEN 0 ELSE upto[i - 1] * 256 + f[p + k - i]
    IN  Read(upto[k], p + k)

read_bytes(f, p, n) ==
    LET m == IF p - 1 + n > Len(f) THEN Len(f) - (p - 1) ELSE n
    IN  Read(SubSeq(f, p, p + m - 1), p + m)

\* The form with four bytes skips one byte more.
read_length(f, p) ==
    LET first == read_byte(f, p)
        second == read_byte(f, first.pos)
    IN  CASE first.value \div 64 = 1 -> Read((first.value % 64) * 256 + second.value, second.pos)
          [] first.value \div 64 = 2 -> read_be(f, second.pos, 4)
          [] OTHER -> Read(first.value % 64, first.pos)

\* A string is read as its bytes, or as a number, which is unsigned.
Text(bytes) == [form |-> "bytes", bytes |-> bytes, num |-> 0]
Number(n) == [form |-> "number", bytes |-> <<>>, num |-> n]

read_string(f, p) ==
    LET first == f[p]
        width == 2 ^ (first % 64)
        n == read_le(f, p + 1, width)
        len == read_length(f, p)
        bytes == read_bytes(f, len.pos, len.value)
    IN  IF p > Len(f) THEN Read(Text(<<>>), p)
        ELSE IF first \div 64 # 3 THEN Read(Text(bytes.value), bytes.pos)
        ELSE IF first % 64 \in 0..2 THEN Read(Number(n.value), n.pos)
        ELSE Read(Text(<<>>), p + 1)

----------------------------------------------------------------------------
(* parse_rdb and load_into_store.                                          *)

\* Mutant: seconds are taken for milliseconds.
ReadExpiry_NoScale(f, p) ==
    CASE f[p] = 253 -> read_le(f, p + 1, 4)
      [] f[p] = 252 -> read_le(f, p + 1, 8)
      [] OTHER -> Read(NoExpiry, p)

ReadExpiry(f, p) ==
    CASE f[p] = 253 -> LET s == read_le(f, p + 1, 4) IN Read(s.value * 1000, s.pos)
      [] f[p] = 252 -> read_le(f, p + 1, 8)
      [] OTHER -> Read(NoExpiry, p)

\* One entry; its type byte is read and not looked at.
ReadEntry(f, p) ==
    LET when == ReadExpiry(f, p)
        key == read_string(f, read_byte(f, when.pos).pos)
        text == read_string(f, key.pos)
    IN  Read([key |-> key.value, value |-> text.value, expire_ms |-> when.value], text.pos)

\* The entries from position p on, behind the ones in found, up to the next
\* database, the end or an auxiliary field.
RECURSIVE ReadEntries(_, _, _)
ReadEntries(f, p, found) ==
    IF p > Len(f) \/ f[p] \in {255, 254, 250} THEN Read(found, p)
    ELSE LET e == ReadEntry(f, p) IN ReadEntries(f, e.pos, Append(found, e.value))

\* The selector of a database and the sizes of its tables.
SkipSelector(f, p) ==
    LET q == read_length(f, p).pos
    IN  IF q <= Len(f) /\ f[q] = 251 THEN read_length(f, read_length(f, q + 1).pos).pos ELSE q

RECURSIVE ReadSections(_, _, _)
ReadSections(f, p, found) ==
    IF p > Len(f) THEN found
    ELSE CASE f[p] = 250 -> ReadSections(f, read_string(f, read_string(f, p + 1).pos).pos, found)
           [] f[p] = 254 -> LET db == ReadEntries(f, SkipSelector(f, p + 1), found)
                            IN  ReadSections(f, db.pos, db.value)
           [] f[p] = 255 -> found
           [] OTHER -> ReadSections(f, p + 1, found)

\* emplace keeps the first entry of a key.
FirstOf(entries) ==
    {entries[i] : i \in {j \in 1..Len(entries) : \A h \in 1..j - 1 : entries[h].key # entries[j].key}}

parse_rdb(f) ==
    IF Len(f) < 9 \/ SubSeq(f, 1, 5) # <<82, 69, 68, 73, 83>> THEN {}
    ELSE FirstOf(ReadSections(f, 10, <<>>))

\* The key or the string that was read, if it is a known one.
Known(r) == r.form = "number" \/ \E x \in Keys \cup Tokens : Spelling[x] = r.bytes
Meaning(r) == IF r.form = "number" THEN r.num
              ELSE CHOOSE x \in Keys \cup Tokens : Spelling[x] = r.bytes

Remaining(e) == IF e.expire_ms = NoExpiry THEN NoTtl ELSE e.expire_ms - now

\* load_into_store.  Strings and keys that the model has no name for are left
\* out; only a wrongly read file has them.
load_into_store(d, f) ==
    LET live == {e \in parse_rdb(f) : /\ e.expire_ms = NoExpiry \/ e.expire_ms > now
                                      /\ Known(e.key) /\ Known(e.value)}
        loaded(k) == {e \in live : Meaning(e.key) = k}
    IN  [k \in Keys |-> IF loaded(k) = {} THEN d[k]
                        ELSE LET e == CHOOSE x \in loaded(k) : TRUE
                             IN  set(d, now, k, Meaning(e.value), Remaining(e))[k]]

----------------------------------------------------------------------------
(* The server.                                                             *)

Nothing == [k \in Keys |-> Absent]

\* handler.process(aof_content): the commands are executed once more, now.
replay(cmds) ==
    LET after[i \in 0..Len(cmds)] ==
          IF i = 0 THEN Nothing
          ELSE handle_set(after[i - 1], now, cmds[i].key, cmds[i].value, cmds[i].ttl).data
    IN  after[Len(cmds)]

Init ==
    /\ image \in Images
    /\ log = <<>>
    /\ data = Nothing
    /\ now = 0
    /\ phase = "down"
    /\ since = 0

\* Mutant: the store is filled anew by the RDB file.
Start_Anew ==
    /\ phase = "down"
    /\ data' = load_into_store(Nothing, EncodeImage(image))
    /\ phase' = "started"
    /\ since' = now
    /\ UNCHANGED <<image, log, now>>

\* The part of main that fills the store.
Start ==
    /\ phase = "down"
    /\ data' = load_into_store(replay(log), EncodeImage(image))
    /\ phase' = "started"
    /\ since' = now
    /\ UNCHANGED <<image, log, now>>

\* SET of a client, executed and logged; at is history.
Set(w) ==
    /\ phase # "down"
    /\ Len(log) < MaxWrites
    /\ data' = handle_set(data, now, w.key, w.value, w.ttl).data
    /\ log' = Append(log, [key |-> w.key, value |-> w.value, ttl |-> w.ttl, at |-> now])
    /\ phase' = "running"
    /\ UNCHANGED <<image, now, since>>

Kill ==
    /\ phase # "down"
    /\ phase' = "down"
    /\ data' = Nothing
    /\ UNCHANGED <<image, log, now, since>>

Tick ==
    /\ now + Delay <= MaxTime
    /\ now' = now + Delay
    /\ UNCHANGED <<image, log, data, phase, since>>

Next == Start \/ (\E w \in Writes : Set(w)) \/ Kill \/ Tick

Spec == Init /\ [][Next]_vars

----------------------------------------------------------------------------
(* Properties.                                                             *)

\* The entries of the file that are about key k.
About(k) == {e \in UNION {Range(image[i]) : i \in 1..Len(image)} : e.key = k}

\* The last SET of k in the log.
WritesTo(k) == SelectSeq(log, LAMBDA w : w.key = k)
LastWrite(k) == Last(WritesTo(k))

\* The file is loaded as its writer meant it, whatever bytes its keys and
\* values hold, with times in seconds or in milliseconds: when the server has
\* started, a key that the file gives one value has that value and expires at
\* the instant the file says.  If that has passed, the key is not there, unless
\* the log has it.  It holds for lengths of one and two bytes and integers that
\* are not negative, and fails for five-byte lengths and negative integers.
FileIsLoaded ==
    phase = "started" =>
        \A k \in Keys : \A e \in About(k) : About(k) = {e} =>
            IF e.expire_ms = NoExpiry \/ e.expire_ms > since
            THEN data[k] = StringEntry(e.value, e.expire_ms)
            ELSE WritesTo(k) = <<>> => data[k] = Absent

\* A restart keeps what clients stored: loading the RDB file leaves alone the
\* keys that the replay of the log has filled and the file does not name.
WritesSurvive ==
    phase # "down" =>
        \A k \in Keys : About(k) = {} /\ WritesTo(k) # <<>> /\ LastWrite(k).ttl = NoTtl =>
            data[k] = StringEntry(LastWrite(k).value, NoExpiry)

\* src/README.md: the replay rebuilds the state.  A key holds what was stored
\* in it last, whatever an older RDB file says.
LogWins ==
    phase # "down" =>
        \A k \in Keys : WritesTo(k) # <<>> /\ LastWrite(k).ttl = NoTtl =>
            data[k] = StringEntry(LastWrite(k).value, NoExpiry)

\* src/README.md: the replay rebuilds the state.  A key that was stored with a
\* TTL is gone once the TTL has passed.
TtlSurvives ==
    \A k \in Keys : About(k) = {} /\ WritesTo(k) # <<>> =>
        LET w == LastWrite(k)
        IN  w.ttl # NoTtl /\ now >= w.at + w.ttl => find_valid_entry(data, now, k) = Absent
=============================================================================
