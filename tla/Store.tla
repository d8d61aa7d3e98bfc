------------------------------- MODULE Store -------------------------------
(***************************************************************************)
(* The keyspace (store/store.hpp, store/store.cpp) and the command         *)
(* handlers that read and write it (handler/string_commands.cpp,           *)
(* list_commands.cpp, stream_commands.cpp, zset_commands.cpp and GEOADD of *)
(* geo_commands.cpp), as operators without variables.                      *)
(*                                                                         *)
(* The keyspace is a total function d from Keys to entries; an absent key  *)
(* holds Absent.  Every handler is an operator from a keyspace and the two *)
(* clocks (t, the steady clock that expires keys, and w, the wall clock    *)
(* that names stream entries) to an effect: the new keyspace, the sequence *)
(* of keys passed to touch_key, in order, and the reply.                   *)
(*                                                                         *)
(* Data abstraction: a string is an integer (its decimal rendering) or one *)
(* of Tokens, which no parse_int accepts; a stream entry is its id, since  *)
(* its fields are never inspected; a sorted set is the function from its   *)
(* members to their scores, and members are numbers standing for names in  *)
(* byte order, so that std::set's ordering is that of <<score, member>>.   *)
(***************************************************************************)
EXTENDS Integers, Sequences, FiniteSets

CONSTANTS Keys,     \* key names
          Tokens,   \* strings that are not integers
          Members,  \* sorted set member names, numbered in byte order
          MaxInt,   \* INT64_MAX
          NoCount,  \* LPOP or RPOP without a count argument
          BadCount, \* a count argument that is no integer
          BadScore  \* a score or coordinate pair that is refused

ASSUME StoreAssumption ==
    /\ MaxInt \in Nat \ {0}
    /\ Members \subseteq Int
    /\ Tokens \cap Int = {}
    /\ NoCount \notin Int /\ BadCount \notin Int /\ BadScore \notin Int

Int64 == (-MaxInt - 1) .. MaxInt

Str == Tokens \cup Int64

StreamIds == Int64 \X Int64

NoExpiry == -1
NoTtl == -1

Absent == [type |-> "none", val |-> <<>>, expiry |-> NoExpiry]

StringEntry(v, x) == [type |-> "string", val |-> v, expiry |-> x]

\* Entries; an unset expiry is NoExpiry.
Expiries == Nat \cup {NoExpiry}
ZsetVals == UNION {[S -> Int64] : S \in SUBSET Members}
Entry ==
    {Absent}
      \cup [type : {"string"}, val : Str, expiry : Expiries]
      \cup [type : {"list"}, val : Seq(Str), expiry : Expiries]
      \cup [type : {"stream"}, val : Seq(StreamIds), expiry : Expiries]
      \cup [type : {"zset"}, val : ZsetVals, expiry : Expiries]

Data == [Keys -> Entry]

\* Equality of entries, comparing values only when they have the same type.
SameEntry(e, f) == e.type = f.type /\ e.expiry = f.expiry /\ e.val = f.val

\* Replies, reduced to their RESP type and payload.
Ok == <<"ok">>
Nil == <<"nil">>
IntReply(n) == <<"int", n>>
Bulk(v) == <<"bulk", v>>
Array(s) == <<"array", s>>
WrongType == <<"err", "WRONGTYPE">>
Err == <<"err", "ERR">>

Effect(d, ts, r) == [data |-> d, touched |-> ts, reply |-> r]
Unchanged(d, r) == Effect(d, <<>>, r)

----------------------------------------------------------------------------
(* Expiry and lookup.                                                      *)

is_expired(e, t) == e.expiry # NoExpiry /\ t >= e.expiry

\* What find_valid_entry returns, and the keyspace it leaves behind: an
\* expired entry is erased, without touching the key's version.
find_valid_entry(d, t, k) == IF is_expired(d[k], t) THEN Absent ELSE d[k]
Evict(d, t, k) == [d EXCEPT ![k] = find_valid_entry(d, t, k)]

\* The guard of MSET and GEOADD; its comparison with the clock is strict,
\* unlike is_expired's.
key_is_absent_or_holds(d, t, k, type) ==
    \/ d[k].type \in {"none", type}
    \/ d[k].expiry # NoExpiry /\ t > d[k].expiry

\* A typed entry of key k: the live one, or a fresh empty one.  A live value
\* of another type is replaced and keeps its expiry.
get_or_create_typed(d, t, k, type) ==
    LET e == find_valid_entry(d, t, k)
    IN  IF e.type = type THEN e ELSE [type |-> type, val |-> <<>>, expiry |-> e.expiry]

\* Mutant: the type of a live value is not checked.
holds_or_absent_Any(d, t, k, type) == TRUE

holds_or_absent(d, t, k, type) == find_valid_entry(d, t, k).type \in {"none", type}

----------------------------------------------------------------------------
(* Versions: touch_key gives the key a number never used before.           *)

\* The versions and the counter after touching the keys of sequence ts.
Positions(ts, k) == {i \in 1..Len(ts) : ts[i] = k}
MaxPosition(ts, k) == CHOOSE i \in Positions(ts, k) : \A j \in Positions(ts, k) : j <= i
touch_keys(ver, ctr, ts) ==
    [k \in Keys |-> IF Positions(ts, k) = {} THEN ver[k] ELSE ctr + MaxPosition(ts, k)]

----------------------------------------------------------------------------
(* Strings.                                                                *)

ExpiryOf(t, ttl) == IF ttl = NoTtl THEN NoExpiry ELSE t + ttl

\* Store::set replaces whatever the key holds (the caller has checked it).
set(d, t, k, v, ttl) == [d EXCEPT ![k] = StringEntry(v, ExpiryOf(t, ttl))]

handle_set(d, t, k, v, ttl) ==
    IF holds_or_absent(d, t, k, "string")
    THEN Effect(set(d, t, k, v, ttl), <<k>>, Ok)
    ELSE Unchanged(d, WrongType)

handle_get(d, t, k) ==
    LET e == find_valid_entry(d, t, k)
    IN  Unchanged(Evict(d, t, k), IF e.type = "string" THEN Bulk(e.val) ELSE Nil)

\* Mutant: an increment in place does not touch the key.
handle_incr_NoTouch(d, t, k) ==
    LET e == find_valid_entry(d, t, k)
    IN  IF e.type = "none" THEN Effect([d EXCEPT ![k] = StringEntry(1, NoExpiry)], <<k>>, IntReply(1))
        ELSE IF e.type # "string" \/ e.val \in Tokens \cup {MaxInt} THEN Unchanged(d, Err)
        ELSE Unchanged([d EXCEPT ![k].val = e.val + 1], IntReply(e.val + 1))

\* A string that is no integer, or is INT64_MAX, is refused after the key has
\* been touched.
handle_incr(d, t, k) ==
    LET e == find_valid_entry(d, t, k)
    IN  IF e.type = "none" THEN Effect([d EXCEPT ![k] = StringEntry(1, NoExpiry)], <<k>>, IntReply(1))
        ELSE IF e.type # "string" THEN Unchanged(d, Err)
        ELSE IF e.val \in Tokens \/ e.val = MaxInt THEN Effect(d, <<k>>, Err)
        ELSE Effect([d EXCEPT ![k].val = e.val + 1], <<k>>, IntReply(e.val + 1))

\* All keys are checked before the first is set; of two settings of one key
\* the later one wins.
handle_mset(d, t, ks, vs) ==
    IF \A i \in DOMAIN ks : key_is_absent_or_holds(d, t, ks[i], "string")
    THEN Effect([k \in Keys |-> IF Positions(ks, k) = {} THEN d[k]
                                ELSE StringEntry(vs[MaxPosition(ks, k)], NoExpiry)], ks, Ok)
    ELSE Unchanged(d, WrongType)

----------------------------------------------------------------------------
(* Lists.  A list that becomes empty stays in the keyspace.                *)

Repeat(k, n) == [i \in 1..n |-> k]
Backwards(s) == [i \in 1..Len(s) |-> s[Len(s) - i + 1]]

ListPut(d, t, k, s) ==
    [d EXCEPT ![k] = [get_or_create_typed(d, t, k, "list") EXCEPT !.val = s]]
ListOf(d, t, k) == get_or_create_typed(d, t, k, "list").val

rpush(d, t, k, v) == ListPut(d, t, k, Append(ListOf(d, t, k), v))
lpush(d, t, k, v) == ListPut(d, t, k, <<v>> \o ListOf(d, t, k))

\* RPUSH and LPUSH with no client blocked on the key: the first value is
\* pushed by the type-checking variant, the others one by one.
handle_rpush(d, t, k, vs) ==
    IF holds_or_absent(d, t, k, "list")
    THEN LET s == ListOf(d, t, k) \o vs
         IN  Effect(ListPut(d, t, k, s), Repeat(k, Len(vs)), IntReply(Len(s)))
    ELSE Unchanged(d, WrongType)

handle_lpush(d, t, k, vs) ==
    IF holds_or_absent(d, t, k, "list")
    THEN LET s == Backwards(vs) \o ListOf(d, t, k)
         IN  Effect(ListPut(d, t, k, s), Repeat(k, Len(vs)), IntReply(Len(s)))
    ELSE Unchanged(d, WrongType)

\* LPOP and RPOP touch the key even when nothing is removed.  The elements
\* taken, and the keyspace without them.
HasList(d, t, k) == find_valid_entry(d, t, k).type = "list"
MinOf(a, b) == IF a <= b THEN a ELSE b
PopCount(d, t, k, n) == IF HasList(d, t, k) THEN MinOf(n, Len(d[k].val)) ELSE 0
lpop_taken(d, t, k, n) == IF HasList(d, t, k) THEN SubSeq(d[k].val, 1, PopCount(d, t, k, n)) ELSE <<>>
rpop_taken(d, t, k, n) ==
    IF HasList(d, t, k)
    THEN Backwards(SubSeq(d[k].val, Len(d[k].val) - PopCount(d, t, k, n) + 1, Len(d[k].val)))
    ELSE <<>>
lpop(d, t, k, n) ==
    IF HasList(d, t, k)
    THEN [d EXCEPT ![k].val = SubSeq(d[k].val, PopCount(d, t, k, n) + 1, Len(d[k].val))]
    ELSE Evict(d, t, k)
rpop(d, t, k, n) ==
    IF HasList(d, t, k)
    THEN [d EXCEPT ![k].val = SubSeq(d[k].val, 1, Len(d[k].val) - PopCount(d, t, k, n))]
    ELSE Evict(d, t, k)

FirstOrNil(s) == IF s = <<>> THEN Nil ELSE Bulk(s[1])

\* The count argument is absent (NoCount), an integer, or not one (BadCount).
handle_lpop(d, t, k, count) ==
    IF count = NoCount THEN Effect(lpop(d, t, k, 1), <<k>>, FirstOrNil(lpop_taken(d, t, k, 1)))
    ELSE IF count = BadCount THEN Unchanged(d, Err)
    ELSE IF count <= 0 THEN Unchanged(d, Array(<<>>))
    ELSE Effect(lpop(d, t, k, count), <<k>>, Array(lpop_taken(d, t, k, count)))

handle_rpop(d, t, k, count) ==
    IF count = NoCount THEN Effect(rpop(d, t, k, 1), <<k>>, FirstOrNil(rpop_taken(d, t, k, 1)))
    ELSE IF count = BadCount THEN Unchanged(d, Err)
    ELSE IF count <= 0 THEN Unchanged(d, Array(<<>>))
    ELSE Effect(rpop(d, t, k, count), <<k>>, Array(rpop_taken(d, t, k, count)))

\* The slice both LRANGE and ZRANGE return of a sequence.
RangeSlice(s, start, stop) ==
    LET len == Len(s)
        Norm(i) == IF i >= 0 THEN i ELSE IF len + i < 0 THEN 0 ELSE len + i
        a == Norm(start)
        z == Norm(stop)
    IN  IF a >= len \/ a > z THEN <<>> ELSE SubSeq(s, a + 1, MinOf(z, len - 1) + 1)

handle_lrange(d, t, k, start, stop) ==
    Unchanged(Evict(d, t, k),
              Array(IF HasList(d, t, k) THEN RangeSlice(d[k].val, start, stop) ELSE <<>>))

----------------------------------------------------------------------------
(* Streams.                                                                *)

ZeroId == <<0, 0>>
MaxId == <<MaxInt, MaxInt>>

\* StreamId::operator<=>.
Less(a, b) == a[1] < b[1] \/ (a[1] = b[1] /\ a[2] < b[2])

\* The ids of a sequence of entries, and that they ascend strictly.
IdsOf(s) == {s[i] : i \in 1..Len(s)}
Ascends(s) == \A i, j \in 1..Len(s) : i < j => Less(s[i], s[j])

\* Mutant: the sequence number has no width.
Next64_Unbounded(n) == n + 1

\* Signed 64-bit increment as compiled: past INT64_MAX it wraps.
Next64(n) == IF n = MaxInt THEN -MaxInt - 1 ELSE n + 1

StreamPut(d, t, k, s) ==
    [d EXCEPT ![k] = [get_or_create_typed(d, t, k, "stream") EXCEPT !.val = s]]
StreamOf(d, t, k) ==
    LET e == find_valid_entry(d, t, k) IN IF e.type = "stream" THEN e.val ELSE <<>>

\* The sequence number the server chooses for timestamp ts.
AutoSequence(s, ts, first) ==
    IF s # <<>> /\ s[Len(s)][1] = ts THEN Next64(s[Len(s)][2]) ELSE first

\* The forms of an id argument.  A timestamp has no sign, since StreamId::parse
\* cuts the text at its first dash.
XaddIds == [form : {"auto", "bad"}] \cup [form : {"autoseq"}, ts : 0..MaxInt]
             \cup [form : {"explicit"}, ts : 0..MaxInt, seq : Int64]
ReadIds == [form : {"bad", "min", "max"}] \cup [form : {"bare"}, ts : 0..MaxInt]
             \cup [form : {"explicit"}, ts : 0..MaxInt, seq : Int64]

\* The id XADD uses.  An id argument is [form |-> "auto"] for *, "autoseq"
\* for <ts>-*, "explicit" for <ts>-<seq>, or "bad" for one that parses as
\* none of them.
XaddId(s, w, id) ==
    CASE id.form = "auto" -> <<w, AutoSequence(s, w, 0)>>
      [] id.form = "autoseq" -> <<id.ts, AutoSequence(s, id.ts, IF id.ts = 0 THEN 1 ELSE 0)>>
      [] id.form = "explicit" -> <<id.ts, id.seq>>
      [] OTHER -> ZeroId

\* Mutant: an id equal to the last one is accepted.
XaddAccepts_Equal(s, sid, id) ==
    /\ id.form # "bad"
    /\ sid # ZeroId
    /\ s # <<>> => ~Less(sid, s[Len(s)])

XaddAccepts(s, sid, id) ==
    /\ id.form # "bad"
    /\ sid # ZeroId
    /\ s # <<>> => Less(s[Len(s)], sid)

\* XADD touches the key and creates the stream before it validates the id, so
\* a refused id leaves an empty stream behind.
handle_xadd(d, t, w, k, id) ==
    LET s == StreamOf(d, t, k)
        sid == XaddId(s, w, id)
    IN  IF ~holds_or_absent(d, t, k, "stream") THEN Unchanged(d, WrongType)
        ELSE IF XaddAccepts(s, sid, id)
        THEN Effect(StreamPut(d, t, k, Append(s, sid)), <<k>>, Bulk(sid))
        ELSE Effect(StreamPut(d, t, k, s), <<k>>, Err)

\* The binary searches: the number of entries before the first one that is
\* not below, or is above, the target.
lower_bound(s, target) ==
    LET search[r \in (0..Len(s)) \X (0..Len(s))] ==
          LET lo == r[1]
              hi == r[2]
              mid == lo + (hi - lo) \div 2
          IN  IF lo < hi
              THEN IF Less(s[mid + 1], target) THEN search[<<mid + 1, hi>>] ELSE search[<<lo, mid>>]
              ELSE lo
    IN  search[<<0, Len(s)>>]

\* Mutant: an entry equal to the target is not passed over.
upper_bound_Lower(s, target) == lower_bound(s, target)

upper_bound(s, target) ==
    LET search[r \in (0..Len(s)) \X (0..Len(s))] ==
          LET lo == r[1]
              hi == r[2]
              mid == lo + (hi - lo) \div 2
          IN  IF lo < hi
              THEN IF ~Less(target, s[mid + 1]) THEN search[<<mid + 1, hi>>] ELSE search[<<lo, mid>>]
              ELSE lo
    IN  search[<<0, Len(s)>>]

\* Id arguments of XREAD and XRANGE: "bare" for <ts>, "explicit", "bad" for
\* one with a dash that does not parse, "min" for - and "max" for +.  Only
\* XRANGE knows - as a start and + as an end; elsewhere - does not parse, and
\* + has no dash and is no number, which is read as 0.
ReadThreshold(id) ==
    CASE id.form = "bare" -> <<id.ts, 0>>
      [] id.form = "explicit" -> <<id.ts, id.seq>>
      [] id.form = "max" -> ZeroId
      [] OTHER -> MaxId
RangeStart(id) == IF id.form = "min" THEN ZeroId ELSE ReadThreshold(id)
RangeEnd(id) ==
    CASE id.form = "max" -> MaxId
      [] id.form = "bare" -> <<id.ts, MaxInt>>
      [] id.form = "explicit" -> <<id.ts, id.seq>>
      [] OTHER -> <<-1, -1>>

xread(d, t, k, sid) ==
    LET s == StreamOf(d, t, k) IN SubSeq(s, upper_bound(s, sid) + 1, Len(s))

xrange(d, t, k, lo, hi) ==
    LET s == StreamOf(d, t, k)
    IN  SubSeq(s, lower_bound(s, RangeStart(lo)) + 1, upper_bound(s, RangeEnd(hi)))

\* XREAD without BLOCK; Blocking has the rest of handle_xread_with_blocking.
handle_xread(d, t, k, id) == Unchanged(Evict(d, t, k), Array(xread(d, t, k, ReadThreshold(id))))
handle_xrange(d, t, k, lo, hi) == Unchanged(Evict(d, t, k), Array(xrange(d, t, k, lo, hi)))

----------------------------------------------------------------------------
(* Sorted sets.                                                            *)

ZsetOf(d, t, k) == get_or_create_typed(d, t, k, "zset").val
ZsetPut(d, t, k, z) ==
    [d EXCEPT ![k] = [get_or_create_typed(d, t, k, "zset") EXCEPT !.val = z]]

\* SortedSet::add for the members ms with the scores ss, in order.
AddAll(z, ms, ss) ==
    [m \in DOMAIN z \cup {ms[i] : i \in DOMAIN ms} |->
        IF Positions(ms, m) = {} THEN z[m] ELSE ss[MaxPosition(ms, m)]]

\* Mutant: a score that is no float is used.
GoodPrefix_All(ss) == Len(ss)

\* ZADD stops at the first score that is no float; the pairs before it stay.
GoodPrefix(ss) ==
    CHOOSE n \in 0..Len(ss) : /\ \A i \in 1..n : ss[i] # BadScore
                              /\ n < Len(ss) => ss[n + 1] = BadScore
handle_zadd(d, t, k, ss, ms) ==
    LET n == GoodPrefix(ss)
        z == ZsetOf(d, t, k)
        new == AddAll(z, SubSeq(ms, 1, n), SubSeq(ss, 1, n))
    IN  IF n = 0 THEN Unchanged(d, Err)
        ELSE IF ~holds_or_absent(d, t, k, "zset") THEN Unchanged(d, WrongType)
        ELSE Effect(ZsetPut(d, t, k, new), Repeat(k, n),
                    IF n < Len(ss) THEN Err ELSE IntReply(Cardinality(DOMAIN new \ DOMAIN z)))

\* GEOADD with coordinates whose cell is score, or out of range (BadScore).
handle_geoadd(d, t, k, score, m) ==
    IF ~key_is_absent_or_holds(d, t, k, "zset") THEN Unchanged(d, WrongType)
    ELSE IF score = BadScore THEN Unchanged(d, Err)
    ELSE LET z == ZsetOf(d, t, k)
         IN  Effect(ZsetPut(d, t, k, AddAll(z, <<m>>, <<score>>)), <<k>>,
                    IntReply(IF m \in DOMAIN z THEN 0 ELSE 1))

HasZset(d, t, k) == find_valid_entry(d, t, k).type = "zset"
handle_zrem(d, t, k, m) ==
    IF HasZset(d, t, k) /\ m \in DOMAIN d[k].val
    THEN Effect([d EXCEPT ![k].val = [x \in DOMAIN d[k].val \ {m} |-> d[k].val[x]]], <<k>>, IntReply(1))
    ELSE Effect(Evict(d, t, k), <<k>>, IntReply(0))

\* The number of entries that std::set orders before member m.
zrank(z, m) == Cardinality({x \in DOMAIN z : z[x] < z[m] \/ (z[x] = z[m] /\ x < m)})
\* The members in the order of the set.
zsorted(z) == [i \in 1..Cardinality(DOMAIN z) |-> CHOOSE m \in DOMAIN z : zrank(z, m) = i - 1]

handle_zrank(d, t, k, m) ==
    Unchanged(Evict(d, t, k), IF HasZset(d, t, k) /\ m \in DOMAIN d[k].val
                              THEN IntReply(zrank(d[k].val, m)) ELSE Nil)
handle_zscore(d, t, k, m) ==
    Unchanged(Evict(d, t, k), IF HasZset(d, t, k) /\ m \in DOMAIN d[k].val
                              THEN Bulk(d[k].val[m]) ELSE Nil)
handle_zcard(d, t, k) ==
    Unchanged(Evict(d, t, k), IntReply(IF HasZset(d, t, k) THEN Cardinality(DOMAIN d[k].val) ELSE 0))
handle_zrange(d, t, k, start, stop) ==
    Unchanged(Evict(d, t, k),
              Array(IF HasZset(d, t, k) THEN RangeSlice(zsorted(d[k].val), start, stop) ELSE <<>>))

----------------------------------------------------------------------------
(* Generic commands.                                                       *)

handle_llen(d, t, k) ==
    Unchanged(Evict(d, t, k), IntReply(IF HasList(d, t, k) THEN Len(d[k].val) ELSE 0))
handle_type(d, t, k) == Unchanged(Evict(d, t, k), Bulk(find_valid_entry(d, t, k).type))
handle_keys(d, t) ==
    Unchanged([k \in Keys |-> find_valid_entry(d, t, k)],
              Array({k \in Keys : find_valid_entry(d, t, k).type # "none"}))

============================================================================
