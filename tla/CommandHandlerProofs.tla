------------------------ MODULE CommandHandlerProofs ------------------------
(***************************************************************************)
(* Theorems about CommandHandler, for every set of keys, clients and       *)
(* commands: type correctness, the soundness of WATCH, the order of        *)
(* streams, what reads of a stream return, and which keys may expire.      *)
(***************************************************************************)
EXTENDS CommandHandler, StoreProofs

\* Every command of the table has an effect of the kind EffectOK describes.
LEMMA HandleOK ==
  ASSUME NEW d \in Data, NEW t \in Nat, NEW w \in Int64, NEW c \in Command
  PROVE  EffectOK(d, t, Handle(d, t, w, c))
<1>1. CASE c \in [name : {"SET"}, key : Keys, value : Str, ttl : Nat \cup {NoTtl}]
  <2>1. EffectOK(d, t, handle_set(d, t, c.key, c.value, c.ttl))
    BY <1>1, SetOK
  <2> QED BY <1>1, <2>1 DEF Handle
<1>2. CASE c \in {x \in [name : {"MSET"}, keys : Seq(Keys), values : Seq(Str)] :
                    Len(x.keys) > 0 /\ Len(x.keys) = Len(x.values)}
  <2>1. EffectOK(d, t, handle_mset(d, t, c.keys, c.values))
    BY <1>2, MsetOK
  <2> QED BY <1>2, <2>1 DEF Handle
<1>3. CASE c \in [name : {"GET", "INCR", "LLEN", "TYPE", "ZCARD", "KEYS"}, key : Keys]
  <2>1. /\ EffectOK(d, t, handle_get(d, t, c.key))
        /\ EffectOK(d, t, handle_llen(d, t, c.key))
        /\ EffectOK(d, t, handle_type(d, t, c.key))
        /\ EffectOK(d, t, handle_zcard(d, t, c.key))
    BY <1>3, ReadsOK
  <2>2. EffectOK(d, t, handle_incr(d, t, c.key)) /\ EffectOK(d, t, handle_keys(d, t))
    BY <1>3, IncrOK, KeysOK
  <2> QED BY <1>3, <2>1, <2>2 DEF Handle
<1>4. CASE c \in [name : {"RPUSH", "LPUSH"}, key : Keys, values : Seq(Str) \ {<<>>}]
  <2>1. /\ EffectOK(d, t, handle_rpush(d, t, c.key, c.values))
        /\ EffectOK(d, t, handle_lpush(d, t, c.key, c.values))
    BY <1>4, RpushOK, LpushOK
  <2> QED BY <1>4, <2>1 DEF Handle
<1>5. CASE c \in [name : {"LPOP", "RPOP"}, key : Keys, count : Int64 \cup {NoCount, BadCount}]
  <2>1. /\ EffectOK(d, t, handle_lpop(d, t, c.key, c.count))
        /\ EffectOK(d, t, handle_rpop(d, t, c.key, c.count))
    BY <1>5, LpopRpopOK
  <2> QED BY <1>5, <2>1 DEF Handle
<1>6. CASE c \in [name : {"LRANGE", "ZRANGE"}, key : Keys, start : Int64, stop : Int64]
  <2>1. /\ EffectOK(d, t, handle_lrange(d, t, c.key, c.start, c.stop))
        /\ EffectOK(d, t, handle_zrange(d, t, c.key, c.start, c.stop))
    BY <1>6, ReadsOK
  <2> QED BY <1>6, <2>1 DEF Handle
<1>7. CASE c \in [name : {"XADD"}, key : Keys, id : XaddIds]
  <2>1. EffectOK(d, t, handle_xadd(d, t, w, c.key, c.id))
    BY <1>7, XaddOK
  <2> QED BY <1>7, <2>1 DEF Handle
<1>8. CASE c \in [name : {"XREAD"}, key : Keys, id : ReadIds]
  <2>1. EffectOK(d, t, handle_xread(d, t, c.key, c.id))
    BY <1>8, ReadsOK
  <2> QED BY <1>8, <2>1 DEF Handle
<1>9. CASE c \in [name : {"XRANGE"}, key : Keys, lo : ReadIds, hi : ReadIds]
  <2>1. EffectOK(d, t, handle_xrange(d, t, c.key, c.lo, c.hi))
    BY <1>9, ReadsOK
  <2> QED BY <1>9, <2>1 DEF Handle
<1>10. CASE c \in {x \in [name : {"ZADD"}, key : Keys, scores : Seq(Int64 \cup {BadScore}),
                          members : Seq(Members)] : Len(x.scores) = Len(x.members)}
  <2>1. EffectOK(d, t, handle_zadd(d, t, c.key, c.scores, c.members))
    BY <1>10, ZaddOK
  <2> QED BY <1>10, <2>1 DEF Handle
<1>11. CASE c \in [name : {"GEOADD"}, key : Keys, score : Int64 \cup {BadScore}, member : Members]
  <2>1. EffectOK(d, t, handle_geoadd(d, t, c.key, c.score, c.member))
    BY <1>11, GeoaddOK
  <2> QED BY <1>11, <2>1 DEF Handle
<1>12. CASE c \in [name : {"ZREM", "ZRANK", "ZSCORE"}, key : Keys, member : Members]
  <2>1. EffectOK(d, t, handle_zrem(d, t, c.key, c.member))
    BY <1>12, ZremOK
  <2>2. /\ EffectOK(d, t, handle_zrank(d, t, c.key, c.member))
        /\ EffectOK(d, t, handle_zscore(d, t, c.key, c.member))
    BY <1>12, ReadsOK
  <2> QED BY <1>12, <2>1, <2>2 DEF Handle
<1> QED BY <1>1, <1>2, <1>3, <1>4, <1>5, <1>6, <1>7, <1>8, <1>9, <1>10, <1>11, <1>12 DEF Command

LEMMA ExecuteCommandOK ==
  ASSUME NEW d \in Data, NEW t \in Nat, NEW w \in Int64, NEW c \in Command, NEW u \in BOOLEAN
  PROVE  EffectOK(d, t, execute_command(d, t, w, c, u))
BY HandleOK, UnchangedOK DEF execute_command

----------------------------------------------------------------------------
(* EXEC: the effects of a queue of commands, composed.                     *)

\* The effect of the commands up to and including x, p being that of the
\* commands before it; and r is the table of those effects for a queue q.
Then(p, t, w, x) ==
    LET e == execute_command(p.data, t, w, x.cmd, x.upper)
    IN  Effect(e.data, p.touched \o e.touched, e.reply)
IsRun(r, d, t, w, q, n) ==
    r = [i \in 0..n |-> IF i = 0 THEN Unchanged(d, Ok) ELSE Then(r[i - 1], t, w, q[i])]

LEMMA RunExists ==
  ASSUME NEW d, NEW t, NEW w, NEW q, NEW n \in Nat
  PROVE  \E r : IsRun(r, d, t, w, q, n)
<1> DEFINE S == {m \in Nat : \E r : IsRun(r, d, t, w, q, m)}
<1>1. 0 \in S
  <2> DEFINE r == [i \in 0..0 |-> Unchanged(d, Ok)]
  <2>1. r = [i \in 0..0 |-> IF i = 0 THEN Unchanged(d, Ok) ELSE Then(r[i - 1], t, w, q[i])]
    OBVIOUS
  <2>2. IsRun(r, d, t, w, q, 0)
    BY <2>1 DEF IsRun
  <2> QED BY <2>2
<1>2. ASSUME NEW m \in Nat, m \in S PROVE m + 1 \in S
  <2>1. PICK r : IsRun(r, d, t, w, q, m)
    BY <1>2
  <2> DEFINE r2 == [i \in 0..(m + 1) |-> IF i <= m THEN r[i] ELSE Then(r[m], t, w, q[m + 1])]
  <2>2. \A i \in 0..m : r[i] = IF i = 0 THEN Unchanged(d, Ok) ELSE Then(r[i - 1], t, w, q[i])
    BY <2>1 DEF IsRun
  <2>3. ASSUME NEW i \in 0..(m + 1)
        PROVE  r2[i] = IF i = 0 THEN Unchanged(d, Ok) ELSE Then(r2[i - 1], t, w, q[i])
    <3>1. CASE i = 0
      BY <2>2, <3>1
    <3>2. CASE i # 0 /\ i <= m
      BY <2>2, <3>2
    <3>3. CASE i = m + 1
      <4>1. r2[i] = Then(r[m], t, w, q[m + 1]) /\ r2[i - 1] = r[m] /\ i # 0
        BY <3>3
      <4> QED BY <3>3, <4>1
    <3> QED BY <3>1, <3>2, <3>3
  <2>4. r2 = [i \in 0..(m + 1) |-> r2[i]]
    OBVIOUS
  <2> HIDE DEF r2
  <2>5. r2 = [i \in 0..(m + 1) |-> IF i = 0 THEN Unchanged(d, Ok) ELSE Then(r2[i - 1], t, w, q[i])]
    BY <2>3, <2>4
  <2>6. IsRun(r2, d, t, w, q, m + 1)
    BY <2>5 DEF IsRun
  <2> QED BY <2>6
<1> HIDE DEF S
<1>3. n \in S
  BY <1>1, <1>2, SetInduction
<1> QED BY <1>3 DEF S

LEMMA ExecQueueRun ==
  ASSUME NEW d, NEW t, NEW w, NEW q \in Seq(Queued)
  PROVE  \E r : IsRun(r, d, t, w, q, Len(q)) /\ ExecQueue(d, t, w, q) = r[Len(q)]
<1> DEFINE r == CHOOSE x : IsRun(x, d, t, w, q, Len(q))
<1>1. IsRun(r, d, t, w, q, Len(q))
  BY RunExists
<1>2. ExecQueue(d, t, w, q) = r[Len(q)]
  BY DEF ExecQueue, IsRun, Then
<1> QED BY <1>1, <1>2

\* Erasures compose, and so do touches.
LEMMA SameAtTrans ==
  ASSUME NEW d, NEW f, NEW g, NEW t, NEW k, SameAt(d, f, t, k), SameAt(f, g, t, k)
  PROVE  SameAt(d, g, t, k)
BY DEF SameAt, is_expired, Absent

LEMMA PositionsConcat ==
  ASSUME NEW a \in Seq(Keys), NEW b \in Seq(Keys), NEW k, Positions(a \o b, k) = {}
  PROVE  Positions(a, k) = {} /\ Positions(b, k) = {}
<1>1. ASSUME NEW i \in 1..Len(a), a[i] = k PROVE FALSE
  <2>1. i \in 1..Len(a \o b) /\ (a \o b)[i] = k
    BY <1>1
  <2> QED BY <2>1 DEF Positions
<1>2. ASSUME NEW i \in 1..Len(b), b[i] = k PROVE FALSE
  <2>1. Len(a) + i \in 1..Len(a \o b) /\ (a \o b)[Len(a) + i] = k
    BY <1>2
  <2> QED BY <2>1 DEF Positions
<1> QED BY <1>1, <1>2 DEF Positions

LEMMA ThenOK ==
  ASSUME NEW d \in Data, NEW t \in Nat, NEW w \in Int64, NEW p, NEW x \in Queued, EffectOK(d, t, p)
  PROVE  EffectOK(d, t, Then(p, t, w, x))
<1> DEFINE e == execute_command(p.data, t, w, x.cmd, x.upper)
<1>1. EffectOK(p.data, t, e)
  BY ExecuteCommandOK DEF EffectOK, Queued
<1> HIDE DEF e
<1>2. p.touched \in Seq(Keys) /\ e.touched \in Seq(Keys) /\ e.data \in Data
  BY <1>1 DEF EffectOK
<1>3. p.touched \o e.touched \in Seq(Keys)
  BY <1>2
<1>4. ASSUME NEW k \in Keys, Positions(p.touched \o e.touched, k) = {}
      PROVE  SameAt(d, e.data, t, k)
  <2>1. Positions(p.touched, k) = {} /\ Positions(e.touched, k) = {}
    BY <1>2, <1>4, PositionsConcat
  <2>2. SameAt(d, p.data, t, k) /\ SameAt(p.data, e.data, t, k)
    BY <1>1, <2>1 DEF EffectOK
  <2> QED BY <2>2, SameAtTrans
<1>5. EffectOK(d, t, Effect(e.data, p.touched \o e.touched, e.reply))
  <2>1. Sound(d) => Sound(e.data)
    BY <1>1 DEF EffectOK
  <2> QED BY <1>2, <1>3, <1>4, <2>1, EffectIntro
<1> QED BY <1>5 DEF Then, e

\* The whole queue has an effect of that kind.
LEMMA ExecQueueOK ==
  ASSUME NEW d \in Data, NEW t \in Nat, NEW w \in Int64, NEW q \in Seq(Queued)
  PROVE  EffectOK(d, t, ExecQueue(d, t, w, q))
<1>1. PICK r : IsRun(r, d, t, w, q, Len(q)) /\ ExecQueue(d, t, w, q) = r[Len(q)]
  BY ExecQueueRun
<1>2. \A i \in 0..Len(q) : r[i] = IF i = 0 THEN Unchanged(d, Ok) ELSE Then(r[i - 1], t, w, q[i])
  BY <1>1 DEF IsRun
<1> DEFINE S == {i \in Nat : i <= Len(q) => EffectOK(d, t, r[i])}
<1>3. 0 \in S
  <2>1. r[0] = Unchanged(d, Ok)
    BY <1>2
  <2> QED BY <2>1, UnchangedOK
<1>4. ASSUME NEW i \in Nat, i \in S PROVE i + 1 \in S
  <2>1. SUFFICES ASSUME i + 1 <= Len(q) PROVE EffectOK(d, t, r[i + 1])
    OBVIOUS
  <2>2. r[i + 1] = Then(r[i], t, w, q[i + 1]) /\ q[i + 1] \in Queued
    BY <1>2, <2>1
  <2>3. EffectOK(d, t, r[i])
    BY <1>4, <2>1
  <2> QED BY <2>2, <2>3, ThenOK
<1> HIDE DEF S
<1>5. Len(q) \in S
  BY <1>3, <1>4, SetInduction
<1> QED BY <1>1, <1>5 DEF S

----------------------------------------------------------------------------
(* The invariant.                                                          *)

\* No version in use exceeds the counter, so that a touched key gets a version
\* no watcher can hold.
VersionsBounded ==
    /\ \A k \in Keys : ver[k] <= ctr
    /\ \A c \in Clients, k \in Keys : tx[c].watched[k] <= ctr

IInv == TypeOK /\ VersionsBounded /\ WatchedKeysUnchanged /\ Sound(data)

LEMMA NoTxType == NoTx \in TxState /\ NothingSeen \in Data /\ NoTx.watched = [k \in Keys |-> NotWatched]
<1>1. <<>> \in Seq(Queued)
  OBVIOUS
<1>2. NothingSeen \in Data
  BY EntryForms DEF NothingSeen, Data
<1> QED BY <1>1, <1>2 DEF NoTx, TxState, NotWatched

LEMMA InitInv == Init => IInv
<1> SUFFICES ASSUME Init PROVE IInv
  OBVIOUS
<1>1. [k \in Keys |-> Absent] \in Data
  BY EntryForms DEF Data
<1>2. TypeOK
  BY <1>1, NoTxType DEF Init, TypeOK
<1>3. \A c \in Clients, k \in Keys : tx[c].watched[k] = NotWatched
  BY NoTxType DEF Init
<1>4. VersionsBounded
  BY <1>3 DEF Init, VersionsBounded, NotWatched
<1>5. WatchedKeysUnchanged
  BY <1>3 DEF Init, WatchedKeysUnchanged, NotWatched
<1>6. Sound(data)
  BY SoundForms DEF Init, Sound
<1> QED BY <1>2, <1>4, <1>5, <1>6 DEF IInv

\* What a step does to the store: nothing, or an effect of the kind EffectOK.
StoreStep ==
    \/ UNCHANGED <<data, ver, ctr>>
    \/ \E e : EffectOK(data, now, e) /\ Apply(e)

\* What a step does to a watched key: nothing, or it stops being watched.
WatchStep ==
    \A c \in Clients, k \in Keys :
        \/ tx'[c].watched[k] = tx[c].watched[k] /\ seen'[c][k] = seen[c][k]
        \/ tx'[c].watched[k] = NotWatched

LEMMA StoreStepType ==
  ASSUME TypeOK, StoreStep
  PROVE  data' \in Data /\ ver' \in [Keys -> Nat] /\ ctr' \in Nat /\ ctr <= ctr'
<1>1. CASE UNCHANGED <<data, ver, ctr>>
  BY <1>1 DEF TypeOK
<1>2. ASSUME NEW e, EffectOK(data, now, e), Apply(e)
      PROVE  data' \in Data /\ ver' \in [Keys -> Nat] /\ ctr' \in Nat /\ ctr <= ctr'
  <2>1. e.touched \in Seq(Keys) /\ e.data \in Data /\ ctr \in Nat /\ ver \in [Keys -> Nat]
    BY <1>2 DEF EffectOK, TypeOK
  <2>2. ASSUME NEW k \in Keys, Positions(e.touched, k) # {}
        PROVE  ctr + MaxPosition(e.touched, k) \in Nat
    BY <2>1, <2>2, MaxPositionFact
  <2>3. touch_keys(ver, ctr, e.touched) \in [Keys -> Nat]
    BY <2>1, <2>2 DEF touch_keys
  <2> QED BY <1>2, <2>1, <2>3 DEF Apply
<1> QED BY <1>1, <1>2 DEF StoreStep

\* The heart of the matter: a key is the same, or its version is new.
LEMMA StoreStepVersions ==
  ASSUME TypeOK, VersionsBounded, StoreStep, NEW k \in Keys
  PROVE  /\ ver'[k] <= ctr'
         /\ \/ ver'[k] = ver[k] /\ find_valid_entry(data', now, k) = find_valid_entry(data, now, k)
            \/ ver'[k] > ctr
<1>1. CASE UNCHANGED <<data, ver, ctr>>
  BY <1>1 DEF VersionsBounded
<1>2. ASSUME NEW e, EffectOK(data, now, e), Apply(e)
      PROVE  /\ ver'[k] <= ctr'
             /\ \/ /\ ver'[k] = ver[k]
                   /\ find_valid_entry(data', now, k) = find_valid_entry(data, now, k)
                \/ ver'[k] > ctr
  <2>1. e.touched \in Seq(Keys) /\ ctr \in Nat /\ ver[k] \in Nat /\ ver[k] <= ctr
    BY <1>2 DEF EffectOK, TypeOK, VersionsBounded
  <2>2. CASE Positions(e.touched, k) = {}
    <3>1. SameAt(data, data', now, k)
      BY <1>2, <2>2 DEF EffectOK, Apply
    <3>2. find_valid_entry(data', now, k) = find_valid_entry(data, now, k)
      BY <3>1 DEF SameAt, find_valid_entry, is_expired, Absent
    <3>3. ver'[k] = ver[k] /\ ctr' = ctr + Len(e.touched)
      BY <1>2, <2>2 DEF Apply, touch_keys
    <3> QED BY <2>1, <3>2, <3>3
  <2>3. CASE Positions(e.touched, k) # {}
    <3>1. MaxPosition(e.touched, k) \in 1..Len(e.touched)
      BY <2>1, <2>3, MaxPositionFact
    <3>2. ver'[k] = ctr + MaxPosition(e.touched, k) /\ ctr' = ctr + Len(e.touched)
      BY <1>2, <2>3 DEF Apply, touch_keys
    <3> QED BY <2>1, <3>1, <3>2
  <2> QED BY <2>2, <2>3
<1> QED BY <1>1, <1>2 DEF StoreStep

LEMMA KeepsWatches ==
  ASSUME IInv, StoreStep, WatchStep, now' = now
  PROVE  VersionsBounded' /\ WatchedKeysUnchanged' /\ Sound(data')
<1>1. TypeOK /\ VersionsBounded /\ WatchedKeysUnchanged /\ Sound(data)
  BY DEF IInv
<1>2. ver' \in [Keys -> Nat] /\ ctr' \in Nat /\ ctr \in Nat /\ ctr <= ctr'
  BY <1>1, StoreStepType DEF TypeOK
<1>3. \A c \in Clients, k \in Keys : tx[c].watched[k] \in Int /\ tx[c].watched[k] <= ctr
  BY <1>1 DEF TypeOK, TxState, NotWatched, VersionsBounded
<1>4. VersionsBounded'
  <2>1. \A k \in Keys : ver'[k] <= ctr'
    BY <1>1, StoreStepVersions
  <2>2. \A c \in Clients, k \in Keys : tx'[c].watched[k] <= ctr'
    BY <1>2, <1>3 DEF WatchStep, NotWatched
  <2> QED BY <2>1, <2>2 DEF VersionsBounded
<1>5. ASSUME NEW c \in Clients, NEW k \in Keys, tx'[c].watched[k] = ver'[k]
      PROVE  LET e == find_valid_entry(data', now, k)
             IN  SameEntry(e, seen'[c][k]) \/ (e.type = "none" /\ is_expired(seen'[c][k], now))
  <2>1. tx'[c].watched[k] # NotWatched
    BY <1>2, <1>5 DEF NotWatched
  <2>2. tx[c].watched[k] = ver'[k] /\ seen'[c][k] = seen[c][k]
    BY <1>5, <2>1 DEF WatchStep
  <2>3. ver'[k] = ver[k] /\ find_valid_entry(data', now, k) = find_valid_entry(data, now, k)
    BY <1>1, <1>2, <1>3, <2>2, StoreStepVersions
  <2> QED BY <1>1, <2>2, <2>3 DEF WatchedKeysUnchanged
<1>6. WatchedKeysUnchanged'
  BY <1>5 DEF WatchedKeysUnchanged
<1>7. Sound(data')
  BY <1>1 DEF StoreStep, EffectOK, Apply
<1> QED BY <1>4, <1>6, <1>7

----------------------------------------------------------------------------
(* The actions.                                                            *)

LEMMA LogType ==
  ASSUME TypeOK, NEW cmd \in Commands, NEW wr \in WallTimes, Log(cmd, wr)
  PROVE  mirror' \in Data /\ lapsed' \subseteq Keys
<1>1. cmd \in Command /\ wr \in Int64
  BY HandlerAssumption
<1>2. Handle(mirror, ReplayTime, wr, cmd).data \in Data
  BY <1>1, HandleOK DEF TypeOK, EffectOK, ReplayTime
<1>3. Tied(cmd) \subseteq Keys
  <2>1. cmd.name = "MSET" => cmd.keys \in Seq(Keys)
    BY <1>1 DEF Command
  <2> QED BY <2>1 DEF Tied
<1>4. Expiring \subseteq Keys
  BY DEF Expiring
<1> QED BY <1>2, <1>3, <1>4 DEF Log, TypeOK, logVars

LEMMA ClearTxFacts ==
  ASSUME TypeOK, NEW c \in Clients, clear_tx(c)
  PROVE  tx' \in [Clients -> TxState] /\ seen' \in [Clients -> Data] /\ WatchStep
<1>1. tx' \in [Clients -> TxState] /\ seen' \in [Clients -> Data]
  BY NoTxType DEF TypeOK, clear_tx
<1>2. ASSUME NEW b \in Clients, NEW k \in Keys
      PROVE  \/ tx'[b].watched[k] = tx[b].watched[k] /\ seen'[b][k] = seen[b][k]
             \/ tx'[b].watched[k] = NotWatched
  BY NoTxType DEF TypeOK, clear_tx
<1> QED BY <1>1, <1>2 DEF WatchStep

LEMMA AdmitType ==
  ASSUME TypeOK, NEW c \in Clients, Admit(c) \/ Mark(c)
  PROVE  authed' \in [Clients -> BOOLEAN]
BY DEF TypeOK, Admit, Mark

\* A record of transaction state with one field replaced.
LEMMA TxUpdates ==
  ASSUME NEW x \in TxState
  PROVE  /\ \A b \in BOOLEAN : /\ [x EXCEPT !.in_multi = b] \in TxState
                               /\ [x EXCEPT !.in_multi = b].watched = x.watched
         /\ \A q \in Seq(Queued) : /\ [x EXCEPT !.queued = q] \in TxState
                                   /\ [x EXCEPT !.queued = q].watched = x.watched
         /\ \A f \in [Keys -> Nat \cup {NotWatched}] : /\ [x EXCEPT !.watched = f] \in TxState
                                                       /\ [x EXCEPT !.watched = f].watched = f
BY DEF TxState

LEMMA ExecuteInv ==
  ASSUME IInv, NEW c \in Clients, NEW cmd \in Commands, NEW w \in WallTimes, NEW wr \in WallTimes,
         Execute(c, cmd, w, wr)
  PROVE  IInv'
<1>1. TypeOK /\ cmd \in Command /\ w \in Int64
  BY HandlerAssumption DEF IInv
<1>2. EffectOK(data, now, execute_command(data, now, w, cmd, TRUE))
  BY <1>1, ExecuteCommandOK DEF TypeOK
<1>3. StoreStep
  BY <1>2 DEF StoreStep, Execute
<1>4. WatchStep /\ now' = now
  BY DEF WatchStep, Execute
<1>5. TypeOK'
  <2>1. mirror' \in Data /\ lapsed' \subseteq Keys /\ authed' \in [Clients -> BOOLEAN]
    BY <1>1, LogType, AdmitType DEF Execute
  <2>2. data' \in Data /\ ver' \in [Keys -> Nat] /\ ctr' \in Nat
    BY <1>1, <1>3, StoreStepType
  <2> QED BY <1>1, <2>1, <2>2 DEF TypeOK, Execute
<1> QED BY <1>3, <1>4, <1>5, KeepsWatches DEF IInv

LEMMA QueueInv ==
  ASSUME IInv, NEW c \in Clients, NEW cmd \in Commands, NEW upper \in Cases, NEW wr \in WallTimes,
         Queue(c, cmd, upper, wr)
  PROVE  IInv'
<1> DEFINE x == tx[c]
           q == Append(x.queued, [cmd |-> cmd, upper |-> upper])
<1>1. TypeOK /\ [cmd |-> cmd, upper |-> upper] \in Queued /\ x \in TxState
  BY HandlerAssumption DEF IInv, Queued, TypeOK
<1>2. q \in Seq(Queued)
  <2>1. x.queued \in Seq(Queued)
    BY <1>1 DEF TxState
  <2> QED BY <1>1, <2>1
<1>3. tx' = [tx EXCEPT ![c] = [x EXCEPT !.queued = q]]
  BY DEF Queue
<1>4. [x EXCEPT !.queued = q] \in TxState /\ [x EXCEPT !.queued = q].watched = x.watched
  BY <1>1, <1>2, TxUpdates
<1>5. tx' \in [Clients -> TxState] /\ \A b \in Clients : tx'[b].watched = tx[b].watched
  BY <1>1, <1>3, <1>4 DEF TypeOK
<1>6. StoreStep /\ now' = now
  BY DEF StoreStep, Queue
<1>7. WatchStep
  BY <1>5 DEF WatchStep, Queue
<1>8. TypeOK'
  <2>1. mirror' \in Data /\ lapsed' \subseteq Keys /\ authed' \in [Clients -> BOOLEAN]
    BY <1>1, LogType, AdmitType DEF Queue
  <2> QED BY <1>1, <1>5, <2>1 DEF TypeOK, Queue
<1> QED BY <1>6, <1>7, <1>8, KeepsWatches DEF IInv

LEMMA RejectInv ==
  ASSUME IInv, NEW c \in Clients, NEW cmd \in Commands, NEW wr \in WallTimes, Reject(c, cmd, wr)
  PROVE  IInv'
<1>1. StoreStep /\ WatchStep /\ now' = now
  BY DEF StoreStep, WatchStep, Reject
<1>2. TypeOK'
  <2>1. TypeOK /\ mirror' \in Data /\ lapsed' \subseteq Keys
    BY LogType DEF Reject, IInv
  <2> QED BY <2>1 DEF TypeOK, Reject
<1> QED BY <1>1, <1>2, KeepsWatches DEF IInv

LEMMA MultiInv ==
  ASSUME IInv, NEW c \in Clients, Multi(c)
  PROVE  IInv'
<1> DEFINE x == tx[c]
<1>1. TypeOK /\ x \in TxState
  BY DEF IInv, TypeOK
<1>2. tx' = [tx EXCEPT ![c] = [x EXCEPT !.in_multi = TRUE]]
  BY DEF Multi
<1>3. [x EXCEPT !.in_multi = TRUE] \in TxState /\ [x EXCEPT !.in_multi = TRUE].watched = x.watched
  BY <1>1, TxUpdates
<1>4. tx' \in [Clients -> TxState] /\ \A b \in Clients : tx'[b].watched = tx[b].watched
  BY <1>1, <1>2, <1>3 DEF TypeOK
<1>5. StoreStep /\ WatchStep /\ now' = now
  BY <1>4 DEF StoreStep, WatchStep, Multi
<1>6. TypeOK'
  BY <1>1, <1>4, AdmitType DEF TypeOK, Multi, logVars
<1> QED BY <1>5, <1>6, KeepsWatches DEF IInv

\* EXEC that is refused, DISCARD and a closed connection clear the transaction.
LEMMA ClearInv ==
  ASSUME IInv, NEW c \in Clients, clear_tx(c), authed' \in [Clients -> BOOLEAN],
         subscribed' \in [Clients -> BOOLEAN], UNCHANGED <<data, ver, ctr, now, nopass, logVars>>
  PROVE  IInv'
<1>1. TypeOK
  BY DEF IInv
<1>2. StoreStep /\ WatchStep /\ now' = now
  BY <1>1, ClearTxFacts DEF StoreStep
<1>3. TypeOK'
  BY <1>1, ClearTxFacts DEF TypeOK, logVars
<1> QED BY <1>2, <1>3, KeepsWatches DEF IInv

LEMMA ExecCommitsInv ==
  ASSUME IInv, NEW c \in Clients, NEW w \in WallTimes, ExecCommits(c, w)
  PROVE  IInv'
<1>1. TypeOK /\ w \in Int64 /\ tx[c].queued \in Seq(Queued)
  BY HandlerAssumption DEF IInv, TypeOK, TxState
<1>2. EffectOK(data, now, ExecQueue(data, now, w, tx[c].queued))
  BY <1>1, ExecQueueOK DEF TypeOK
<1>3. StoreStep
  BY <1>2 DEF StoreStep, ExecCommits
<1>4. WatchStep /\ now' = now
  BY <1>1, ClearTxFacts DEF ExecCommits
<1>5. TypeOK'
  <2>1. data' \in Data /\ ver' \in [Keys -> Nat] /\ ctr' \in Nat
    BY <1>1, <1>3, StoreStepType
  <2>2. authed' \in [Clients -> BOOLEAN]
    BY <1>1, AdmitType DEF ExecCommits
  <2>3. lapsed' \subseteq Keys
    BY <1>1 DEF TypeOK, ExecCommits, Expiring
  <2> QED BY <1>1, <2>1, <2>2, <2>3, ClearTxFacts DEF TypeOK, ExecCommits
<1> QED BY <1>3, <1>4, <1>5, KeepsWatches DEF IInv

LEMMA WatchInv ==
  ASSUME IInv, NEW c \in Clients, NEW k \in Keys, Watch(c, k)
  PROVE  IInv'
<1> DEFINE x == tx[c]
           f == [x.watched EXCEPT ![k] = ver[k]]
           s == [seen[c] EXCEPT ![k] = find_valid_entry(data, now, k)]
<1>1. TypeOK /\ VersionsBounded /\ WatchedKeysUnchanged /\ x \in TxState /\ ver[k] \in Nat /\ seen[c] \in Data
  BY DEF IInv, TypeOK
<1>2. f \in [Keys -> Nat \cup {NotWatched}] /\ s \in Data
  <2>1. find_valid_entry(data, now, k) \in Entry
    BY <1>1, LookupType DEF TypeOK
  <2> QED BY <1>1, <2>1 DEF TxState, Data
<1>3. tx' = [tx EXCEPT ![c] = [x EXCEPT !.watched = f]] /\ seen' = [seen EXCEPT ![c] = s]
  BY DEF Watch
<1>4. [x EXCEPT !.watched = f] \in TxState /\ [x EXCEPT !.watched = f].watched = f
  BY <1>1, <1>2, TxUpdates
<1>5. /\ tx' \in [Clients -> TxState] /\ seen' \in [Clients -> Data]
      /\ \A b \in Clients : b # c => tx'[b] = tx[b] /\ seen'[b] = seen[b]
      /\ tx'[c].watched = f /\ seen'[c] = s
  BY <1>1, <1>2, <1>3, <1>4 DEF TypeOK
<1>6. TypeOK'
  BY <1>1, <1>5, AdmitType DEF TypeOK, Watch, logVars
<1>7. ASSUME NEW b \in Clients, NEW j \in Keys
      PROVE  \/ tx'[b].watched[j] = tx[b].watched[j] /\ seen'[b][j] = seen[b][j]
             \/ tx'[b].watched[j] = ver[j] /\ seen'[b][j] = find_valid_entry(data, now, j)
  <2>1. CASE b # c
    BY <1>5, <2>1
  <2>2. CASE b = c /\ j # k
    BY <1>1, <1>5, <2>2 DEF TxState, Data
  <2>3. CASE b = c /\ j = k
    BY <1>1, <1>5, <2>3 DEF TxState, Data
  <2> QED BY <2>1, <2>2, <2>3
<1>8. VersionsBounded'
  BY <1>1, <1>7 DEF VersionsBounded, Watch
<1>9. WatchedKeysUnchanged'
  <2>1. data' = data /\ ver' = ver /\ now' = now
    BY DEF Watch
  <2>2. ASSUME NEW b \in Clients, NEW j \in Keys, tx'[b].watched[j] = ver[j]
        PROVE  LET e == find_valid_entry(data, now, j)
               IN  SameEntry(e, seen'[b][j]) \/ (e.type = "none" /\ is_expired(seen'[b][j], now))
    BY <1>1, <1>7, <2>2 DEF WatchedKeysUnchanged, SameEntry
  <2> QED BY <2>1, <2>2 DEF WatchedKeysUnchanged
<1>10. Sound(data')
  BY DEF Watch, IInv
<1> QED BY <1>6, <1>8, <1>9, <1>10 DEF IInv

LEMMA UnwatchInv ==
  ASSUME IInv, NEW c \in Clients, Unwatch(c)
  PROVE  IInv'
<1> DEFINE x == tx[c]
           f == [k \in Keys |-> NotWatched]
<1>1. TypeOK /\ x \in TxState /\ f \in [Keys -> Nat \cup {NotWatched}]
  BY DEF IInv, TypeOK
<1>2. tx' = [tx EXCEPT ![c] = [x EXCEPT !.watched = f]]
  BY NoTxType DEF Unwatch
<1>3. [x EXCEPT !.watched = f] \in TxState /\ [x EXCEPT !.watched = f].watched = f
  BY <1>1, TxUpdates
<1>4. /\ tx' \in [Clients -> TxState] /\ seen' \in [Clients -> Data]
      /\ \A b \in Clients : b # c => tx'[b] = tx[b] /\ seen'[b] = seen[b]
      /\ tx'[c].watched = f
  BY <1>1, <1>2, <1>3, NoTxType DEF TypeOK, Unwatch
<1>5. StoreStep /\ WatchStep /\ now' = now
  BY <1>4 DEF StoreStep, WatchStep, Unwatch
<1>6. TypeOK'
  BY <1>1, <1>4, AdmitType DEF TypeOK, Unwatch, logVars
<1> QED BY <1>5, <1>6, KeepsWatches DEF IInv

\* The commands that only move the gates.
LEMMA GateInv ==
  ASSUME IInv, NEW c \in Clients, AclSetUser(c) \/ Auth(c) \/ Subscribe(c) \/ Unsubscribe(c)
  PROVE  IInv'
<1>1. UNCHANGED <<data, ver, ctr, now, tx, mirror, lapsed, seen>>
  BY DEF AclSetUser, Auth, Subscribe, Unsubscribe, logVars
<1>2. StoreStep /\ WatchStep /\ now' = now
  BY <1>1 DEF StoreStep, WatchStep
<1>3. /\ authed' \in [Clients -> BOOLEAN] /\ nopass' \in BOOLEAN
      /\ subscribed' \in [Clients -> BOOLEAN]
  BY AdmitType DEF IInv, TypeOK, AclSetUser, Auth, Subscribe, Unsubscribe
<1>4. TypeOK'
  BY <1>1, <1>3 DEF IInv, TypeOK
<1> QED BY <1>2, <1>4, KeepsWatches DEF IInv

\* The clock may pass the expiry of a watched entry, and then it has expired
\* since the WATCH.
LEMMA TickInv ==
  ASSUME IInv, Tick
  PROVE  IInv'
<1>1. TypeOK /\ VersionsBounded /\ WatchedKeysUnchanged
  BY DEF IInv
<1>2. TypeOK' /\ VersionsBounded'
  BY <1>1, SMTT(30) DEF TypeOK, VersionsBounded, Tick, Expiring
<1>3. ASSUME NEW c \in Clients, NEW k \in Keys, tx[c].watched[k] = ver[k]
      PROVE  LET e == find_valid_entry(data, now + 1, k)
             IN  SameEntry(e, seen[c][k]) \/ (e.type = "none" /\ is_expired(seen[c][k], now + 1))
  <2> DEFINE e == find_valid_entry(data, now, k)
             e2 == find_valid_entry(data, now + 1, k)
  <2>1. now \in Nat /\ data[k] \in Entry /\ seen[c][k] \in Entry
    BY <1>1 DEF TypeOK, Data
  <2>2. data[k].expiry \in Int /\ seen[c][k].expiry \in Int
    BY <2>1, EntryFacts DEF Expiries, NoExpiry
  <2>3. SameEntry(e, seen[c][k]) \/ (e.type = "none" /\ is_expired(seen[c][k], now))
    BY <1>1, <1>3 DEF WatchedKeysUnchanged
  <2>4. \/ e2 = e
        \/ e2 = Absent /\ e = data[k] /\ is_expired(e, now + 1)
    BY <2>1, <2>2, SMTT(30) DEF find_valid_entry, is_expired
  <2>5. is_expired(seen[c][k], now) => is_expired(seen[c][k], now + 1)
    BY <2>1, <2>2 DEF is_expired
  <2>6. Absent.type = "none"
    BY DEF Absent
  <2> HIDE DEF e, e2
  <2>7. SameEntry(e2, seen[c][k]) \/ (e2.type = "none" /\ is_expired(seen[c][k], now + 1))
    BY <2>3, <2>4, <2>5, <2>6 DEF SameEntry, is_expired
  <2> QED BY <2>7 DEF e2
<1>4. WatchedKeysUnchanged'
  BY <1>3 DEF WatchedKeysUnchanged, Tick
<1>5. Sound(data')
  BY DEF Tick, IInv
<1> QED BY <1>2, <1>4, <1>5 DEF IInv

LEMMA NextInv == IInv /\ [Next]_vars => IInv'
<1> SUFFICES ASSUME IInv, [Next]_vars PROVE IInv'
  OBVIOUS
<1>1. CASE Tick
  BY <1>1, TickInv
<1>2. ASSUME NEW c \in Clients, Step(c) PROVE IInv'
  <2>1. ASSUME NEW cmd \in Commands, NEW wr \in WallTimes, NEW w \in WallTimes, Execute(c, cmd, w, wr)
        PROVE  IInv'
    BY <2>1, ExecuteInv
  <2>2. ASSUME NEW cmd \in Commands, NEW wr \in WallTimes, NEW upper \in Cases, Queue(c, cmd, upper, wr)
        PROVE  IInv'
    BY <2>2, QueueInv
  <2>3. ASSUME NEW cmd \in Commands, NEW wr \in WallTimes, Reject(c, cmd, wr) PROVE IInv'
    BY <2>3, RejectInv
  <2>4. ASSUME ExecAborts(c) \/ Discard(c) \/ Reconnect(c) PROVE IInv'
    <3>1. authed' \in [Clients -> BOOLEAN] /\ subscribed' \in [Clients -> BOOLEAN]
      BY <2>4, AdmitType DEF IInv, TypeOK, ExecAborts, Discard, Reconnect
    <3> QED BY <2>4, <3>1, ClearInv DEF ExecAborts, Discard, Reconnect
  <2>5. ASSUME NEW w \in WallTimes, ExecCommits(c, w) PROVE IInv'
    BY <2>5, ExecCommitsInv
  <2>6. ASSUME NEW k \in Keys, Watch(c, k) PROVE IInv'
    BY <2>6, WatchInv
  <2>7. CASE \/ Multi(c) \/ Unwatch(c) \/ AclSetUser(c) \/ Auth(c)
             \/ Subscribe(c) \/ Unsubscribe(c)
    BY <2>7, MultiInv, UnwatchInv, GateInv
  <2> QED BY <1>2, <2>1, <2>2, <2>3, <2>4, <2>5, <2>6, <2>7 DEF Step
<1>3. CASE UNCHANGED vars
  BY <1>3 DEF vars, logVars, IInv, TypeOK, VersionsBounded, WatchedKeysUnchanged
<1> QED BY <1>1, <1>2, <1>3 DEF Next

\* Every variable keeps its type through any interleaving of commands,
\* transactions, reconnections and the clock.
THEOREM TypeCorrect == Spec => []TypeOK
<1>1. IInv => TypeOK
  BY DEF IInv
<1> QED BY <1>1, InitInv, NextInv, PTL DEF Spec

\* WATCH is sound: while the version of a watched key is the one WATCH read,
\* which is all that EXEC compares, the key holds what it held then, or that
\* has expired since; no handler, alone or in a transaction of any length,
\* changes a live key without touching it.
THEOREM WatchSound == Spec => []WatchedKeysUnchanged
<1>1. IInv => WatchedKeysUnchanged
  BY DEF IInv
<1> QED BY <1>1, InitInv, NextInv, PTL DEF Spec

\* The ids of a stream ascend strictly, whatever ids XADD was given and
\* whatever the wall clock reads; xread and xrange search for them by halves.
THEOREM StreamsSound == Spec => []StreamsAscend
<1>1. IInv => StreamsAscend
  BY DEF IInv, Sound, SoundEntry, StreamsAscend
<1> QED BY <1>1, InitInv, NextInv, PTL DEF Spec

\* XREAD and XRANGE return exactly the entries that lie in the range asked for,
\* for streams of every length and ids of every width: the searches by halves
\* of lower_bound and upper_bound end where a scan would.
THEOREM ReadsExact == Spec => []ReadsFilterStream
<1>1. IInv => ReadsFilterStream
  <2> SUFFICES ASSUME IInv, NEW k \in Keys, NEW lo \in ReadIds, NEW hi \in ReadIds
               PROVE  LET s == StreamOf(data, now, k)
                          from == RangeStart(lo)
                          to == RangeEnd(hi)
                          above == xread(data, now, k, from)
                          between == xrange(data, now, k, lo, hi)
                      IN  /\ Ascends(above) /\ IdsOf(above) = {x \in IdsOf(s) : Less(from, x)}
                          /\ Ascends(between)
                          /\ IdsOf(between) = {x \in IdsOf(s) : ~Less(x, from) /\ ~Less(to, x)}
    BY DEF ReadsFilterStream
  <2> DEFINE s == StreamOf(data, now, k)
             from == RangeStart(lo)
             to == RangeEnd(hi)
             above == xread(data, now, k, from)
             between == xrange(data, now, k, lo, hi)
  <2>1. data \in Data /\ Sound(data) /\ from \in StreamIds
    BY RangeIds DEF IInv, TypeOK
  <2>2. Ascends(above) /\ \A x : x \in IdsOf(above) <=> x \in IdsOf(s) /\ Less(from, x)
    BY <2>1, XreadFacts
  <2>3. Ascends(between) /\ \A x : x \in IdsOf(between) <=>
                                   x \in IdsOf(s) /\ ~Less(x, from) /\ ~Less(to, x)
    BY <2>1, XrangeFacts
  <2> HIDE DEF s, from, to, above, between
  <2>4. IdsOf(above) = {x \in IdsOf(s) : Less(from, x)}
    BY <2>2
  <2>5. IdsOf(between) = {x \in IdsOf(s) : ~Less(x, from) /\ ~Less(to, x)}
    BY <2>3
  <2> QED BY <2>2, <2>3, <2>4, <2>5 DEF s, from, to, above, between
<1> QED BY <1>1, InitInv, NextInv, PTL DEF Spec

\* No list, stream or sorted set ever carries an expiry, although
\* get_or_create_typed keeps the expiry of the entry it finds.
THEOREM ExpirySound == Spec => []OnlyStringsExpire
<1>1. IInv => OnlyStringsExpire
  BY DEF IInv, Sound, SoundEntry, OnlyStringsExpire
<1> QED BY <1>1, InitInv, NextInv, PTL DEF Spec
============================================================================
