---------------------------- MODULE StoreProofs ----------------------------
(***************************************************************************)
(* Lemmas about the operators of Store: every handler returns a keyspace   *)
(* of the right type, changes no key it does not touch, except that an     *)
(* expired entry may be erased, and keeps streams in order and expiries on *)
(* strings.  Also the induction these lemmas need, and what each handler   *)
(* can add to what a key has to offer to a blocked client.                 *)
(***************************************************************************)
EXTENDS Store, WellFoundedInduction, TLAPS

----------------------------------------------------------------------------
(* Induction on the naturals, stated of sets, and recursion along them.    *)

NatLess == {p \in Nat \X Nat : p[1] < p[2]}

\* A set of naturals has a least element.
LEMMA LeastNatural ==
  ASSUME NEW T, T \subseteq Nat, T # {}
  PROVE  \E n \in T : \A m \in T : n <= m
<1>1. IsWellFoundedOn(NatLess, Nat)
  BY NatLessThanWellFounded DEF NatLess, OpToRel
<1>2. PICK x \in T : \A y \in T : ~(<<y, x>> \in NatLess)
  BY <1>1, WFMin
<1>3. ASSUME NEW y \in T PROVE x <= y
  <2>1. x \in Nat /\ y \in Nat /\ <<y, x>> \in Nat \X Nat
    OBVIOUS
  <2>2. ~(y < x)
    BY <1>2, <2>1 DEF NatLess
  <2> QED BY <2>1, <2>2
<1> QED BY <1>3

\* A set that holds 0, and with every natural the next, holds them all.
LEMMA SetInduction ==
  ASSUME NEW S, 0 \in S, \A n \in Nat : n \in S => n + 1 \in S
  PROVE  Nat \subseteq S
<1> DEFINE T == {n \in Nat : n \notin S}
<1>1. SUFFICES ASSUME T # {} PROVE FALSE
  OBVIOUS
<1>2. PICK n \in T : \A m \in T : n <= m
  BY <1>1, LeastNatural
<1>3. n # 0 /\ n \in Nat
  OBVIOUS
<1>4. n - 1 \in Nat /\ n - 1 \notin T
  BY <1>2, <1>3
<1> QED BY <1>4

\* Induction up to a bound.
LEMMA BoundedInduction ==
  ASSUME NEW n \in Nat, NEW T, 0 \in T, \A i \in 1..n : i - 1 \in T => i \in T
  PROVE  0..n \subseteq T
<1> DEFINE S == {i \in Nat : i <= n => i \in T}
<1>1. 0 \in S
  OBVIOUS
<1>2. ASSUME NEW i \in Nat, i \in S PROVE i + 1 \in S
  <2>1. i + 1 <= n => i + 1 \in 1..n /\ (i + 1) - 1 = i /\ i <= n
    OBVIOUS
  <2> QED BY <1>2, <2>1
<1> HIDE DEF S
<1>3. Nat \subseteq S
  BY <1>1, <1>2, SetInduction
<1> QED BY <1>3 DEF S

\* A sequence of values of which each is made from the one before, by the
\* functions step[1], step[2], ... on a set, exists.
Iterates(f, b, step, n) == f = [i \in 0..n |-> IF i = 0 THEN b ELSE step[i][f[i - 1]]]

LEMMA TableExists ==
  ASSUME NEW n \in Nat, NEW S, NEW b \in S, NEW step, \A i \in 1..n : \A x \in S : step[i][x] \in S
  PROVE  \E f \in [0..n -> S] : Iterates(f, b, step, n)
<1> DEFINE T == {m \in 0..n : \E f \in [0..m -> S] : Iterates(f, b, step, m)}
<1>1. 0 \in T
  <2> DEFINE f == [i \in 0..0 |-> b]
  <2>1. f \in [0..0 -> S] /\ Iterates(f, b, step, 0)
    BY DEF Iterates
  <2> QED BY <2>1
<1>2. ASSUME NEW m \in 1..n, m - 1 \in T PROVE m \in T
  <2>1. PICK f \in [0..(m - 1) -> S] : Iterates(f, b, step, m - 1)
    BY <1>2
  <2> DEFINE g == [i \in 0..m |-> IF i = m THEN step[m][f[m - 1]] ELSE f[i]]
  <2>2. m - 1 \in 0..(m - 1) /\ \A i \in 0..m : i # m => i \in 0..(m - 1)
    OBVIOUS
  <2>3. g \in [0..m -> S]
    BY <2>1, <2>2
  <2>4. \A i \in 0..(m - 1) : g[i] = f[i] /\ f[i] = IF i = 0 THEN b ELSE step[i][f[i - 1]]
    BY <2>1 DEF Iterates
  <2>5. ASSUME NEW i \in 0..m PROVE g[i] = IF i = 0 THEN b ELSE step[i][g[i - 1]]
    <3>1. CASE i = m
      <4>1. g[m - 1] = f[m - 1] /\ m # 0
        BY <2>2, <2>4
      <4> QED BY <3>1, <4>1
    <3>2. CASE i # m /\ i # 0
      <4>1. i \in 0..(m - 1) /\ i - 1 \in 0..(m - 1)
        BY <3>2
      <4> HIDE DEF g
      <4> QED BY <2>4, <3>2, <4>1
    <3>3. CASE i = 0
      <4>1. 0 \in 0..(m - 1)
        OBVIOUS
      <4> HIDE DEF g
      <4> QED BY <2>4, <3>3, <4>1
    <3> QED BY <3>1, <3>2, <3>3
  <2> HIDE DEF g
  <2>6. Iterates(g, b, step, m)
    <3>1. g = [i \in 0..m |-> g[i]]
      BY <2>3
    <3> QED BY <2>5, <3>1 DEF Iterates
  <2> QED BY <2>3, <2>6
<1> HIDE DEF T
<1>3. 0..n \subseteq T
  BY <1>1, <1>2, BoundedInduction
<1>4. n \in T
  BY <1>3
<1> QED BY <1>4 DEF T

----------------------------------------------------------------------------
(* Entries.                                                                *)

\* The entries that are not absent, by type.
LEMMA EntryForms ==
  /\ Absent \in Entry
  /\ \A v \in Str, x \in Expiries : StringEntry(v, x) \in Entry
  /\ \A s \in Seq(Str), x \in Expiries : [type |-> "list", val |-> s, expiry |-> x] \in Entry
  /\ \A s \in Seq(StreamIds), x \in Expiries : [type |-> "stream", val |-> s, expiry |-> x] \in Entry
  /\ \A z \in ZsetVals, x \in Expiries : [type |-> "zset", val |-> z, expiry |-> x] \in Entry
BY DEF Entry, StringEntry

\* What an entry of each type holds.
LEMMA EntryFacts ==
  ASSUME NEW e \in Entry
  PROVE  /\ e.expiry \in Expiries
         /\ e.type \in {"none", "string", "list", "stream", "zset"}
         /\ e.type = "none" => e = Absent
         /\ e.type = "string" => e.val \in Str
         /\ e.type = "list" => e.val \in Seq(Str)
         /\ e.type = "stream" => e.val \in Seq(StreamIds)
         /\ e.type = "zset" => e.val \in ZsetVals
         /\ e = [type |-> e.type, val |-> e.val, expiry |-> e.expiry]
BY DEF Entry, Absent, Expiries, NoExpiry

\* Writing an entry, or its value; looking one up.
Put(d, k, e) == [d EXCEPT ![k] = e]
PutVal(d, k, v) == [d EXCEPT ![k].val = v]

LEMMA PutType ==
  ASSUME NEW d \in Data, NEW k, NEW e \in Entry
  PROVE  Put(d, k, e) \in Data
BY DEF Data, Put

\* The ids of a stream ascend, and only strings expire.
SoundEntry(e) ==
    /\ e.type = "stream" => Ascends(e.val)
    /\ e.expiry # NoExpiry => e.type = "string"
Sound(d) == \A k \in Keys : SoundEntry(d[k])

LEMMA SoundForms ==
  /\ SoundEntry(Absent)
  /\ \A v, x : SoundEntry(StringEntry(v, x))
  /\ \A v, ty : ty # "stream" => SoundEntry([type |-> ty, val |-> v, expiry |-> NoExpiry])
BY DEF SoundEntry, Absent, StringEntry

LEMMA PutSound ==
  ASSUME NEW d \in Data, NEW k, NEW e, Sound(d), SoundEntry(e)
  PROVE  Sound(Put(d, k, e))
BY DEF Sound, Data, Put

LEMMA LookupSound ==
  ASSUME NEW d, NEW t, NEW k \in Keys, Sound(d)
  PROVE  SoundEntry(find_valid_entry(d, t, k))
BY SoundForms DEF Sound, find_valid_entry

\* What a key of another type than string holds has no expiry.
LEMMA HeldExpiry ==
  ASSUME NEW d, NEW t, NEW k \in Keys, NEW ty, ty # "string", Sound(d),
         holds_or_absent(d, t, k, ty)
  PROVE  find_valid_entry(d, t, k).expiry = NoExpiry
<1>1. SoundEntry(find_valid_entry(d, t, k))
  BY LookupSound
<1> QED BY <1>1 DEF SoundEntry, holds_or_absent

LEMMA LookupType ==
  ASSUME NEW d \in Data, NEW t, NEW k \in Keys
  PROVE  d[k] \in Entry /\ find_valid_entry(d, t, k) \in Entry
BY EntryForms DEF Data, find_valid_entry

LEMMA EvictType ==
  ASSUME NEW d \in Data, NEW t, NEW k \in Keys
  PROVE  Evict(d, t, k) \in Data
BY LookupType, PutType DEF Evict, Put

----------------------------------------------------------------------------
(* Handlers.                                                               *)

\* Keyspace f is keyspace d at key k, up to the erasure of an expired entry.
SameAt(d, f, t, k) == f[k] = d[k] \/ (is_expired(d[k], t) /\ f[k] = Absent)

\* What holds of the effect e of every handler on keyspace d at time t.
EffectOK(d, t, e) ==
    /\ e.data \in Data
    /\ e.touched \in Seq(Keys)
    /\ \A k \in Keys : Positions(e.touched, k) = {} => SameAt(d, e.data, t, k)
    /\ Sound(d) => Sound(e.data)

LEMMA EffectFields ==
  ASSUME NEW d, NEW ts, NEW r
  PROVE  Effect(d, ts, r).data = d /\ Effect(d, ts, r).touched = ts /\ Effect(d, ts, r).reply = r
BY DEF Effect

LEMMA EffectIntro ==
  ASSUME NEW d, NEW t, NEW f \in Data, NEW ts \in Seq(Keys), NEW r,
         \A k \in Keys : Positions(ts, k) = {} => SameAt(d, f, t, k),
         Sound(d) => Sound(f)
  PROVE  EffectOK(d, t, Effect(f, ts, r))
BY EffectFields DEF EffectOK

\* A handler that leaves the keyspace alone, or only erases expired entries.
LEMMA EraseOK ==
  ASSUME NEW d, NEW t, NEW f \in Data, NEW r, \A k \in Keys : SameAt(d, f, t, k)
  PROVE  EffectOK(d, t, Unchanged(f, r))
<1>1. <<>> \in Seq(Keys)
  OBVIOUS
<1>2. Sound(d) => Sound(f)
  BY SoundForms DEF Sound, SameAt
<1> QED BY <1>1, <1>2, EffectIntro DEF Unchanged

LEMMA UnchangedOK ==
  ASSUME NEW d \in Data, NEW t, NEW r
  PROVE  EffectOK(d, t, Unchanged(d, r))
<1>1. \A k \in Keys : SameAt(d, d, t, k)
  BY DEF SameAt
<1> QED BY <1>1, EraseOK

LEMMA EvictOK ==
  ASSUME NEW d \in Data, NEW t, NEW k \in Keys, NEW r
  PROVE  EffectOK(d, t, Unchanged(Evict(d, t, k), r))
<1>1. \A j \in Keys : SameAt(d, Evict(d, t, k), t, j)
  BY DEF SameAt, Evict, find_valid_entry, Data
<1> QED BY <1>1, EvictType, EraseOK

\* A handler that writes the entry of k and touches k, once or n times.
LEMMA WriteOK ==
  ASSUME NEW d \in Data, NEW t, NEW k \in Keys, NEW f \in Data, NEW ts \in Seq(Keys), NEW r,
         \A j \in Keys : j # k => SameAt(d, f, t, j), Sound(d) => Sound(f),
         Len(ts) > 0, ts[1] = k
  PROVE  EffectOK(d, t, Effect(f, ts, r))
<1>1. 1 \in Positions(ts, k)
  BY DEF Positions
<1> QED BY <1>1, EffectIntro

LEMMA PutOK ==
  ASSUME NEW d \in Data, NEW t, NEW k \in Keys, NEW e \in Entry, NEW r,
         Sound(d) => SoundEntry(e)
  PROVE  EffectOK(d, t, Effect(Put(d, k, e), <<k>>, r))
<1>1. Put(d, k, e) \in Data
  BY PutType
<1>2. \A j \in Keys : j # k => SameAt(d, Put(d, k, e), t, j)
  BY DEF SameAt, Data, Put
<1>3. <<k>> \in Seq(Keys) /\ <<k>>[1] = k /\ Len(<<k>>) > 0
  OBVIOUS
<1> QED BY <1>1, <1>2, <1>3, PutSound, WriteOK

LEMMA PutManyOK ==
  ASSUME NEW d \in Data, NEW t, NEW k \in Keys, NEW e \in Entry, NEW n \in Nat, n > 0, NEW r,
         Sound(d) => SoundEntry(e)
  PROVE  EffectOK(d, t, Effect(Put(d, k, e), Repeat(k, n), r))
<1>1. Put(d, k, e) \in Data
  BY PutType
<1>2. \A j \in Keys : j # k => SameAt(d, Put(d, k, e), t, j)
  BY DEF SameAt, Data, Put
<1>3. Repeat(k, n) \in Seq(Keys) /\ Len(Repeat(k, n)) = n
  BY DEF Repeat
<1>4. Repeat(k, n)[1] = k
  BY DEF Repeat
<1> QED BY <1>1, <1>2, <1>3, <1>4, PutSound, WriteOK

\* The entry found or made for a type, with a value of that type put in.
LEMMA TypedPut ==
  ASSUME NEW d \in Data, NEW t, NEW k \in Keys, NEW ty, NEW v
  PROVE  /\ find_valid_entry(d, t, k).expiry \in Expiries
         /\ [get_or_create_typed(d, t, k, ty) EXCEPT !.val = v]
              = [type |-> ty, val |-> v, expiry |-> find_valid_entry(d, t, k).expiry]
<1> DEFINE e == find_valid_entry(d, t, k)
<1>1. e \in Entry
  BY LookupType
<1>2. e.expiry \in Expiries /\ e = [type |-> e.type, val |-> e.val, expiry |-> e.expiry]
  BY <1>1, EntryFacts
<1> QED BY <1>2 DEF get_or_create_typed

\* A new value for the entry of a key, in place.
LEMMA ValuePut ==
  ASSUME NEW d \in Data, NEW k \in Keys, NEW v
  PROVE  PutVal(d, k, v) = Put(d, k, [type |-> d[k].type, val |-> v, expiry |-> d[k].expiry])
<1>1. d[k] \in Entry
  BY DEF Data
<1>2. d[k] = [type |-> d[k].type, val |-> d[k].val, expiry |-> d[k].expiry]
  BY <1>1, EntryFacts
<1>3. [d[k] EXCEPT !.val = v] = [type |-> d[k].type, val |-> v, expiry |-> d[k].expiry]
  BY <1>2
<1> QED BY <1>3 DEF Data, Put, PutVal

----------------------------------------------------------------------------
(* Strings.                                                                *)

LEMMA ExpiryOfType ==
  ASSUME NEW t \in Nat, NEW ttl \in Nat \cup {NoTtl}
  PROVE  ExpiryOf(t, ttl) \in Expiries
BY DEF ExpiryOf, Expiries, NoTtl, NoExpiry

LEMMA SetOK ==
  ASSUME NEW d \in Data, NEW t \in Nat, NEW k \in Keys, NEW v \in Str, NEW ttl \in Nat \cup {NoTtl}
  PROVE  EffectOK(d, t, handle_set(d, t, k, v, ttl))
<1>1. StringEntry(v, ExpiryOf(t, ttl)) \in Entry
  BY ExpiryOfType, EntryForms
<1> QED BY <1>1, SoundForms, PutOK, UnchangedOK DEF handle_set, set, Put

LEMMA IncrOK ==
  ASSUME NEW d \in Data, NEW t \in Nat, NEW k \in Keys
  PROVE  EffectOK(d, t, handle_incr(d, t, k))
<1> DEFINE e == find_valid_entry(d, t, k)
<1>1. e \in Entry /\ d[k] \in Entry
  BY LookupType
<1>2. CASE e.type = "none"
  <2>1. StringEntry(1, NoExpiry) \in Entry
    <3>1. 1 \in Str /\ NoExpiry \in Expiries
      BY StoreAssumption DEF Str, Int64, Expiries
    <3> QED BY <3>1, EntryForms
  <2> QED BY <1>2, <2>1, SoundForms, PutOK DEF handle_incr, Put
<1>3. CASE e.type \notin {"none", "string"}
  BY <1>3, UnchangedOK DEF handle_incr
<1>4. CASE e.type = "string" /\ (e.val \in Tokens \/ e.val = MaxInt)
  <2>1. Put(d, k, d[k]) = d
    BY DEF Data, Put
  <2> HIDE DEF e
  <2>2. handle_incr(d, t, k) = Effect(Put(d, k, d[k]), <<k>>, Err)
    BY <1>4, <2>1 DEF handle_incr, e
  <2> QED BY <1>1, <2>2, PutOK DEF Sound
<1>5. CASE e.type = "string" /\ e.val \notin Tokens /\ e.val # MaxInt
  <2>1. e = d[k] /\ e.val \in Int64 /\ e.expiry \in Expiries
    BY <1>1, <1>5, EntryFacts DEF find_valid_entry, Absent, Str
  <2>2. e.val + 1 \in Str
    BY <1>5, <2>1, StoreAssumption DEF Int64, Str
  <2>3. StringEntry(e.val + 1, e.expiry) \in Entry
    BY <2>1, <2>2, EntryForms
  <2>4. PutVal(d, k, e.val + 1) = Put(d, k, StringEntry(e.val + 1, e.expiry))
    BY <1>5, <2>1, ValuePut DEF StringEntry
  <2>5. handle_incr(d, t, k) = Effect(PutVal(d, k, e.val + 1), <<k>>, IntReply(e.val + 1))
    BY <1>5 DEF handle_incr, PutVal
  <2> QED BY <2>3, <2>4, <2>5, SoundForms, PutOK
<1> QED BY <1>2, <1>3, <1>4, <1>5

\* The last position of a key that occurs in a sequence.
LEMMA MaxPositionFact ==
  ASSUME NEW S, NEW ts \in Seq(S), NEW k, Positions(ts, k) # {}
  PROVE  /\ MaxPosition(ts, k) \in 1..Len(ts)
         /\ ts[MaxPosition(ts, k)] = k
         /\ \A j \in Positions(ts, k) : j <= MaxPosition(ts, k)
<1> DEFINE P == Positions(ts, k)
           T == {n \in Nat : \E i \in P : n = Len(ts) - i}
<1>1. P \subseteq 1..Len(ts) /\ Len(ts) \in Nat
  BY DEF Positions
<1>2. PICK i \in P : TRUE
  OBVIOUS
<1>3. Len(ts) - i \in T
  BY <1>1, <1>2
<1>4. PICK n \in T : \A m \in T : n <= m
  BY <1>3, LeastNatural
<1>5. PICK x \in P : n = Len(ts) - x
  BY <1>4
<1>6. \A j \in P : j <= x
  <2>1. TAKE j \in P
  <2>2. Len(ts) - j \in T
    BY <1>1
  <2> HIDE DEF P, T
  <2> QED BY <1>1, <1>4, <1>5, <2>2
<1>7. MaxPosition(ts, k) \in P /\ \A j \in P : j <= MaxPosition(ts, k)
  BY <1>5, <1>6 DEF MaxPosition
<1> QED BY <1>7 DEF Positions

LEMMA MsetOK ==
  ASSUME NEW d \in Data, NEW t \in Nat, NEW ks \in Seq(Keys), NEW vs \in Seq(Str), Len(ks) = Len(vs)
  PROVE  EffectOK(d, t, handle_mset(d, t, ks, vs))
<1> DEFINE F(k) == IF Positions(ks, k) = {} THEN d[k]
                   ELSE StringEntry(vs[MaxPosition(ks, k)], NoExpiry)
           f == [k \in Keys |-> F(k)]
<1>1. ASSUME NEW k \in Keys PROVE F(k) \in Entry
  <2>1. CASE Positions(ks, k) = {}
    BY <2>1, LookupType
  <2>2. CASE Positions(ks, k) # {}
    <3>1. MaxPosition(ks, k) \in 1..Len(vs)
      BY <2>2, MaxPositionFact
    <3>2. vs[MaxPosition(ks, k)] \in Str /\ NoExpiry \in Expiries
      BY <3>1 DEF Expiries
    <3> QED BY <2>2, <3>2, EntryForms
  <2> QED BY <2>1, <2>2
<1>2. f \in Data
  BY <1>1 DEF Data
<1>3. \A k \in Keys : Positions(ks, k) = {} => SameAt(d, f, t, k)
  BY DEF SameAt
<1>4. Sound(d) => Sound(f)
  BY SoundForms DEF Sound
<1>5. EffectOK(d, t, Effect(f, ks, Ok))
  BY <1>2, <1>3, <1>4, EffectIntro
<1> QED BY <1>5, UnchangedOK DEF handle_mset

----------------------------------------------------------------------------
(* Lists.                                                                  *)

LEMMA BackwardsType ==
  ASSUME NEW S, NEW s \in Seq(S)
  PROVE  Backwards(s) \in Seq(S) /\ Len(Backwards(s)) = Len(s)
<1>1. \A i \in 1..Len(s) : s[Len(s) - i + 1] \in S
  OBVIOUS
<1> QED BY <1>1 DEF Backwards

LEMMA ListOfType ==
  ASSUME NEW d \in Data, NEW t, NEW k \in Keys
  PROVE  ListOf(d, t, k) \in Seq(Str)
<1>1. find_valid_entry(d, t, k) \in Entry /\ <<>> \in Seq(Str)
  BY LookupType
<1> QED BY <1>1, EntryFacts DEF ListOf, get_or_create_typed

\* ListPut writes a list at the key.
LEMMA ListPutForm ==
  ASSUME NEW d \in Data, NEW t, NEW k \in Keys, NEW s \in Seq(Str)
  PROVE  \E e \in Entry : /\ e.type = "list" /\ e.val = s
                          /\ e.expiry = find_valid_entry(d, t, k).expiry
                          /\ ListPut(d, t, k, s) = Put(d, k, e)
<1> DEFINE e == [type |-> "list", val |-> s, expiry |-> find_valid_entry(d, t, k).expiry]
<1>1. e \in Entry
  BY TypedPut, EntryForms
<1>2. [get_or_create_typed(d, t, k, "list") EXCEPT !.val = s] = e
  BY TypedPut
<1>3. ListPut(d, t, k, s) = Put(d, k, [get_or_create_typed(d, t, k, "list") EXCEPT !.val = s])
  BY DEF ListPut, Put
<1> QED BY <1>1, <1>2, <1>3

LEMMA RpushOK ==
  ASSUME NEW d \in Data, NEW t \in Nat, NEW k \in Keys, NEW vs \in Seq(Str) \ {<<>>}
  PROVE  EffectOK(d, t, handle_rpush(d, t, k, vs))
<1> DEFINE s == ListOf(d, t, k) \o vs
<1>1. s \in Seq(Str) /\ Len(vs) \in Nat /\ Len(vs) > 0
  BY ListOfType
<1>2. PICK e \in Entry : /\ e.type = "list" /\ e.expiry = find_valid_entry(d, t, k).expiry
                         /\ ListPut(d, t, k, s) = Put(d, k, e)
  BY <1>1, ListPutForm
<1>3. ASSUME holds_or_absent(d, t, k, "list")
      PROVE  EffectOK(d, t, Effect(ListPut(d, t, k, s), Repeat(k, Len(vs)), IntReply(Len(s))))
  <2>1. Sound(d) => SoundEntry(e)
    BY <1>2, <1>3, HeldExpiry DEF SoundEntry
  <2> QED BY <1>1, <1>2, <2>1, PutManyOK
<1> QED BY <1>3, UnchangedOK DEF handle_rpush

LEMMA LpushOK ==
  ASSUME NEW d \in Data, NEW t \in Nat, NEW k \in Keys, NEW vs \in Seq(Str) \ {<<>>}
  PROVE  EffectOK(d, t, handle_lpush(d, t, k, vs))
<1> DEFINE s == Backwards(vs) \o ListOf(d, t, k)
<1>1. s \in Seq(Str) /\ Len(vs) \in Nat /\ Len(vs) > 0
  BY ListOfType, BackwardsType
<1>2. PICK e \in Entry : /\ e.type = "list" /\ e.expiry = find_valid_entry(d, t, k).expiry
                         /\ ListPut(d, t, k, s) = Put(d, k, e)
  BY <1>1, ListPutForm
<1>3. ASSUME holds_or_absent(d, t, k, "list")
      PROVE  EffectOK(d, t, Effect(ListPut(d, t, k, s), Repeat(k, Len(vs)), IntReply(Len(s))))
  <2>1. Sound(d) => SoundEntry(e)
    BY <1>2, <1>3, HeldExpiry DEF SoundEntry
  <2> QED BY <1>1, <1>2, <2>1, PutManyOK
<1> QED BY <1>3, UnchangedOK DEF handle_lpush

\* The keyspace after a pop: a shorter list at the key, or an eviction.
LEMMA HasListFacts ==
  ASSUME NEW d \in Data, NEW t, NEW k \in Keys, HasList(d, t, k)
  PROVE  /\ d[k].type = "list" /\ d[k].val \in Seq(Str) /\ d[k].expiry \in Expiries
         /\ find_valid_entry(d, t, k) = d[k]
<1>1. find_valid_entry(d, t, k) = d[k]
  BY DEF HasList, find_valid_entry, Absent
<1>2. d[k] \in Entry /\ d[k].type = "list"
  BY <1>1, LookupType DEF HasList
<1> QED BY <1>1, <1>2, EntryFacts

LEMMA PopCountFacts ==
  ASSUME NEW d \in Data, NEW t, NEW k \in Keys, NEW n \in Int, n >= 0, HasList(d, t, k)
  PROVE  PopCount(d, t, k, n) \in 0..Len(d[k].val)
BY HasListFacts DEF PopCount, MinOf

LEMMA SubSeqFacts ==
    ASSUME NEW S, NEW s, NEW m \in Int, NEW n \in Int, \A i \in m..n : s[i] \in S
    PROVE  /\ SubSeq(s, m, n) \in Seq(S)
           /\ Len(SubSeq(s, m, n)) = IF m <= n THEN n - m + 1 ELSE 0
           /\ \A i \in 1..(n - m + 1) : SubSeq(s, m, n)[i] = s[m + i - 1]
  OBVIOUS

\* What a pop leaves, or takes, is a sequence of the same kind.
LEMMA SubSeqType ==
  ASSUME NEW T, NEW q \in Seq(T), NEW m \in Nat, NEW n \in Nat, m >= 1, n <= Len(q)
  PROVE  SubSeq(q, m, n) \in Seq(T)
<1>1. \A i \in m..n : i \in 1..Len(q)
  OBVIOUS
<1>2. \A i \in m..n : q[i] \in T
  BY <1>1
<1> QED BY <1>2, SubSeqFacts

LEMMA PopOK ==
  ASSUME NEW d \in Data, NEW t \in Nat, NEW k \in Keys, NEW n \in Int, n >= 0, NEW r
  PROVE  /\ EffectOK(d, t, Effect(lpop(d, t, k, n), <<k>>, r))
         /\ EffectOK(d, t, Effect(rpop(d, t, k, n), <<k>>, r))
<1>1. CASE HasList(d, t, k)
  <2> DEFINE q == d[k].val
             c == PopCount(d, t, k, n)
             L(s) == [type |-> "list", val |-> s, expiry |-> d[k].expiry]
  <2>1. q \in Seq(Str) /\ c \in 0..Len(q) /\ d[k].type = "list" /\ d[k].expiry \in Expiries
    BY <1>1, HasListFacts, PopCountFacts
  <2>len. Len(q) \in Nat /\ c + 1 \in Nat /\ c + 1 >= 1 /\ Len(q) - c \in Nat /\ Len(q) - c <= Len(q)
    <3> HIDE DEF q, c
    <3> QED BY <2>1
  <2>2. SubSeq(q, c + 1, Len(q)) \in Seq(Str) /\ SubSeq(q, 1, Len(q) - c) \in Seq(Str)
    <3> HIDE DEF q, c
    <3> QED BY <2>1, <2>len, SubSeqType
  <2>3. L(SubSeq(q, c + 1, Len(q))) \in Entry /\ L(SubSeq(q, 1, Len(q) - c)) \in Entry
    BY <2>1, <2>2, EntryForms
  <2>4. lpop(d, t, k, n) = PutVal(d, k, SubSeq(q, c + 1, Len(q)))
    BY <1>1 DEF lpop, PutVal
  <2>5. rpop(d, t, k, n) = PutVal(d, k, SubSeq(q, 1, Len(q) - c))
    BY <1>1 DEF rpop, PutVal
  <2>6. \A s : PutVal(d, k, s) = Put(d, k, L(s))
    BY <2>1, ValuePut
  <2>7. Sound(d) => \A s : SoundEntry(L(s))
    BY <2>1 DEF Sound, SoundEntry
  <2> HIDE DEF q, c, L
  <2> QED BY <2>3, <2>4, <2>5, <2>6, <2>7, PutOK
<1>2. CASE ~HasList(d, t, k)
  <2>1. Evict(d, t, k) = Put(d, k, find_valid_entry(d, t, k))
    BY DEF Evict, Put
  <2>2. EffectOK(d, t, Effect(Evict(d, t, k), <<k>>, r))
    BY <2>1, LookupType, LookupSound, PutOK
  <2> QED BY <1>2, <2>2 DEF lpop, rpop
<1> QED BY <1>1, <1>2

LEMMA LpopRpopOK ==
  ASSUME NEW d \in Data, NEW t \in Nat, NEW k \in Keys, NEW count \in Int64 \cup {NoCount, BadCount}
  PROVE  /\ EffectOK(d, t, handle_lpop(d, t, k, count))
         /\ EffectOK(d, t, handle_rpop(d, t, k, count))
<1>1. CASE count = NoCount
  BY <1>1, PopOK DEF handle_lpop, handle_rpop
<1>2. CASE count # NoCount /\ count = BadCount
  BY <1>2, UnchangedOK DEF handle_lpop, handle_rpop
<1>3. CASE count \notin {NoCount, BadCount} /\ count <= 0
  BY <1>3, UnchangedOK DEF handle_lpop, handle_rpop
<1>4. CASE count \notin {NoCount, BadCount} /\ ~(count <= 0)
  <2>1. count \in Int /\ count >= 0
    BY <1>4, StoreAssumption DEF Int64
  <2> QED BY <1>4, <2>1, PopOK DEF handle_lpop, handle_rpop
<1> QED BY <1>1, <1>2, <1>3, <1>4

----------------------------------------------------------------------------
(* Streams.                                                                *)

LEMMA StreamOfType ==
  ASSUME NEW d \in Data, NEW t, NEW k \in Keys
  PROVE  StreamOf(d, t, k) \in Seq(StreamIds)
<1>1. find_valid_entry(d, t, k) \in Entry /\ <<>> \in Seq(StreamIds)
  BY LookupType
<1> QED BY <1>1, EntryFacts DEF StreamOf

LEMMA StreamPutForm ==
  ASSUME NEW d \in Data, NEW t, NEW k \in Keys, NEW s \in Seq(StreamIds)
  PROVE  \E e \in Entry : /\ e.type = "stream" /\ e.val = s
                          /\ e.expiry = find_valid_entry(d, t, k).expiry
                          /\ StreamPut(d, t, k, s) = Put(d, k, e)
<1> DEFINE e == [type |-> "stream", val |-> s, expiry |-> find_valid_entry(d, t, k).expiry]
<1>1. e \in Entry
  BY TypedPut, EntryForms
<1>2. [get_or_create_typed(d, t, k, "stream") EXCEPT !.val = s] = e
  BY TypedPut
<1>3. StreamPut(d, t, k, s) = Put(d, k, [get_or_create_typed(d, t, k, "stream") EXCEPT !.val = s])
  BY DEF StreamPut, Put
<1> QED BY <1>1, <1>2, <1>3

\* The id XADD makes is a pair of 64-bit numbers, wrap-around included.
LEMMA Next64Type ==
  ASSUME NEW n \in Int64
  PROVE  Next64(n) \in Int64
BY StoreAssumption DEF Next64, Int64

LEMMA AutoSequenceType ==
  ASSUME NEW s \in Seq(StreamIds), NEW ts \in Int64, NEW first \in Int64
  PROVE  AutoSequence(s, ts, first) \in Int64
<1>1. CASE s # <<>>
  <2>1. s[Len(s)] \in StreamIds
    BY <1>1
  <2>2. Next64(s[Len(s)][2]) \in Int64
    BY <2>1, Next64Type DEF StreamIds
  <2> QED BY <2>2 DEF AutoSequence
<1> QED BY <1>1 DEF AutoSequence

LEMMA XaddIdType ==
  ASSUME NEW s \in Seq(StreamIds), NEW w \in Int64, NEW id \in XaddIds
  PROVE  XaddId(s, w, id) \in StreamIds
<1>1. 0 \in Int64 /\ 1 \in Int64 /\ 0..MaxInt \subseteq Int64
  BY StoreAssumption DEF Int64
<1>2. CASE id.form = "auto"
  BY <1>1, <1>2, AutoSequenceType DEF XaddId, StreamIds
<1>3. CASE id.form = "autoseq"
  <2>1. id.ts \in Int64
    BY <1>1, <1>3 DEF XaddIds
  <2>2. AutoSequence(s, id.ts, IF id.ts = 0 THEN 1 ELSE 0) \in Int64
    BY <1>1, <2>1, AutoSequenceType
  <2> QED BY <1>3, <2>1, <2>2 DEF XaddId, StreamIds
<1>4. CASE id.form = "explicit"
  <2>1. id.ts \in Int64 /\ id.seq \in Int64
    BY <1>1, <1>4 DEF XaddIds
  <2> QED BY <1>4, <2>1 DEF XaddId, StreamIds
<1>5. CASE id.form = "bad"
  BY <1>1, <1>5 DEF XaddId, ZeroId, StreamIds
<1> QED BY <1>2, <1>3, <1>4, <1>5 DEF XaddIds

\* An id that XADD accepts goes at the end of the stream.
LEMMA LessTrans ==
  ASSUME NEW a \in StreamIds, NEW b \in StreamIds, NEW c \in StreamIds, Less(a, b), Less(b, c)
  PROVE  Less(a, c)
BY StoreAssumption DEF StreamIds, Int64, Less

LEMMA AppendAscends ==
  ASSUME NEW s \in Seq(StreamIds), NEW sid \in StreamIds, Ascends(s),
         s # <<>> => Less(s[Len(s)], sid)
  PROVE  Ascends(Append(s, sid))
<1> DEFINE a == Append(s, sid)
<1>1. Len(a) = Len(s) + 1 /\ a[Len(s) + 1] = sid /\ \A i \in 1..Len(s) : a[i] = s[i] /\ s[i] \in StreamIds
  OBVIOUS
<1>2. ASSUME NEW i \in 1..Len(a), NEW j \in 1..Len(a), i < j PROVE Less(a[i], a[j])
  <2>1. CASE j <= Len(s)
    BY <1>1, <1>2, <2>1 DEF Ascends
  <2>2. CASE j = Len(s) + 1
    <3>1. i \in 1..Len(s) /\ s # <<>> /\ Len(s) \in 1..Len(s)
      BY <1>2, <2>2
    <3>2. i = Len(s) \/ Less(s[i], s[Len(s)])
      BY <3>1 DEF Ascends
    <3>3. Less(s[i], sid)
      BY <1>1, <3>1, <3>2, LessTrans
    <3> QED BY <1>1, <2>2, <3>1, <3>3
  <2> QED BY <1>1, <2>1, <2>2
<1> QED BY <1>2 DEF Ascends

LEMMA StreamOfAscends ==
  ASSUME NEW d, NEW t, NEW k \in Keys, Sound(d)
  PROVE  Ascends(StreamOf(d, t, k))
BY LookupSound DEF StreamOf, SoundEntry, Ascends

LEMMA XaddOK ==
  ASSUME NEW d \in Data, NEW t \in Nat, NEW w \in Int64, NEW k \in Keys, NEW id \in XaddIds
  PROVE  EffectOK(d, t, handle_xadd(d, t, w, k, id))
<1> DEFINE s == StreamOf(d, t, k)
           sid == XaddId(s, w, id)
<1>1. s \in Seq(StreamIds)
  BY StreamOfType
<1>2. sid \in StreamIds
  BY <1>1, XaddIdType
<1>3. Append(s, sid) \in Seq(StreamIds)
  BY <1>1, <1>2
<1>4. ASSUME NEW q \in Seq(StreamIds), Sound(d) => Ascends(q), holds_or_absent(d, t, k, "stream"), NEW r
      PROVE  EffectOK(d, t, Effect(StreamPut(d, t, k, q), <<k>>, r))
  <2>1. PICK e \in Entry : /\ e.type = "stream" /\ e.val = q
                           /\ e.expiry = find_valid_entry(d, t, k).expiry
                           /\ StreamPut(d, t, k, q) = Put(d, k, e)
    BY StreamPutForm
  <2>2. Sound(d) => SoundEntry(e)
    BY <1>4, <2>1, HeldExpiry DEF SoundEntry
  <2> QED BY <2>1, <2>2, PutOK
<1>asc. Sound(d) => Ascends(s)
  BY StreamOfAscends
<1> HIDE DEF s, sid
<1>app. Sound(d) /\ XaddAccepts(s, sid, id) => Ascends(Append(s, sid))
  BY <1>1, <1>2, <1>asc, AppendAscends DEF XaddAccepts
<1>5. /\ holds_or_absent(d, t, k, "stream") /\ XaddAccepts(s, sid, id) =>
            EffectOK(d, t, Effect(StreamPut(d, t, k, Append(s, sid)), <<k>>, Bulk(sid)))
      /\ holds_or_absent(d, t, k, "stream") => EffectOK(d, t, Effect(StreamPut(d, t, k, s), <<k>>, Err))
      /\ EffectOK(d, t, Unchanged(d, WrongType))
  BY <1>1, <1>3, <1>4, <1>asc, <1>app, UnchangedOK
<1> QED BY <1>5 DEF handle_xadd, s, sid

----------------------------------------------------------------------------
(* The binary searches.  A search is the function from the ranges <<lo, hi>> *)
(* it can be in to the place it ends at, for the set G of the positions that *)
(* it passes over.                                                           *)

Middle(r) == r[1] + (r[2] - r[1]) \div 2
Ranges(n) == (0..n) \X (0..n)
Probe(f, G, r) ==
    IF r[1] < r[2]
    THEN IF Middle(r) + 1 \in G THEN f[<<Middle(r) + 1, r[2]>>] ELSE f[<<r[1], Middle(r)>>]
    ELSE r[1]
IsSearch(f, G, n) == f = [r \in Ranges(n) |-> Probe(f, G, r)]

LEMMA MiddleFacts ==
  ASSUME NEW n \in Nat, NEW r \in Ranges(n), r[1] < r[2]
  PROVE  /\ Middle(r) \in 0..(n - 1) /\ Middle(r) + 1 \in 1..n
         /\ r[1] <= Middle(r) /\ Middle(r) < r[2]
         /\ <<Middle(r) + 1, r[2]>> \in Ranges(n) /\ <<r[1], Middle(r)>> \in Ranges(n)
<1>1. r[1] \in 0..n /\ r[2] \in 0..n
  BY DEF Ranges
<1>2. Middle(r) \in Int /\ r[1] <= Middle(r) /\ Middle(r) < r[2]
  BY <1>1 DEF Middle
<1> QED
  BY <1>1, <1>2 DEF Ranges

LEMMA HalvesSmaller ==
  ASSUME NEW lo \in Int, NEW hi \in Int, NEW mid \in Int, NEW m \in Int,
         lo <= mid, mid < hi, hi - lo <= m + 1
  PROVE  hi - (mid + 1) <= m /\ mid - lo <= m /\ mid + 1 <= hi
OBVIOUS

LEMMA SearchExists ==
  ASSUME NEW n \in Nat, NEW G
  PROVE  \E f : IsSearch(f, G, n)
<1> DEFINE Step(f, r) == Probe(f, G, r)
           Upto(f, m) == \A r \in Ranges(n) : r[2] - r[1] <= m => f[r] = Step(f, r)
           S == {m \in Nat : \E f : f = [r \in Ranges(n) |-> f[r]] /\ Upto(f, m)}
<1>1. 0 \in S
  <2> DEFINE f == [r \in Ranges(n) |-> r[1]]
  <2>1. \A r \in Ranges(n) : r[2] - r[1] <= 0 => ~(r[1] < r[2])
    BY DEF Ranges
  <2>2. Upto(f, 0)
    BY <2>1 DEF Probe
  <2>3. f = [r \in Ranges(n) |-> f[r]]
    OBVIOUS
  <2> HIDE DEF f, Upto
  <2> QED
    BY <2>2, <2>3
<1>2. ASSUME NEW m \in Nat, m \in S PROVE m + 1 \in S
  <2>1. PICK f : f = [r \in Ranges(n) |-> f[r]] /\ Upto(f, m)
    BY <1>2
  <2> DEFINE h == [r \in Ranges(n) |-> IF r[2] - r[1] <= m THEN f[r] ELSE Step(f, r)]
  <2>2. ASSUME NEW r \in Ranges(n), r[2] - r[1] <= m + 1
        PROVE  h[r] = Step(h, r)
    <3>1. h[r] = Step(f, r)
      BY <2>1
    <3>2. CASE ~(r[1] < r[2])
      BY <3>1, <3>2 DEF Probe
    <3>3. CASE r[1] < r[2]
      <4> DEFINE a == <<Middle(r) + 1, r[2]>>
                 b == <<r[1], Middle(r)>>
      <4>1. a \in Ranges(n) /\ b \in Ranges(n)
        BY <3>3, MiddleFacts
      <4>2. a[2] - a[1] <= m /\ b[2] - b[1] <= m
        <5>0. r[1] \in Int /\ r[2] \in Int
          BY DEF Ranges
        <5>1. Middle(r) \in 0..(n - 1) /\ r[1] <= Middle(r) /\ Middle(r) < r[2]
          BY <3>3, MiddleFacts
        <5>2. r[2] - (Middle(r) + 1) <= m /\ Middle(r) - r[1] <= m
          BY <2>2, <5>0, <5>1, HalvesSmaller
        <5>3. a[1] = Middle(r) + 1 /\ a[2] = r[2] /\ b[1] = r[1] /\ b[2] = Middle(r)
          OBVIOUS
        <5> QED
          BY <5>2, <5>3
      <4>3. h[a] = f[a] /\ h[b] = f[b]
        BY <4>1, <4>2
      <4> HIDE DEF h
      <4> QED
        BY <3>1, <4>3 DEF Probe
    <3> QED
      BY <3>2, <3>3
  <2>3. h = [r \in Ranges(n) |-> h[r]]
    OBVIOUS
  <2> HIDE DEF h
  <2>4. Upto(h, m + 1)
    BY <2>2
  <2> HIDE DEF Upto
  <2> QED
    BY <2>3, <2>4
<1> HIDE DEF S
<1>3. n \in S
  BY <1>1, <1>2, SetInduction
<1>4. PICK f : f = [r \in Ranges(n) |-> f[r]] /\ Upto(f, n)
  BY <1>3 DEF S
<1>5. \A r \in Ranges(n) : f[r] = Step(f, r)
  <2>1. \A r \in Ranges(n) : r[2] - r[1] <= n
    BY DEF Ranges
  <2> QED
    BY <1>4, <2>1
<1>6. f = [r \in Ranges(n) |-> Step(f, r)]
  BY <1>4, <1>5
<1> QED
  BY <1>6 DEF IsSearch

\* The place found: the position before it is passed over, the one after is not.
LEMMA SearchFacts ==
  ASSUME NEW n \in Nat, NEW G, NEW f, IsSearch(f, G, n)
  PROVE  LET p == f[<<0, n>>]
         IN  /\ p \in 0..n
             /\ p > 0 => p \in G
             /\ p < n => p + 1 \notin G
<1> DEFINE Found(r) == /\ f[r] \in 0..n /\ r[1] <= f[r] /\ f[r] <= r[2]
                       /\ f[r] > r[1] => f[r] \in G
                       /\ f[r] < r[2] => f[r] + 1 \notin G
           S == {m \in Nat : \A r \in Ranges(n) : r[1] <= r[2] /\ r[2] - r[1] <= m => Found(r)}
<1>1. \A r \in Ranges(n) : /\ r[1] \in 0..n /\ r[2] \in 0..n
                           /\ f[r] = Probe(f, G, r)
  BY DEF IsSearch, Ranges
<1>2. 0 \in S
  <2>1. ASSUME NEW r \in Ranges(n), r[1] <= r[2], r[2] - r[1] <= 0 PROVE Found(r)
    <3>1. r[1] \in 0..n /\ r[2] \in 0..n
      BY <1>1
    <3>2. r[1] = r[2] /\ ~(r[1] < r[2])
      BY <2>1, <3>1
    <3>3. f[r] = r[1]
      BY <1>1, <3>2 DEF Probe
    <3> QED
      BY <3>1, <3>2, <3>3
  <2> QED
    BY <2>1
<1>3. ASSUME NEW m \in Nat, m \in S PROVE m + 1 \in S
  <2>1. ASSUME NEW r \in Ranges(n), r[1] <= r[2], r[2] - r[1] <= m + 1 PROVE Found(r)
    <3> DEFINE a == <<Middle(r) + 1, r[2]>>
               b == <<r[1], Middle(r)>>
    <3>1. r[1] \in 0..n /\ r[2] \in 0..n
      BY <1>1
    <3>2. CASE ~(r[1] < r[2])
      <4>1. r[1] = r[2]
        BY <2>1, <3>1, <3>2
      <4>2. f[r] = r[1]
        BY <1>1, <3>2 DEF Probe
      <4> QED
        BY <3>1, <4>1, <4>2
    <3>3. CASE r[1] < r[2]
      <4>1. /\ Middle(r) \in 0..(n - 1) /\ r[1] <= Middle(r) /\ Middle(r) < r[2]
            /\ a \in Ranges(n) /\ b \in Ranges(n)
        BY <3>3, MiddleFacts
      <4>2. a[1] = Middle(r) + 1 /\ a[2] = r[2] /\ b[1] = r[1] /\ b[2] = Middle(r)
        OBVIOUS
      <4>3. f[r] = IF Middle(r) + 1 \in G THEN f[a] ELSE f[b]
        BY <1>1, <3>3 DEF Probe
      <4> HIDE DEF a, b
      <4>4. a[1] <= a[2] /\ a[2] - a[1] <= m /\ b[1] <= b[2] /\ b[2] - b[1] <= m
        <5>1. r[1] \in Int /\ r[2] \in Int /\ Middle(r) \in Int
          BY <3>1, <4>1
        <5>2. r[2] - (Middle(r) + 1) <= m /\ Middle(r) - r[1] <= m /\ Middle(r) + 1 <= r[2]
          BY <2>1, <4>1, <5>1, HalvesSmaller
        <5> QED
          BY <4>1, <4>2, <5>2
      <4>5. Found(a) /\ Found(b)
        BY <1>3, <4>1, <4>4
      <4>6. CASE Middle(r) + 1 \in G
        <5>1. f[r] = f[a]
          BY <4>3, <4>6
        <5>2. f[a] = Middle(r) + 1 \/ f[a] > Middle(r) + 1
          BY <4>1, <4>2, <4>5
        <5>3. f[a] \in G
          BY <4>2, <4>5, <4>6, <5>2
        <5> QED
          BY <3>1, <4>1, <4>2, <4>5, <5>1, <5>2, <5>3
      <4>7. CASE Middle(r) + 1 \notin G
        <5>1. f[r] = f[b]
          BY <4>3, <4>7
        <5>2. f[b] = Middle(r) \/ f[b] < Middle(r)
          BY <4>1, <4>2, <4>5
        <5>3. f[b] + 1 \notin G
          BY <4>2, <4>5, <4>7, <5>2
        <5> QED
          BY <3>1, <4>1, <4>2, <4>5, <5>1, <5>2, <5>3
      <4> QED
        BY <4>6, <4>7
    <3> QED
      BY <3>1, <3>2, <3>3
  <2> QED
    BY <2>1
<1> HIDE DEF S
<1>4. n \in S
  BY <1>2, <1>3, SetInduction
<1>5. <<0, n>> \in Ranges(n) /\ <<0, n>>[1] = 0 /\ <<0, n>>[2] = n
  BY DEF Ranges
<1>6. Found(<<0, n>>)
  <2> HIDE DEF Found
  <2>1. \A r \in Ranges(n) : r[1] <= r[2] /\ r[2] - r[1] <= n => Found(r)
    BY <1>4 DEF S
  <2> QED
    BY <1>5, <2>1
<1> QED
  BY <1>5, <1>6

\* The searches of the source are searches of this kind.
LowerSet(s, target) == {i \in 1..Len(s) : Less(s[i], target)}
UpperSet(s, target) == {i \in 1..Len(s) : ~Less(target, s[i])}

LEMMA LowerSearch ==
  ASSUME NEW s \in Seq(StreamIds), NEW target
  PROVE  \E f : IsSearch(f, LowerSet(s, target), Len(s)) /\ lower_bound(s, target) = f[<<0, Len(s)>>]
<1> DEFINE n == Len(s)
           G == LowerSet(s, target)
           LB(f, r) == IF r[1] < r[2]
                         THEN IF Less(s[Middle(r) + 1], target) THEN f[<<Middle(r) + 1, r[2]>>]
                              ELSE f[<<r[1], Middle(r)>>]
                         ELSE r[1]
           f == CHOOSE x : x = [r \in Ranges(n) |-> LB(x, r)]
<1>1. n \in Nat /\ \E x : IsSearch(x, G, n)
  <2>1. n \in Nat
    OBVIOUS
  <2> HIDE DEF n, G
  <2> QED BY <2>1, SearchExists
<1>2. ASSUME NEW x PROVE [r \in Ranges(n) |-> LB(x, r)] = [r \in Ranges(n) |-> Probe(x, G, r)]
  <2>1. ASSUME NEW r \in Ranges(n) PROVE LB(x, r) = Probe(x, G, r)
    <3>1. CASE r[1] < r[2]
      <4>1. Middle(r) + 1 \in 1..n
        BY <1>1, <3>1, MiddleFacts
      <4>2. Middle(r) + 1 \in G <=> Less(s[Middle(r) + 1], target)
        BY <4>1 DEF LowerSet
      <4> QED BY <3>1, <4>2 DEF Probe
    <3>2. CASE ~(r[1] < r[2])
      BY <3>2 DEF Probe
    <3> QED BY <3>1, <3>2
  <2> HIDE DEF LB
  <2> QED BY <2>1
<1>3. f = [r \in Ranges(n) |-> LB(f, r)]
  <2> HIDE DEF LB, G
  <2>1. PICK x : IsSearch(x, G, n)
    BY <1>1
  <2>2. x = [r \in Ranges(n) |-> LB(x, r)]
    BY <1>2, <2>1 DEF IsSearch
  <2> QED BY <2>2
<1>4. IsSearch(f, G, n)
  <2> HIDE DEF LB, G, f
  <2> QED BY <1>2, <1>3 DEF IsSearch
<1>5. lower_bound(s, target) = f[<<0, n>>]
  BY DEF lower_bound, Ranges, Middle
<1> HIDE DEF f
<1> QED BY <1>4, <1>5

LEMMA UpperSearch ==
  ASSUME NEW s \in Seq(StreamIds), NEW target
  PROVE  \E f : IsSearch(f, UpperSet(s, target), Len(s)) /\ upper_bound(s, target) = f[<<0, Len(s)>>]
<1> DEFINE n == Len(s)
           G == UpperSet(s, target)
           LB(f, r) == IF r[1] < r[2]
                         THEN IF ~Less(target, s[Middle(r) + 1]) THEN f[<<Middle(r) + 1, r[2]>>]
                              ELSE f[<<r[1], Middle(r)>>]
                         ELSE r[1]
           f == CHOOSE x : x = [r \in Ranges(n) |-> LB(x, r)]
<1>1. n \in Nat /\ \E x : IsSearch(x, G, n)
  <2>1. n \in Nat
    OBVIOUS
  <2> HIDE DEF n, G
  <2> QED BY <2>1, SearchExists
<1>2. ASSUME NEW x PROVE [r \in Ranges(n) |-> LB(x, r)] = [r \in Ranges(n) |-> Probe(x, G, r)]
  <2>1. ASSUME NEW r \in Ranges(n) PROVE LB(x, r) = Probe(x, G, r)
    <3>1. CASE r[1] < r[2]
      <4>1. Middle(r) + 1 \in 1..n
        BY <1>1, <3>1, MiddleFacts
      <4>2. Middle(r) + 1 \in G <=> ~Less(target, s[Middle(r) + 1])
        BY <4>1 DEF UpperSet
      <4> QED BY <3>1, <4>2 DEF Probe
    <3>2. CASE ~(r[1] < r[2])
      BY <3>2 DEF Probe
    <3> QED BY <3>1, <3>2
  <2> HIDE DEF LB
  <2> QED BY <2>1
<1>3. f = [r \in Ranges(n) |-> LB(f, r)]
  <2> HIDE DEF LB, G
  <2>1. PICK x : IsSearch(x, G, n)
    BY <1>1
  <2>2. x = [r \in Ranges(n) |-> LB(x, r)]
    BY <1>2, <2>1 DEF IsSearch
  <2> QED BY <2>2
<1>4. IsSearch(f, G, n)
  <2> HIDE DEF LB, G, f
  <2> QED BY <1>2, <1>3 DEF IsSearch
<1>5. upper_bound(s, target) = f[<<0, n>>]
  BY DEF upper_bound, Ranges, Middle
<1> HIDE DEF f
<1> QED BY <1>4, <1>5

\* In a stream whose ids ascend the searches find the places they are for.
LEMMA LowerBound ==
  ASSUME NEW s \in Seq(StreamIds), NEW target \in StreamIds, Ascends(s)
  PROVE  /\ lower_bound(s, target) \in 0..Len(s)
         /\ \A i \in 1..Len(s) : Less(s[i], target) <=> i <= lower_bound(s, target)
<1> DEFINE n == Len(s)
           G == LowerSet(s, target)
<1>1. PICK f : IsSearch(f, G, n) /\ lower_bound(s, target) = f[<<0, n>>]
  BY LowerSearch
<1> DEFINE p == f[<<0, n>>]
<1>2. n \in Nat /\ p \in 0..n /\ (p > 0 => p \in G) /\ (p < n => p + 1 \notin G)
  <2> HIDE DEF G
  <2> QED BY <1>1, SearchFacts
<1> HIDE DEF p
<1>3. ASSUME NEW i \in 1..n PROVE Less(s[i], target) <=> i <= p
  <2>1. s[i] \in StreamIds
    OBVIOUS
  <2>2. CASE i <= p
    <3>1. p \in 1..n /\ Less(s[p], target) /\ s[p] \in StreamIds
      BY <1>2, <2>2 DEF LowerSet
    <3>2. i = p \/ Less(s[i], s[p])
      BY <1>2, <2>2, <3>1 DEF Ascends
    <3> QED BY <2>1, <2>2, <3>1, <3>2, LessTrans
  <2>3. CASE ~(i <= p)
    <3>1. p + 1 \in 1..n /\ ~Less(s[p + 1], target) /\ s[p + 1] \in StreamIds
      BY <1>2, <2>3 DEF LowerSet
    <3>2. i = p + 1 \/ Less(s[p + 1], s[i])
      BY <1>2, <2>3, <3>1 DEF Ascends
    <3> QED BY <2>1, <2>3, <3>1, <3>2, LessTrans
  <2> QED BY <2>2, <2>3
<1> QED BY <1>1, <1>2, <1>3 DEF p

LEMMA UpperBound ==
  ASSUME NEW s \in Seq(StreamIds), NEW target \in StreamIds, Ascends(s)
  PROVE  /\ upper_bound(s, target) \in 0..Len(s)
         /\ \A i \in 1..Len(s) : Less(target, s[i]) <=> i > upper_bound(s, target)
<1> DEFINE n == Len(s)
           G == UpperSet(s, target)
<1>1. PICK f : IsSearch(f, G, n) /\ upper_bound(s, target) = f[<<0, n>>]
  BY UpperSearch
<1> DEFINE p == f[<<0, n>>]
<1>2. n \in Nat /\ p \in 0..n /\ (p > 0 => p \in G) /\ (p < n => p + 1 \notin G)
  <2> HIDE DEF G
  <2> QED BY <1>1, SearchFacts
<1> HIDE DEF p
<1>3. ASSUME NEW i \in 1..n PROVE Less(target, s[i]) <=> i > p
  <2>1. s[i] \in StreamIds
    OBVIOUS
  <2>2. CASE i <= p
    <3>1. p \in 1..n /\ ~Less(target, s[p]) /\ s[p] \in StreamIds
      BY <1>2, <2>2 DEF UpperSet
    <3>2. i = p \/ Less(s[i], s[p])
      BY <1>2, <2>2, <3>1 DEF Ascends
    <3> QED BY <1>2, <2>1, <2>2, <3>1, <3>2, LessTrans
  <2>3. CASE ~(i <= p)
    <3>1. p + 1 \in 1..n /\ Less(target, s[p + 1]) /\ s[p + 1] \in StreamIds
      BY <1>2, <2>3 DEF UpperSet
    <3>2. i = p + 1 \/ Less(s[p + 1], s[i])
      BY <1>2, <2>3, <3>1 DEF Ascends
    <3> QED BY <1>2, <2>1, <2>3, <3>1, <3>2, LessTrans
  <2> QED BY <2>2, <2>3
<1> QED BY <1>1, <1>2, <1>3 DEF p

\* A piece of a stream.
LEMMA CutFacts ==
  ASSUME NEW s \in Seq(StreamIds), Ascends(s), NEW l \in 0..Len(s), NEW u \in 0..Len(s)
  PROVE  LET q == SubSeq(s, l + 1, u)
         IN  q \in Seq(StreamIds) /\ Ascends(q) /\ IdsOf(q) = {s[i] : i \in (l + 1)..u}
<1> DEFINE q == SubSeq(s, l + 1, u)
<1>1. l + 1 \in Nat /\ l + 1 >= 1 /\ u \in Nat /\ u <= Len(s)
  OBVIOUS
<1>2. q \in Seq(StreamIds)
  BY <1>1, SubSeqType
<1>3. CASE l + 1 <= u
  <2>1. Len(q) = u - l /\ \A i \in 1..(u - l) : q[i] = s[l + i]
    BY <1>1, <1>3, SubSeqFacts
  <2> HIDE DEF q
  <2>2. \A i \in 1..(u - l) : l + i \in 1..Len(s)
    OBVIOUS
  <2>3. Ascends(q)
    <3>1. ASSUME NEW i \in 1..(u - l), NEW j \in 1..(u - l), i < j PROVE Less(q[i], q[j])
      <4>1. l + i \in 1..Len(s) /\ l + j \in 1..Len(s) /\ l + i < l + j
        BY <2>2, <3>1
      <4>2. Less(s[l + i], s[l + j])
        BY <4>1 DEF Ascends
      <4> QED BY <2>1, <4>2
    <3> QED BY <2>1, <3>1 DEF Ascends
  <2>4. \A i \in (l + 1)..u : i - l \in 1..(u - l) /\ l + (i - l) = i
    OBVIOUS
  <2>5. IdsOf(q) = {s[i] : i \in (l + 1)..u}
    <3>1. ASSUME NEW i \in 1..(u - l) PROVE q[i] \in {s[j] : j \in (l + 1)..u}
      <4>1. l + i \in (l + 1)..u /\ q[i] = s[l + i]
        BY <2>1
      <4> QED BY <4>1
    <3>2. ASSUME NEW i \in (l + 1)..u PROVE s[i] \in {q[j] : j \in 1..(u - l)}
      <4>1. i - l \in 1..(u - l) /\ q[i - l] = s[i]
        BY <2>1, <2>4
      <4> QED BY <4>1
    <3>3. IdsOf(q) = {q[j] : j \in 1..(u - l)}
      BY <2>1 DEF IdsOf
    <3> QED BY <3>1, <3>2, <3>3
  <2> QED BY <1>2, <2>3, <2>5 DEF q
<1>4. CASE ~(l + 1 <= u)
  <2>1. q = <<>>
    BY <1>1, <1>4
  <2>2. Len(<<>>) = 0
    OBVIOUS
  <2> QED BY <1>2, <1>4, <2>1, <2>2 DEF Ascends, IdsOf
<1> QED BY <1>3, <1>4

\* XREAD returns the entries above the id.
LEMMA XreadFacts ==
  ASSUME NEW d \in Data, NEW t, NEW k \in Keys, NEW sid \in StreamIds, Sound(d)
  PROVE  LET s == StreamOf(d, t, k)
             r == xread(d, t, k, sid)
         IN  /\ r \in Seq(StreamIds) /\ Ascends(r)
             /\ \A x : x \in IdsOf(r) <=> x \in IdsOf(s) /\ Less(sid, x)
<1> DEFINE s == StreamOf(d, t, k)
           p == upper_bound(s, sid)
<1>1. s \in Seq(StreamIds) /\ Ascends(s)
  BY StreamOfType, StreamOfAscends
<1>2. xread(d, t, k, sid) = SubSeq(s, p + 1, Len(s))
  BY DEF xread
<1> HIDE DEF s
<1>3. p \in 0..Len(s) /\ \A i \in 1..Len(s) : Less(sid, s[i]) <=> i > p
  BY <1>1, UpperBound
<1>4. Len(s) \in Nat /\ Len(s) \in 0..Len(s)
  BY <1>1
<1> HIDE DEF p
<1> DEFINE q == SubSeq(s, p + 1, Len(s))
<1>5. q \in Seq(StreamIds) /\ Ascends(q) /\ IdsOf(q) = {s[i] : i \in (p + 1)..Len(s)}
  BY <1>1, <1>3, <1>4, CutFacts
<1> HIDE DEF q
<1>6. \A i \in 1..Len(s) : Less(sid, s[i]) <=> i \in (p + 1)..Len(s)
  BY <1>3, <1>4
<1>7. \A i \in (p + 1)..Len(s) : i \in 1..Len(s)
  BY <1>3, <1>4
<1>8. \A x : x \in {s[i] : i \in (p + 1)..Len(s)} <=> x \in IdsOf(s) /\ Less(sid, x)
  BY <1>6, <1>7 DEF IdsOf
<1> QED BY <1>2, <1>5, <1>8 DEF s, q

\* It returns nothing exactly when no entry is above the id.
LEMMA XreadEmpty ==
  ASSUME NEW d \in Data, NEW t, NEW k \in Keys, NEW sid \in StreamIds, Sound(d)
  PROVE  LET s == StreamOf(d, t, k)
         IN  xread(d, t, k, sid) = <<>> <=> \A i \in 1..Len(s) : ~Less(sid, s[i])
<1> DEFINE s == StreamOf(d, t, k)
           r == xread(d, t, k, sid)
<1>1. r \in Seq(StreamIds) /\ \A x : x \in IdsOf(r) <=> x \in IdsOf(s) /\ Less(sid, x)
  BY XreadFacts
<1> HIDE DEF s, r
<1>2. r = <<>> <=> IdsOf(r) = {}
  <2>1. CASE r = <<>>
    <3>1. Len(r) = 0
      BY <2>1
    <3> QED BY <2>1, <3>1 DEF IdsOf
  <2>2. CASE r # <<>>
    <3>1. 1 \in 1..Len(r)
      BY <1>1, <2>2
    <3> QED BY <2>2, <3>1 DEF IdsOf
  <2> QED BY <2>1, <2>2
<1>3. IdsOf(r) = {} <=> \A i \in 1..Len(s) : ~Less(sid, s[i])
  BY <1>1 DEF IdsOf
<1> QED BY <1>2, <1>3 DEF s, r

\* XRANGE returns the entries from the first id to the last.
LEMMA RangeIds ==
  ASSUME NEW id \in ReadIds
  PROVE  ReadThreshold(id) \in StreamIds /\ RangeStart(id) \in StreamIds /\ RangeEnd(id) \in StreamIds
<1>1. 0 \in Int64 /\ -1 \in Int64 /\ MaxInt \in Int64 /\ 0..MaxInt \subseteq Int64
  BY StoreAssumption DEF Int64
<1>2. id.form = "bare" => id.ts \in Int64
  BY <1>1 DEF ReadIds
<1>3. id.form = "explicit" => id.ts \in Int64 /\ id.seq \in Int64
  BY <1>1 DEF ReadIds
<1>4. ReadThreshold(id) \in StreamIds
  BY <1>1, <1>2, <1>3 DEF ReadThreshold, MaxId, ZeroId, StreamIds
<1>5. RangeStart(id) \in StreamIds
  BY <1>1, <1>4 DEF RangeStart, ZeroId, StreamIds
<1>6. RangeEnd(id) \in StreamIds
  BY <1>1, <1>2, <1>3 DEF RangeEnd, MaxId, StreamIds
<1> QED BY <1>4, <1>5, <1>6

LEMMA XrangeFacts ==
  ASSUME NEW d \in Data, NEW t, NEW k \in Keys, NEW lo \in ReadIds, NEW hi \in ReadIds, Sound(d)
  PROVE  LET s == StreamOf(d, t, k)
             r == xrange(d, t, k, lo, hi)
         IN  /\ Ascends(r)
             /\ \A x : x \in IdsOf(r) <=>
                         x \in IdsOf(s) /\ ~Less(x, RangeStart(lo)) /\ ~Less(RangeEnd(hi), x)
<1> DEFINE s == StreamOf(d, t, k)
           from == RangeStart(lo)
           to == RangeEnd(hi)
           l == lower_bound(s, from)
           u == upper_bound(s, to)
           q == SubSeq(s, l + 1, u)
<1>1. s \in Seq(StreamIds) /\ Ascends(s) /\ from \in StreamIds /\ to \in StreamIds
  BY StreamOfType, StreamOfAscends, RangeIds
<1>2. xrange(d, t, k, lo, hi) = q
  BY DEF xrange
<1> HIDE DEF s, from, to
<1>3. /\ l \in 0..Len(s) /\ \A i \in 1..Len(s) : Less(s[i], from) <=> i <= l
      /\ u \in 0..Len(s) /\ \A i \in 1..Len(s) : Less(to, s[i]) <=> i > u
  BY <1>1, LowerBound, UpperBound
<1> HIDE DEF l, u
<1>4. Ascends(q) /\ IdsOf(q) = {s[i] : i \in (l + 1)..u}
  BY <1>1, <1>3, CutFacts
<1> HIDE DEF q
<1>5. \A i \in 1..Len(s) : ~Less(s[i], from) /\ ~Less(to, s[i]) <=> i \in (l + 1)..u
  BY <1>3
<1>6. \A i \in (l + 1)..u : i \in 1..Len(s)
  BY <1>3
<1>7. \A x : x \in {s[i] : i \in (l + 1)..u} <=> x \in IdsOf(s) /\ ~Less(x, from) /\ ~Less(to, x)
  BY <1>5, <1>6 DEF IdsOf
<1> QED BY <1>2, <1>4, <1>7 DEF s, from, to

----------------------------------------------------------------------------
(* Sorted sets.                                                            *)

LEMMA ZsetOfType ==
  ASSUME NEW d \in Data, NEW t, NEW k \in Keys
  PROVE  ZsetOf(d, t, k) \in ZsetVals
<1>1. find_valid_entry(d, t, k) \in Entry
  BY LookupType
<1>2. <<>> \in [{} -> Int64]
  OBVIOUS
<1>3. <<>> \in ZsetVals
  BY <1>2 DEF ZsetVals
<1> QED BY <1>1, <1>3, EntryFacts DEF ZsetOf, get_or_create_typed

LEMMA ZsetPutForm ==
  ASSUME NEW d \in Data, NEW t, NEW k \in Keys, NEW z \in ZsetVals
  PROVE  \E e \in Entry : /\ e.type = "zset" /\ e.val = z
                          /\ e.expiry = find_valid_entry(d, t, k).expiry
                          /\ ZsetPut(d, t, k, z) = Put(d, k, e)
<1> DEFINE e == [type |-> "zset", val |-> z, expiry |-> find_valid_entry(d, t, k).expiry]
<1>1. e \in Entry
  BY TypedPut, EntryForms
<1>2. [get_or_create_typed(d, t, k, "zset") EXCEPT !.val = z] = e
  BY TypedPut
<1>3. ZsetPut(d, t, k, z) = Put(d, k, [get_or_create_typed(d, t, k, "zset") EXCEPT !.val = z])
  BY DEF ZsetPut, Put
<1> QED BY <1>1, <1>2, <1>3

LEMMA AddAllType ==
  ASSUME NEW z \in ZsetVals, NEW ms \in Seq(Members), NEW ss \in Seq(Int64), Len(ms) = Len(ss)
  PROVE  AddAll(z, ms, ss) \in ZsetVals
<1> DEFINE S == DOMAIN z \cup {ms[i] : i \in DOMAIN ms}
           F(m) == IF Positions(ms, m) = {} THEN z[m] ELSE ss[MaxPosition(ms, m)]
<1>1. PICK D \in SUBSET Members : z \in [D -> Int64]
  BY DEF ZsetVals
<1>2. S \in SUBSET Members
  BY <1>1
<1>3. ASSUME NEW m \in S PROVE F(m) \in Int64
  <2>1. CASE Positions(ms, m) = {}
    <3>1. m \in DOMAIN z
      BY <2>1 DEF Positions
    <3> QED BY <1>1, <2>1, <3>1
  <2>2. CASE Positions(ms, m) # {}
    <3>1. MaxPosition(ms, m) \in 1..Len(ss)
      BY <2>2, MaxPositionFact
    <3> QED BY <2>2, <3>1
  <2> QED BY <2>1, <2>2
<1> HIDE DEF S, F
<1>4. [m \in S |-> F(m)] \in [S -> Int64]
  BY <1>3
<1>5. [m \in S |-> F(m)] \in ZsetVals
  BY <1>2, <1>4 DEF ZsetVals
<1> QED BY <1>5 DEF AddAll, S, F

\* ZADD's good prefix exists: everything before the least bad position.
LEMMA GoodPrefixFact ==
  ASSUME NEW ss \in Seq(Int64 \cup {BadScore})
  PROVE  GoodPrefix(ss) \in 0..Len(ss) /\ \A i \in 1..GoodPrefix(ss) : ss[i] # BadScore
<1> DEFINE Good(n) == /\ \A i \in 1..n : ss[i] # BadScore
                      /\ n < Len(ss) => ss[n + 1] = BadScore
           T == {n \in Nat : n = Len(ss) \/ (n < Len(ss) /\ ss[n + 1] = BadScore)}
<1>1. Len(ss) \in T
  OBVIOUS
<1>2. PICK n \in T : \A m \in T : n <= m
  BY <1>1, LeastNatural
<1>3. n \in 0..Len(ss)
  BY <1>1, <1>2
<1>4. Good(n)
  <2>1. ASSUME NEW i \in 1..n, ss[i] = BadScore PROVE FALSE
    <3>1. i - 1 \in T
      BY <1>3, <2>1
    <3> QED BY <1>2, <3>1
  <2> QED BY <1>2, <2>1
<1> HIDE DEF Good
<1>5. \E x \in 0..Len(ss) : Good(x)
  BY <1>3, <1>4
<1>6. GoodPrefix(ss) = CHOOSE x \in 0..Len(ss) : Good(x)
  BY DEF GoodPrefix, Good
<1>7. GoodPrefix(ss) \in 0..Len(ss) /\ Good(GoodPrefix(ss))
  BY <1>5, <1>6
<1> QED BY <1>7 DEF Good

LEMMA ZaddOK ==
  ASSUME NEW d \in Data, NEW t \in Nat, NEW k \in Keys,
         NEW ss \in Seq(Int64 \cup {BadScore}), NEW ms \in Seq(Members), Len(ss) = Len(ms)
  PROVE  EffectOK(d, t, handle_zadd(d, t, k, ss, ms))
<1> DEFINE n == GoodPrefix(ss)
           z == ZsetOf(d, t, k)
           new == AddAll(z, SubSeq(ms, 1, n), SubSeq(ss, 1, n))
<1>1. n \in 0..Len(ss) /\ \A i \in 1..n : ss[i] # BadScore
  BY GoodPrefixFact
<1> HIDE DEF n
<1>2. SubSeq(ms, 1, n) \in Seq(Members) /\ Len(SubSeq(ms, 1, n)) = n
  BY <1>1
<1>3. SubSeq(ss, 1, n) \in Seq(Int64) /\ Len(SubSeq(ss, 1, n)) = n
  <2>1. \A i \in 1..n : ss[i] \in Int64
    BY <1>1
  <2> QED BY <1>1, <2>1
<1>4. new \in ZsetVals
  BY <1>2, <1>3, ZsetOfType, AddAllType
<1> HIDE DEF new, z
<1>5. PICK e \in Entry : /\ e.type = "zset" /\ e.expiry = find_valid_entry(d, t, k).expiry
                         /\ ZsetPut(d, t, k, new) = Put(d, k, e)
  BY <1>4, ZsetPutForm
<1>6. ASSUME n # 0, holds_or_absent(d, t, k, "zset"), NEW r
      PROVE  EffectOK(d, t, Effect(ZsetPut(d, t, k, new), Repeat(k, n), r))
  <2>1. Sound(d) => SoundEntry(e)
    BY <1>5, <1>6, HeldExpiry DEF SoundEntry
  <2> QED BY <1>1, <1>5, <1>6, <2>1, PutManyOK
<1>7. \A r : EffectOK(d, t, Unchanged(d, r))
  BY UnchangedOK
<1> QED BY <1>6, <1>7 DEF handle_zadd, n, z, new

LEMMA GeoaddOK ==
  ASSUME NEW d \in Data, NEW t \in Nat, NEW k \in Keys,
         NEW score \in Int64 \cup {BadScore}, NEW m \in Members
  PROVE  EffectOK(d, t, handle_geoadd(d, t, k, score, m))
<1> DEFINE new == AddAll(ZsetOf(d, t, k), <<m>>, <<score>>)
<1>1. CASE score \in Int64
  <2>1. <<m>> \in Seq(Members) /\ <<score>> \in Seq(Int64) /\ Len(<<m>>) = Len(<<score>>)
    BY <1>1
  <2>2. new \in ZsetVals
    BY <2>1, ZsetOfType, AddAllType
  <2> HIDE DEF new
  <2>3. PICK e \in Entry : /\ e.type = "zset" /\ e.expiry = find_valid_entry(d, t, k).expiry
                           /\ ZsetPut(d, t, k, new) = Put(d, k, e)
    BY <2>2, ZsetPutForm
  <2>4. ASSUME key_is_absent_or_holds(d, t, k, "zset"), NEW r
        PROVE  EffectOK(d, t, Effect(ZsetPut(d, t, k, new), <<k>>, r))
    <3>1. d[k] \in Entry
      BY LookupType
    <3>2. d[k].expiry \in Expiries
      BY <3>1, EntryFacts
    <3>3. holds_or_absent(d, t, k, "zset")
      BY <2>4, <3>2 DEF key_is_absent_or_holds, holds_or_absent, find_valid_entry, is_expired, Absent,
                         Expiries, NoExpiry
    <3>4. Sound(d) => SoundEntry(e)
      BY <2>3, <3>3, HeldExpiry DEF SoundEntry
    <3> QED BY <2>3, <3>4, PutOK
  <2>5. \A r : EffectOK(d, t, Unchanged(d, r))
    BY UnchangedOK
  <2> QED BY <2>4, <2>5 DEF handle_geoadd, new
<1>2. CASE score = BadScore
  BY <1>2, UnchangedOK DEF handle_geoadd
<1> QED BY <1>1, <1>2

LEMMA ZremOK ==
  ASSUME NEW d \in Data, NEW t \in Nat, NEW k \in Keys, NEW m
  PROVE  EffectOK(d, t, handle_zrem(d, t, k, m))
<1> DEFINE z == [x \in DOMAIN d[k].val \ {m} |-> d[k].val[x]]
           e == [type |-> "zset", val |-> z, expiry |-> d[k].expiry]
<1>1. CASE HasZset(d, t, k) /\ m \in DOMAIN d[k].val
  <2>1. d[k] \in Entry /\ d[k].type = "zset"
    BY <1>1, LookupType DEF HasZset, find_valid_entry, Absent
  <2>2. d[k].val \in ZsetVals /\ d[k].expiry \in Expiries
    BY <2>1, EntryFacts
  <2>3. PICK D \in SUBSET Members : d[k].val \in [D -> Int64]
    BY <2>2 DEF ZsetVals
  <2>4. z \in [D \ {m} -> Int64] /\ D \ {m} \in SUBSET Members
    BY <2>3
  <2>5. z \in ZsetVals
    BY <2>4 DEF ZsetVals
  <2> HIDE DEF z
  <2>6. e \in Entry
    BY <2>2, <2>5, EntryForms
  <2>7. PutVal(d, k, z) = Put(d, k, e)
    BY <2>1, ValuePut
  <2>8. handle_zrem(d, t, k, m) = Effect(PutVal(d, k, z), <<k>>, IntReply(1))
    BY <1>1 DEF handle_zrem, PutVal, z
  <2>9. Sound(d) => SoundEntry(e)
    BY <2>1 DEF Sound, SoundEntry
  <2> HIDE DEF e
  <2> QED BY <2>6, <2>7, <2>8, <2>9, PutOK
<1>2. CASE ~(HasZset(d, t, k) /\ m \in DOMAIN d[k].val)
  <2>1. Evict(d, t, k) = Put(d, k, find_valid_entry(d, t, k))
    BY DEF Evict, Put
  <2>2. EffectOK(d, t, Effect(Evict(d, t, k), <<k>>, IntReply(0)))
    BY <2>1, LookupType, LookupSound, PutOK
  <2> QED BY <1>2, <2>2 DEF handle_zrem
<1> QED BY <1>1, <1>2

----------------------------------------------------------------------------
(* Commands that only read.                                                *)

LEMMA ReadsOK ==
  ASSUME NEW d \in Data, NEW t \in Nat, NEW k \in Keys
  PROVE  /\ EffectOK(d, t, handle_get(d, t, k))
         /\ EffectOK(d, t, handle_llen(d, t, k))
         /\ EffectOK(d, t, handle_type(d, t, k))
         /\ EffectOK(d, t, handle_zcard(d, t, k))
         /\ \A a, b : EffectOK(d, t, handle_lrange(d, t, k, a, b))
         /\ \A a, b : EffectOK(d, t, handle_zrange(d, t, k, a, b))
         /\ \A a, b : EffectOK(d, t, handle_xrange(d, t, k, a, b))
         /\ \A a : EffectOK(d, t, handle_xread(d, t, k, a))
         /\ \A m : EffectOK(d, t, handle_zrank(d, t, k, m))
         /\ \A m : EffectOK(d, t, handle_zscore(d, t, k, m))
<1>1. \A r : EffectOK(d, t, Unchanged(Evict(d, t, k), r))
  BY EvictOK
<1>2. /\ EffectOK(d, t, handle_get(d, t, k))
      /\ EffectOK(d, t, handle_llen(d, t, k))
      /\ EffectOK(d, t, handle_type(d, t, k))
      /\ EffectOK(d, t, handle_zcard(d, t, k))
  BY <1>1 DEF handle_get, handle_llen, handle_type, handle_zcard
<1>3. ASSUME NEW a, NEW b
      PROVE  /\ EffectOK(d, t, handle_lrange(d, t, k, a, b))
             /\ EffectOK(d, t, handle_zrange(d, t, k, a, b))
             /\ EffectOK(d, t, handle_xrange(d, t, k, a, b))
             /\ EffectOK(d, t, handle_xread(d, t, k, a))
             /\ EffectOK(d, t, handle_zrank(d, t, k, a))
             /\ EffectOK(d, t, handle_zscore(d, t, k, a))
  BY <1>1 DEF handle_lrange, handle_zrange, handle_xrange, handle_xread, handle_zrank, handle_zscore
<1> QED BY <1>2, <1>3

LEMMA KeysOK ==
  ASSUME NEW d \in Data, NEW t \in Nat
  PROVE  EffectOK(d, t, handle_keys(d, t))
<1> DEFINE f == [k \in Keys |-> find_valid_entry(d, t, k)]
<1>1. f \in Data
  BY LookupType DEF Data
<1>2. \A k \in Keys : SameAt(d, f, t, k)
  BY DEF SameAt, find_valid_entry
<1> HIDE DEF f
<1>3. \A r : EffectOK(d, t, Unchanged(f, r))
  BY <1>1, <1>2, EraseOK
<1> QED BY <1>3 DEF handle_keys, f

----------------------------------------------------------------------------
(* What the live entry of a key has for a client, and how commands change  *)
(* it.                                                                     *)

HasElements(v) == v.type = "list" /\ v.val # <<>>
EntriesIn(v) == IF v.type = "stream" THEN v.val ELSE <<>>

\* Entry w has nothing for a client that v did not have.
Calmer(v, w) ==
    /\ HasElements(w) => HasElements(v)
    /\ v.type = "list" => w.type = "list"
    /\ EntriesIn(w) = EntriesIn(v)

LEMMA CalmerSame ==
  ASSUME NEW v PROVE Calmer(v, v)
BY DEF Calmer

\* Keyspaces d and f differ at k only.
OnlyAt(d, f, k) == \A j \in Keys : j # k => f[j] = d[j]

LEMMA OnlyAtLive ==
  ASSUME NEW d, NEW f, NEW k, OnlyAt(d, f, k), NEW t, NEW j \in Keys, j # k
  PROVE  find_valid_entry(f, t, j) = find_valid_entry(d, t, j)
BY DEF OnlyAt, find_valid_entry

LEMMA OnlyAtPut ==
  ASSUME NEW d \in Data, NEW k \in Keys, NEW e
  PROVE  OnlyAt(d, Put(d, k, e), k) /\ Put(d, k, e)[k] = e
BY DEF OnlyAt, Put, Data

LEMMA PieceLength ==
  ASSUME NEW T, NEW q \in Seq(T), NEW m \in Nat, NEW n \in Nat, m >= 1, n <= Len(q), m <= n + 1
  PROVE  /\ SubSeq(q, m, n) \in Seq(T) /\ Len(SubSeq(q, m, n)) = n - m + 1
         /\ m <= n => SubSeq(q, m, n) # <<>>
<1> DEFINE z == SubSeq(q, m, n)
<1>1. \A i \in m..n : q[i] \in T
  OBVIOUS
<1>2. z \in Seq(T) /\ Len(z) = IF m <= n THEN n - m + 1 ELSE 0
  BY <1>1, SubSeqFacts
<1> HIDE DEF z
<1>3. Len(z) = n - m + 1
  BY <1>2
<1>4. Len(<<>>) = 0
  OBVIOUS
<1>5. m <= n => z # <<>>
  BY <1>3, <1>4
<1> QED BY <1>2, <1>3, <1>5 DEF z

\* lpop takes an element off the list, if there is one.
LEMMA PopLive ==
  ASSUME NEW d \in Data, NEW t \in Nat, NEW k \in Keys
  PROVE  LET f == lpop(d, t, k, 1)
             v == find_valid_entry(d, t, k)
             w == find_valid_entry(f, t, k)
         IN  /\ f \in Data /\ OnlyAt(d, f, k) /\ (Sound(d) => Sound(f))
             /\ w.type = v.type /\ Calmer(v, w)
             /\ HasElements(v) => v.val \in Seq(Str) /\ w.val \in Seq(Str) /\ Len(w.val) = Len(v.val) - 1
<1> DEFINE f == lpop(d, t, k, 1)
           v == find_valid_entry(d, t, k)
           w == find_valid_entry(f, t, k)
<1>1. EffectOK(d, t, Effect(f, <<k>>, Nil))
  BY PopOK
<1>2. f \in Data /\ (Sound(d) => Sound(f))
  BY <1>1, EffectFields DEF EffectOK
<1>3. CASE HasList(d, t, k)
  <2> DEFINE q == d[k].val
             m == MinOf(1, Len(q))
             r == SubSeq(q, m + 1, Len(q))
             e == [type |-> "list", val |-> r, expiry |-> d[k].expiry]
  <2>1. q \in Seq(Str) /\ v = d[k] /\ d[k].type = "list"
    BY <1>3, HasListFacts
  <2>2. f = PutVal(d, k, r)
    BY <1>3 DEF lpop, PutVal, PopCount
  <2> HIDE DEF q, r, m, f
  <2>3. f = Put(d, k, e)
    BY <2>1, <2>2, ValuePut
  <2>4. OnlyAt(d, f, k) /\ f[k] = e
    BY <2>3, OnlyAtPut
  <2>5. ~is_expired(d[k], t)
    BY <1>3, <2>1 DEF HasList, find_valid_entry, Absent
  <2>6. w = e
    BY <2>4, <2>5 DEF find_valid_entry, is_expired
  <2>7. q # <<>> => r \in Seq(Str) /\ Len(r) = Len(q) - 1
    <3>1. SUFFICES ASSUME q # <<>> PROVE r \in Seq(Str) /\ Len(r) = Len(q) - 1
      OBVIOUS
    <3>2. Len(q) \in Nat /\ Len(q) >= 1 /\ m = 1
      BY <2>1, <3>1 DEF MinOf, m
    <3>3. r = SubSeq(q, 2, Len(q))
      BY <3>2 DEF r
    <3>4. /\ q \in Seq(Str) /\ Len(q) \in Nat /\ Len(q) <= Len(q)
          /\ 2 <= Len(q) + 1 /\ Len(q) - 2 + 1 = Len(q) - 1
      BY <2>1, <3>2
    <3>5. SubSeq(q, 2, Len(q)) \in Seq(Str) /\ Len(SubSeq(q, 2, Len(q))) = Len(q) - 2 + 1
      BY <3>4, PieceLength
    <3> QED BY <3>3, <3>4, <3>5
  <2>8. q = <<>> => r = <<>>
    <3>1. ASSUME q = <<>> PROVE r = <<>>
      <4>1. Len(q) = 0 /\ m = 0
        BY <3>1 DEF MinOf, m
      <4> QED BY <2>1, <3>1, <4>1 DEF r
    <3> QED BY <3>1
  <2>9. v.type = "list" /\ w.type = "list" /\ v.val = q /\ w.val = r
    BY <2>1, <2>6 DEF q
  <2> HIDE DEF v, w, e
  <2>10. Calmer(v, w)
    BY <2>8, <2>9 DEF Calmer, HasElements, EntriesIn
  <2> QED BY <1>2, <2>1, <2>4, <2>7, <2>9, <2>10 DEF HasElements, v, w, f
<1>4. CASE ~HasList(d, t, k)
  <2>1. f = Put(d, k, v)
    BY <1>4 DEF lpop, Evict, Put
  <2>2. OnlyAt(d, f, k) /\ f[k] = v
    BY <2>1, OnlyAtPut
  <2>3. w = v
    BY <2>2 DEF find_valid_entry, is_expired, Absent
  <2>4. ~HasElements(v)
    BY <1>4 DEF HasElements, HasList
  <2> HIDE DEF f, v, w
  <2> QED BY <1>2, <2>2, <2>3, <2>4, CalmerSame DEF f, v, w
<1> QED BY <1>3, <1>4

\* rpush and lpush make the list one longer, which is one long if there was none.
LEMMA PushLive ==
  ASSUME NEW d \in Data, Sound(d), NEW t \in Nat, NEW k \in Keys, NEW x \in Str, NEW left \in BOOLEAN,
         holds_or_absent(d, t, k, "list")
  PROVE  LET f == IF left THEN lpush(d, t, k, x) ELSE rpush(d, t, k, x)
             v == find_valid_entry(d, t, k)
             w == find_valid_entry(f, t, k)
         IN  /\ f \in Data /\ OnlyAt(d, f, k) /\ Sound(f)
             /\ w.type = "list" /\ w.val \in Seq(Str)
             /\ ~HasElements(v) => Len(w.val) = 1
<1> DEFINE f == IF left THEN lpush(d, t, k, x) ELSE rpush(d, t, k, x)
           v == find_valid_entry(d, t, k)
           w == find_valid_entry(f, t, k)
           q == ListOf(d, t, k)
           s == IF left THEN <<x>> \o q ELSE Append(q, x)
<1>1. q \in Seq(Str)
  BY ListOfType
<1>2. f = ListPut(d, t, k, s)
  BY DEF lpush, rpush
<1>3. ~HasElements(v) => q = <<>>
  BY DEF HasElements, ListOf, get_or_create_typed
<1> HIDE DEF q
<1>4. s \in Seq(Str) /\ Len(s) = Len(q) + 1
  <2>1. <<x>> \in Seq(Str) /\ Len(<<x>>) = 1
    OBVIOUS
  <2>2. <<x>> \o q \in Seq(Str) /\ Len(<<x>> \o q) = Len(q) + 1
    BY <1>1, <2>1
  <2>3. Append(q, x) \in Seq(Str) /\ Len(Append(q, x)) = Len(q) + 1
    BY <1>1
  <2> QED BY <2>2, <2>3
<1>5. q = <<>> => Len(s) = 1
  <2>1. ASSUME q = <<>> PROVE Len(s) = 1
    <3>1. Len(q) = 0
      BY <2>1
    <3> HIDE DEF s
    <3> QED BY <1>4, <3>1
  <2> QED BY <2>1
<1> HIDE DEF s, f
<1>6. PICK e \in Entry : e.type = "list" /\ e.val = s /\ e.expiry = v.expiry /\ f = Put(d, k, e)
  BY <1>2, <1>4, ListPutForm, ZenonT(30)
<1>7. e.expiry = NoExpiry
  BY <1>6, HeldExpiry
<1>8. SoundEntry(e)
  BY <1>6, <1>7 DEF SoundEntry
<1>9. f \in Data /\ OnlyAt(d, f, k) /\ Sound(f) /\ f[k] = e
  BY <1>6, <1>8, PutType, PutSound, OnlyAtPut
<1>10. w = e
  BY <1>7, <1>9 DEF find_valid_entry, is_expired
<1> HIDE DEF w, v
<1> QED BY <1>3, <1>4, <1>5, <1>6, <1>9, <1>10, Zenon DEF f, v, w

\* SET gives a key that holds a string, or nothing, a string.
LEMMA SetLive ==
  ASSUME NEW d \in Data, NEW t \in Nat, NEW k \in Keys, NEW x \in Str, NEW ttl \in Nat \cup {NoTtl}
  PROVE  LET f == handle_set(d, t, k, x, ttl).data
         IN  /\ f \in Data /\ (Sound(d) => Sound(f))
             /\ \A j \in Keys : Calmer(find_valid_entry(d, t, j), find_valid_entry(f, t, j))
<1> DEFINE f == handle_set(d, t, k, x, ttl).data
           e == StringEntry(x, ExpiryOf(t, ttl))
<1>1. f \in Data /\ (Sound(d) => Sound(f))
  BY SetOK DEF EffectOK
<1>2. CASE holds_or_absent(d, t, k, "string")
  <2>1. f = Put(d, k, e)
    BY <1>2, EffectFields DEF handle_set, set, Put
  <2>2. OnlyAt(d, f, k) /\ f[k] = e
    BY <2>1, OnlyAtPut
  <2> HIDE DEF f
  <2>3. find_valid_entry(f, t, k).type \in {"none", "string"}
    BY <2>2 DEF find_valid_entry, Absent, StringEntry
  <2>4. find_valid_entry(d, t, k).type \in {"none", "string"}
    BY <1>2 DEF holds_or_absent
  <2>5. Calmer(find_valid_entry(d, t, k), find_valid_entry(f, t, k))
    BY <2>3, <2>4 DEF Calmer, HasElements, EntriesIn
  <2>6. \A j \in Keys : Calmer(find_valid_entry(d, t, j), find_valid_entry(f, t, j))
    BY <2>2, <2>5, OnlyAtLive, CalmerSame
  <2> QED BY <1>1, <2>6 DEF f
<1>3. CASE ~holds_or_absent(d, t, k, "string")
  <2>1. f = d
    BY <1>3, EffectFields DEF handle_set, Unchanged
  <2> HIDE DEF f
  <2> QED BY <1>1, <2>1, CalmerSame DEF f
<1> QED BY <1>2, <1>3

\* A lookup erases what has expired.
LEMMA EvictLive ==
  ASSUME NEW d \in Data, NEW t, NEW k \in Keys
  PROVE  LET f == Evict(d, t, k)
         IN  /\ f \in Data /\ (Sound(d) => Sound(f))
             /\ \A j \in Keys : find_valid_entry(f, t, j) = find_valid_entry(d, t, j)
<1> DEFINE f == Evict(d, t, k)
           v == find_valid_entry(d, t, k)
<1>1. f = Put(d, k, v)
  BY DEF Evict, Put
<1>2. f \in Data
  BY EvictType
<1>3. Sound(d) => Sound(f)
  BY <1>1, LookupSound, PutSound
<1>4. OnlyAt(d, f, k) /\ f[k] = v
  BY <1>1, OnlyAtPut
<1> HIDE DEF f
<1>5. find_valid_entry(f, t, k) = v
  BY <1>4 DEF find_valid_entry, is_expired, Absent
<1>6. \A j \in Keys : find_valid_entry(f, t, j) = find_valid_entry(d, t, j)
  BY <1>4, <1>5, OnlyAtLive
<1> QED BY <1>2, <1>3, <1>6 DEF f

\* As time passes only strings disappear.
LEMMA TickLive ==
  ASSUME NEW d \in Data, Sound(d), NEW t \in Nat, NEW k \in Keys
  PROVE  Calmer(find_valid_entry(d, t, k), find_valid_entry(d, t + 1, k))
<1>1. d[k] \in Entry /\ SoundEntry(d[k])
  BY LookupType DEF Sound
<1>2. CASE d[k].type # "string"
  <2>1. ~is_expired(d[k], t) /\ ~is_expired(d[k], t + 1)
    BY <1>1, <1>2 DEF SoundEntry, is_expired
  <2>2. find_valid_entry(d, t, k) = find_valid_entry(d, t + 1, k)
    BY <2>1 DEF find_valid_entry
  <2> QED BY <2>2, CalmerSame
<1>3. CASE d[k].type = "string"
  <2>1. \A u : find_valid_entry(d, u, k).type \in {"none", "string"}
    BY <1>3 DEF find_valid_entry, Absent
  <2> QED BY <2>1 DEF Calmer, HasElements, EntriesIn
<1> QED BY <1>2, <1>3

\* XADD appends an entry to a stream, or leaves it as it is; it makes one where
\* there is nothing.
LEMMA XaddLive ==
  ASSUME NEW d \in Data, Sound(d), NEW t \in Nat, NEW clock \in Int64, NEW k \in Keys, NEW id \in XaddIds
  PROVE  LET e == handle_xadd(d, t, clock, k, id)
             v == find_valid_entry(d, t, k)
             w == find_valid_entry(e.data, t, k)
         IN  /\ e.data \in Data /\ Sound(e.data) /\ OnlyAt(d, e.data, k)
             /\ e.reply[1] = "err" => Calmer(v, w)
             /\ e.reply[1] # "err" => /\ e.reply[2] \in StreamIds /\ EntriesIn(v) \in Seq(StreamIds)
                                      /\ v.type # "list" /\ w.type = "stream"
                                      /\ w.val = Append(EntriesIn(v), e.reply[2])
<1> DEFINE e == handle_xadd(d, t, clock, k, id)
           v == find_valid_entry(d, t, k)
           w == find_valid_entry(e.data, t, k)
           s == StreamOf(d, t, k)
           sid == XaddId(s, clock, id)
<1>1. e.data \in Data /\ Sound(e.data)
  BY XaddOK DEF EffectOK
<1>2. s \in Seq(StreamIds) /\ s = EntriesIn(v) /\ sid \in StreamIds
  BY StreamOfType, XaddIdType, Zenon DEF StreamOf, EntriesIn
<1> DEFINE Holds(f, q) == /\ OnlyAt(d, f, k) /\ v.type # "list"
                          /\ find_valid_entry(f, t, k).type = "stream"
                          /\ find_valid_entry(f, t, k).val = q
<1>3. ASSUME NEW q \in Seq(StreamIds), NEW f, f = StreamPut(d, t, k, q), holds_or_absent(d, t, k, "stream")
      PROVE  Holds(f, q)
  <2>1. PICK x \in Entry : x.type = "stream" /\ x.val = q /\ x.expiry = v.expiry /\ f = Put(d, k, x)
    BY <1>3, StreamPutForm
  <2>2. x.expiry = NoExpiry
    BY <1>3, <2>1, HeldExpiry
  <2>3. OnlyAt(d, f, k) /\ f[k] = x
    BY <2>1, OnlyAtPut
  <2>4. find_valid_entry(f, t, k) = x
    BY <2>2, <2>3 DEF find_valid_entry, is_expired
  <2>5. v.type # "list"
    BY <1>3 DEF holds_or_absent
  <2> QED BY <2>1, <2>3, <2>4, <2>5
<1>4. CASE ~holds_or_absent(d, t, k, "stream")
  <2>1. e.data = d /\ e.reply = WrongType
    BY <1>4, EffectFields DEF handle_xadd, Unchanged
  <2>2. e.reply[1] = "err"
    BY <2>1 DEF WrongType
  <2>3. OnlyAt(d, d, k)
    BY DEF OnlyAt
  <2> HIDE DEF e
  <2> QED BY <1>1, <2>1, <2>2, <2>3, CalmerSame DEF e
<1>5. CASE holds_or_absent(d, t, k, "stream") /\ XaddAccepts(s, sid, id)
  <2>1. e.data = StreamPut(d, t, k, Append(s, sid)) /\ e.reply = Bulk(sid)
    <3>1. e = Effect(StreamPut(d, t, k, Append(s, sid)), <<k>>, Bulk(sid))
      BY <1>5, Zenon DEF handle_xadd
    <3> HIDE DEF e, s, sid
    <3> QED BY <3>1, EffectFields
  <2>2. e.reply[1] # "err" /\ e.reply[2] = sid
    BY <2>1 DEF Bulk
  <2> HIDE DEF e, s, sid, Holds
  <2>3. Append(s, sid) \in Seq(StreamIds)
    BY <1>2
  <2>4. Holds(e.data, Append(s, sid))
    BY <1>3, <1>5, <2>1, <2>3
  <2> HIDE DEF v, w
  <2> QED BY <1>1, <1>2, <2>2, <2>4 DEF e, v, w, Holds
<1>6. CASE holds_or_absent(d, t, k, "stream") /\ ~XaddAccepts(s, sid, id)
  <2>1. e.data = StreamPut(d, t, k, s) /\ e.reply = Err
    <3>1. e = Effect(StreamPut(d, t, k, s), <<k>>, Err)
      BY <1>6, Zenon DEF handle_xadd
    <3> HIDE DEF e, s, sid
    <3> QED BY <3>1, EffectFields
  <2>2. e.reply[1] = "err"
    BY <2>1 DEF Err
  <2> HIDE DEF e, s, sid, Holds
  <2>3. Holds(e.data, s)
    BY <1>2, <1>3, <1>6, <2>1
  <2>4. OnlyAt(d, e.data, k) /\ v.type # "list" /\ w.type = "stream" /\ w.val = s
    BY <2>3 DEF Holds
  <2> HIDE DEF v, w
  <2>5. Calmer(v, w)
    BY <1>2, <2>4 DEF Calmer, HasElements, EntriesIn
  <2> QED BY <1>1, <2>2, <2>4, <2>5 DEF e, v, w
<1> QED BY <1>4, <1>5, <1>6, Zenon

=============================================================================
