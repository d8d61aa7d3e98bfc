--------------------------- MODULE BlockingProofs ---------------------------
(***************************************************************************)
(* Theorems about Blocking, for every set of clients, keys and arguments,  *)
(* with pipelining and with BLPOP inside EXEC: no wakeup is lost, the      *)
(* index of blocked clients never dangles, and the loop never sleeps past  *)
(* a deadline that its timeout, an int, can express.                       *)
(***************************************************************************)
EXTENDS BlockingSteps

----------------------------------------------------------------------------
(* The other operations.                                                   *)

\* An operation that queues nobody, gives the keys nothing new to offer, and
\* takes nodes only from clients it answers.
LEMMA CalmGood ==
  ASSUME NEW t, NEW u, NEW b, Good(b, t), NEW e \in State, Sound(e.data), IndexOK(e),
         \A j \in Keys : Calmer(find_valid_entry(b.data, t, j), find_valid_entry(e.data, u, j)),
         \A c \in Clients : \/ e.awaiting[c].kind = "none"
                            \/ /\ e.awaiting[c] = b.awaiting[c]
                               /\ \A j \in Keys : NodeSet(e.queues[j], c) = NodeSet(b.queues[j], c)
  PROVE  Good(e, u)
<1>1. b \in State /\ b.awaiting \in [Clients -> Requests] /\ \A c \in Clients : Waits(b, t, c)
  BY DEF Good, State
<1>2. ASSUME NEW c \in Clients PROVE Waits(e, u, c)
  <2> DEFINE r == b.awaiting[c]
  <2>1. CASE e.awaiting[c].kind = "none"
    BY <2>1 DEF Waits, Idle
  <2>2. CASE /\ e.awaiting[c] = r /\ r.kind # "none"
             /\ \A j \in Keys : NodeSet(e.queues[j], c) = NodeSet(b.queues[j], c)
    <3> DEFINE v == find_valid_entry(b.data, t, r.key)
               w == find_valid_entry(e.data, u, r.key)
               N == NodeSet(b.queues[r.key], c)
    <3>1. r.key \in Keys
      BY <1>1, <2>2, RequestFacts
    <3>2. NodeSet(e.queues[r.key], c) = N /\ Calmer(v, w)
      BY <2>2, <3>1
    <3>3. Idle(v, N, r)
      BY <1>1 DEF Waits
    <3>4. Idle(w, N, r)
      <4> HIDE DEF v, w, N, r
      <4> QED BY <3>2, <3>3, CalmIdle
    <3> QED BY <2>2, <3>2, <3>4 DEF Waits
  <2> QED BY <2>1, <2>2
<1> QED BY <1>2 DEF Good

LEMMA PopGood ==
  ASSUME NEW t \in Nat, NEW k \in Keys, NEW b, Good(b, t)
  PROVE  LET e == Pop(b, t, k)
         IN  /\ Good(e, t) /\ e.awaiting = b.awaiting
             /\ ~HasElement(b, t, k) => ~HasElements(find_valid_entry(e.data, t, k))
<1> DEFINE e == Pop(b, t, k)
           f == lpop(b.data, t, k, 1)
           v == find_valid_entry(b.data, t, k)
           w == find_valid_entry(f, t, k)
<1>1. b \in State /\ b.data \in Data /\ Sound(b.data) /\ IndexOK(b)
  BY DEF Good, State
<1>2. /\ e \in State /\ e.data = f /\ e.queues = b.queues /\ e.index = b.index /\ e.awaiting = b.awaiting
  BY <1>1, PopFacts
<1>3. OnlyAt(b.data, f, k) /\ Sound(f) /\ Calmer(v, w)
  BY <1>1, PopLive
<1>4. HasElement(b, t, k) <=> HasElements(v)
  BY <1>1, LiveElement
<1> HIDE DEF e, f
<1>5. ASSUME NEW j \in Keys PROVE Calmer(find_valid_entry(b.data, t, j), find_valid_entry(f, t, j))
  <2>1. j # k => find_valid_entry(f, t, j) = find_valid_entry(b.data, t, j)
    BY <1>3, OnlyAtLive
  <2> QED BY <1>3, <2>1, CalmerSame
<1>6. IndexOK(e)
  BY <1>1, <1>2 DEF IndexOK
<1>7. Good(e, t)
  BY <1>2, <1>3, <1>5, <1>6, CalmGood
<1>8. ~HasElement(b, t, k) => ~HasElements(w)
  BY <1>3, <1>4 DEF Calmer
<1> QED BY <1>2, <1>7, <1>8 DEF e

LEMMA SetGood ==
  ASSUME NEW t \in Nat, NEW k \in Keys, NEW b, Good(b, t), NEW ttl \in Nat
  PROVE  Good([b EXCEPT !.data = handle_set(@, t, k, 0, ttl).data], t)
<1> DEFINE f == handle_set(b.data, t, k, 0, ttl).data
           e == [b EXCEPT !.data = f]
<1>1. b \in State /\ b.data \in Data /\ Sound(b.data) /\ IndexOK(b)
  BY DEF Good, State
<1>2. 0 \in Str
  BY StoreAssumption DEF Str, Int64
<1>3. /\ f \in Data /\ Sound(f)
      /\ \A j \in Keys : Calmer(find_valid_entry(b.data, t, j), find_valid_entry(f, t, j))
  BY <1>1, <1>2, SetLive
<1> HIDE DEF f
<1>4. e \in State /\ e.data = f /\ e.queues = b.queues /\ e.index = b.index /\ e.awaiting = b.awaiting
  BY <1>1, <1>3, Zenon DEF State
<1> HIDE DEF e
<1>5. IndexOK(e)
  BY <1>1, <1>4 DEF IndexOK
<1>6. Good(e, t)
  BY <1>3, <1>4, <1>5, CalmGood
<1> QED BY <1>6 DEF e, f

LEMMA EvictGood ==
  ASSUME NEW t, NEW k \in Keys, NEW b, Good(b, t)
  PROVE  LET e == [b EXCEPT !.data = Evict(@, t, k)]
         IN  /\ Good(e, t) /\ e.awaiting = b.awaiting
             /\ find_valid_entry(e.data, t, k) = find_valid_entry(b.data, t, k)
<1> DEFINE f == Evict(b.data, t, k)
           e == [b EXCEPT !.data = f]
<1>1. b \in State /\ b.data \in Data /\ Sound(b.data) /\ IndexOK(b)
  BY DEF Good, State
<1>2. f \in Data /\ Sound(f) /\ \A j \in Keys : find_valid_entry(f, t, j) = find_valid_entry(b.data, t, j)
  BY <1>1, EvictLive
<1> HIDE DEF f
<1>3. e \in State /\ e.data = f /\ e.queues = b.queues /\ e.index = b.index /\ e.awaiting = b.awaiting
  BY <1>1, <1>2, ZenonT(30) DEF State
<1> HIDE DEF e
<1>4. IndexOK(e)
  BY <1>1, <1>3 DEF IndexOK
<1>5. \A j \in Keys : Calmer(find_valid_entry(b.data, t, j), find_valid_entry(f, t, j))
  BY <1>2, CalmerSame
<1>6. Good(e, t)
  BY <1>2, <1>3, <1>4, <1>5, CalmGood
<1> QED BY <1>2, <1>3, <1>6 DEF e, f

LEMMA AppendNodes ==
  ASSUME NEW q \in Seq(BlockedClient), NEW node \in BlockedClient
  PROVE  LET p == Append(q, node)
         IN  /\ p \in Seq(BlockedClient)
             /\ \A c, x : x \in NodeSet(p, c) <=> x \in NodeSet(q, c) \/ (x = node /\ node.fd = c)
<1> DEFINE p == Append(q, node)
           n == Len(q)
<1>1. /\ p \in Seq(BlockedClient) /\ n \in Nat /\ Len(p) = n + 1 /\ p[n + 1] = node
      /\ \A i \in 1..n : p[i] = q[i]
  OBVIOUS
<1> HIDE DEF p
<1>2. 1..(n + 1) = (1..n) \cup {n + 1}
  BY <1>1
<1>3. ASSUME NEW c, NEW x
      PROVE  x \in NodeSet(p, c) <=> x \in NodeSet(q, c) \/ (x = node /\ node.fd = c)
  <2>1. x \in NodeSet(p, c) <=> \E i \in 1..(n + 1) : x = p[i] /\ p[i].fd = c
    BY <1>1, InNodeSet
  <2>2. x \in NodeSet(q, c) <=> \E i \in 1..n : x = q[i] /\ q[i].fd = c
    BY InNodeSet
  <2> HIDE DEF n
  <2> QED BY <1>1, <1>2, <2>1, <2>2
<1> QED BY <1>1, <1>3 DEF p

\* A client is queued: its nodes at k are the ones it had and the new one.
Queued(e, b, c, k, sid, r) ==
    /\ e \in State /\ e.data = b.data
    /\ e.awaiting[c] = r /\ \A a \in Clients : a # c => e.awaiting[a] = b.awaiting[a]
    /\ e.index[c] = k /\ \A a \in Clients : a # c => e.index[a] = b.index[a]
    /\ \A j \in Keys : \A a : NodeSet(b.queues[j], a) \subseteq NodeSet(e.queues[j], a)
    /\ \A j \in Keys : \A a : j # k \/ a # c => NodeSet(e.queues[j], a) = NodeSet(b.queues[j], a)
    /\ \E n \in NodeSet(e.queues[k], c) : n.last_id = sid

LEMMA BlockFacts ==
  ASSUME NEW b \in State, NEW t \in Nat, NEW c \in Clients, NEW k \in Keys, NEW sid \in StreamIds,
         NEW ms \in Int, NEW r \in Requests
  PROVE  Queued(block_client_for_stream(b, t, c, k, sid, ms, r), b, c, k, sid, r)
<1> DEFINE e == block_client_for_stream(b, t, c, k, sid, ms, r)
           node == [fd |-> c, deadline |-> IF ms = 0 THEN Forever ELSE t + ms, last_id |-> sid]
           Q == [b.queues EXCEPT ![k] = Append(@, node)]
           I == [b.index EXCEPT ![c] = k]
           A == [b.awaiting EXCEPT ![c] = r]
           G == [b.got EXCEPT ![c] = NoReply]
<1>1. /\ b.queues \in [Keys -> Seq(BlockedClient)] /\ b.index \in [Clients -> Keys \cup {NoKey}]
      /\ b.awaiting \in [Clients -> Requests] /\ b.got \in [Clients -> Replies]
  BY DEF State
<1>2. node \in BlockedClient /\ node.fd = c /\ node.last_id = sid
  <2>1. (IF ms = 0 THEN Forever ELSE t + ms) \in Int \cup {Forever}
    OBVIOUS
  <2> QED BY <2>1 DEF BlockedClient
<1>3. e = [b EXCEPT !.queues = Q, !.index = I, !.awaiting = A, !.got = G]
  BY DEF block_client_for_stream
<1> HIDE DEF node
<1>4. /\ Append(b.queues[k], node) \in Seq(BlockedClient)
      /\ \A a, x : x \in NodeSet(Append(b.queues[k], node), a) <=>
                     x \in NodeSet(b.queues[k], a) \/ (x = node /\ node.fd = a)
  BY <1>1, <1>2, AppendNodes
<1>5. Q \in [Keys -> Seq(BlockedClient)]
  BY <1>1, <1>4
<1>6. Q[k] = Append(b.queues[k], node) /\ \A j \in Keys : j # k => Q[j] = b.queues[j]
  BY <1>1
<1>7. /\ I \in [Clients -> Keys \cup {NoKey}] /\ I[c] = k
      /\ \A a \in Clients : a # c => I[a] = b.index[a]
  BY <1>1
<1>8. A \in [Clients -> Requests] /\ A[c] = r /\ \A a \in Clients : a # c => A[a] = b.awaiting[a]
  BY <1>1
<1>9. G \in [Clients -> Replies]
  <2>1. <<>> \in Seq(StreamIds) /\ NoRequest \in Requests
    BY DEF Requests
  <2>2. NoReply \in Replies
    <3> HIDE DEF NoRequest, Requests
    <3> QED BY <2>1 DEF NoReply, Reply, Replies
  <2> QED BY <1>1, <2>2
<1> HIDE DEF e, Q, I, A, G
<1>10. e.data = b.data
  BY <1>3 DEF State
<1>11. e.queues = Q
  BY <1>3 DEF State
<1>12. e.index = I
  BY <1>3 DEF State
<1>13. e.awaiting = A
  BY <1>3 DEF State
<1>14. e \in State
  BY <1>3, <1>5, <1>7, <1>8, <1>9, Zenon DEF State
<1>15. \A j \in Keys : \A a : NodeSet(b.queues[j], a) \subseteq NodeSet(Q[j], a)
  BY <1>4, <1>6, Zenon
<1>16. ASSUME NEW j \in Keys, NEW a, j # k \/ a # c PROVE NodeSet(Q[j], a) = NodeSet(b.queues[j], a)
  <2>1. CASE j # k
    BY <1>6, <2>1
  <2>2. CASE j = k /\ a # c
    <3>1. \A x : x \in NodeSet(Q[k], a) <=> x \in NodeSet(b.queues[k], a)
      BY <1>2, <1>4, <1>6, <2>2
    <3> QED BY <2>2, <3>1
  <2> QED BY <1>16, <2>1, <2>2
<1>17. node \in NodeSet(Q[k], c)
  BY <1>2, <1>4, <1>6
<1> QED BY <1>2, <1>7, <1>8, <1>10, <1>11, <1>12, <1>13, <1>14, <1>15, <1>16, <1>17 DEF e, Queued

\* Client c may wait for r with a node more at k.
MayWait(b, t, c, k, sid, r) ==
    \A N : /\ NodeSet(b.queues[r.key], c) \subseteq N
           /\ r.key # k => N = NodeSet(b.queues[r.key], c)
           /\ r.key = k => \E n \in N : n.last_id = sid
           => Idle(find_valid_entry(b.data, t, r.key), N, r)

LEMMA BlockGood ==
  ASSUME NEW b, NEW t \in Nat, Good(b, t), NEW c \in Clients, NEW k \in Keys, NEW sid \in StreamIds,
         NEW ms \in Int, NEW r \in Requests, MayWait(b, t, c, k, sid, r)
  PROVE  Good(block_client_for_stream(b, t, c, k, sid, ms, r), t)
<1> DEFINE e == block_client_for_stream(b, t, c, k, sid, ms, r)
<1>1. b \in State /\ Sound(b.data) /\ IndexOK(b) /\ b.index \in [Clients -> Keys \cup {NoKey}]
  BY DEF Good, State
<1>2. b.awaiting \in [Clients -> Requests] /\ \A a \in Clients : Waits(b, t, a)
  BY DEF Good, State
<1>3. Queued(e, b, c, k, sid, r)
  BY <1>1, BlockFacts, Zenon
<1> HIDE DEF e
<1>4. ASSUME NEW a \in Clients, e.index[a] # NoKey PROVE NodeSet(e.queues[e.index[a]], a) # {}
  <2>1. CASE a = c
    BY <1>3, <2>1 DEF Queued
  <2>2. CASE a # c
    <3>1. e.index[a] = b.index[a] /\ b.index[a] \in Keys
      BY <1>1, <1>3, <1>4, <2>2 DEF Queued
    <3>2. NodeSet(b.queues[b.index[a]], a) # {}
      BY <1>1, <1>4, <3>1 DEF IndexOK
    <3> QED BY <1>3, <3>1, <3>2 DEF Queued
  <2> QED BY <2>1, <2>2
<1>5. ASSUME NEW a \in Clients PROVE Waits(e, t, a)
  <2> DEFINE q == e.awaiting[a]
  <2>1. CASE q.kind = "none"
    BY <2>1 DEF Waits, Idle
  <2>2. CASE q.kind # "none" /\ a # c
    <3>1. q = b.awaiting[a] /\ q.key \in Keys
      BY <1>2, <1>3, <2>2, RequestFacts DEF Queued
    <3>2. NodeSet(e.queues[q.key], a) = NodeSet(b.queues[q.key], a)
      BY <1>3, <2>2, <3>1 DEF Queued
    <3> QED BY <1>2, <1>3, <3>1, <3>2, ZenonT(30) DEF Waits, Queued
  <2>3. CASE q.kind # "none" /\ a = c
    <3> DEFINE N == NodeSet(e.queues[r.key], c)
    <3>1. q = r /\ r.key \in Keys
      BY <1>3, <2>3, RequestFacts DEF Queued
    <3>2. NodeSet(b.queues[r.key], c) \subseteq N
      BY <1>3, <3>1 DEF Queued
    <3>3. r.key # k => N = NodeSet(b.queues[r.key], c)
      BY <1>3, <3>1 DEF Queued
    <3>4. r.key = k => \E n \in N : n.last_id = sid
      BY <1>3 DEF Queued
    <3>5. Idle(find_valid_entry(b.data, t, r.key), N, r)
      <4> HIDE DEF N
      <4> QED BY <3>2, <3>3, <3>4 DEF MayWait
    <3> QED BY <1>3, <2>3, <3>1, <3>5 DEF Waits, Queued
  <2> QED BY <2>1, <2>2, <2>3
<1>6. IndexOK(e)
  BY <1>4 DEF IndexOK
<1>7. Good(e, t)
  BY <1>1, <1>3, <1>5, <1>6 DEF Good, Queued
<1> QED BY <1>7 DEF e

LEMMA ListRequestWaits ==
  ASSUME NEW b, NEW t, NEW c, NEW k, NEW half, ~HasElements(find_valid_entry(b.data, t, k))
  PROVE  MayWait(b, t, c, k, ZeroId, ListRequest(k, half))
<1> DEFINE r == ListRequest(k, half)
<1>1. r.kind = "list" /\ r.key = k
  BY DEF ListRequest
<1> HIDE DEF r
<1>2. \A N : Idle(find_valid_entry(b.data, t, r.key), N, r)
  BY <1>1 DEF Idle
<1> QED BY <1>2 DEF MayWait, r

LEMMA SameRequestWaits ==
  ASSUME NEW b, NEW t, NEW c, Waits(b, t, c), NEW k, NEW sid, ~HasElements(find_valid_entry(b.data, t, k))
  PROVE  MayWait(b, t, c, k, sid, b.awaiting[c])
<1> DEFINE r == b.awaiting[c]
           v == find_valid_entry(b.data, t, r.key)
           M == NodeSet(b.queues[r.key], c)
<1>1. Idle(v, M, r) /\ (r.key = k => ~HasElements(v))
  BY DEF Waits
<1> HIDE DEF v, M
<1>2. ASSUME NEW N, M \subseteq N, r.key # k => N = M PROVE Idle(v, N, r)
  BY <1>1, <1>2 DEF Idle
<1> HIDE DEF r
<1> QED BY <1>2, ZenonT(30) DEF MayWait, r, v, M

LEMMA StreamRequestWaits ==
  ASSUME NEW b, b.data \in Data, Sound(b.data), NEW t, NEW c, NEW k \in Keys, NEW ms,
         NEW above \in StreamIds, NEW sid, ~Less(above, sid), xread(b.data, t, k, above) = <<>>
  PROVE  MayWait(b, t, c, k, sid, StreamRequest(k, above, ms))
<1> DEFINE r == StreamRequest(k, above, ms)
           v == find_valid_entry(b.data, t, k)
           s == EntriesIn(v)
<1>1. r.kind = "stream" /\ r.key = k /\ r.above = above
  BY DEF StreamRequest
<1>2. s = StreamOf(b.data, t, k)
  BY DEF EntriesIn, StreamOf
<1>3. \A i \in 1..Len(s) : ~Less(above, s[i])
  BY <1>2, XreadEmpty
<1> HIDE DEF r, v
<1>4. ASSUME NEW N, \E n \in N : n.last_id = sid PROVE Idle(v, N, r)
  BY <1>1, <1>3, <1>4 DEF Idle
<1> QED BY <1>1, <1>4 DEF MayWait, r, v

----------------------------------------------------------------------------
(* The commands.                                                           *)

LEMMA RequestTypes ==
  ASSUME NEW k \in Keys, NEW half, NEW ms, NEW above \in StreamIds
  PROVE  ListRequest(k, half) \in Requests /\ StreamRequest(k, above, ms) \in Requests
<1>1. ZeroId \in StreamIds
  BY StoreAssumption DEF ZeroId, StreamIds, Int64
<1>2. \A h : Extent(h) \in {"none", "near", "far"}
  BY Zenon DEF Extent
<1> QED BY <1>1, <1>2 DEF ListRequest, StreamRequest, Requests

LEMMA ZeroIdType == ZeroId \in StreamIds
BY StoreAssumption DEF ZeroId, StreamIds, Int64

LEMMA HereFields ==
  /\ Here.data = data /\ Here.queues = queues /\ Here.index = index
  /\ Here.awaiting = awaiting /\ Here.got = got /\ Here.popped = popped
BY DEF Here

LEMMA BecomeGood ==
  ASSUME NEW b, Good(b, now), Become(b), now' = now
  PROVE  Good(Here', now')
<1>1. b \in State
  BY DEF Good
<1>2. b = [data |-> b.data, queues |-> b.queues, index |-> b.index, awaiting |-> b.awaiting,
           got |-> b.got, popped |-> b.popped]
  BY <1>1 DEF State
<1>3. Here' = b
  BY <1>2 DEF Become, Here
<1> QED BY <1>3

LEMMA BlpopGood ==
  ASSUME Good(Here, now), now \in Nat, NEW c \in Clients, NEW k \in Keys, NEW half \in HalfMillis,
         Blpop(c, k, half) \/ BlpopInExec(c, k, half)
  PROVE  Good(Here', now')
<1> DEFINE b == Pop(Here, now, k)
           r == ListRequest(k, half)
           ms == half \div 2
<1>1. now' = now
  BY DEF Blpop, BlpopInExec, Arrives
<1>2. Good(b, now) /\ b.awaiting = awaiting
  BY PopGood, HereFields
<1>3. half \in Nat /\ ms \in Int
  BY BlockingAssumption
<1>4. CASE HasElement(Here, now, k)
  <2>1. Become(b)
    BY <1>4 DEF Blpop, BlpopInExec
  <2> HIDE DEF b
  <2> QED BY <1>1, <1>2, <2>1, BecomeGood
<1>5. CASE ~HasElement(Here, now, k)
  <2>1. ~HasElements(find_valid_entry(b.data, now, k))
    BY <1>5, PopGood
  <2>2. \/ Become(block_client_for_stream(b, now, c, k, ZeroId, ms, r))
        \/ Become(block_client_for_stream(b, now, c, k, ZeroId, ms, awaiting[c]))
    BY <1>5 DEF Blpop, BlpopInExec, BlpopBlocks
  <2> HIDE DEF b, r, ms
  <2>3. Good(block_client_for_stream(b, now, c, k, ZeroId, ms, r), now)
    <3>1. r \in Requests
      BY <1>3, ZeroIdType, RequestTypes, ZenonT(30) DEF r
    <3>2. MayWait(b, now, c, k, ZeroId, r)
      BY <2>1, ListRequestWaits DEF r
    <3> QED BY <1>2, <1>3, <3>1, <3>2, ZeroIdType, BlockGood
  <2>4. Good(block_client_for_stream(b, now, c, k, ZeroId, ms, awaiting[c]), now)
    <3>1. awaiting[c] \in Requests /\ Waits(b, now, c)
      BY <1>2 DEF Good, State
    <3>2. MayWait(b, now, c, k, ZeroId, awaiting[c])
      BY <1>2, <2>1, <3>1, SameRequestWaits
    <3> QED BY <1>2, <1>3, <3>1, <3>2, ZeroIdType, BlockGood
  <2> QED BY <1>1, <2>2, <2>3, <2>4, BecomeGood
<1> QED BY <1>4, <1>5

LEMMA AskedFacts ==
  ASSUME data \in Data, NEW k \in Keys, NEW id \in AskIds
  PROVE  /\ AskedId(k, id) \in StreamIds /\ RegisteredId(k, id) \in StreamIds
         /\ ~Less(AskedId(k, id), RegisteredId(k, id))
<1>1. CASE id = LastId
  <2> DEFINE s == StreamOf(data, now, k)
             m == MaxStreamId(k)
  <2>1. s \in Seq(StreamIds)
    BY StreamOfType
  <2>2. s # <<>> => s[Len(s)] \in StreamIds
    <3> HIDE DEF s
    <3> QED BY <2>1
  <2>3. m \in StreamIds
    BY <2>2, ZeroIdType DEF MaxStreamId
  <2> HIDE DEF m
  <2>4. ~Less(m, m)
    BY <2>3, StoreAssumption DEF Less, StreamIds, Int64
  <2> QED BY <1>1, <2>3, <2>4 DEF AskedId, RegisteredId, m
<1>2. CASE id # LastId
  <2>1. id \in ReadIds /\ id.form \in {"bad", "bare", "explicit"}
    BY <1>2, BlockingAssumption DEF ReadIds
  <2>2. CASE id.form = "bad"
    <3>1. AskedId(k, id) = MaxId /\ RegisteredId(k, id) = ZeroId
      BY <1>2, <2>2 DEF AskedId, RegisteredId, ReadThreshold
    <3>2. MaxId \in StreamIds /\ ~Less(MaxId, ZeroId)
      BY StoreAssumption DEF MaxId, ZeroId, StreamIds, Int64, Less
    <3> QED BY <3>1, <3>2, ZeroIdType
  <2>3. CASE id.form = "bare"
    <3>1. id.ts \in 0..MaxInt
      BY <2>1, <2>3 DEF ReadIds
    <3>2. AskedId(k, id) = <<id.ts, 0>> /\ RegisteredId(k, id) = ZeroId
      BY <1>2, <2>3 DEF AskedId, RegisteredId, ReadThreshold
    <3>3. <<id.ts, 0>> \in StreamIds /\ ~Less(<<id.ts, 0>>, ZeroId)
      BY <3>1, StoreAssumption DEF ZeroId, StreamIds, Int64, Less
    <3> QED BY <3>2, <3>3, ZeroIdType
  <2>4. CASE id.form = "explicit"
    <3>1. id.ts \in 0..MaxInt /\ id.seq \in Int64
      BY <2>1, <2>4 DEF ReadIds
    <3>2. AskedId(k, id) = <<id.ts, id.seq>> /\ RegisteredId(k, id) = <<id.ts, id.seq>>
      BY <1>2, <2>4 DEF AskedId, RegisteredId, ReadThreshold
    <3>3. <<id.ts, id.seq>> \in StreamIds /\ ~Less(<<id.ts, id.seq>>, <<id.ts, id.seq>>)
      BY <3>1, StoreAssumption DEF StreamIds, Int64, Less
    <3> QED BY <3>2, <3>3
  <2> QED BY <2>1, <2>2, <2>3, <2>4
<1> QED BY <1>1, <1>2

LEMMA XreadGood ==
  ASSUME Good(Here, now), now \in Nat, NEW c \in Clients, NEW k \in Keys, NEW id \in AskIds,
         NEW ms \in Millis, XreadBlock(c, k, id, ms)
  PROVE  Good(Here', now')
<1> DEFINE b == [Here EXCEPT !.data = Evict(@, now, k)]
           asked == AskedId(k, id)
           sid == RegisteredId(k, id)
           r == StreamRequest(k, asked, ms)
<1>1. now' = now
  BY DEF XreadBlock, Arrives
<1>2. data \in Data /\ Sound(data)
  BY HereFields DEF Good, State
<1>3. Good(b, now) /\ find_valid_entry(b.data, now, k) = find_valid_entry(data, now, k)
  BY EvictGood, HereFields
<1>4. Become(IF xread(data, now, k, asked) # <<>> THEN b
             ELSE block_client_for_stream(b, now, c, k, sid, ms, r))
  BY DEF XreadBlock
<1>5. asked \in StreamIds /\ sid \in StreamIds /\ ~Less(asked, sid)
  BY <1>2, AskedFacts
<1>6. ms \in Int
  BY BlockingAssumption
<1> HIDE DEF b, asked, sid
<1>7. CASE xread(data, now, k, asked) # <<>>
  BY <1>1, <1>3, <1>4, <1>7, BecomeGood
<1>8. CASE xread(data, now, k, asked) = <<>>
  <2>1. r \in Requests
    BY <1>5, RequestTypes, Zenon
  <2>2. xread(b.data, now, k, asked) = <<>>
    BY <1>3, <1>8 DEF xread, StreamOf
  <2>3. b.data \in Data /\ Sound(b.data)
    BY <1>3 DEF Good, State
  <2>4. MayWait(b, now, c, k, sid, r)
    BY <1>5, <2>2, <2>3, StreamRequestWaits
  <2> HIDE DEF r
  <2>5. Good(block_client_for_stream(b, now, c, k, sid, ms, r), now)
    BY <1>3, <1>5, <1>6, <2>1, <2>4, BlockGood
  <2> QED BY <1>1, <1>4, <1>8, <2>5, BecomeGood
<1> QED BY <1>7, <1>8

LEMMA CommandGood ==
  ASSUME Good(Here, now), now \in Nat, NEW c \in Clients, NEW k \in Keys, Command(c, k)
  PROVE  Good(Here', now')
<1>1. now' = now
  BY Zenon DEF Command, Blpop, BlpopInExec, Rpush, Lpush, handle_push, Lpop, Set, XreadBlock, Xadd, Arrives
<1>2. CASE \E half \in HalfMillis : Blpop(c, k, half) \/ BlpopInExec(c, k, half)
  BY <1>2, BlpopGood
<1>3. ASSUME NEW vs \in Batches, NEW left \in BOOLEAN, handle_push(c, k, vs, left) PROVE Good(Here', now')
  <2>1. vs \in Seq(Str) /\ vs # <<>>
    BY BlockingAssumption
  <2>2. CASE holds_or_absent(data, now, k, "list")
    <3>1. Become(PushAll(Here, now, k, vs, left))
      BY <1>3, <2>2 DEF handle_push
    <3>2. holds_or_absent(Here.data, now, k, "list")
      BY <2>2, HereFields
    <3>3. Good(PushAll(Here, now, k, vs, left), now)
      BY <2>1, <3>2, PushAllGood
    <3> QED BY <1>1, <3>1, <3>3, BecomeGood
  <2>3. CASE ~holds_or_absent(data, now, k, "list")
    <3>1. Become(Here)
      BY <1>3, <2>3 DEF handle_push
    <3> QED BY <1>1, <3>1, BecomeGood
  <2> QED BY <2>2, <2>3
<1>4. CASE \E vs \in Batches : Rpush(c, k, vs) \/ Lpush(c, k, vs)
  BY <1>3, <1>4, Zenon DEF Rpush, Lpush
<1>5. CASE Lpop(c, k)
  <2>1. Become(Pop(Here, now, k))
    BY <1>5 DEF Lpop
  <2>2. Good(Pop(Here, now, k), now)
    BY PopGood
  <2> QED BY <1>1, <2>1, <2>2, BecomeGood
<1>6. ASSUME NEW ttl \in Ttls, Set(c, k, ttl) PROVE Good(Here', now')
  <2> DEFINE b == [Here EXCEPT !.data = handle_set(@, now, k, 0, ttl).data]
  <2>1. Become(b)
    BY <1>6 DEF Set
  <2>2. ttl \in Nat
    BY BlockingAssumption
  <2>3. Good(b, now)
    BY <2>2, SetGood
  <2> HIDE DEF b
  <2> QED BY <1>1, <2>1, <2>3, BecomeGood
<1>7. CASE \E id \in AskIds, ms \in Millis : XreadBlock(c, k, id, ms)
  BY <1>7, XreadGood
<1>8. ASSUME NEW id \in AddIds, Xadd(c, k, id) PROVE Good(Here', now')
  <2> DEFINE e == handle_xadd(data, now, 0, k, id)
             f == [Here EXCEPT !.data = e.data]
             b == IF e.reply[1] = "err" THEN f ELSE WakeAll(f, now, k, e.reply[2])
  <2>1. Become(b)
    BY <1>8 DEF Xadd
  <2>2. id \in XaddIds
    BY BlockingAssumption
  <2>3. Good(b, now)
    BY <2>2, XaddGood, HereFields
  <2> HIDE DEF b
  <2> QED BY <1>1, <2>1, <2>3, BecomeGood
<1> QED BY <1>2, <1>4, <1>5, <1>6, <1>7, <1>8 DEF Command

\* The last node of a client.
LEMMA LastNodeFacts ==
  ASSUME NEW q \in Seq(BlockedClient), NEW c, NodesOf(q, c) # {}
  PROVE  LastNode(q, c) \in 1..Len(q) /\ q[LastNode(q, c)].fd = c
<1> DEFINE n == Len(q)
           S == NodesOf(q, c)
           T == {m \in 0..n : n - m \in S}
<1>1. n \in Nat /\ S \subseteq 1..n
  BY DEF NodesOf
<1>2. T # {}
  <2>1. PICK i \in S : TRUE
    OBVIOUS
  <2>2. n - i \in 0..n /\ n - (n - i) = i
    BY <1>1
  <2>3. n - i \in T
    BY <2>2
  <2> QED BY <2>3
<1>3. PICK m \in T : \A j \in T : m <= j
  <2>1. T \subseteq Nat
    BY <1>1
  <2> HIDE DEF T
  <2> QED BY <1>2, <2>1, LeastNatural, Zenon
<1>4. n - m \in S /\ m \in Nat
  BY <1>1
<1>5. ASSUME NEW j \in S PROVE j <= n - m
  <2>1. n - j \in 0..n /\ n - (n - j) = j
    BY <1>1
  <2>2. n - j \in T
    BY <2>1
  <2>3. m <= n - j
    BY <1>3, <2>2
  <2>4. j \in Nat
    BY <1>1
  <2> QED BY <1>1, <1>4, <2>3, <2>4
<1>6. LastNode(q, c) \in S
  BY <1>4, <1>5 DEF LastNode
<1> QED BY <1>6 DEF NodesOf

LEMMA ReconnectGood ==
  ASSUME Good(Here, now), NEW c \in Clients, Reconnect(c)
  PROVE  Good(Here', now')
<1> DEFINE b == Here
           u == unblock_client(b, c)
           A == [u.awaiting EXCEPT ![c] = NoRequest]
           G == [u.got EXCEPT ![c] = NoReply]
           e == [u EXCEPT !.awaiting = A, !.got = G]
           key == b.index[c]
<1>1. /\ b \in State /\ Sound(b.data) /\ IndexOK(b)
      /\ b.index \in [Clients -> Keys \cup {NoKey}] /\ b.queues \in [Keys -> Seq(BlockedClient)]
  BY DEF Good, State
<1>2. Become(e) /\ now' = now
  BY DEF Reconnect
<1> HIDE DEF b
<1>3. /\ u \in State /\ u.data = b.data /\ u.awaiting = b.awaiting /\ IndexOK(u)
      /\ \A j \in Keys : \A a : a # c => NodeSet(u.queues[j], a) = NodeSet(b.queues[j], a)
  <2>1. CASE key = NoKey
    <3>1. u = b
      BY <2>1 DEF unblock_client
    <3> QED BY <1>1, <3>1
  <2>2. CASE key # NoKey
    <3> DEFINE i == LastNode(b.queues[key], c)
    <3>1. key \in Keys
      BY <1>1, <2>2
    <3>2. b.queues[key] \in Seq(BlockedClient)
      BY <1>1, <3>1
    <3>3. NodesOf(b.queues[key], c) # {}
      BY <1>1, <2>2, NodeSetEmpty DEF IndexOK
    <3>4. i \in 1..Len(b.queues[key]) /\ b.queues[key][i].fd = c
      BY <3>2, <3>3, LastNodeFacts
    <3>5. u = Dequeue(b, key, i)
      BY <2>2 DEF unblock_client
    <3> HIDE DEF i, u, key
    <3> QED BY <1>1, <3>1, <3>4, <3>5, DequeueFacts, ZenonT(30)
  <2> QED BY <2>1, <2>2
<1> HIDE DEF u
<1>4. u.awaiting \in [Clients -> Requests] /\ u.got \in [Clients -> Replies]
  BY <1>3 DEF State
<1>5. A \in [Clients -> Requests] /\ A[c] = NoRequest /\ \A a \in Clients : a # c => A[a] = u.awaiting[a]
  <2>1. NoRequest \in Requests
    BY DEF Requests
  <2> QED BY <1>4, <2>1
<1>6. G \in [Clients -> Replies]
  <2>1. <<>> \in Seq(StreamIds) /\ NoRequest \in Requests
    BY DEF Requests
  <2>2. NoReply \in Replies
    <3> HIDE DEF NoRequest, Requests
    <3> QED BY <2>1 DEF NoReply, Reply, Replies
  <2> QED BY <1>4, <2>2
<1> HIDE DEF A, G
<1>7. e \in State
  BY <1>3, <1>5, <1>6, ZenonT(30) DEF State
<1>8. e.data = u.data
  BY <1>3 DEF State
<1>9. e.queues = u.queues
  BY <1>3 DEF State
<1>10. e.index = u.index
  BY <1>3 DEF State
<1>11. e.awaiting = A
  BY <1>3 DEF State
<1> HIDE DEF e
<1>12. IndexOK(e)
  BY <1>3, <1>9, <1>10 DEF IndexOK
<1>13. \A j \in Keys : Calmer(find_valid_entry(b.data, now, j), find_valid_entry(e.data, now, j))
  BY <1>3, <1>8, CalmerSame
<1>14. ASSUME NEW a \in Clients
       PROVE  \/ e.awaiting[a].kind = "none"
              \/ /\ e.awaiting[a] = b.awaiting[a]
                 /\ \A j \in Keys : NodeSet(e.queues[j], a) = NodeSet(b.queues[j], a)
  <2>1. CASE a = c
    BY <1>5, <1>11, <2>1 DEF NoRequest
  <2>2. CASE a # c
    BY <1>3, <1>5, <1>9, <1>11, <2>2
  <2> QED BY <2>1, <2>2
<1>15. Sound(e.data) /\ Good(b, now)
  BY <1>1, <1>3, <1>8 DEF b
<1>16. Good(e, now)
  BY <1>7, <1>12, <1>13, <1>14, <1>15, CalmGood
<1> QED BY <1>2, <1>16, BecomeGood

----------------------------------------------------------------------------
(* compute_timeout.                                                        *)

Holds(q, x) == \E i \in 1..Len(q) : x = q[i]

IsKept(keep, q) ==
    keep = [n \in 0..Len(q) |-> IF n = 0 THEN <<>>
                                ELSE IF Expired(q[n]) THEN keep[n - 1] ELSE Append(keep[n - 1], q[n])]

LEMMA AppendHolds ==
  ASSUME NEW T, NEW q \in Seq(T), NEW y, NEW x
  PROVE  Holds(Append(q, y), x) <=> Holds(q, x) \/ x = y
<1> DEFINE p == Append(q, y)
           n == Len(q)
<1>1. n \in Nat /\ Len(p) = n + 1 /\ p[n + 1] = y /\ \A i \in 1..n : p[i] = q[i]
  OBVIOUS
<1>2. 1..(n + 1) = (1..n) \cup {n + 1}
  BY <1>1
<1> HIDE DEF p, n
<1>3. Holds(p, x) <=> \E i \in 1..(n + 1) : x = p[i]
  BY <1>1 DEF Holds
<1>4. Holds(q, x) <=> \E i \in 1..n : x = q[i]
  BY DEF Holds, n
<1> QED BY <1>1, <1>2, <1>3, <1>4 DEF p

LEMMA KeptExists ==
  ASSUME NEW q \in Seq(BlockedClient)
  PROVE  \E keep : IsKept(keep, q)
<1> DEFINE n == Len(q)
           S == Seq(BlockedClient)
           step == [i \in 1..n |-> [x \in S |-> IF Expired(q[i]) THEN x ELSE Append(x, q[i])]]
<1>1. n \in Nat /\ \A i \in 1..n : q[i] \in BlockedClient
  OBVIOUS
<1>2. \A i \in 1..n : \A x \in S : step[i][x] = IF Expired(q[i]) THEN x ELSE Append(x, q[i])
  OBVIOUS
<1>3. \A i \in 1..n : \A x \in S : Append(x, q[i]) \in S
  BY <1>1
<1>4. <<>> \in S
  OBVIOUS
<1> HIDE DEF step, S, n
<1>5. \A i \in 1..n : \A x \in S : step[i][x] \in S
  BY <1>2, <1>3
<1>6. PICK f \in [0..n -> S] : Iterates(f, <<>>, step, n)
  BY <1>1, <1>4, <1>5, TableExists, Zenon
<1>7. ASSUME NEW i \in 0..n
      PROVE  f[i] = IF i = 0 THEN <<>> ELSE IF Expired(q[i]) THEN f[i - 1] ELSE Append(f[i - 1], q[i])
  <2>1. f[i] = IF i = 0 THEN <<>> ELSE step[i][f[i - 1]]
    BY <1>6, Zenon DEF Iterates
  <2>2. i # 0 => i \in 1..n /\ i - 1 \in 0..n
    BY <1>1
  <2>3. i # 0 => f[i - 1] \in S
    BY <1>6, <2>2
  <2> QED BY <1>2, <2>1, <2>2, <2>3
<1>8. f = [i \in 0..n |-> f[i]]
  BY <1>6
<1>9. IsKept(f, q)
  BY <1>7, <1>8 DEF IsKept, n
<1> QED BY <1>9

\* A queue keeps the nodes that have not expired, and no other.
LEMMA KeptFacts ==
  ASSUME NEW q \in Seq(BlockedClient)
  PROVE  /\ WithoutExpired(q) \in Seq(BlockedClient)
         /\ \A x : Holds(WithoutExpired(q), x) <=> Holds(q, x) /\ ~Expired(x)
<1> DEFINE n == Len(q)
           S == Seq(BlockedClient)
           keep == CHOOSE f : IsKept(f, q)
           In(i, x) == \E j \in 1..i : x = q[j] /\ ~Expired(x)
<1>1. IsKept(keep, q)
  BY KeptExists
<1>2. WithoutExpired(q) = keep[n]
  BY DEF WithoutExpired, IsKept
<1>3. n \in Nat /\ \A i \in 1..n : q[i] \in BlockedClient
  OBVIOUS
<1> HIDE DEF keep, n
<1>4. \A i \in 0..n :
          keep[i] = IF i = 0 THEN <<>>
                    ELSE IF Expired(q[i]) THEN keep[i - 1] ELSE Append(keep[i - 1], q[i])
  BY <1>1, Zenon DEF IsKept, n
<1> DEFINE T == {i \in 0..n : keep[i] \in S /\ \A x : Holds(keep[i], x) <=> In(i, x)}
<1>5. 0 \in T
  <2>1. 0 \in 0..n /\ keep[0] = <<>>
    BY <1>3, <1>4
  <2>2. <<>> \in S /\ \A x : ~Holds(<<>>, x)
    BY DEF Holds
  <2>3. \A x : ~In(0, x)
    OBVIOUS
  <2> QED BY <2>1, <2>2, <2>3, Zenon
<1>6. ASSUME NEW i \in 1..n, i - 1 \in T PROVE i \in T
  <2> DEFINE p == keep[i - 1]
  <2>1. i \in 0..n /\ i # 0 /\ 1..i = (1..(i - 1)) \cup {i}
    BY <1>3
  <2>2. p \in S /\ \A x : Holds(p, x) <=> In(i - 1, x)
    BY <1>6
  <2>3. keep[i] = IF Expired(q[i]) THEN p ELSE Append(p, q[i])
    BY <1>4, <2>1
  <2>4. \A x : In(i, x) <=> In(i - 1, x) \/ (x = q[i] /\ ~Expired(x))
    BY <2>1
  <2> HIDE DEF p, In
  <2>5. CASE Expired(q[i])
    <3>1. \A x : Holds(keep[i], x) <=> In(i, x)
      BY <2>2, <2>3, <2>4, <2>5
    <3> QED BY <2>1, <2>2, <2>3, <2>5, <3>1
  <2>6. CASE ~Expired(q[i])
    <3>1. \A x : Holds(Append(p, q[i]), x) <=> Holds(p, x) \/ x = q[i]
      BY <2>2, AppendHolds
    <3>2. Append(p, q[i]) \in S
      BY <1>3, <2>2
    <3>3. keep[i] = Append(p, q[i])
      BY <2>3, <2>6
    <3>4. \A x : Holds(keep[i], x) <=> In(i, x)
      BY <2>2, <2>4, <2>6, <3>1, <3>3
    <3> QED BY <2>1, <3>2, <3>3, <3>4, Zenon
  <2> QED BY <2>5, <2>6
<1> HIDE DEF T, S, In
<1>7. 0..n \subseteq T
  BY <1>3, <1>5, <1>6, BoundedInduction, Zenon
<1>8. n \in T
  BY <1>3, <1>7
<1>9. keep[n] \in S /\ \A x : Holds(keep[n], x) <=> In(n, x)
  BY <1>8 DEF T
<1>10. \A x : In(n, x) <=> Holds(q, x) /\ ~Expired(x)
  BY DEF In, Holds, n
<1> QED BY <1>2, <1>9, <1>10 DEF S

LEMMA HeldNode ==
  ASSUME NEW q, NEW c, NEW x
  PROVE  x \in NodeSet(q, c) <=> Holds(q, x) /\ x.fd = c
BY InNodeSet DEF Holds

LEMMA TimeoutGood ==
  ASSUME Good(Here, now), compute_timeout
  PROVE  Good(Here', now')
<1>1. /\ data \in Data /\ queues \in [Keys -> Seq(BlockedClient)] /\ index \in [Clients -> Keys \cup {NoKey}]
      /\ awaiting \in [Clients -> Requests] /\ got \in [Clients -> Replies] /\ popped \in [Keys -> Nat]
  BY HereFields DEF Good, State
<1>2. Sound(data) /\ \A c \in Clients : index[c] # NoKey => NodeSet(queues[index[c]], c) # {}
  BY HereFields DEF Good, IndexOK
<1>3. /\ data' = data /\ now' = now /\ popped' = popped
      /\ queues' = [k \in Keys |-> WithoutExpired(queues[k])]
      /\ index' = [c \in Clients |-> IF c \in TimedOut THEN NoKey ELSE index[c]]
      /\ awaiting' = [c \in Clients |-> IF c \in AnswerNull THEN NoRequest ELSE awaiting[c]]
      /\ got' = [c \in Clients |-> IF c \in AnswerNull THEN Reply("null", <<>>, awaiting[c]) ELSE got[c]]
  BY DEF compute_timeout
<1>4. \A k \in Keys : /\ queues'[k] = WithoutExpired(queues[k]) /\ queues'[k] \in Seq(BlockedClient)
                      /\ \A x : Holds(queues'[k], x) <=> Holds(queues[k], x) /\ ~Expired(x)
  BY <1>1, <1>3, KeptFacts
<1>5. Here' \in State
  <2>1. queues' \in [Keys -> Seq(BlockedClient)]
    BY <1>3, <1>4
  <2>2. index' \in [Clients -> Keys \cup {NoKey}]
    BY <1>1, <1>3
  <2>3. NoRequest \in Requests
    BY DEF Requests
  <2>4. awaiting' \in [Clients -> Requests]
    BY <1>1, <1>3, <2>3
  <2>5. \A c \in Clients : Reply("null", <<>>, awaiting[c]) \in Replies
    <3>1. <<>> \in Seq(StreamIds) /\ \A c \in Clients : awaiting[c] \in Requests
      BY <1>1
    <3> QED BY <3>1 DEF Reply, Replies
  <2>6. got' \in [Clients -> Replies]
    BY <1>1, <1>3, <2>5
  <2>7. data' \in Data /\ popped' \in [Keys -> Nat]
    BY <1>1, <1>3
  <2> QED BY <2>1, <2>2, <2>4, <2>6, <2>7 DEF Here, State
<1>6. ASSUME NEW c \in Clients, c \notin TimedOut, NEW k \in Keys
      PROVE  NodeSet(queues'[k], c) = NodeSet(queues[k], c)
  <2>1. \A x : Holds(queues[k], x) /\ x.fd = c => ~Expired(x)
    BY <1>6 DEF TimedOut, Holds
  <2>2. \A x : x \in NodeSet(queues'[k], c) <=> Holds(queues'[k], x) /\ x.fd = c
    BY HeldNode
  <2>3. \A x : x \in NodeSet(queues[k], c) <=> Holds(queues[k], x) /\ x.fd = c
    BY HeldNode
  <2>4. \A x : Holds(queues'[k], x) <=> Holds(queues[k], x) /\ ~Expired(x)
    BY <1>4
  <2>5. \A x : x \in NodeSet(queues'[k], c) <=> x \in NodeSet(queues[k], c)
    BY <2>1, <2>2, <2>3, <2>4
  <2> QED BY <2>5
<1>7. /\ Here'.data = data' /\ Here'.queues = queues' /\ Here'.index = index' /\ Here'.awaiting = awaiting'
  BY DEF Here
<1>8. IndexOK(Here')
  <2>1. ASSUME NEW c \in Clients, index'[c] # NoKey PROVE NodeSet(queues'[index'[c]], c) # {}
    <3>1. c \notin TimedOut /\ index'[c] = index[c] /\ index[c] \in Keys
      BY <1>1, <1>3, <2>1
    <3>2. NodeSet(queues'[index[c]], c) = NodeSet(queues[index[c]], c)
      BY <1>6, <3>1
    <3> QED BY <1>2, <2>1, <3>1, <3>2
  <2> QED BY <1>7, <2>1 DEF IndexOK
<1>9. ASSUME NEW c \in Clients
      PROVE  \/ awaiting'[c].kind = "none"
             \/ /\ awaiting'[c] = awaiting[c]
                /\ \A k \in Keys : NodeSet(queues'[k], c) = NodeSet(queues[k], c)
  <2>1. CASE c \in AnswerNull
    BY <1>3, <2>1 DEF NoRequest
  <2>2. CASE c \in TimedOut /\ c \notin AnswerNull
    BY <1>3, <2>2 DEF AnswerNull
  <2>3. CASE c \notin TimedOut
    <3>1. c \notin AnswerNull
      BY <2>3 DEF AnswerNull
    <3> QED BY <1>3, <1>6, <2>3, <3>1
  <2> QED BY <2>1, <2>2, <2>3
<1>10. \A j \in Keys : Calmer(find_valid_entry(Here.data, now, j), find_valid_entry(Here'.data, now', j))
  BY <1>3, <1>7, HereFields, CalmerSame
<1>11. \A c \in Clients :
         \/ Here'.awaiting[c].kind = "none"
         \/ /\ Here'.awaiting[c] = Here.awaiting[c]
            /\ \A j \in Keys : NodeSet(Here'.queues[j], c) = NodeSet(Here.queues[j], c)
  BY <1>7, <1>9, HereFields
<1>12. Sound(Here'.data)
  BY <1>2, <1>3, <1>7
<1> QED BY <1>5, <1>8, <1>10, <1>11, <1>12, CalmGood, SMTT(30)

LEMMA DeadlineOf ==
  ASSUME NEW qs, NEW d \in Deadlines(qs)
  PROVE  d # Forever /\ \E k \in Keys : \E i \in 1..Len(qs[k]) : d = qs[k][i].deadline
<1> DEFINE On(k) == {qs[k][i].deadline : i \in 1..Len(qs[k])}
<1>1. d \in UNION {On(k) : k \in Keys} /\ d # Forever
  BY DEF Deadlines
<1>2. PICK k \in Keys : d \in On(k)
  <2> HIDE DEF On
  <2> QED BY <1>1
<1>3. PICK i \in 1..Len(qs[k]) : d = qs[k][i].deadline
  BY <1>2
<1> QED BY <1>1, <1>3

\* The deadline of the queues is the least of theirs.
LEMMA LeastDeadline ==
  ASSUME NEW t \in Int, NEW qs, \A d \in Deadlines(qs) : d \in Int /\ d > t
  PROVE  LET least == get_next_deadline(qs)
         IN  /\ least = Forever \/ (least \in Int /\ least > t)
             /\ \A d \in Deadlines(qs) : least # Forever /\ least <= d
<1> DEFINE finite == Deadlines(qs)
           least == CHOOSE d \in finite : \A e \in finite : d <= e
<1>1. get_next_deadline(qs) = IF finite = {} THEN Forever ELSE least
  BY DEF get_next_deadline
<1>2. \A d \in finite : d \in Int /\ d > t
  OBVIOUS
<1> HIDE DEF finite
<1>3. finite # {} => least \in finite /\ \A e \in finite : least <= e
  <2>1. SUFFICES ASSUME finite # {} PROVE \E d \in finite : \A e \in finite : d <= e
    BY DEF least
  <2> DEFINE T == {d - t : d \in finite}
  <2>2. T \subseteq Nat
    BY <1>2
  <2>3. T # {}
    BY <2>1
  <2>4. PICK m \in T : \A j \in T : m <= j
    <3> HIDE DEF T
    <3> QED BY <2>2, <2>3, LeastNatural, ZenonT(30)
  <2>5. PICK d \in finite : m = d - t
    OBVIOUS
  <2>6. ASSUME NEW e \in finite PROVE d <= e
    <3>1. d - t <= e - t
      BY <2>4, <2>5
    <3>2. d \in Int /\ e \in Int
      BY <1>2
    <3> QED BY <3>1, <3>2
  <2> QED BY <2>6
<1> HIDE DEF least
<1>4. CASE finite = {}
  BY <1>1, <1>4 DEF finite
<1>5. CASE finite # {}
  <2>1. least \in Int /\ least > t /\ get_next_deadline(qs) = least
    BY <1>1, <1>2, <1>3, <1>5
  <2>2. least # Forever
    BY <2>1, EventLoopAssumption
  <2> QED BY <1>3, <1>5, <2>1, <2>2 DEF finite
<1> QED BY <1>4, <1>5

\* An int of milliseconds that fits is kept by static_cast<int>.
LEMMA FitsInt == ASSUME NEW ms \in 0..IntMax PROVE ToInt(ms) = ms
<1>1. \A m, n \in Nat : m < n => m % n = m
  OBVIOUS
<1> QED BY <1>1, EventLoopAssumption DEF ToInt

\* An epoll_wait that begins at t and is to end at d, the least of the deadlines
\* ahead, ends by every deadline x that is not too far off for an int.
LEMMA WakeTimeFacts ==
  ASSUME NEW t \in Nat, NEW d, d = Forever \/ (d \in Int /\ d > t)
  PROVE  /\ WakeTime(d, t) \in Int \cup {Forever}
         /\ \A x \in Int : d # Forever /\ d <= x /\ x - t <= IntMax =>
                WakeTime(d, t) # Forever /\ WakeTime(d, t) <= x
<1>1. TimeoutMs(d, t) = IF d = Forever THEN -1 ELSE d - t
  BY EventLoopAssumption DEF TimeoutMs
<1>2. \A ms \in Int : ToInt(ms) \in Int
  BY EventLoopAssumption DEF ToInt
<1>3. WakeTime(d, t) \in Int \cup {Forever}
  <2>1. TimeoutMs(d, t) \in Int
    BY <1>1
  <2> QED BY <1>2, <2>1 DEF WakeTime, EpollTimeout
<1>4. ASSUME NEW x \in Int, d # Forever, d <= x, x - t <= IntMax
      PROVE  WakeTime(d, t) # Forever /\ WakeTime(d, t) <= x
  <2>1. d \in Int /\ d - t \in 0..IntMax
    BY <1>4, EventLoopAssumption
  <2>2. EpollTimeout(TimeoutMs(d, t)) = d - t
    BY <1>1, <1>4, <2>1, FitsInt DEF EpollTimeout
  <2>3. WakeTime(d, t) = d
    BY <2>1, <2>2 DEF WakeTime
  <2> QED BY <1>4, <2>1, <2>3
<1> QED BY <1>3, <1>4

LEMMA TickGood ==
  ASSUME Good(Here, now), now \in Nat, Tick
  PROVE  Good(Here', now')
<1>1. Here' = Here /\ now' = now + 1
  BY DEF Tick, Here
<1>2. Here \in State /\ Sound(Here.data) /\ IndexOK(Here) /\ Here.data \in Data
  BY DEF Good, State
<1> DEFINE b == Here
<1> HIDE DEF b
<1>3. b \in State /\ Sound(b.data) /\ IndexOK(b) /\ b.data \in Data /\ Good(b, now)
  BY <1>2 DEF b
<1>4. \A j \in Keys : Calmer(find_valid_entry(b.data, now, j), find_valid_entry(b.data, now + 1, j))
  BY <1>3, TickLive
<1>5. Good(b, now + 1)
  BY <1>3, <1>4, CalmGood
<1> QED BY <1>1, <1>5 DEF b

----------------------------------------------------------------------------
(* The invariant.                                                          *)

IInv ==
    /\ Good(Here, now) /\ wait \in Int \cup {Forever}
    /\ now \in Nat /\ sleeping \in BOOLEAN /\ alarm \in Int \cup {Forever} /\ pushed \in [Keys -> Nat]

LEMMA InitIInv == Init => IInv
<1> SUFFICES ASSUME Init PROVE IInv
  OBVIOUS
<1>1. /\ data \in Data /\ queues \in [Keys -> Seq(BlockedClient)] /\ index \in [Clients -> Keys \cup {NoKey}]
      /\ pushed \in [Keys -> Nat] /\ popped \in [Keys -> Nat]
  <2>1. Absent \in Entry
    BY EntryForms
  <2> HIDE DEF Absent
  <2> QED BY <2>1 DEF Init, Data
<1>2. awaiting \in [Clients -> Requests] /\ got \in [Clients -> Replies]
  <2>1. <<>> \in Seq(StreamIds) /\ NoRequest \in Requests
    BY DEF Requests
  <2>2. NoReply \in Replies
    <3> HIDE DEF NoRequest, Requests
    <3> QED BY <2>1 DEF NoReply, Reply, Replies
  <2> QED BY <2>1, <2>2 DEF Init
<1>3. Here \in State
  BY <1>1, <1>2 DEF Here, State
<1>4. Sound(data)
  <2>1. SoundEntry(Absent)
    BY SoundForms
  <2> QED BY <2>1, Zenon DEF Init, Sound
<1>5. IndexOK(Here) /\ \A c \in Clients : Waits(Here, now, c)
  <2>1. \A c \in Clients : index[c] = NoKey /\ awaiting[c].kind = "none"
    BY DEF Init, NoRequest
  <2>2. \A v, N, r : r.kind = "none" => Idle(v, N, r)
    BY DEF Idle
  <2> QED BY <2>1, <2>2, HereFields DEF IndexOK, Waits
<1> QED BY <1>1, <1>3, <1>4, <1>5, HereFields, Zenon DEF Good, IInv, Init

LEMMA CommandKeeps ==
  ASSUME NEW c \in Clients, NEW k \in Keys, Command(c, k), pushed \in [Keys -> Nat]
  PROVE  /\ wait' = wait /\ now' = now /\ sleeping' = FALSE /\ alarm' = Forever
         /\ pushed' \in [Keys -> Nat]
<1>1. wait' = wait /\ now' = now /\ sleeping' = FALSE /\ alarm' = Forever
  BY Zenon DEF Command, Blpop, BlpopInExec, Rpush, Lpush, handle_push, Lpop, Set, XreadBlock, Xadd, Arrives,
         WakeLoop
<1>2. pushed' = pushed \/ \E vs \in Batches : pushed' = [pushed EXCEPT ![k] = @ + Len(vs)]
  BY Zenon DEF Command, Blpop, BlpopInExec, Rpush, Lpush, handle_push, Lpop, Set, XreadBlock, Xadd
<1>3. \A vs \in Batches : Len(vs) \in Nat
  BY BlockingAssumption
<1> QED BY <1>1, <1>2, <1>3

\* compute_timeout leaves no deadline behind that is past, and none that fits
\* an int is slept through.
LEMMA SleepKeeps ==
  ASSUME IInv, compute_timeout
  PROVE  /\ wait' \in Int \cup {Forever} /\ alarm' \in Int \cup {Forever}
         /\ \A d \in Deadlines(queues') \cup ({wait'} \ {Forever}) :
                d - now <= IntMax => alarm' # Forever /\ alarm' <= d
<1> DEFINE least == get_next_deadline(queues')
           next == NextDeadline(least, wait')
<1>1. alarm' = WakeTime(next, now) /\ wait' = check_wait_timeout
  BY DEF compute_timeout
<1>2. now \in Nat /\ wait \in Int \cup {Forever} /\ queues \in [Keys -> Seq(BlockedClient)]
  BY HereFields DEF IInv, Good, State
<1>3. wait' = Forever \/ (wait' \in Int /\ wait' > now)
  BY <1>1, <1>2 DEF check_wait_timeout
<1>4. ASSUME NEW k \in Keys, NEW i \in 1..Len(queues'[k])
      PROVE  \/ queues'[k][i].deadline = Forever
             \/ queues'[k][i].deadline \in Int /\ queues'[k][i].deadline > now
  <2> DEFINE x == queues'[k][i]
  <2>1. queues'[k] = WithoutExpired(queues[k]) /\ queues[k] \in Seq(BlockedClient)
    BY <1>2 DEF compute_timeout
  <2>2. queues'[k] \in Seq(BlockedClient) /\ \A y : Holds(queues'[k], y) => ~Expired(y)
    BY <2>1, KeptFacts
  <2>3. ~Expired(x)
    BY <2>2 DEF Holds
  <2>4. x.deadline \in Int \cup {Forever}
    BY <2>2, NodeFacts
  <2> HIDE DEF x
  <2>5. x.deadline = Forever \/ (x.deadline \in Int /\ x.deadline > now)
    BY <1>2, <2>3, <2>4 DEF Expired
  <2> QED BY <2>5 DEF x
<1>5. ASSUME NEW d \in Deadlines(queues') PROVE d \in Int /\ d > now
  <2>1. d # Forever /\ \E k \in Keys : \E i \in 1..Len(queues'[k]) : d = queues'[k][i].deadline
    BY DeadlineOf, Zenon
  <2> QED BY <1>4, <2>1, Zenon
<1>6. /\ least = Forever \/ (least \in Int /\ least > now)
      /\ \A d \in Deadlines(queues') : least # Forever /\ least <= d
  BY <1>2, <1>5, LeastDeadline
<1> HIDE DEF least
<1>7. /\ next = Forever \/ (next \in Int /\ next > now)
      /\ least # Forever => next # Forever /\ next <= least
      /\ wait' # Forever => next # Forever /\ next <= wait'
  BY <1>3, <1>6 DEF NextDeadline
<1> HIDE DEF next
<1>8. ASSUME NEW d \in Deadlines(queues') \cup ({wait'} \ {Forever}), d - now <= IntMax
      PROVE  alarm' # Forever /\ alarm' <= d
  <2>1. d \in Int /\ next # Forever /\ next <= d
    BY <1>3, <1>5, <1>6, <1>7, <1>8
  <2> QED BY <1>1, <1>2, <1>7, <1>8, <2>1, WakeTimeFacts
<1> QED BY <1>1, <1>2, <1>3, <1>7, <1>8, WakeTimeFacts

LEMMA NextIInv == IInv /\ [Next]_vars => IInv'
<1> SUFFICES ASSUME IInv, [Next]_vars PROVE IInv'
  OBVIOUS
<1>1. /\ Good(Here, now) /\ wait \in Int \cup {Forever}
      /\ now \in Nat /\ sleeping \in BOOLEAN /\ alarm \in Int \cup {Forever} /\ pushed \in [Keys -> Nat]
  BY DEF IInv
<1>2. ASSUME NEW c \in Clients, NEW k \in Keys, Command(c, k) PROVE IInv'
  <2>1. Good(Here', now')
    BY <1>1, <1>2, CommandGood
  <2>2. /\ wait' = wait /\ now' = now /\ sleeping' = FALSE /\ alarm' = Forever
        /\ pushed' \in [Keys -> Nat]
    BY <1>1, <1>2, CommandKeeps, Zenon
  <2> QED BY <1>1, <2>1, <2>2, Zenon DEF IInv
<1>3. ASSUME NEW c \in Clients, Reconnect(c) PROVE IInv'
  <2>1. Good(Here', now')
    BY <1>1, <1>3, ReconnectGood
  <2>2. wait' = wait /\ now' = now /\ sleeping' = FALSE /\ alarm' = Forever /\ pushed' = pushed
    BY <1>3 DEF Reconnect, WakeLoop
  <2> QED BY <1>1, <2>1, <2>2, Zenon DEF IInv
<1>4. CASE compute_timeout
  <2>1. Good(Here', now')
    BY <1>1, <1>4, TimeoutGood
  <2>2. now' = now /\ sleeping' = TRUE /\ pushed' = pushed
    BY <1>4 DEF compute_timeout
  <2>3. wait' \in Int \cup {Forever} /\ alarm' \in Int \cup {Forever}
    BY <1>4, SleepKeeps
  <2> QED BY <1>1, <2>1, <2>2, <2>3, Zenon DEF IInv
<1>5. CASE EpollReturns \/ process_ack \/ \E ms \in WaitMillis : start_wait(ms)
  <2>1. Here' = Here /\ now' = now /\ sleeping' = FALSE /\ alarm' = Forever /\ pushed' = pushed
    BY <1>5 DEF EpollReturns, process_ack, start_wait, WakeLoop, Here
  <2>2. wait' \in Int \cup {Forever}
    BY <1>1, <1>5, BlockingAssumption DEF EpollReturns, process_ack, start_wait
  <2> QED BY <1>1, <2>1, <2>2, Zenon DEF IInv
<1>6. CASE Tick
  <2>1. Good(Here', now')
    BY <1>1, <1>6, TickGood
  <2>2. now' = now + 1 /\ wait' = wait /\ sleeping' = sleeping /\ alarm' = alarm /\ pushed' = pushed
    BY <1>6 DEF Tick
  <2> QED BY <1>1, <2>1, <2>2 DEF IInv
<1>7. CASE UNCHANGED vars
  <2>1. /\ Here' = Here /\ wait' = wait /\ now' = now /\ sleeping' = sleeping
        /\ alarm' = alarm /\ pushed' = pushed
    BY <1>7 DEF vars, Here
  <2> QED BY <1>1, <2>1 DEF IInv
<1> QED BY <1>2, <1>3, <1>4, <1>5, <1>6, <1>7 DEF Next

----------------------------------------------------------------------------
(* The theorems.                                                           *)

LEMMA IInvTypes == IInv => TypeOK
BY HereFields DEF IInv, Good, State, TypeOK

LEMMA IInvIndex == IInv => IndexSound
BY HereFields, NodeSetEmpty DEF IInv, Good, IndexOK, IndexSound

LEMMA IInvWakes == IInv => NoLostWakeup
<1> SUFFICES ASSUME IInv, NEW c \in Clients, awaiting[c].kind # "none",
                    NodesOf(queues[awaiting[c].key], c) # {}
             PROVE  LET r == awaiting[c] IN
                    IF r.kind = "list" THEN ~HasElement(Here, now, r.key)
                    ELSE xread(data, now, r.key, r.above) = <<>>
  BY DEF NoLostWakeup
<1> DEFINE r == awaiting[c]
           v == find_valid_entry(data, now, r.key)
           N == NodeSet(queues[r.key], c)
           s == StreamOf(data, now, r.key)
<1>1. data \in Data /\ Sound(data) /\ awaiting \in [Clients -> Requests] /\ Waits(Here, now, c)
  BY HereFields DEF IInv, Good, State
<1>2. r.kind \in {"list", "stream"} /\ r.key \in Keys /\ r.above \in StreamIds
  BY <1>1, RequestFacts
<1>3. N # {} /\ Idle(v, N, r)
  BY <1>1, NodeSetEmpty, HereFields DEF Waits
<1>4. HasElement(Here, now, r.key) <=> HasElements(v)
  BY <1>1, <1>2, LiveElement, HereFields
<1>5. CASE r.kind = "list"
  BY <1>3, <1>4, <1>5, ZenonT(30) DEF Idle
<1>6. CASE r.kind = "stream"
  <2>1. s = EntriesIn(v)
    BY Zenon DEF StreamOf, EntriesIn
  <2>2. v.type = "list" => Len(s) = 0
    BY DEF StreamOf
  <2>3. \A i \in 1..Len(s) : ~Less(r.above, s[i])
    <3> HIDE DEF v, s, r, N
    <3>1. v.type = "list" \/ \A i \in 1..Len(EntriesIn(v)) : ~Less(r.above, EntriesIn(v)[i])
      BY <1>3, <1>6, Zenon DEF Idle
    <3> QED BY <2>1, <2>2, <3>1
  <2>4. xread(data, now, r.key, r.above) = <<>>
    BY <1>1, <1>2, <2>3, XreadEmpty
  <2> QED BY <1>6, <2>4
<1> QED BY <1>2, <1>5, <1>6

LEMMA InvariantHolds == Spec => []IInv
BY InitIInv, NextIInv, PTL DEF Spec

\* Every command, wakeup, timeout and reconnection keeps the keyspace, the
\* queues, the index and the requests of the clients well formed.
THEOREM TypeCorrect == Spec => []TypeOK
BY InvariantHolds, IInvTypes, PTL

\* No wakeup is lost: whatever clients push, add, pop, time out, reconnect or
\* pipeline, a client queued on the key it waits for has nothing to be given.
THEOREM WakeupsSound == Spec => []NoLostWakeup
BY InvariantHolds, IInvWakes, PTL

\* fd_to_client_ never dangles: unblock_client always finds the node that its
\* iterator stands for.
THEOREM IndexNeverDangles == Spec => []IndexSound
BY InvariantHolds, IInvIndex, PTL

\* The loop never sleeps in epoll_wait past a deadline that an int of
\* milliseconds can express: neither that of a queued client nor that of the
\* pending WAIT, whatever else is queued, further off or for ever.
THEOREM SleepSound == Spec => NoOversleep
<1> DEFINE Timely == ~sleeping /\ sleeping' =>
                        \A d \in Deadlines(queues') \cup ({wait'} \ {Forever}) :
                            d - now <= IntMax => alarm' # Forever /\ alarm' <= d
<1>1. IInv /\ [Next]_vars => [Timely]_vars
  <2> SUFFICES ASSUME IInv, Next, ~sleeping, sleeping' PROVE compute_timeout
    BY SleepKeeps
  <2>1. ASSUME NEW c \in Clients, NEW k \in Keys, Command(c, k) PROVE FALSE
    BY <2>1, CommandKeeps, Zenon DEF IInv
  <2>2. \A c \in Clients : ~Reconnect(c)
    BY Zenon DEF Reconnect, WakeLoop
  <2>3. ~process_ack /\ ~EpollReturns /\ ~Tick /\ \A ms \in WaitMillis : ~start_wait(ms)
    BY Zenon DEF process_ack, EpollReturns, Tick, start_wait, WakeLoop
  <2> QED BY <2>1, <2>2, <2>3, Zenon DEF Next
<1> QED BY <1>1, InvariantHolds, PTL DEF Spec, NoOversleep
============================================================================
