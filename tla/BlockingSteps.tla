--------------------------- MODULE BlockingSteps ---------------------------
(***************************************************************************)
(* What each operation of BlockingManager, and each command that drives    *)
(* it, does to the queues, the index and the clients that wait.            *)
(***************************************************************************)
EXTENDS Blocking, StoreProofs

LEMMA LiveElement ==
  ASSUME NEW b, b.data \in Data, NEW t, NEW k \in Keys
  PROVE  HasElement(b, t, k) <=> HasElements(find_valid_entry(b.data, t, k))
<1> DEFINE d == b.data
           q == d[k].val
<1>1. CASE HasList(d, t, k)
  <2>1. q \in Seq(Str) /\ find_valid_entry(d, t, k) = d[k] /\ d[k].type = "list"
    BY <1>1, HasListFacts
  <2>2. lpop_taken(d, t, k, 1) = SubSeq(q, 1, MinOf(1, Len(q)))
    BY <1>1, Zenon DEF lpop_taken, PopCount
  <2> HIDE DEF q
  <2>3. CASE q = <<>>
    <3>1. Len(q) = 0 /\ SubSeq(q, 1, 0) = <<>>
      BY <2>3
    <3>2. MinOf(1, Len(q)) = 0
      BY <3>1 DEF MinOf
    <3> QED BY <2>1, <2>2, <2>3, <3>1, <3>2 DEF HasElement, HasElements, q
  <2>4. CASE q # <<>>
    <3>1. Len(q) \in Nat /\ Len(q) >= 1
      BY <2>1, <2>4
    <3>2. MinOf(1, Len(q)) = 1
      BY <3>1 DEF MinOf
    <3>3. SubSeq(q, 1, 1) # <<>>
      BY <2>1, <3>1, PieceLength
    <3> QED BY <2>1, <2>2, <2>4, <3>2, <3>3 DEF HasElement, HasElements, q
  <2> QED BY <2>3, <2>4
<1>2. CASE ~HasList(d, t, k)
  BY <1>2 DEF HasElement, HasElements, HasList, lpop_taken
<1> QED BY <1>1, <1>2

----------------------------------------------------------------------------
(* Queues.                                                                 *)

\* The nodes of client c in a queue.
NodeSet(q, c) == {q[i] : i \in NodesOf(q, c)}

LEMMA NodeSetEmpty ==
  ASSUME NEW q, NEW c PROVE NodesOf(q, c) = {} <=> NodeSet(q, c) = {}
BY DEF NodeSet

LEMMA InNodeSet ==
  ASSUME NEW q, NEW c, NEW x
  PROVE  x \in NodeSet(q, c) <=> \E i \in 1..Len(q) : x = q[i] /\ q[i].fd = c
BY DEF NodeSet, NodesOf

LEMMA ConcatNodes ==
  ASSUME NEW p \in Seq(BlockedClient), NEW q \in Seq(BlockedClient)
  PROVE  /\ p \o q \in Seq(BlockedClient) /\ Len(p \o q) = Len(p) + Len(q)
         /\ \A i \in 1..(Len(p) + Len(q)) : (p \o q)[i] = IF i <= Len(p) THEN p[i] ELSE q[i - Len(p)]
OBVIOUS

\* Taking a node out disturbs its client only.
LEMMA RemoveAtFacts ==
  ASSUME NEW q \in Seq(BlockedClient), NEW i \in 1..Len(q)
  PROVE  LET r == RemoveAt(q, i)
         IN  /\ r \in Seq(BlockedClient) /\ Len(r) = Len(q) - 1
             /\ \A c : NodeSet(r, c) \subseteq NodeSet(q, c)
             /\ \A c : c # q[i].fd => NodeSet(r, c) = NodeSet(q, c)
<1> DEFINE a == SubSeq(q, 1, i - 1)
           z == SubSeq(q, i + 1, Len(q))
           r == RemoveAt(q, i)
           n == Len(q)
<1>1. n \in Nat /\ i \in Nat /\ i >= 1 /\ i <= n /\ \A j \in 1..n : q[j] \in BlockedClient
  OBVIOUS
<1>2. a \in Seq(BlockedClient) /\ Len(a) = i - 1 /\ \A j \in 1..(i - 1) : a[j] = q[j]
  <2>1. \A j \in 1..(i - 1) : q[j] \in BlockedClient
    BY <1>1
  <2> QED BY <1>1, <2>1, SubSeqFacts
<1>3. z \in Seq(BlockedClient) /\ Len(z) = n - i /\ \A j \in 1..(n - i) : z[j] = q[i + j]
  <2>1. \A j \in (i + 1)..n : q[j] \in BlockedClient
    BY <1>1
  <2>2. /\ z \in Seq(BlockedClient) /\ Len(z) = IF i + 1 <= n THEN n - (i + 1) + 1 ELSE 0
        /\ \A j \in 1..(n - (i + 1) + 1) : z[j] = q[(i + 1) + j - 1]
    BY <1>1, <2>1, SubSeqFacts
  <2>3. /\ n - (i + 1) + 1 = n - i /\ (~(i + 1 <= n) => n - i = 0)
        /\ \A j \in 1..(n - i) : (i + 1) + j - 1 = i + j
    BY <1>1
  <2> HIDE DEF z, n
  <2> QED BY <2>2, <2>3
<1>4. r = a \o z
  BY DEF RemoveAt
<1> HIDE DEF a, z, r
<1>5. /\ r \in Seq(BlockedClient) /\ Len(r) = n - 1
      /\ \A j \in 1..(n - 1) : r[j] = IF j < i THEN q[j] ELSE q[j + 1]
  <2>1. r \in Seq(BlockedClient) /\ Len(r) = Len(a) + Len(z)
        /\ \A j \in 1..(Len(a) + Len(z)) : r[j] = IF j <= Len(a) THEN a[j] ELSE z[j - Len(a)]
    BY <1>2, <1>3, <1>4, ConcatNodes, Zenon
  <2>2. Len(a) + Len(z) = n - 1
    BY <1>1, <1>2, <1>3
  <2>3. ASSUME NEW j \in 1..(n - 1) PROVE r[j] = IF j < i THEN q[j] ELSE q[j + 1]
    <3>1. CASE j < i
      BY <1>1, <1>2, <2>1, <2>2, <3>1
    <3>2. CASE ~(j < i)
      <4>1. ~(j <= Len(a)) /\ j - Len(a) \in 1..(n - i) /\ i + (j - Len(a)) = j + 1
        BY <1>1, <1>2, <3>2
      <4> QED BY <1>3, <2>1, <2>2, <3>2, <4>1, Zenon
    <3> QED BY <3>1, <3>2
  <2> QED BY <2>1, <2>2, <2>3
<1>6. ASSUME NEW c, NEW j \in 1..(n - 1), r[j].fd = c PROVE r[j] \in NodeSet(q, c)
  <2>1. PICK m \in 1..n : r[j] = q[m]
    BY <1>1, <1>5
  <2> QED BY <1>6, <2>1 DEF NodeSet, NodesOf
<1>7. ASSUME NEW c, c # q[i].fd, NEW j \in 1..n, q[j].fd = c PROVE q[j] \in NodeSet(r, c)
  <2>1. j # i
    BY <1>7
  <2>2. PICK m \in 1..(n - 1) : r[m] = q[j]
    <3>1. CASE j < i
      BY <1>1, <1>5, <3>1
    <3>2. CASE j > i
      <4>1. j - 1 \in 1..(n - 1) /\ ~(j - 1 < i) /\ (j - 1) + 1 = j
        BY <1>1, <3>2
      <4>2. r[j - 1] = q[j]
        BY <1>5, <4>1
      <4> QED BY <4>1, <4>2
    <3> QED BY <1>1, <2>1, <3>1, <3>2
  <2>3. m \in NodesOf(r, c)
    BY <1>5, <1>7, <2>2 DEF NodesOf
  <2> QED BY <2>2, <2>3 DEF NodeSet
<1>8. ASSUME NEW c, NEW x \in NodeSet(r, c) PROVE x \in NodeSet(q, c)
  <2>1. PICK j \in 1..Len(r) : x = r[j] /\ r[j].fd = c
    BY InNodeSet
  <2> QED BY <1>5, <1>6, <2>1
<1>9. ASSUME NEW c, c # q[i].fd, NEW x \in NodeSet(q, c) PROVE x \in NodeSet(r, c)
  <2>1. PICK j \in 1..n : x = q[j] /\ q[j].fd = c
    BY InNodeSet
  <2> QED BY <1>7, <1>9, <2>1
<1>10. \A c : NodeSet(r, c) \subseteq NodeSet(q, c)
  BY <1>8
<1>11. ASSUME NEW c, c # q[i].fd PROVE NodeSet(r, c) = NodeSet(q, c)
  <2>1. \A x \in NodeSet(r, c) : x \in NodeSet(q, c)
    BY <1>8
  <2>2. \A x \in NodeSet(q, c) : x \in NodeSet(r, c)
    BY <1>9, <1>11
  <2> QED BY <2>1, <2>2, Zenon
<1> QED BY <1>5, <1>10, <1>11 DEF r

----------------------------------------------------------------------------
(* The state the handlers thread through.                                  *)

State == [data : Data, queues : [Keys -> Seq(BlockedClient)], index : [Clients -> Keys \cup {NoKey}],
          awaiting : [Clients -> Requests], got : [Clients -> Replies], popped : [Keys -> Nat]]

\* A client that waits, with the nodes N in the queue of its key, has nothing
\* to be given by the live entry v of that key.  A stream reader is told of
\* entries above the id of its node, so one of its nodes asks for no later ids
\* than the client does; a key that holds a list holds one for ever.
Idle(v, N, r) ==
    /\ r.kind = "list" /\ N # {} => ~HasElements(v)
    /\ r.kind = "stream" => \/ v.type = "list"
                            \/ /\ \A i \in 1..Len(EntriesIn(v)) : ~Less(r.above, EntriesIn(v)[i])
                               /\ \E n \in N : ~Less(r.above, n.last_id)

Waits(b, t, c) ==
    LET r == b.awaiting[c]
    IN  Idle(find_valid_entry(b.data, t, r.key), NodeSet(b.queues[r.key], c), r)

IndexOK(b) == \A c \in Clients : b.index[c] # NoKey => NodeSet(b.queues[b.index[c]], c) # {}

Good(b, t) == b \in State /\ Sound(b.data) /\ IndexOK(b) /\ \A c \in Clients : Waits(b, t, c)

LEMMA CalmIdle ==
  ASSUME NEW v, NEW w, NEW N, NEW M, NEW r, Idle(v, N, r), Calmer(v, w), M \subseteq N,
         w.type = "list" \/ M = N
  PROVE  Idle(w, M, r)
BY DEF Idle, Calmer

LEMMA RequestFacts ==
  ASSUME NEW r \in Requests
  PROVE  /\ r.kind \in {"none", "list", "stream"} /\ r.above \in StreamIds
         /\ r.kind = "none" => r = NoRequest
         /\ r.kind # "none" => r.key \in Keys
<1>1. ZeroId \in StreamIds
  BY StoreAssumption DEF ZeroId, StreamIds, Int64
<1> QED BY <1>1 DEF Requests, NoRequest

LEMMA NodeFacts ==
  ASSUME NEW q \in Seq(BlockedClient), NEW i \in 1..Len(q)
  PROVE  q[i].fd \in Clients /\ q[i].deadline \in Int \cup {Forever} /\ q[i].last_id \in StreamIds
<1>1. q[i] \in BlockedClient
  OBVIOUS
<1> QED BY <1>1 DEF BlockedClient

LEMMA DequeueFacts ==
  ASSUME NEW b \in State, NEW k \in Keys, NEW i \in 1..Len(b.queues[k])
  PROVE  LET e == Dequeue(b, k, i)
             fd == b.queues[k][i].fd
         IN  /\ e \in State /\ e.data = b.data /\ e.awaiting = b.awaiting /\ e.got = b.got
             /\ Len(e.queues[k]) = Len(b.queues[k]) - 1
             /\ \A j \in Keys : \A c : NodeSet(e.queues[j], c) \subseteq NodeSet(b.queues[j], c)
             /\ \A j \in Keys : \A c : j # k \/ c # fd => NodeSet(e.queues[j], c) = NodeSet(b.queues[j], c)
             /\ fd \in Clients
             /\ IndexOK(b) => IndexOK(e)
<1> DEFINE e == Dequeue(b, k, i)
           q == b.queues[k]
           fd == q[i].fd
           r == RemoveAt(q, i)
<1>1. /\ b.queues \in [Keys -> Seq(BlockedClient)] /\ b.index \in [Clients -> Keys \cup {NoKey}]
      /\ q \in Seq(BlockedClient)
  BY DEF State
<1>2. fd \in Clients
  BY <1>1, NodeFacts
<1>3. /\ r \in Seq(BlockedClient) /\ Len(r) = Len(q) - 1
      /\ \A c : NodeSet(r, c) \subseteq NodeSet(q, c)
      /\ \A c : c # fd => NodeSet(r, c) = NodeSet(q, c)
  BY <1>1, RemoveAtFacts
<1> HIDE DEF r
<1>4. /\ e.data = b.data /\ e.awaiting = b.awaiting /\ e.got = b.got
      /\ e.queues = [b.queues EXCEPT ![k] = r] /\ e.index = [b.index EXCEPT ![fd] = NoKey]
  <2>1. e = [b EXCEPT !.queues = [b.queues EXCEPT ![k] = r], !.index = [b.index EXCEPT ![fd] = NoKey]]
    BY DEF Dequeue, State, r
  <2> HIDE DEF e, fd, q
  <2>2. e.data = b.data
    BY <2>1 DEF State
  <2>3. e.awaiting = b.awaiting
    BY <2>1 DEF State
  <2>4. e.got = b.got
    BY <2>1 DEF State
  <2>5. e.queues = [b.queues EXCEPT ![k] = r]
    BY <2>1 DEF State
  <2>6. e.index = [b.index EXCEPT ![fd] = NoKey]
    BY <2>1 DEF State
  <2> QED BY <2>2, <2>3, <2>4, <2>5, <2>6
<1>5. e = [b EXCEPT !.queues = e.queues, !.index = e.index]
  BY <1>4 DEF Dequeue, State, r
<1> HIDE DEF e, fd, q
<1>6. e \in State
  <2>1. e.queues \in [Keys -> Seq(BlockedClient)] /\ e.index \in [Clients -> Keys \cup {NoKey}]
    BY <1>1, <1>3, <1>4, Zenon
  <2> QED BY <1>5, <2>1, Zenon DEF State
<1>7. e.queues[k] = r /\ \A j \in Keys : j # k => e.queues[j] = b.queues[j]
  BY <1>1, <1>4
<1>8. \A j \in Keys : \A c : NodeSet(e.queues[j], c) \subseteq NodeSet(b.queues[j], c)
  BY <1>3, <1>7 DEF q
<1>9. \A j \in Keys : \A c : j # k \/ c # fd => NodeSet(e.queues[j], c) = NodeSet(b.queues[j], c)
  BY <1>3, <1>7 DEF q
<1>10. IndexOK(b) => IndexOK(e)
  <2>1. SUFFICES ASSUME IndexOK(b), NEW c \in Clients, e.index[c] # NoKey
                 PROVE  NodeSet(e.queues[e.index[c]], c) # {}
    BY DEF IndexOK
  <2>2. c # fd /\ e.index[c] = b.index[c] /\ b.index[c] \in Keys
    BY <1>1, <1>2, <1>4, <2>1
  <2>3. NodeSet(b.queues[b.index[c]], c) # {}
    BY <2>1, <2>2 DEF IndexOK
  <2> QED BY <1>9, <2>2, <2>3, Zenon
<1> QED BY <1>2, <1>3, <1>4, <1>6, <1>7, <1>8, <1>9, <1>10 DEF e, fd, q

LEMMA AnswerFacts ==
  ASSUME NEW b \in State, NEW c \in Clients,
         NEW kind \in {"list", "stream", "null"}, NEW ids \in Seq(StreamIds)
  PROVE  LET e == Answer(b, c, kind, ids)
         IN  /\ e \in State /\ e.data = b.data /\ e.queues = b.queues /\ e.index = b.index
             /\ e.awaiting[c].kind = "none"
             /\ \A a \in Clients : a # c => e.awaiting[a] = b.awaiting[a]
<1> DEFINE e == Answer(b, c, kind, ids)
           aw == [b.awaiting EXCEPT ![c] = NoRequest]
           gt == [b.got EXCEPT ![c] = Reply(kind, ids, b.awaiting[c])]
<1>1. b.awaiting \in [Clients -> Requests] /\ b.got \in [Clients -> Replies] /\ b.awaiting[c] \in Requests
  BY DEF State
<1>2. Reply(kind, ids, b.awaiting[c]) \in Replies /\ NoRequest \in Requests /\ NoRequest.kind = "none"
  BY <1>1 DEF Reply, Replies, Requests, NoRequest
<1>3. CASE b.awaiting[c].kind = "none"
  <2>1. e = b
    BY <1>3 DEF Answer
  <2> HIDE DEF e
  <2> QED BY <1>3, <2>1 DEF e
<1>4. CASE b.awaiting[c].kind # "none"
  <2>1. e = [b EXCEPT !.awaiting = aw, !.got = gt]
    BY <1>4 DEF Answer, State
  <2>2. aw \in [Clients -> Requests] /\ gt \in [Clients -> Replies]
    BY <1>1, <1>2
  <2>3. aw[c] = NoRequest /\ \A a \in Clients : a # c => aw[a] = b.awaiting[a]
    BY <1>1
  <2> HIDE DEF e, aw, gt
  <2>4. e.data = b.data
    BY <2>1 DEF State
  <2>5. e.queues = b.queues
    BY <2>1 DEF State
  <2>6. e.index = b.index
    BY <2>1 DEF State
  <2>7. e.awaiting = aw
    BY <2>1 DEF State
  <2>8. e \in State
    BY <2>1, <2>2, Zenon DEF State
  <2> QED BY <1>2, <2>3, <2>4, <2>5, <2>6, <2>7, <2>8 DEF e
<1> QED BY <1>3, <1>4

LEMMA PopFacts ==
  ASSUME NEW b \in State, NEW t \in Nat, NEW k \in Keys
  PROVE  LET e == Pop(b, t, k)
         IN  /\ e \in State /\ e.data = lpop(b.data, t, k, 1) /\ e.queues = b.queues
             /\ e.index = b.index /\ e.awaiting = b.awaiting /\ e.got = b.got
<1> DEFINE e == Pop(b, t, k)
           f == lpop(b.data, t, k, 1)
           pp == [b.popped EXCEPT ![k] = IF HasElement(b, t, k) THEN @ + 1 ELSE @]
<1>1. b.data \in Data /\ b.popped \in [Keys -> Nat]
  BY DEF State
<1>2. f \in Data /\ pp \in [Keys -> Nat]
  <2>1. f \in Data
    BY <1>1, PopLive
  <2>2. pp \in [Keys -> Nat]
    BY <1>1
  <2> QED BY <2>1, <2>2
<1>3. e = [b EXCEPT !.data = f, !.popped = pp]
  BY DEF Pop, State
<1> HIDE DEF e, f, pp
<1>4. e.data = f
  BY <1>3 DEF State
<1>5. e.queues = b.queues
  BY <1>3 DEF State
<1>6. e.index = b.index
  BY <1>3 DEF State
<1>7. e.awaiting = b.awaiting
  BY <1>3 DEF State
<1>8. e.got = b.got
  BY <1>3 DEF State
<1>9. e \in State
  BY <1>2, <1>3, Zenon DEF State
<1> QED BY <1>4, <1>5, <1>6, <1>7, <1>8, <1>9 DEF e, f

LEMMA PopToFacts ==
  ASSUME NEW b \in State, NEW t \in Nat, NEW k \in Keys, NEW c \in Clients
  PROVE  LET e == PopTo(b, t, k, c)
         IN  /\ e \in State /\ e.data = lpop(b.data, t, k, 1) /\ e.queues = b.queues /\ e.index = b.index
             /\ \A a \in Clients : e.awaiting[a].kind = "none" \/ e.awaiting[a] = b.awaiting[a]
<1> DEFINE p == Pop(b, t, k)
           e == PopTo(b, t, k, c)
<1>1. /\ p \in State /\ p.data = lpop(b.data, t, k, 1) /\ p.queues = b.queues
      /\ p.index = b.index /\ p.awaiting = b.awaiting
  BY PopFacts
<1> HIDE DEF p
<1>2. CASE HasElement(b, t, k)
  <2>1. e = Answer(p, c, "list", <<>>)
    BY <1>2 DEF PopTo, p
  <2>2. <<>> \in Seq(StreamIds) /\ "list" \in {"list", "stream", "null"}
    OBVIOUS
  <2> HIDE DEF e
  <2>3. /\ e \in State /\ e.data = p.data /\ e.queues = p.queues /\ e.index = p.index
        /\ e.awaiting[c].kind = "none"
        /\ \A a \in Clients : a # c => e.awaiting[a] = p.awaiting[a]
    BY <1>1, <2>1, <2>2, AnswerFacts, Zenon
  <2> QED BY <1>1, <2>3 DEF e
<1>3. CASE ~HasElement(b, t, k)
  <2>1. e = p
    BY <1>3 DEF PopTo, p
  <2> HIDE DEF e
  <2> QED BY <1>1, <2>1 DEF e
<1> QED BY <1>2, <1>3

----------------------------------------------------------------------------
(* RPUSH and LPUSH.                                                        *)

\* Key k holds a list, of one element at most if a client waits for one.
Ready(b, t, k) ==
    LET v == find_valid_entry(b.data, t, k)
    IN  /\ b \in State /\ Sound(b.data) /\ IndexOK(b)
        /\ v.type = "list" /\ v.val \in Seq(Str)
        /\ \A c \in Clients : \/ Waits(b, t, c)
                              \/ b.awaiting[c].kind = "list" /\ b.awaiting[c].key = k /\ Len(v.val) <= 1

LEMMA HoldsElement ==
  ASSUME NEW v, v.val \in Seq(Str), HasElements(v)
  PROVE  Len(v.val) \in Nat /\ Len(v.val) >= 1
BY DEF HasElements

LEMMA TryWakeGood ==
  ASSUME NEW t \in Nat, NEW k \in Keys, NEW b, Ready(b, t, k), Waiters(b, k)
  PROVE  /\ Good(try_wake(b, t, k), t)
         /\ find_valid_entry(try_wake(b, t, k).data, t, k).type = "list"
<1> DEFINE e == try_wake(b, t, k)
           d == Dequeue(b, k, 1)
           fd == b.queues[k][1].fd
           v == find_valid_entry(b.data, t, k)
           w == find_valid_entry(e.data, t, k)
<1>1. b \in State /\ Sound(b.data) /\ IndexOK(b) /\ v.type = "list" /\ v.val \in Seq(Str)
  BY DEF Ready
<1>2. b.data \in Data /\ b.awaiting \in [Clients -> Requests] /\ b.queues[k] \in Seq(BlockedClient)
  BY <1>1 DEF State
<1>3. 1 \in 1..Len(b.queues[k])
  BY <1>2 DEF Waiters
<1>4. /\ d \in State /\ d.data = b.data /\ d.awaiting = b.awaiting /\ fd \in Clients /\ IndexOK(d)
      /\ \A j \in Keys : \A c : NodeSet(d.queues[j], c) \subseteq NodeSet(b.queues[j], c)
      /\ \A j \in Keys : \A c : j # k => NodeSet(d.queues[j], c) = NodeSet(b.queues[j], c)
  BY <1>1, <1>3, DequeueFacts, ZenonT(30)
<1>5. e = PopTo(d, t, k, fd)
  BY DEF try_wake
<1> HIDE DEF d, fd, e
<1>6. /\ e \in State /\ e.data = lpop(b.data, t, k, 1) /\ e.queues = d.queues /\ e.index = d.index
      /\ \A a \in Clients : e.awaiting[a].kind = "none" \/ e.awaiting[a] = b.awaiting[a]
  BY <1>4, <1>5, PopToFacts
<1>7. /\ Sound(e.data) /\ OnlyAt(b.data, e.data, k) /\ w.type = "list" /\ Calmer(v, w)
      /\ HasElements(v) => w.val \in Seq(Str) /\ Len(w.val) = Len(v.val) - 1
  BY <1>1, <1>2, <1>6, PopLive
<1> HIDE DEF v, w
<1>8. IndexOK(e)
  BY <1>4, <1>6 DEF IndexOK
<1>9. ASSUME NEW c \in Clients PROVE Waits(e, t, c)
  <2> DEFINE r == b.awaiting[c]
  <2>1. CASE e.awaiting[c].kind = "none"
    BY <2>1 DEF Waits, Idle
  <2>2. CASE e.awaiting[c] = r /\ r.kind # "none"
    <3>1. r \in Requests /\ r.key \in Keys /\ r.kind \in {"list", "stream"}
      BY <1>2, <2>2, RequestFacts
    <3>2. NodeSet(e.queues[r.key], c) \subseteq NodeSet(b.queues[r.key], c)
      BY <1>4, <1>6, <3>1
    <3>3. CASE r.key # k
      <4>1. Waits(b, t, c)
        BY <3>3 DEF Ready
      <4>2. find_valid_entry(e.data, t, r.key) = find_valid_entry(b.data, t, r.key)
        BY <1>7, <3>1, <3>3, OnlyAtLive
      <4>3. NodeSet(e.queues[r.key], c) = NodeSet(b.queues[r.key], c)
        BY <1>4, <1>6, <3>1, <3>3
      <4> QED BY <2>2, <4>1, <4>2, <4>3 DEF Waits
    <3>4. CASE r.key = k /\ r.kind = "stream"
      BY <1>7, <2>2, <3>4 DEF Waits, Idle, w
    <3>5. CASE r.key = k /\ r.kind = "list"
      <4>1. NodeSet(e.queues[k], c) # {} => ~HasElements(v) \/ Len(v.val) <= 1
        BY <3>2, <3>5 DEF Ready, Waits, Idle, v
      <4>2. ASSUME HasElements(w), ~HasElements(v) \/ Len(v.val) <= 1 PROVE FALSE
        <5>1. HasElements(v) /\ w.val \in Seq(Str) /\ Len(w.val) = Len(v.val) - 1
          BY <1>7, <4>2 DEF Calmer
        <5>2. Len(v.val) \in Nat /\ Len(w.val) \in Nat /\ Len(w.val) >= 1
          BY <1>1, <4>2, <5>1, HoldsElement
        <5> QED BY <4>2, <5>1, <5>2
      <4>3. NodeSet(e.queues[k], c) # {} => ~HasElements(w)
        BY <4>1, <4>2
      <4> QED BY <2>2, <3>5, <4>3 DEF Waits, Idle, w
    <3> QED BY <3>1, <3>3, <3>4, <3>5
  <2> QED BY <1>6, <2>1, <2>2
<1> QED BY <1>6, <1>7, <1>8, <1>9 DEF Good, e, w

\* An element added leaves the key ready, and good if nobody is queued.
LEMMA PushFacts ==
  ASSUME NEW t \in Nat, NEW k \in Keys, NEW b, Good(b, t), holds_or_absent(b.data, t, k, "list"),
         NEW x \in Str, NEW left \in BOOLEAN
  PROVE  LET p == Push(b, t, k, x, left)
         IN  /\ Ready(p, t, k) /\ p.queues = b.queues
             /\ ~Waiters(p, k) => Good(p, t)
<1> DEFINE p == Push(b, t, k, x, left)
           f == IF left THEN lpush(b.data, t, k, x) ELSE rpush(b.data, t, k, x)
           v == find_valid_entry(b.data, t, k)
           w == find_valid_entry(f, t, k)
<1>1. /\ b \in State /\ Sound(b.data) /\ IndexOK(b) /\ \A c \in Clients : Waits(b, t, c)
      /\ b.data \in Data /\ b.awaiting \in [Clients -> Requests]
  BY DEF Good, State
<1>2. /\ f \in Data /\ OnlyAt(b.data, f, k) /\ Sound(f) /\ w.type = "list" /\ w.val \in Seq(Str)
      /\ ~HasElements(v) => Len(w.val) = 1
  BY <1>1, PushLive
<1>3. p = [b EXCEPT !.data = f]
  BY DEF Push
<1> HIDE DEF p, f, v, w
<1>4. /\ p \in State /\ p.data = f /\ p.queues = b.queues /\ p.index = b.index /\ p.awaiting = b.awaiting
  BY <1>1, <1>2, <1>3, ZenonT(30) DEF State
<1>5. IndexOK(p)
  BY <1>1, <1>4 DEF IndexOK
<1>6. ASSUME NEW c \in Clients
      PROVE  \/ Waits(p, t, c)
             \/ /\ b.awaiting[c].kind = "list" /\ b.awaiting[c].key = k /\ Len(w.val) <= 1
                /\ NodeSet(b.queues[k], c) # {}
  <2> DEFINE r == b.awaiting[c]
  <2>1. CASE r.kind = "none"
    BY <1>4, <2>1 DEF Waits, Idle
  <2>2. CASE r.kind # "none"
    <3>1. r \in Requests /\ r.key \in Keys /\ r.kind \in {"list", "stream"}
      BY <1>1, <2>2, RequestFacts
    <3>2. CASE r.key # k
      <4>1. find_valid_entry(f, t, r.key) = find_valid_entry(b.data, t, r.key)
        BY <1>2, <3>1, <3>2, OnlyAtLive
      <4> QED BY <1>1, <1>4, <4>1 DEF Waits
    <3>3. CASE r.key = k /\ r.kind = "stream"
      BY <1>2, <1>4, <3>3 DEF Waits, Idle, w
    <3>4. CASE r.key = k /\ r.kind = "list" /\ NodeSet(b.queues[k], c) = {}
      BY <1>4, <3>4 DEF Waits, Idle
    <3>5. CASE r.key = k /\ r.kind = "list" /\ NodeSet(b.queues[k], c) # {}
      <4>1. ~HasElements(v)
        BY <1>1, <3>5, Zenon DEF Waits, Idle, v
      <4>2. Len(w.val) = 1
        BY <1>2, <4>1
      <4>3. Len(w.val) <= 1
        BY <4>2
      <4> QED BY <3>5, <4>3
    <3> QED BY <3>1, <3>2, <3>3, <3>4, <3>5
  <2> QED BY <2>1, <2>2
<1>7. Ready(p, t, k)
  BY <1>2, <1>4, <1>5, <1>6 DEF Ready, w
<1>8. ASSUME ~Waiters(p, k) PROVE Good(p, t)
  <2>1. b.queues[k] = <<>>
    BY <1>4, <1>8 DEF Waiters
  <2>2. Len(b.queues[k]) = 0
    BY <2>1
  <2>3. \A c : NodeSet(b.queues[k], c) = {}
    BY <2>2 DEF NodeSet, NodesOf
  <2> QED BY <1>2, <1>4, <1>5, <1>6, <2>3 DEF Good
<1> QED BY <1>4, <1>7, <1>8 DEF p

\* The states between two values of one push.
Pushing(t, k) == {b \in State : Good(b, t) /\ find_valid_entry(b.data, t, k).type = "list"}

PushFirst(b, t, k, x, left) ==
    LET p == Push(b, t, k, x, left) IN IF Waiters(p, k) THEN try_wake(p, t, k) ELSE p
PushFurther(b, t, k, x, left) ==
    IF Waiters(b, k) THEN try_wake(b, t, k) ELSE Push(b, t, k, x, left)

LEMMA PushFirstIn ==
  ASSUME NEW t \in Nat, NEW k \in Keys, NEW b, Good(b, t), holds_or_absent(b.data, t, k, "list"),
         NEW x \in Str, NEW left \in BOOLEAN
  PROVE  PushFirst(b, t, k, x, left) \in Pushing(t, k)
<1> DEFINE p == Push(b, t, k, x, left)
<1>1. Ready(p, t, k) /\ (~Waiters(p, k) => Good(p, t))
  BY PushFacts
<1> HIDE DEF p
<1>2. CASE Waiters(p, k)
  <2>1. Good(try_wake(p, t, k), t) /\ find_valid_entry(try_wake(p, t, k).data, t, k).type = "list"
    BY <1>1, <1>2, TryWakeGood
  <2>2. try_wake(p, t, k) \in Pushing(t, k)
    BY <2>1 DEF Pushing, Good
  <2> QED BY <1>2, <2>2 DEF PushFirst, p
<1>3. CASE ~Waiters(p, k)
  <2>1. p \in Pushing(t, k)
    BY <1>1, <1>3 DEF Pushing, Good, Ready
  <2> QED BY <1>3, <2>1 DEF PushFirst, p
<1> QED BY <1>2, <1>3

LEMMA PushFurtherIn ==
  ASSUME NEW t \in Nat, NEW k \in Keys, NEW b \in Pushing(t, k), NEW x \in Str, NEW left \in BOOLEAN
  PROVE  PushFurther(b, t, k, x, left) \in Pushing(t, k)
<1> DEFINE v == find_valid_entry(b.data, t, k)
<1>1. Good(b, t) /\ v.type = "list" /\ b \in State /\ b.data \in Data
  BY DEF Pushing, State
<1>2. CASE Waiters(b, k)
  <2>1. v \in Entry
    BY <1>1, LookupType
  <2> HIDE DEF v
  <2>2. v.val \in Seq(Str)
    BY <1>1, <2>1, EntryFacts
  <2>3. Ready(b, t, k)
    BY <1>1, <2>2 DEF Ready, Good, v
  <2>4. Good(try_wake(b, t, k), t) /\ find_valid_entry(try_wake(b, t, k).data, t, k).type = "list"
    BY <1>2, <2>3, TryWakeGood
  <2>5. try_wake(b, t, k) \in Pushing(t, k)
    BY <2>4 DEF Pushing, Good
  <2> QED BY <1>2, <2>5 DEF PushFurther
<1>3. CASE ~Waiters(b, k)
  <2> DEFINE p == Push(b, t, k, x, left)
  <2>1. holds_or_absent(b.data, t, k, "list")
    BY <1>1 DEF holds_or_absent
  <2>2. Ready(p, t, k) /\ p.queues = b.queues /\ (~Waiters(p, k) => Good(p, t))
    BY <1>1, <2>1, PushFacts
  <2> HIDE DEF p
  <2>3. p \in Pushing(t, k)
    BY <1>3, <2>2 DEF Pushing, Good, Ready, Waiters
  <2> QED BY <1>3, <2>3 DEF PushFurther, p
<1> QED BY <1>2, <1>3

IsPush(run, b, t, k, vs, left) ==
    run = [i \in 0..Len(vs) |-> IF i = 0 THEN b
                                ELSE IF i = 1 THEN PushFirst(b, t, k, vs[1], left)
                                ELSE PushFurther(run[i - 1], t, k, vs[i], left)]

LEMMA PushRunExists ==
  ASSUME NEW t \in Nat, NEW k \in Keys, NEW b, Good(b, t), holds_or_absent(b.data, t, k, "list"),
         NEW vs \in Seq(Str), NEW left \in BOOLEAN
  PROVE  \E run : IsPush(run, b, t, k, vs, left)
<1> DEFINE n == Len(vs)
           P == Pushing(t, k)
           S == P \cup {b}
           first == PushFirst(b, t, k, vs[1], left)
           step == [i \in 1..n |-> [x \in S |-> IF i = 1 \/ x \notin P THEN first
                                                ELSE PushFurther(x, t, k, vs[i], left)]]
<1>1. n \in Nat /\ \A i \in 1..n : vs[i] \in Str
  OBVIOUS
<1>2. ASSUME NEW i \in 1..n, NEW x \in S PROVE step[i][x] \in P
  <2>1. step[i][x] = IF i = 1 \/ x \notin P THEN first ELSE PushFurther(x, t, k, vs[i], left)
    OBVIOUS
  <2>2. 1 \in 1..n
    BY <1>1
  <2>3. first \in P
    BY <1>1, <2>2, PushFirstIn
  <2>4. x \in P => PushFurther(x, t, k, vs[i], left) \in P
    BY <1>1, PushFurtherIn
  <2> HIDE DEF first, P, step
  <2> QED BY <2>1, <2>3, <2>4
<1>3. b \in S /\ \A i \in 1..n : \A x \in S : step[i][x] \in S
  BY <1>2, Zenon
<1>4. \A i \in 1..n : \A x \in S :
          step[i][x] = IF i = 1 \/ x \notin P THEN first ELSE PushFurther(x, t, k, vs[i], left)
  OBVIOUS
<1> HIDE DEF step, S
<1>5. PICK f \in [0..n -> S] : Iterates(f, b, step, n)
  BY <1>1, <1>3, TableExists, Zenon
<1>6. \A i \in 0..n : f[i] = IF i = 0 THEN b ELSE step[i][f[i - 1]]
  BY <1>5 DEF Iterates
<1>7. ASSUME NEW i \in 1..n PROVE f[i - 1] \in S /\ f[i] = step[i][f[i - 1]] /\ f[i] \in P
  <2>1. i \in 0..n /\ i # 0 /\ i - 1 \in 0..n
    BY <1>1
  <2>2. f[i - 1] \in S
    BY <1>5, <2>1
  <2>3. f[i] = step[i][f[i - 1]]
    BY <1>6, <2>1
  <2>4. step[i][f[i - 1]] \in P
    BY <1>2, <2>2 DEF S
  <2> QED BY <2>2, <2>3, <2>4
<1> HIDE DEF P, first
<1>8. ASSUME NEW i \in 0..n
      PROVE  f[i] = IF i = 0 THEN b ELSE IF i = 1 THEN first ELSE PushFurther(f[i - 1], t, k, vs[i], left)
  <2>1. CASE i = 0
    BY <1>6, <2>1
  <2>2. CASE i = 1
    <3>1. i \in 1..n
      BY <1>1, <2>2
    <3> QED BY <1>4, <1>7, <2>2, <3>1
  <2>3. CASE i # 0 /\ i # 1
    <3>1. i \in 1..n /\ i - 1 \in 1..n
      BY <1>1, <2>3
    <3>2. f[i - 1] \in P
      BY <1>7, <3>1
    <3> QED BY <1>4, <1>7, <2>3, <3>1, <3>2
  <2> QED BY <2>1, <2>2, <2>3
<1>9. f = [i \in 0..n |-> f[i]]
  BY <1>5
<1>10. IsPush(f, b, t, k, vs, left)
  BY <1>8, <1>9 DEF IsPush, first
<1> QED BY <1>10

LEMMA PushAllGood ==
  ASSUME NEW t \in Nat, NEW k \in Keys, NEW b, Good(b, t), holds_or_absent(b.data, t, k, "list"),
         NEW vs \in Seq(Str), vs # <<>>, NEW left \in BOOLEAN
  PROVE  Good(PushAll(b, t, k, vs, left), t)
<1> DEFINE n == Len(vs)
           P == Pushing(t, k)
           run == CHOOSE f : IsPush(f, b, t, k, vs, left)
<1>1. IsPush(run, b, t, k, vs, left)
  BY PushRunExists
<1>2. PushAll(b, t, k, vs, left) = run[n]
  BY DEF PushAll, IsPush, PushFirst, PushFurther
<1> HIDE DEF run
<1>3. n \in Nat /\ n >= 1 /\ \A i \in 1..n : vs[i] \in Str
  OBVIOUS
<1>4. \A i \in 0..n : run[i] = IF i = 0 THEN b ELSE IF i = 1 THEN PushFirst(b, t, k, vs[1], left)
                               ELSE PushFurther(run[i - 1], t, k, vs[i], left)
  BY <1>1 DEF IsPush
<1> DEFINE T == {i \in 0..n : i = 0 \/ run[i] \in P}
<1>5. 0 \in T
  BY <1>3
<1>6. ASSUME NEW i \in 1..n, i - 1 \in T PROVE i \in T
  <2>1. i \in 0..n /\ i # 0
    BY <1>3
  <2>2. CASE i = 1
    <3>1. PushFirst(b, t, k, vs[1], left) \in P
      BY <1>3, <2>2, PushFirstIn
    <3> HIDE DEF P
    <3> QED BY <1>4, <2>1, <2>2, <3>1
  <2>3. CASE i # 1
    <3>1. i - 1 # 0 /\ run[i - 1] \in P
      BY <1>6, <2>3
    <3>2. PushFurther(run[i - 1], t, k, vs[i], left) \in P
      BY <1>3, <3>1, PushFurtherIn
    <3> HIDE DEF P
    <3> QED BY <1>4, <2>1, <2>3, <3>2
  <2> QED BY <2>2, <2>3
<1> HIDE DEF T
<1>7. 0..n \subseteq T
  BY <1>3, <1>5, <1>6, BoundedInduction, ZenonT(30)
<1>8. n \in T /\ n # 0
  BY <1>3, <1>7
<1>9. run[n] \in P
  BY <1>8 DEF T
<1> QED BY <1>2, <1>9 DEF Pushing

----------------------------------------------------------------------------
(* XADD.                                                                   *)

LEMMA LessEither ==
  ASSUME NEW a \in StreamIds, NEW b \in StreamIds, NEW c \in StreamIds, ~Less(a, b), ~Less(b, c)
  PROVE  ~Less(a, c)
BY StoreAssumption DEF StreamIds, Int64, Less

\* Client c waits for ids of stream s that sid may be one of, and no other.
Expects(s, N, r, k, sid) ==
    /\ r.kind = "stream" /\ r.key = k
    /\ \A i \in 1..Len(s) : Less(r.above, s[i]) => s[i] = sid
    /\ \E n \in N : ~Less(r.above, n.last_id)

\* Entry sid was added to the stream at k, and not all who wait for it were
\* served.
Pending(b, t, k, sid) ==
    LET w == find_valid_entry(b.data, t, k)
    IN  /\ b \in State /\ Sound(b.data) /\ IndexOK(b)
        /\ w.type = "stream" /\ w.val \in Seq(StreamIds)
        /\ \A c \in Clients :
              Waits(b, t, c) \/ Expects(w.val, NodeSet(b.queues[k], c), b.awaiting[c], k, sid)

LEMMA WakeOneFacts ==
  ASSUME NEW t \in Nat, NEW k \in Keys, NEW sid \in StreamIds, NEW b, Pending(b, t, k, sid),
         Below(b, k, sid) # {}
  PROVE  LET e == WakeOne(b, t, k, sid)
         IN  Pending(e, t, k, sid) /\ Len(e.queues[k]) = Len(b.queues[k]) - 1
<1> DEFINE B == Below(b, k, sid)
           i == FirstBelow(b, k, sid)
           q == b.queues[k]
           d == Dequeue(b, k, i)
           fd == q[i].fd
           ids == xread(b.data, t, k, q[i].last_id)
           e == WakeOne(b, t, k, sid)
           w == find_valid_entry(b.data, t, k)
<1>1. /\ b \in State /\ Sound(b.data) /\ IndexOK(b) /\ w.type = "stream" /\ w.val \in Seq(StreamIds)
      /\ b.data \in Data /\ q \in Seq(BlockedClient) /\ b.awaiting \in [Clients -> Requests]
  BY DEF Pending, State
<1>2. i \in 1..Len(q)
  <2>1. B \subseteq 1..Len(q) /\ B \subseteq Nat
    BY <1>1 DEF Below
  <2>2. PICK m \in B : \A j \in B : m <= j
    BY <2>1, LeastNatural
  <2>3. i \in B
    BY <2>2 DEF FirstBelow
  <2> QED BY <2>1, <2>3
<1>3. q[i].last_id \in StreamIds /\ fd \in Clients
  BY <1>1, <1>2, NodeFacts
<1>4. ids \in Seq(StreamIds)
  BY <1>1, <1>3, XreadFacts, Zenon
<1>5. e = Answer(d, fd, "stream", ids)
  BY DEF WakeOne
<1>6. /\ d \in State /\ d.data = b.data /\ d.awaiting = b.awaiting /\ IndexOK(d)
      /\ Len(d.queues[k]) = Len(q) - 1
      /\ \A j \in Keys : \A c : c # fd => NodeSet(d.queues[j], c) = NodeSet(b.queues[j], c)
  BY <1>1, <1>2, DequeueFacts, ZenonT(30)
<1> HIDE DEF i, d, fd, ids, e
<1>7. /\ e \in State /\ e.data = d.data /\ e.queues = d.queues /\ e.index = d.index
      /\ e.awaiting[fd].kind = "none"
      /\ \A a \in Clients : a # fd => e.awaiting[a] = d.awaiting[a]
  <2>1. fd \in Clients
    BY <1>3
  <2>2. d \in State
    BY <1>6
  <2> QED BY <1>4, <1>5, <2>1, <2>2, AnswerFacts, ZenonT(30)
<1>8. IndexOK(e)
  BY <1>6, <1>7 DEF IndexOK
<1>9. ASSUME NEW c \in Clients
      PROVE  Waits(e, t, c) \/ Expects(w.val, NodeSet(e.queues[k], c), e.awaiting[c], k, sid)
  <2> DEFINE r == b.awaiting[c]
  <2>1. CASE c = fd
    BY <1>7, <2>1 DEF Waits, Idle
  <2>2. CASE c # fd
    <3>1. e.awaiting[c] = r /\ e.data = b.data
      BY <1>6, <1>7, <2>2
    <3>2. \A j \in Keys : NodeSet(e.queues[j], c) = NodeSet(b.queues[j], c)
      BY <1>6, <1>7, <2>2
    <3>3. CASE Expects(w.val, NodeSet(b.queues[k], c), r, k, sid)
      BY <3>1, <3>2, <3>3
    <3>4. CASE Waits(b, t, c) /\ r.kind # "none"
      <4>1. r.key \in Keys
        BY <1>1, <3>4, RequestFacts
      <4>2. NodeSet(e.queues[r.key], c) = NodeSet(b.queues[r.key], c)
        BY <3>2, <4>1
      <4> QED BY <3>1, <3>4, <4>2 DEF Waits
    <3>5. CASE r.kind = "none"
      BY <3>1, <3>5 DEF Waits, Idle
    <3> QED BY <3>3, <3>4, <3>5 DEF Pending
  <2> QED BY <2>1, <2>2
<1>10. find_valid_entry(e.data, t, k) = w
  BY <1>6, <1>7
<1>11. Pending(e, t, k, sid)
  <2>1. Sound(e.data)
    BY <1>1, <1>6, <1>7
  <2> HIDE DEF w
  <2> QED BY <1>1, <1>7, <1>8, <1>9, <1>10, <2>1 DEF Pending
<1> QED BY <1>6, <1>7, <1>11 DEF e

\* When no node below sid is left, everyone who waited for it was served.
LEMMA NoneBelow ==
  ASSUME NEW t \in Nat, NEW k \in Keys, NEW sid \in StreamIds, NEW b, Pending(b, t, k, sid),
         Below(b, k, sid) = {}
  PROVE  Good(b, t)
<1> DEFINE w == find_valid_entry(b.data, t, k)
           q == b.queues[k]
<1>1. /\ b \in State /\ w.type = "stream" /\ w.val \in Seq(StreamIds)
      /\ q \in Seq(BlockedClient) /\ b.awaiting \in [Clients -> Requests]
  BY DEF Pending, State
<1>2. ASSUME NEW c \in Clients, Expects(w.val, NodeSet(q, c), b.awaiting[c], k, sid)
      PROVE  Waits(b, t, c)
  <2> DEFINE r == b.awaiting[c]
  <2>1. PICK n \in NodeSet(q, c) : ~Less(r.above, n.last_id)
    BY <1>2 DEF Expects
  <2>2. PICK j \in 1..Len(q) : n = q[j]
    BY InNodeSet
  <2>3. n.last_id \in StreamIds /\ ~Less(n.last_id, sid)
    BY <1>1, <2>2, NodeFacts DEF Below
  <2>4. r.above \in StreamIds
    BY <1>1, RequestFacts
  <2>5. ~Less(r.above, sid)
    BY <2>1, <2>3, <2>4, LessEither
  <2>6. \A i \in 1..Len(w.val) : ~Less(r.above, w.val[i])
    BY <1>2, <2>5 DEF Expects
  <2>7. EntriesIn(w) = w.val
    BY <1>1 DEF EntriesIn
  <2>8. r.kind = "stream" /\ r.key = k
    BY <1>2 DEF Expects
  <2> HIDE DEF w
  <2>9. Idle(w, NodeSet(q, c), r)
    BY <2>1, <2>6, <2>7, <2>8 DEF Idle
  <2> QED BY <2>8, <2>9 DEF Waits, w
<1>3. \A c \in Clients : Waits(b, t, c)
  BY <1>2 DEF Pending
<1> QED BY <1>3 DEF Pending, Good

WakeRound(b, t, k, sid) == IF Below(b, k, sid) = {} THEN b ELSE WakeOne(b, t, k, sid)
IsWake(run, b, t, k, sid) ==
    run = [n \in 0..Len(b.queues[k]) |-> IF n = 0 THEN b ELSE WakeRound(run[n - 1], t, k, sid)]

LEMMA WakeRunExists ==
  ASSUME NEW t \in Nat, NEW k \in Keys, NEW sid \in StreamIds, NEW b, Pending(b, t, k, sid)
  PROVE  \E run : IsWake(run, b, t, k, sid)
<1> DEFINE n == Len(b.queues[k])
           S == {x \in State : Pending(x, t, k, sid)}
           step == [i \in 1..n |-> [x \in S |-> WakeRound(x, t, k, sid)]]
<1>1. n \in Nat
  BY DEF Pending, State
<1>2. \A i \in 1..n : \A x \in S : step[i][x] = WakeRound(x, t, k, sid)
  OBVIOUS
<1>3. ASSUME NEW i \in 1..n, NEW x \in S PROVE step[i][x] \in S
  <2>1. Below(x, k, sid) # {} => Pending(WakeOne(x, t, k, sid), t, k, sid)
    BY WakeOneFacts
  <2>2. Below(x, k, sid) # {} => WakeOne(x, t, k, sid) \in S
    BY <2>1 DEF Pending
  <2>3. WakeRound(x, t, k, sid) \in S
    <3> HIDE DEF S
    <3> QED BY <2>2 DEF WakeRound
  <2> HIDE DEF step
  <2> QED BY <1>2, <2>3
<1>4. b \in S
  BY DEF Pending
<1> HIDE DEF step, S, n
<1>5. PICK f \in [0..n -> S] : Iterates(f, b, step, n)
  BY <1>1, <1>3, <1>4, TableExists, Zenon
<1>6. ASSUME NEW i \in 0..n PROVE f[i] = IF i = 0 THEN b ELSE WakeRound(f[i - 1], t, k, sid)
  <2>1. f[i] = IF i = 0 THEN b ELSE step[i][f[i - 1]]
    BY <1>5, Zenon DEF Iterates
  <2>2. i # 0 => i \in 1..n /\ i - 1 \in 0..n
    BY <1>1
  <2>3. i # 0 => f[i - 1] \in S
    BY <1>5, <2>2
  <2> QED BY <1>2, <2>1, <2>2, <2>3
<1>7. f = [i \in 0..n |-> f[i]]
  BY <1>5
<1>8. IsWake(f, b, t, k, sid)
  BY <1>6, <1>7, Zenon DEF IsWake, n
<1> QED BY <1>8

LEMMA WakeAllGood ==
  ASSUME NEW t \in Nat, NEW k \in Keys, NEW sid \in StreamIds, NEW b, Pending(b, t, k, sid)
  PROVE  Good(WakeAll(b, t, k, sid), t)
<1> DEFINE n == Len(b.queues[k])
           run == CHOOSE f : IsWake(f, b, t, k, sid)
<1>1. IsWake(run, b, t, k, sid)
  BY WakeRunExists
<1>2. WakeAll(b, t, k, sid) = run[n]
  BY DEF WakeAll, IsWake, WakeRound
<1>3. n \in Nat
  BY DEF Pending, State
<1> HIDE DEF run, n
<1>4. \A i \in 0..n : run[i] = IF i = 0 THEN b ELSE WakeRound(run[i - 1], t, k, sid)
  BY <1>1, Zenon DEF IsWake, n
<1> DEFINE Left(i) == Len(run[i].queues[k])
           T == {i \in 0..n : /\ Pending(run[i], t, k, sid)
                              /\ Below(run[i], k, sid) = {} \/ Left(i) = n - i}
<1>5. 0 \in T
  <2>1. run[0] = b /\ 0 \in 0..n
    BY <1>3, <1>4
  <2>2. n = n - 0
    BY <1>3
  <2> QED BY <2>1, <2>2 DEF n
<1>6. ASSUME NEW i \in 1..n, i - 1 \in T PROVE i \in T
  <2> DEFINE x == run[i - 1]
  <2>1. i \in 0..n /\ i # 0 /\ n - i = (n - (i - 1)) - 1
    BY <1>3
  <2>2. run[i] = WakeRound(x, t, k, sid)
    BY <1>4, <2>1
  <2>3. Pending(x, t, k, sid) /\ (Below(x, k, sid) = {} \/ Len(x.queues[k]) = n - (i - 1))
    BY <1>6
  <2> HIDE DEF x
  <2>4. CASE Below(x, k, sid) = {}
    <3>1. run[i] = x
      BY <2>2, <2>4 DEF WakeRound
    <3> QED BY <2>1, <2>3, <2>4, <3>1
  <2>5. CASE Below(x, k, sid) # {}
    <3>1. run[i] = WakeOne(x, t, k, sid)
      BY <2>2, <2>5 DEF WakeRound
    <3>2. Pending(run[i], t, k, sid) /\ Len(run[i].queues[k]) = Len(x.queues[k]) - 1
      BY <2>3, <2>5, <3>1, WakeOneFacts
    <3>3. Len(run[i].queues[k]) = n - i
      BY <2>1, <2>3, <2>5, <3>2
    <3> QED BY <2>1, <3>2, <3>3
  <2> QED BY <2>4, <2>5
<1> HIDE DEF T
<1>7. 0..n \subseteq T
  BY <1>3, <1>5, <1>6, BoundedInduction
<1>8. n \in T /\ n - n = 0
  BY <1>3, <1>7
<1>9. Pending(run[n], t, k, sid) /\ (Below(run[n], k, sid) = {} \/ Len(run[n].queues[k]) = 0)
  BY <1>8 DEF T
<1>10. Below(run[n], k, sid) = {}
  BY <1>9 DEF Below
<1>11. Good(run[n], t)
  BY <1>9, <1>10, NoneBelow
<1> QED BY <1>2, <1>11

LEMMA XaddGood ==
  ASSUME NEW t \in Nat, NEW k \in Keys, NEW b, Good(b, t), NEW id \in XaddIds
  PROVE  LET e == handle_xadd(b.data, t, 0, k, id)
             f == [b EXCEPT !.data = e.data]
         IN  Good(IF e.reply[1] = "err" THEN f ELSE WakeAll(f, t, k, e.reply[2]), t)
<1> DEFINE e == handle_xadd(b.data, t, 0, k, id)
           g == e.data
           f == [b EXCEPT !.data = g]
           sid == e.reply[2]
           v == find_valid_entry(b.data, t, k)
           w == find_valid_entry(g, t, k)
<1>1. /\ b \in State /\ b.data \in Data /\ Sound(b.data) /\ IndexOK(b) /\ \A c \in Clients : Waits(b, t, c)
      /\ b.awaiting \in [Clients -> Requests]
  BY DEF Good, State
<1>2. 0 \in Int64
  BY StoreAssumption DEF Int64
<1>3. /\ g \in Data /\ Sound(g) /\ OnlyAt(b.data, g, k)
      /\ e.reply[1] = "err" => Calmer(v, w)
      /\ e.reply[1] # "err" => /\ sid \in StreamIds /\ EntriesIn(v) \in Seq(StreamIds)
                               /\ v.type # "list" /\ w.type = "stream" /\ w.val = Append(EntriesIn(v), sid)
  BY <1>1, <1>2, XaddLive, Zenon
<1>4. f \in State /\ f.data = g /\ f.queues = b.queues /\ f.index = b.index /\ f.awaiting = b.awaiting
  <2> HIDE DEF e, g
  <2> QED BY <1>1, <1>3, ZenonT(30) DEF State
<1> HIDE DEF g, f, sid, v, w
<1>5. IndexOK(f)
  BY <1>1, <1>4 DEF IndexOK
<1>6. ASSUME NEW c \in Clients, b.awaiting[c].key # k \/ b.awaiting[c].kind = "none" PROVE Waits(f, t, c)
  <2> DEFINE r == b.awaiting[c]
  <2>1. CASE r.kind = "none"
    BY <1>4, <2>1 DEF Waits, Idle
  <2>2. CASE r.kind # "none" /\ r.key # k
    <3>1. r.key \in Keys
      BY <1>1, <2>2, RequestFacts
    <3>2. find_valid_entry(g, t, r.key) = find_valid_entry(b.data, t, r.key)
      BY <1>3, <2>2, <3>1, OnlyAtLive
    <3> QED BY <1>1, <1>4, <3>2 DEF Waits
  <2> QED BY <1>6, <2>1, <2>2
<1>7. CASE e.reply[1] = "err"
  <2>1. ASSUME NEW c \in Clients, b.awaiting[c].key = k PROVE Waits(f, t, c)
    <3> DEFINE r == b.awaiting[c]
               N == NodeSet(b.queues[k], c)
    <3>1. Idle(v, N, r)
      BY <1>1, <2>1 DEF Waits, v
    <3>2. Idle(w, N, r)
      <4> HIDE DEF r, N
      <4> QED BY <1>3, <1>7, <3>1, CalmIdle
    <3> QED BY <1>4, <2>1, <3>2 DEF Waits, w
  <2>2. Good(f, t)
    BY <1>3, <1>4, <1>5, <1>6, <2>1 DEF Good
  <2> QED BY <1>7, <2>2 DEF f, g
<1>8. CASE e.reply[1] # "err"
  <2>1. /\ sid \in StreamIds /\ EntriesIn(v) \in Seq(StreamIds)
        /\ v.type # "list" /\ w.type = "stream" /\ w.val = Append(EntriesIn(v), sid)
    BY <1>3, <1>8
  <2>2. w.val \in Seq(StreamIds)
    BY <2>1
  <2>3. ASSUME NEW c \in Clients, b.awaiting[c].key = k, b.awaiting[c].kind # "none"
        PROVE  Waits(f, t, c) \/ Expects(w.val, NodeSet(f.queues[k], c), f.awaiting[c], k, sid)
    <3> DEFINE r == b.awaiting[c]
               N == NodeSet(b.queues[k], c)
               s == EntriesIn(v)
    <3>1. Idle(v, N, r)
      BY <1>1, <2>3 DEF Waits, v
    <3>2. r.kind \in {"list", "stream"}
      BY <1>1, <2>3, RequestFacts
    <3>3. CASE r.kind = "list"
      <4>1. Idle(w, N, r)
        BY <2>1, <3>3 DEF Idle, HasElements
      <4> QED BY <1>4, <2>3, <4>1 DEF Waits, w
    <3>4. CASE r.kind = "stream"
      <4>1. (\A i \in 1..Len(s) : ~Less(r.above, s[i])) /\ \E n \in N : ~Less(r.above, n.last_id)
        BY <2>1, <3>1, <3>4 DEF Idle
      <4> HIDE DEF s, N
      <4>2. ASSUME NEW i \in 1..Len(w.val), Less(r.above, w.val[i]) PROVE w.val[i] = sid
        <5>1. s \in Seq(StreamIds) /\ w.val = Append(s, sid)
          BY <2>1 DEF s
        <5>2. i \in 1..Len(s) => w.val[i] = s[i]
          BY <5>1
        <5>3. i \notin 1..Len(s)
          BY <4>1, <4>2, <5>2
        <5> QED BY <5>1, <5>3
      <4>3. Expects(w.val, N, r, k, sid)
        BY <2>3, <3>4, <4>1, <4>2 DEF Expects
      <4> QED BY <1>4, <4>3 DEF N
    <3> QED BY <3>2, <3>3, <3>4
  <2>4. Pending(f, t, k, sid)
    BY <1>3, <1>4, <1>5, <1>6, <2>1, <2>2, <2>3, Zenon DEF Pending, w
  <2>5. Good(WakeAll(f, t, k, sid), t)
    BY <2>1, <2>4, WakeAllGood
  <2> QED BY <1>8, <2>5 DEF f, g, sid
<1> QED BY <1>7, <1>8

============================================================================
