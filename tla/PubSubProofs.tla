---------------------------- MODULE PubSubProofs ----------------------------
(***************************************************************************)
(* The two indexes of PubSubManager mirror each other, and the indexes,    *)
(* descriptors and buffers of PubSub implement PubSubSpec, for every set   *)
(* of descriptors and channels and whatever the bounds.                    *)
(***************************************************************************)
EXTENDS PubSub, WellFoundedInduction, TLAPS

\* The types of the indexes are all the argument needs.
IndexesOK ==
    /\ subscriptions \in [Fds -> SUBSET Channels]
    /\ channel_subscribers \in [Channels -> SUBSET Fds]

\* What an operation does to the indexes: fd gains or loses some channels, in
\* both of them.
Moves(fd, gained, lost) ==
    /\ subscriptions' = [subscriptions EXCEPT ![fd] = (@ \cup gained) \ lost]
    /\ channel_subscribers' =
          [ch \in Channels |-> IF ch \in lost THEN channel_subscribers[ch] \ {fd}
                               ELSE IF ch \in gained THEN channel_subscribers[ch] \cup {fd}
                               ELSE channel_subscribers[ch]]

\* Such a move keeps the indexes mirrored.
LEMMA MovesMirror ==
    ASSUME NEW fd \in Fds, NEW gained \in SUBSET Channels, NEW lost \in SUBSET Channels,
           IndexesOK, IndexesMirror, Moves(fd, gained, lost)
    PROVE  IndexesOK' /\ IndexesMirror'
<1>1. \A f \in Fds : subscriptions'[f] = IF f = fd THEN (subscriptions[fd] \cup gained) \ lost
                                         ELSE subscriptions[f]
  BY DEF IndexesOK, Moves
<1>2. \A ch \in Channels : channel_subscribers'[ch] =
          IF ch \in lost THEN channel_subscribers[ch] \ {fd}
          ELSE IF ch \in gained THEN channel_subscribers[ch] \cup {fd}
          ELSE channel_subscribers[ch]
  BY DEF Moves
<1>3. IndexesOK'
  BY DEF IndexesOK, Moves
<1>4. ASSUME NEW f \in Fds, NEW ch \in Channels
      PROVE  f \in channel_subscribers'[ch] <=> ch \in subscriptions'[f]
  <2>1. f \in channel_subscribers[ch] <=> ch \in subscriptions[f]
    BY DEF IndexesMirror
  <2>2. CASE f = fd
    BY <1>1, <1>2, <2>1, <2>2
  <2>3. CASE f # fd
    BY <1>1, <1>2, <2>1, <2>3
  <2> QED
    BY <2>2, <2>3
<1> QED
  BY <1>3, <1>4 DEF IndexesMirror

\* SUBSCRIBE.
LEMMA SubscribeMirror ==
    ASSUME NEW fd \in Fds, NEW ch \in Channels, IndexesOK, IndexesMirror, subscribe(fd, ch)
    PROVE  IndexesOK' /\ IndexesMirror'
<1>1. Moves(fd, {ch}, {})
  BY DEF IndexesOK, subscribe, Moves
<1> QED
  BY <1>1, MovesMirror

\* UNSUBSCRIBE; nothing happens to a descriptor without subscriptions.
LEMMA UnsubscribeMirror ==
    ASSUME NEW fd \in Fds, NEW ch \in Channels, IndexesOK, IndexesMirror, unsubscribe(fd, ch)
    PROVE  IndexesOK' /\ IndexesMirror'
<1>1. CASE subscriptions[fd] = {}
  BY <1>1 DEF unsubscribe, indexes, IndexesOK, IndexesMirror
<1>2. CASE subscriptions[fd] # {}
  <2>1. Moves(fd, {}, {ch})
    BY <1>2 DEF IndexesOK, unsubscribe, Moves
  <2> QED
    BY <2>1, MovesMirror
<1> QED
  BY <1>1, <1>2

\* A connection is closed.
LEMMA CloseMirror ==
    ASSUME NEW fd \in Fds, IndexesOK, IndexesMirror, unsubscribe_all(fd)
    PROVE  IndexesOK' /\ IndexesMirror'
<1>1. subscriptions[fd] \in SUBSET Channels
  BY DEF IndexesOK
<1>2. Moves(fd, {}, subscriptions[fd])
  BY <1>1 DEF IndexesOK, unsubscribe_all, Moves
<1> QED
  BY <1>1, <1>2, MovesMirror

\* Every step keeps the indexes mirrored.
LEMMA NextMirror ==
    ASSUME TypeOK, IndexesOK, IndexesMirror, [Next]_vars
    PROVE  IndexesOK' /\ IndexesMirror'
<1>1. CASE UNCHANGED indexes
  BY <1>1 DEF indexes, IndexesOK, IndexesMirror
<1>2. ASSUME NEW fd \in Fds, Close(fd)
      PROVE  IndexesOK' /\ IndexesMirror'
  BY <1>2, CloseMirror DEF Close
<1>3. ASSUME NEW fd \in Fds, NEW op \in Op, handle_subscribe(fd, op)
      PROVE  IndexesOK' /\ IndexesMirror'
  BY <1>3, SubscribeMirror DEF handle_subscribe, Op
<1>4. ASSUME NEW fd \in Fds, NEW op \in Op, handle_unsubscribe(fd, op)
      PROVE  IndexesOK' /\ IndexesMirror'
  BY <1>4, UnsubscribeMirror DEF handle_unsubscribe, Op
<1>5. ASSUME NEW fd \in Fds, ExecStep(fd)
      PROVE  IndexesOK' /\ IndexesMirror'
  <2>1. Head(queued_commands[fd]).ch \in Channels
    <3>1. queued_commands[fd] \in Seq(Op) /\ queued_commands[fd] # <<>>
      BY <1>5 DEF TypeOK, ExecStep
    <3>2. Head(queued_commands[fd]) \in Op
      BY <3>1
    <3> QED
      BY <3>2 DEF Op
  <2>2. \/ subscribe(fd, Head(queued_commands[fd]).ch)
        \/ unsubscribe(fd, Head(queued_commands[fd]).ch)
        \/ UNCHANGED indexes
    BY <1>5 DEF ExecStep
  <2> QED
    BY <1>1, <2>1, <2>2, SubscribeMirror, UnsubscribeMirror
<1>6. ASSUME NEW fd \in Fds,
             \/ Accept(fd) \/ OnlyReplies(fd) \/ Multi(fd) \/ Exec(fd) \/ ExecEnds(fd) \/ Discard(fd)
             \/ \E op \in Op : handle_publish(fd, op) \/ Queue(fd, op)
      PROVE  UNCHANGED indexes
  BY <1>6 DEF Accept, OnlyReplies, Multi, Exec, ExecEnds, Discard, handle_publish, Queue
<1>7. CASE Wake \/ Sleep \/ UNCHANGED vars
  BY <1>1, <1>7 DEF Wake, Sleep, vars
<1> QED
  BY <1>1, <1>2, <1>3, <1>4, <1>5, <1>6, <1>7 DEF Next, Command

----------------------------------------------------------------------------
(* Types, and the output buffers.                                          *)

\* Why nothing is left in a buffer by a flush: a buffer with something in it
\* belongs to a connection whose flag is set, and a flag is set only while
\* the descriptor is on the list.
PendingListed ==
    \A fd \in Fds :
        /\ pending_write[fd] # <<>> => dirty[fd]
        /\ dirty[fd] => fd \in dirty_fds /\ conn_on[fd] # None

\* The invariant of the output buffers.
OutputInv == PendingListed /\ SleepsFlushed

\* What writing to some open connections does.
Writes(fds) ==
    /\ fds \in SUBSET Live(Fds)
    /\ pending_write' \in [Fds -> Seq(Message \cup {Reply})]
    /\ \A fd \in Fds \ fds : pending_write'[fd] = pending_write[fd]
    /\ mark_dirty(fds)

\* Writing keeps the types of the output, and keeps PendingListed.
LEMMA WritesListed ==
    ASSUME NEW fds, TypeOK, PendingListed, Writes(fds), UNCHANGED conn_on
    PROVE  /\ pending_write' \in [Fds -> Seq(Message \cup {Reply})]
           /\ dirty' \in [Fds -> BOOLEAN]
           /\ dirty_fds' \in SUBSET Fds
           /\ PendingListed'
<1>1. fds \in SUBSET Fds /\ \A fd \in fds : conn_on[fd] # None
  BY DEF Writes, Live
<1>2. /\ dirty' = [fd \in Fds |-> dirty[fd] \/ fd \in fds]
      /\ dirty_fds' = dirty_fds \cup {fd \in fds : ~dirty[fd]}
  BY DEF Writes, mark_dirty
<1>3. dirty' \in [Fds -> BOOLEAN] /\ dirty_fds' \in SUBSET Fds
  BY <1>1, <1>2 DEF TypeOK
<1>4. ASSUME NEW fd \in Fds
      PROVE  /\ pending_write'[fd] # <<>> => dirty'[fd]
             /\ dirty'[fd] => fd \in dirty_fds' /\ conn_on'[fd] # None
  <2>1. /\ pending_write[fd] # <<>> => dirty[fd]
        /\ dirty[fd] => fd \in dirty_fds /\ conn_on[fd] # None
    BY DEF PendingListed
  <2>2. CASE fd \in fds
    BY <1>1, <1>2, <2>1, <2>2
  <2>3. CASE fd \notin fds
    BY <1>2, <2>1, <2>3 DEF Writes
  <2> QED
    BY <2>2, <2>3
<1> QED
  BY <1>3, <1>4 DEF Writes, PendingListed

\* Appending one item to some buffers yields buffers.
LEMMA SendToType ==
    ASSUME TypeOK, NEW fds, NEW item \in Message \cup {Reply}
    PROVE  /\ send_to(fds, item) \in [Fds -> Seq(Message \cup {Reply})]
           /\ \A fd \in Fds \ Live(fds) : send_to(fds, item)[fd] = pending_write[fd]
<1>1. ASSUME NEW fd \in Fds
      PROVE  /\ pending_write[fd] \in Seq(Message \cup {Reply})
             /\ Append(pending_write[fd], item) \in Seq(Message \cup {Reply})
  BY DEF TypeOK
<1> QED
  BY <1>1 DEF send_to

\* A reply is a write.
LEMMA RepliesWrites ==
    ASSUME TypeOK, NEW fd \in Fds, conn_on[fd] # None, Replies(fd)
    PROVE  Writes({fd})
<1>1. Reply \in Message \cup {Reply}
  OBVIOUS
<1>2. Live({fd}) = {fd} /\ {fd} \in SUBSET Live(Fds)
  BY DEF Live
<1>3. /\ send_to({fd}, Reply) \in [Fds -> Seq(Message \cup {Reply})]
      /\ \A f \in Fds \ {fd} : send_to({fd}, Reply)[f] = pending_write[f]
  BY <1>1, <1>2, SendToType, ZenonT(40)
<1> QED
  BY <1>2, <1>3, ZenonT(40) DEF Replies, Writes

\* So is a message to the subscribers of a channel.
LEMMA MessageWrites ==
    ASSUME TypeOK, NEW ch \in Channels,
           pending_write' = send_to(channel_subscribers[ch], <<ch, published + 1>>),
           mark_dirty(Live(channel_subscribers[ch]))
    PROVE  Writes(Live(channel_subscribers[ch]))
<1>1. <<ch, published + 1>> \in Message \cup {Reply}
  BY DEF TypeOK, Message
<1>2. Live(channel_subscribers[ch]) \in SUBSET Live(Fds)
  BY DEF TypeOK, Live
<1> DEFINE subs == channel_subscribers[ch]
           sent == send_to(subs, <<ch, published + 1>>)
<1>3. /\ sent \in [Fds -> Seq(Message \cup {Reply})]
      /\ \A f \in Fds \ Live(subs) : sent[f] = pending_write[f]
  BY <1>1, SendToType, Zenon
<1> QED
  BY <1>2, <1>3, Zenon DEF Writes

\* And so is PUBLISH, which also replies to its own connection.
LEMMA PublishWrites ==
    ASSUME TypeOK, NEW fd \in Fds, NEW op \in Op, handle_publish(fd, op)
    PROVE  Writes(Live(channel_subscribers[op.ch]) \cup {fd})
<1> DEFINE subs == channel_subscribers[op.ch]
           sent == send_to(subs, <<op.ch, published + 1>>)
<1>1. op.ch \in Channels
  BY DEF Op
<1>2. <<op.ch, published + 1>> \in Message \cup {Reply}
  BY <1>1 DEF TypeOK, Message
<1>3. /\ sent \in [Fds -> Seq(Message \cup {Reply})]
      /\ \A f \in Fds \ Live(subs) : sent[f] = pending_write[f]
  BY <1>2, SendToType, Zenon
<1>4. Live(subs) \cup {fd} \in SUBSET Live(Fds)
  BY <1>1 DEF TypeOK, Live, handle_publish, Receives
<1>5. /\ pending_write' = [sent EXCEPT ![fd] = Append(sent[fd], Reply)]
      /\ mark_dirty(Live(subs) \cup {fd})
  BY DEF handle_publish, Publishes
<1> HIDE DEF sent
<1>6. Append(sent[fd], Reply) \in Seq(Message \cup {Reply})
  BY <1>3
<1>7. /\ pending_write' \in [Fds -> Seq(Message \cup {Reply})]
      /\ \A f \in Fds \ (Live(subs) \cup {fd}) : pending_write'[f] = pending_write[f]
  BY <1>3, <1>5, <1>6
<1> QED
  BY <1>4, <1>5, <1>7, Zenon DEF Writes

\* The parts of the state that are neither indexes nor output.
RestOK ==
    /\ conn_on \in [Fds -> {None} \cup Conns]
    /\ accepted \in 0..MaxConns
    /\ in_multi \in [Fds -> BOOLEAN]
    /\ queued_commands \in [Fds -> Seq(Op)]
    /\ executing \in Fds \cup {NoFd}
    /\ phase \in {"wait", "events"}
    /\ published \in Nat

OutputOK ==
    /\ pending_write \in [Fds -> Seq(Message \cup {Reply})]
    /\ dirty \in [Fds -> BOOLEAN]
    /\ dirty_fds \in SUBSET Fds

\* EXEC runs on an open connection, during the dispatch of events.
ExecOnOpen == executing # NoFd => phase = "events" /\ conn_on[executing] # None

\* The invariant: types, mirrored indexes, and listed buffers.
IInv == TypeOK /\ IndexesMirror /\ OutputInv /\ ExecOnOpen

\* The types, in three parts.
LEMMA TypeParts == TypeOK <=> IndexesOK /\ RestOK /\ OutputOK
BY DEF TypeOK, IndexesOK, RestOK, OutputOK

\* The transaction of a connection is dropped.
LEMMA ClearTxType ==
    ASSUME RestOK, NEW fd \in Fds, clear_tx(fd)
    PROVE  in_multi' \in [Fds -> BOOLEAN] /\ queued_commands' \in [Fds -> Seq(Op)]
<1>1. <<>> \in Seq(Op)
  OBVIOUS
<1> QED
  BY <1>1 DEF RestOK, clear_tx

\* Every step keeps the types of the rest.
LEMMA NextRest ==
    ASSUME RestOK, [Next]_vars
    PROVE  RestOK'
<1> USE PubSubAssumption DEF RestOK
<1>1. ASSUME NEW fd \in Fds, Accept(fd)
      PROVE  RestOK'
  <2>1. accepted' \in 0..MaxConns /\ accepted' \in Conns
    BY <1>1 DEF Accept, Conns
  <2>2. conn_on' \in [Fds -> {None} \cup Conns]
    BY <1>1, <2>1 DEF Accept
  <2> QED
    BY <1>1, <2>1, <2>2 DEF Accept, tx
<1>2. ASSUME NEW fd \in Fds, Close(fd)
      PROVE  RestOK'
  <2>1. conn_on' \in [Fds -> {None} \cup Conns]
    BY <1>2 DEF Close
  <2> QED
    BY <1>2, <2>1, ClearTxType DEF Close
<1>3. ASSUME NEW fd \in Fds, NEW op \in Op, handle_publish(fd, op)
      PROVE  RestOK'
  BY <1>3, SMTT(30) DEF handle_publish, Publishes, tx
<1>4. ASSUME NEW fd \in Fds, NEW op \in Op, Queue(fd, op)
      PROVE  RestOK'
  <2>1. Append(queued_commands[fd], op) \in Seq(Op)
    OBVIOUS
  <2> QED
    BY <1>4, <2>1 DEF Queue
<1>5. ASSUME NEW fd \in Fds, Multi(fd)
      PROVE  RestOK'
  BY <1>5 DEF Multi
<1>6. ASSUME NEW fd \in Fds, Exec(fd)
      PROVE  RestOK'
  BY <1>6 DEF Exec, tx
<1>7. ASSUME NEW fd \in Fds, ExecStep(fd)
      PROVE  RestOK'
  <2>1. Tail(queued_commands[fd]) \in Seq(Op)
    BY <1>7, SMTT(30) DEF ExecStep
  <2>2. queued_commands' \in [Fds -> Seq(Op)]
    BY <1>7, <2>1 DEF ExecStep
  <2>3. published' \in Nat
    BY <1>7 DEF ExecStep
  <2> QED
    BY <1>7, <2>2, <2>3 DEF ExecStep
<1>8. ASSUME NEW fd \in Fds, ExecEnds(fd) \/ Discard(fd)
      PROVE  RestOK'
  BY <1>8, ClearTxType DEF ExecEnds, Discard
<1>9. ASSUME NEW fd \in Fds,
             \/ OnlyReplies(fd)
             \/ \E op \in Op : handle_subscribe(fd, op) \/ handle_unsubscribe(fd, op)
      PROVE  RestOK'
  BY <1>9 DEF OnlyReplies, handle_subscribe, handle_unsubscribe, tx
<1>10. CASE Wake \/ Sleep \/ UNCHANGED vars
  BY <1>10 DEF Wake, Sleep, vars, tx
<1> QED
  BY <1>1, <1>2, <1>3, <1>4, <1>5, <1>6, <1>7, <1>8, <1>9, <1>10 DEF Next, Command

\* Writing during the dispatch of events keeps the invariant of the output.
LEMMA WritesInv ==
    ASSUME TypeOK, OutputInv, NEW fds, Writes(fds), UNCHANGED conn_on, phase' = "events"
    PROVE  OutputOK' /\ OutputInv'
BY WritesListed DEF OutputOK, OutputInv, SleepsFlushed

\* A flush empties every buffer.
LEMMA FlushInv ==
    ASSUME TypeOK, OutputInv, flush_all, UNCHANGED conn_on
    PROVE  OutputOK' /\ OutputInv'
<1>1. ASSUME NEW fd \in Fds
      PROVE  pending_write'[fd] = <<>> /\ dirty'[fd] = FALSE
  <2>1. /\ pending_write[fd] # <<>> => dirty[fd]
        /\ dirty[fd] => fd \in dirty_fds /\ conn_on[fd] # None
    BY DEF OutputInv, PendingListed
  <2>2. fd \in Live(dirty_fds) <=> fd \in dirty_fds /\ conn_on[fd] # None
    BY DEF Live
  <2>3. /\ pending_write'[fd] = IF fd \in Live(dirty_fds) THEN <<>> ELSE pending_write[fd]
        /\ dirty'[fd] = (dirty[fd] /\ fd \notin Live(dirty_fds))
    BY DEF flush_all
  <2> QED
    BY <2>1, <2>2, <2>3
<1>2. pending_write' = [fd \in Fds |-> pending_write'[fd]] /\ dirty' = [fd \in Fds |-> dirty'[fd]]
  BY DEF flush_all
<1>3. <<>> \in Seq(Message \cup {Reply})
  OBVIOUS
<1>4. OutputOK'
  <2>1. pending_write' \in [Fds -> Seq(Message \cup {Reply})]
    BY <1>1, <1>2, <1>3
  <2>2. dirty' \in [Fds -> BOOLEAN]
    BY <1>1, <1>2
  <2>3. dirty_fds' \in SUBSET Fds
    BY DEF flush_all
  <2> QED
    BY <2>1, <2>2, <2>3 DEF OutputOK
<1> QED
  BY <1>1, <1>4 DEF OutputInv, PendingListed, SleepsFlushed

\* A command that replies.
LEMMA ReplyInv ==
    ASSUME TypeOK, OutputInv, NEW fd \in Fds, conn_on[fd] # None, phase = "events",
           Replies(fd), UNCHANGED <<conn_on, phase>>
    PROVE  OutputOK' /\ OutputInv'
BY RepliesWrites, WritesInv

\* Every step keeps that.
LEMMA NextExecOnOpen ==
    ASSUME TypeOK, ExecOnOpen, [Next]_vars
    PROVE  ExecOnOpen'
<1> USE PubSubAssumption DEF ExecOnOpen
<1>1. ASSUME NEW fd \in Fds, Accept(fd) \/ Close(fd) \/ ExecEnds(fd)
      PROVE  ExecOnOpen'
  BY <1>1 DEF Accept, Close, ExecEnds, Dispatching
<1>2. ASSUME NEW fd \in Fds, Exec(fd)
      PROVE  ExecOnOpen'
  BY <1>2 DEF Exec, Receives, Dispatching
<1>3. ASSUME NEW fd \in Fds,
             \/ OnlyReplies(fd) \/ Multi(fd) \/ ExecStep(fd) \/ Discard(fd)
             \/ \E op \in Op : \/ handle_subscribe(fd, op) \/ handle_unsubscribe(fd, op)
                               \/ handle_publish(fd, op) \/ Queue(fd, op)
      PROVE  UNCHANGED <<executing, phase, conn_on>>
  BY <1>3 DEF OnlyReplies, Multi, ExecStep, Discard, handle_subscribe, handle_unsubscribe,
              handle_publish, Queue
<1>4. CASE Wake \/ Sleep \/ UNCHANGED vars
  BY <1>4 DEF Wake, Sleep, vars, Dispatching
<1> QED
  BY <1>1, <1>2, <1>3, <1>4 DEF Next, Command

\* Every step keeps the invariant of the output.
LEMMA NextOutput ==
    ASSUME TypeOK, OutputInv, ExecOnOpen, [Next]_vars
    PROVE  OutputOK' /\ OutputInv'
<1>0. OutputOK /\ phase \in {"wait", "events"}
  BY TypeParts DEF RestOK
<1>1. ASSUME NEW fd \in Fds, Accept(fd)
      PROVE  OutputOK' /\ OutputInv'
  BY <1>0, <1>1
     DEF Accept, output, OutputOK, OutputInv, PendingListed, SleepsFlushed, RestOK, TypeOK, Conns, None
<1>2. ASSUME NEW fd \in Fds, Close(fd)
      PROVE  OutputOK' /\ OutputInv'
  <2>1. <<>> \in Seq(Message \cup {Reply})
    OBVIOUS
  <2>2. OutputOK'
    BY <1>0, <1>2, <2>1 DEF Close, OutputOK
  <2>3. PendingListed'
    BY <1>0, <1>2 DEF Close, OutputOK, OutputInv, PendingListed, TypeOK
  <2>4. SleepsFlushed'
    BY <1>2 DEF Close, Dispatching, SleepsFlushed
  <2> QED
    BY <2>2, <2>3, <2>4 DEF OutputInv
<1>3. ASSUME NEW fd \in Fds, NEW op \in Op, handle_publish(fd, op)
      PROVE  OutputOK' /\ OutputInv'
  <2>1. UNCHANGED conn_on /\ phase' = "events"
    BY <1>3 DEF handle_publish, Receives, Dispatching
  <2> QED
    BY <1>3, <2>1, PublishWrites, WritesInv
<1>4. ASSUME NEW fd \in Fds,
             \/ OnlyReplies(fd) \/ Multi(fd) \/ Discard(fd)
             \/ \E op \in Op : handle_subscribe(fd, op) \/ handle_unsubscribe(fd, op) \/ Queue(fd, op)
      PROVE  OutputOK' /\ OutputInv'
  <2>1. Receives(fd) /\ Replies(fd) /\ UNCHANGED <<conn_on, phase>>
    BY <1>4 DEF OnlyReplies, Multi, Discard, handle_subscribe, handle_unsubscribe, Queue
  <2> QED
    BY <2>1, ReplyInv DEF Receives, Dispatching
<1>5. ASSUME NEW fd \in Fds, Exec(fd)
      PROVE  OutputOK' /\ OutputInv'
  <2>1. UNCHANGED <<conn_on, pending_write>> /\ phase' = "events" /\ conn_on[fd] # None /\ mark_dirty({fd})
    BY <1>5 DEF Exec, Receives, Dispatching
  <2>2. Writes({fd})
    BY <1>0, <2>1 DEF Writes, Live, OutputOK
  <2> QED
    BY <2>1, <2>2, WritesInv
<1>6. ASSUME NEW fd \in Fds, ExecStep(fd)
      PROVE  OutputOK' /\ OutputInv'
  <2> DEFINE ch == Head(queued_commands[fd]).ch
  <2>1. UNCHANGED conn_on /\ phase' = phase /\ phase = "events"
    BY <1>6, PubSubAssumption DEF ExecStep, ExecOnOpen
  <2>2. ch \in Channels
    <3>1. queued_commands[fd] \in Seq(Op) /\ queued_commands[fd] # <<>>
      BY <1>6 DEF TypeOK, ExecStep
    <3>2. Head(queued_commands[fd]) \in Op
      BY <3>1
    <3> QED
      BY <3>2 DEF Op
  <2>3. \/ UNCHANGED output
        \/ /\ pending_write' = send_to(channel_subscribers[ch], <<ch, published + 1>>)
           /\ mark_dirty(Live(channel_subscribers[ch]))
    BY <1>6 DEF ExecStep
  <2>4. CASE UNCHANGED output
    BY <1>0, <2>1, <2>4 DEF output, OutputOK, OutputInv, PendingListed, SleepsFlushed
  <2> HIDE DEF ch
  <2>5. CASE /\ pending_write' = send_to(channel_subscribers[ch], <<ch, published + 1>>)
             /\ mark_dirty(Live(channel_subscribers[ch]))
    <3>1. Writes(Live(channel_subscribers[ch]))
      BY <2>2, <2>5, MessageWrites, Zenon
    <3> QED
      BY <2>1, <3>1, WritesInv
  <2> QED
    BY <2>3, <2>4, <2>5
<1>7. ASSUME NEW fd \in Fds, ExecEnds(fd)
      PROVE  OutputOK' /\ OutputInv'
  <2>1. conn_on[fd] # None /\ phase = "events" /\ Replies(fd) /\ UNCHANGED <<conn_on, phase>>
    BY <1>7, PubSubAssumption DEF ExecEnds, ExecOnOpen
  <2> QED
    BY <2>1, ReplyInv
<1>8. CASE Wake \/ UNCHANGED vars
  BY <1>0, <1>8 DEF Wake, vars, output, OutputOK, OutputInv, PendingListed, SleepsFlushed
<1>9. CASE Sleep
  BY <1>9, FlushInv DEF Sleep
<1> QED
  BY <1>1, <1>2, <1>3, <1>4, <1>5, <1>6, <1>7, <1>8, <1>9 DEF Next, Command

----------------------------------------------------------------------------
(* The theorems.                                                           *)

\* The invariant holds at the start.
LEMMA InitInv == Init => IInv
<1> SUFFICES ASSUME Init PROVE IInv
  OBVIOUS
<1>1. <<>> \in Seq(Op) /\ <<>> \in Seq(Message \cup {Reply})
  OBVIOUS
<1>2. TypeOK
  BY <1>1, PubSubAssumption DEF Init, TypeOK
<1> QED
  BY <1>2 DEF Init, IInv, IndexesMirror, OutputInv, PendingListed, SleepsFlushed, ExecOnOpen

\* Every step keeps it.
LEMMA NextInv == IInv /\ [Next]_vars => IInv'
<1> SUFFICES ASSUME IInv, [Next]_vars PROVE IInv'
  OBVIOUS
<1>1. TypeOK /\ IndexesMirror /\ OutputInv /\ ExecOnOpen
  BY DEF IInv
<1>2. IndexesOK /\ RestOK /\ OutputOK
  BY <1>1, TypeParts
<1>3. IndexesOK' /\ IndexesMirror'
  BY <1>1, <1>2, NextMirror
<1>4. RestOK'
  BY <1>2, NextRest
<1>5. OutputOK' /\ OutputInv'
  BY <1>1, NextOutput
<1>6. TypeOK'
  BY <1>3, <1>4, <1>5 DEF TypeOK, IndexesOK, RestOK, OutputOK
<1>7. ExecOnOpen'
  BY <1>1, NextExecOnOpen
<1> QED
  BY <1>3, <1>5, <1>6, <1>7 DEF IInv

\* Type correctness of the publish/subscribe state and the output buffers.
THEOREM TypeCorrect == Spec => []TypeOK
<1>1. IInv => TypeOK
  BY DEF IInv
<1> QED
  BY <1>1, InitInv, NextInv, PTL DEF Spec

\* subscriptions_ and channel_subscribers_ always mirror each other.
THEOREM MirrorSound == Spec => []IndexesMirror
<1>1. IInv => IndexesMirror
  BY DEF IInv
<1> QED
  BY <1>1, InitInv, NextInv, PTL DEF Spec

\* The loop never sleeps on output: the dirty list misses no buffer, even
\* though a descriptor on it may have been closed and accepted again.
THEOREM FlushSound == Spec => []SleepsFlushed
<1>1. IInv => SleepsFlushed
  BY DEF IInv, OutputInv
<1> QED
  BY <1>1, InitInv, NextInv, PTL DEF Spec

----------------------------------------------------------------------------
(* PubSub implements PubSubSpec.                                           *)

Less == {p \in Nat \X Nat : p[1] < p[2]}

\* A set that holds 0, and with every natural the next, holds them all.
LEMMA SetInduction ==
    ASSUME NEW S, 0 \in S, \A n \in Nat : n \in S => n + 1 \in S
    PROVE  Nat \subseteq S
<1> DEFINE Left == {n \in Nat : n \notin S}
<1>1. SUFFICES ASSUME Left # {} PROVE FALSE
  OBVIOUS
<1>2. IsWellFoundedOn(Less, Nat)
  BY NatLessThanWellFounded DEF Less, OpToRel
<1>3. Left \subseteq Nat
  OBVIOUS
<1>4. PICK x \in Left : \A y \in Left : ~(<<y, x>> \in Less)
  <2> HIDE DEF Left
  <2> QED
    BY <1>1, <1>2, <1>3, WFMin
<1>5. x \in Nat /\ x - 1 \in Nat /\ <<x - 1, x>> \in Nat \X Nat /\ x - 1 < x /\ (x - 1) + 1 = x
  OBVIOUS
<1>6. x - 1 \notin Left
  BY <1>4, <1>5 DEF Less
<1> QED
  BY <1>5, <1>6

Item == Message \cup {Reply}

----------------------------------------------------------------------------
(* The messages in a buffer.                                               *)

\* The step of Messages, and its table for the first n items.
Add(seq, item) == IF IsMessage(item) THEN Append(seq, item) ELSE seq
IsTable(r, buf, n) == r = [i \in 0..n |-> IF i = 0 THEN <<>> ELSE Add(r[i - 1], buf[i])]

LEMMA MessageTableExists ==
    ASSUME NEW buf, NEW n \in Nat
    PROVE  \E r : IsTable(r, buf, n)
<1> DEFINE S == {m \in Nat : \E r : IsTable(r, buf, m)}
<1>1. 0 \in S
  <2> DEFINE r == [i \in 0..0 |-> <<>>]
  <2>1. r = [i \in 0..0 |-> IF i = 0 THEN <<>> ELSE Add(r[i - 1], buf[i])]
    OBVIOUS
  <2>2. IsTable(r, buf, 0)
    BY <2>1 DEF IsTable
  <2> QED
    BY <2>2
<1>2. ASSUME NEW m \in Nat, m \in S PROVE m + 1 \in S
  <2>1. PICK r : IsTable(r, buf, m)
    BY <1>2
  <2> DEFINE q == [i \in 0..(m + 1) |-> IF i <= m THEN r[i] ELSE Add(r[m], buf[m + 1])]
  <2>2. \A i \in 0..m : r[i] = IF i = 0 THEN <<>> ELSE Add(r[i - 1], buf[i])
    BY <2>1 DEF IsTable
  <2>3. ASSUME NEW i \in 0..(m + 1)
        PROVE  q[i] = IF i = 0 THEN <<>> ELSE Add(q[i - 1], buf[i])
    <3>1. CASE i = 0
      BY <2>2, <3>1
    <3>2. CASE i # 0 /\ i <= m
      BY <2>2, <3>2
    <3>3. CASE i = m + 1
      <4>1. q[i] = Add(r[m], buf[m + 1]) /\ q[i - 1] = r[m] /\ i # 0
        BY <3>3
      <4> QED
        BY <3>3, <4>1
    <3> QED
      BY <3>1, <3>2, <3>3
  <2>4. q = [i \in 0..(m + 1) |-> q[i]]
    OBVIOUS
  <2> HIDE DEF q
  <2>5. q = [i \in 0..(m + 1) |-> IF i = 0 THEN <<>> ELSE Add(q[i - 1], buf[i])]
    BY <2>3, <2>4
  <2>6. IsTable(q, buf, m + 1)
    BY <2>5 DEF IsTable
  <2> QED
    BY <2>6
<1> HIDE DEF S
<1>3. n \in S
  BY <1>1, <1>2, SetInduction
<1> QED
  BY <1>3 DEF S

LEMMA MessagesTable ==
    ASSUME NEW buf \in Seq(Item)
    PROVE  \E r : IsTable(r, buf, Len(buf)) /\ Messages(buf) = r[Len(buf)]
<1> DEFINE r == CHOOSE x : IsTable(x, buf, Len(buf))
<1>1. IsTable(r, buf, Len(buf))
  BY MessageTableExists
<1>2. Messages(buf) = r[Len(buf)]
  BY DEF Messages, IsTable, Add
<1> QED
  BY <1>1, <1>2

\* A table holds sequences of messages, and depends on the items so far only.
LEMMA TableFacts ==
    ASSUME NEW s \in Seq(Item), NEW r, IsTable(r, s, Len(s)), NEW m \in 0..Len(s),
           NEW t \in Seq(Item), NEW q, IsTable(q, t, Len(t)), m <= Len(t),
           \A i \in 1..m : s[i] = t[i]
    PROVE  r[m] = q[m] /\ r[m] \in Seq(Message)
<1>1. \A i \in 0..Len(s) : r[i] = IF i = 0 THEN <<>> ELSE Add(r[i - 1], s[i])
  BY DEF IsTable
<1>2. \A i \in 0..Len(t) : q[i] = IF i = 0 THEN <<>> ELSE Add(q[i - 1], t[i])
  BY DEF IsTable
<1> DEFINE S == {i \in Nat : i <= m => r[i] = q[i] /\ r[i] \in Seq(Message)}
<1>3. 0 \in S
  <2>1. 0 \in 0..Len(s) /\ 0 \in 0..Len(t)
    OBVIOUS
  <2>2. r[0] = <<>> /\ q[0] = <<>>
    BY <1>1, <1>2, <2>1
  <2>3. <<>> \in Seq(Message)
    OBVIOUS
  <2> QED
    BY <2>2, <2>3
<1>4. ASSUME NEW i \in Nat, i \in S PROVE i + 1 \in S
  <2> SUFFICES ASSUME i + 1 <= m PROVE r[i + 1] = q[i + 1] /\ r[i + 1] \in Seq(Message)
    OBVIOUS
  <2>1. r[i + 1] = Add(r[i], s[i + 1]) /\ q[i + 1] = Add(q[i], t[i + 1]) /\ s[i + 1] = t[i + 1]
    BY <1>1, <1>2
  <2>2. r[i] = q[i] /\ r[i] \in Seq(Message)
    BY <1>4
  <2>3. s[i + 1] \in Item
    OBVIOUS
  <2>4. IsMessage(s[i + 1]) => s[i + 1] \in Message
    BY <2>3 DEF IsMessage, Item
  <2>5. Add(r[i], s[i + 1]) \in Seq(Message)
    BY <2>2, <2>4 DEF Add
  <2> QED
    BY <2>1, <2>2, <2>5
<1> HIDE DEF S
<1>5. m \in S
  BY <1>3, <1>4, SetInduction
<1> QED
  BY <1>5 DEF S

\* What Messages returns for an empty buffer, and for one item more.
LEMMA MessagesEmpty == Messages(<<>>) = <<>>
<1>1. <<>> \in Seq(Item) /\ Len(<<>>) = 0
  OBVIOUS
<1>2. PICK r : IsTable(r, <<>>, Len(<<>>)) /\ Messages(<<>>) = r[Len(<<>>)]
  BY <1>1, MessagesTable
<1>3. Messages(<<>>) = r[0] /\ \A i \in 0..0 : r[i] = IF i = 0 THEN <<>> ELSE Add(r[i - 1], <<>>[i])
  BY <1>1, <1>2 DEF IsTable
<1> QED
  BY <1>3

LEMMA MessagesAppend ==
    ASSUME NEW buf \in Seq(Item), NEW x \in Item
    PROVE  /\ Messages(buf) \in Seq(Message)
           /\ Messages(Append(buf, x)) = Add(Messages(buf), x)
<1> DEFINE more == Append(buf, x)
           n == Len(buf)
<1>1. more \in Seq(Item) /\ Len(more) = n + 1 /\ n \in Nat /\ more[n + 1] = x
      /\ \A i \in 1..n : more[i] = buf[i]
  OBVIOUS
<1> HIDE DEF more, n
<1>2. PICK r : IsTable(r, buf, n) /\ Messages(buf) = r[n]
  BY MessagesTable DEF n
<1>3. PICK q : IsTable(q, more, Len(more)) /\ Messages(more) = q[Len(more)]
  BY <1>1, MessagesTable
<1>4. r[n] = q[n] /\ r[n] \in Seq(Message)
  <2>1. IsTable(r, buf, Len(buf)) /\ n \in 0..Len(buf) /\ n <= Len(more)
    BY <1>1, <1>2 DEF n
  <2>2. \A i \in 1..n : buf[i] = more[i]
    BY <1>1
  <2> QED
    BY <1>1, <1>3, <2>1, <2>2, TableFacts
<1>5. q[n + 1] = Add(q[n], x)
  <2>1. \A i \in 0..(n + 1) : q[i] = IF i = 0 THEN <<>> ELSE Add(q[i - 1], more[i])
    BY <1>1, <1>3 DEF IsTable
  <2>2. n + 1 \in 0..(n + 1) /\ n + 1 # 0 /\ n + 1 - 1 = n
    BY <1>1
  <2> QED
    BY <1>1, <2>1, <2>2
<1> QED
  BY <1>1, <1>2, <1>3, <1>4, <1>5 DEF more

----------------------------------------------------------------------------
(* Connections and descriptors.                                            *)

\* A connection has one descriptor, and a descriptor without a connection has
\* nothing left of the one before.
ConnInv ==
    /\ received \in [Fds -> Seq(Message)]
    /\ \A f \in Fds : conn_on[f] <= accepted
    /\ \A f, g \in Fds : conn_on[f] = conn_on[g] /\ conn_on[f] # None => f = g
    /\ \A f \in Fds : conn_on[f] = None => subscriptions[f] = {} /\ received[f] = <<>>

LEMMA FlushReceived ==
    ASSUME TypeOK, ConnInv, flush_all, UNCHANGED conn_on
    PROVE  /\ received' \in [Fds -> Seq(Message)]
           /\ \A f \in Fds : conn_on[f] = None => received'[f] = <<>>
<1>1. ASSUME NEW f \in Fds
      PROVE  /\ received[f] \o Messages(pending_write[f]) \in Seq(Message)
             /\ received[f] \in Seq(Message)
  <2>1. pending_write[f] \in Seq(Item) /\ Reply \in Item
    BY DEF TypeOK, Item
  <2>2. Messages(pending_write[f]) \in Seq(Message)
    BY <2>1, MessagesAppend
  <2>3. received[f] \in Seq(Message)
    BY DEF ConnInv
  <2> QED
    BY <2>2, <2>3
<1>2. received' = [f \in Fds |-> IF f \in Live(dirty_fds)
                                 THEN received[f] \o Messages(pending_write[f]) ELSE received[f]]
  BY DEF flush_all
<1>3. \A f \in Fds : conn_on[f] = None => f \notin Live(dirty_fds)
  BY DEF Live
<1> QED
  BY <1>1, <1>2, <1>3 DEF ConnInv

\* What a step may do to the subscriptions and the connections.
LEMMA InitConn == Init => ConnInv
<1> SUFFICES ASSUME Init PROVE ConnInv
  OBVIOUS
<1>1. <<>> \in Seq(Message)
  OBVIOUS
<1> QED
  BY <1>1 DEF Init, ConnInv, None

LEMMA SubscriptionsConn ==
    ASSUME TypeOK, ConnInv, NEW fd \in Fds, conn_on[fd] # None,
           UNCHANGED <<conn_on, accepted, received>>,
           \A f \in Fds \ {fd} : subscriptions'[f] = subscriptions[f]
    PROVE  ConnInv'
BY DEF ConnInv

LEMMA NextConn ==
    ASSUME IInv, ConnInv, [Next]_vars
    PROVE  ConnInv'
<1>0. TypeOK /\ ExecOnOpen
  BY DEF IInv
<1>1. ASSUME NEW fd \in Fds, Accept(fd)
      PROVE  ConnInv'
  <2>1. /\ conn_on' = [conn_on EXCEPT ![fd] = accepted + 1] /\ accepted' = accepted + 1
        /\ conn_on[fd] = None /\ UNCHANGED <<received, subscriptions>>
    BY <1>1 DEF Accept, indexes
  <2>2. conn_on \in [Fds -> Nat] /\ accepted \in Nat /\ \A f \in Fds : conn_on[f] <= accepted
    BY <1>0, PubSubAssumption DEF TypeOK, ConnInv, Conns, None
  <2>3. \A f \in Fds : conn_on'[f] = IF f = fd THEN accepted + 1 ELSE conn_on[f]
    BY <2>1, <2>2
  <2>4. \A f \in Fds : conn_on'[f] <= accepted'
    BY <2>1, <2>2, <2>3
  <2>5. ASSUME NEW f \in Fds, NEW g \in Fds, conn_on'[f] = conn_on'[g], conn_on'[f] # None
        PROVE  f = g
    <3>1. conn_on[f] < accepted + 1 /\ conn_on[g] < accepted + 1
      BY <2>2
    <3>2. f = fd <=> g = fd
      BY <2>2, <2>3, <2>5, <3>1
    <3>3. CASE f # fd /\ g # fd
      BY <2>3, <2>5, <3>3 DEF ConnInv
    <3> QED
      BY <3>2, <3>3
  <2>6. \A f \in Fds : conn_on'[f] = None => conn_on[f] = None
    BY <2>1, <2>3
  <2> QED
    BY <2>1, <2>4, <2>5, <2>6 DEF ConnInv
<1>2. ASSUME NEW fd \in Fds, Close(fd)
      PROVE  ConnInv'
  <2>1. /\ conn_on' = [conn_on EXCEPT ![fd] = None] /\ accepted' = accepted
        /\ received' = [received EXCEPT ![fd] = <<>>]
        /\ subscriptions' = [subscriptions EXCEPT ![fd] = {}]
    BY <1>2 DEF Close, unsubscribe_all
  <2>2. conn_on \in [Fds -> Nat] /\ accepted \in Nat /\ subscriptions \in [Fds -> SUBSET Channels]
    BY <1>0, PubSubAssumption DEF TypeOK, Conns, None
  <2>3. \A f \in Fds : /\ conn_on'[f] = IF f = fd THEN None ELSE conn_on[f]
                       /\ subscriptions'[f] = IF f = fd THEN {} ELSE subscriptions[f]
                       /\ received'[f] = IF f = fd THEN <<>> ELSE received[f]
    BY <2>1, <2>2 DEF ConnInv
  <2>4. <<>> \in Seq(Message)
    OBVIOUS
  <2>5. received' \in [Fds -> Seq(Message)]
    BY <2>1, <2>4 DEF ConnInv
  <2>6. \A f \in Fds : conn_on'[f] <= accepted'
    BY <2>1, <2>2, <2>3 DEF ConnInv, None
  <2>7. \A f, g \in Fds : conn_on'[f] = conn_on'[g] /\ conn_on'[f] # None => f = g
    BY <2>3 DEF ConnInv
  <2> QED
    BY <2>3, <2>5, <2>6, <2>7 DEF ConnInv
<1>3. ASSUME NEW fd \in Fds, NEW op \in Op, handle_subscribe(fd, op) \/ handle_unsubscribe(fd, op)
      PROVE  ConnInv'
  <2>1. conn_on[fd] # None /\ UNCHANGED <<conn_on, accepted, received>>
    BY <1>3 DEF handle_subscribe, handle_unsubscribe, Receives
  <2>2. \A f \in Fds \ {fd} : subscriptions'[f] = subscriptions[f]
    BY <1>0, <1>3 DEF handle_subscribe, handle_unsubscribe, subscribe, unsubscribe, indexes, TypeOK
  <2> QED
    BY <1>0, <2>1, <2>2, SubscriptionsConn
<1>4. ASSUME NEW fd \in Fds, ExecStep(fd)
      PROVE  ConnInv'
  <2>1. conn_on[fd] # None /\ UNCHANGED <<conn_on, accepted, received>>
    BY <1>0, <1>4, PubSubAssumption DEF ExecStep, ExecOnOpen
  <2>2. \A f \in Fds \ {fd} : subscriptions'[f] = subscriptions[f]
    BY <1>0, <1>4 DEF ExecStep, subscribe, unsubscribe, indexes, TypeOK
  <2> QED
    BY <1>0, <2>1, <2>2, SubscriptionsConn
<1>5. ASSUME NEW fd \in Fds,
             \/ OnlyReplies(fd) \/ Multi(fd) \/ Exec(fd) \/ ExecEnds(fd) \/ Discard(fd)
             \/ \E op \in Op : handle_publish(fd, op) \/ Queue(fd, op)
      PROVE  UNCHANGED <<conn_on, accepted, received, subscriptions>>
  BY <1>5 DEF OnlyReplies, Multi, Exec, ExecEnds, Discard, handle_publish, Queue, indexes
<1>6. CASE UNCHANGED <<conn_on, accepted, received, subscriptions>>
  BY <1>6 DEF ConnInv
<1>7. CASE Wake \/ UNCHANGED vars
  BY <1>6, <1>7 DEF Wake, vars, indexes
<1>8. CASE Sleep
  <2>1. UNCHANGED <<conn_on, accepted, subscriptions>> /\ flush_all
    BY <1>8 DEF Sleep, indexes
  <2> QED
    BY <1>0, <2>1, FlushReceived DEF ConnInv
<1> QED
  BY <1>1, <1>2, <1>3, <1>4, <1>5, <1>6, <1>7, <1>8 DEF Next, Command

----------------------------------------------------------------------------
(* The mapping.                                                            *)

\* What the mapping says of an open descriptor and of a connection that is
\* not open; from here on the mapping is known by this alone.
Mapped ==
    /\ OpenConns \subseteq Conns
    /\ ChannelsOf = [c \in Conns |-> ChannelsOf[c]]
    /\ InboxOf = [c \in Conns |-> InboxOf[c]]
    /\ \A f \in Fds : conn_on[f] # None =>
          /\ conn_on[f] \in OpenConns
          /\ ChannelsOf[conn_on[f]] = subscriptions[f]
          /\ InboxOf[conn_on[f]] = Given(f)
    /\ \A c \in OpenConns : \E f \in Fds : conn_on[f] = c /\ c # None
    /\ \A c \in Conns \ OpenConns : ChannelsOf[c] = {} /\ InboxOf[c] = <<>>

LEMMA InvMapped == TypeOK /\ ConnInv => Mapped
<1> SUFFICES ASSUME TypeOK, ConnInv PROVE Mapped
  OBVIOUS
<1>1. ASSUME NEW f \in Fds, conn_on[f] # None
      PROVE  /\ conn_on[f] \in OpenConns
             /\ ChannelsOf[conn_on[f]] = subscriptions[f]
             /\ InboxOf[conn_on[f]] = Given(f)
  <2>1. conn_on[f] \in Conns /\ IsOpen(conn_on[f])
    BY <1>1 DEF TypeOK, IsOpen
  <2>2. FdOf(conn_on[f]) = f
    <3>1. \E g \in Fds : conn_on[g] = conn_on[f]
      OBVIOUS
    <3>2. FdOf(conn_on[f]) \in Fds /\ conn_on[FdOf(conn_on[f])] = conn_on[f]
      BY <3>1 DEF FdOf
    <3> QED
      BY <1>1, <3>2 DEF ConnInv
  <2> QED
    BY <2>1, <2>2 DEF OpenConns, ChannelsOf, InboxOf
<1>2. \A c \in OpenConns : \E f \in Fds : conn_on[f] = c /\ c # None
  BY PubSubAssumption DEF OpenConns, IsOpen, Conns, None
<1>3. \A c \in Conns \ OpenConns : ChannelsOf[c] = {} /\ InboxOf[c] = <<>>
  BY DEF OpenConns, ChannelsOf, InboxOf
<1>4. /\ OpenConns \subseteq Conns
      /\ ChannelsOf = [c \in Conns |-> ChannelsOf[c]]
      /\ InboxOf = [c \in Conns |-> InboxOf[c]]
  BY DEF OpenConns, ChannelsOf, InboxOf
<1> QED
  BY <1>1, <1>2, <1>3, <1>4 DEF Mapped

\* A step that leaves the connections, the subscriptions or what each
\* connection was given alone leaves that part of the abstract state alone.
LEMMA SameOpen ==
    ASSUME Mapped, Mapped', UNCHANGED conn_on
    PROVE  OpenConns' = OpenConns
<1>1. ASSUME NEW c \in OpenConns PROVE c \in OpenConns'
  <2>1. PICK f \in Fds : conn_on[f] = c /\ c # None
    BY DEF Mapped
  <2> QED
    BY <2>1 DEF Mapped
<1>2. ASSUME NEW c \in OpenConns' PROVE c \in OpenConns
  <2>1. PICK f \in Fds : conn_on'[f] = c /\ c # None
    BY DEF Mapped
  <2> QED
    BY <2>1 DEF Mapped
<1> QED
  BY <1>1, <1>2

LEMMA SameChannels ==
    ASSUME Mapped, Mapped', UNCHANGED <<conn_on, subscriptions>>
    PROVE  ChannelsOf' = ChannelsOf
<1>1. OpenConns' = OpenConns
  BY SameOpen
<1>2. ASSUME NEW c \in Conns
      PROVE  ChannelsOf'[c] = ChannelsOf[c]
  <2>1. CASE c \in OpenConns
    <3>1. PICK f \in Fds : conn_on[f] = c /\ c # None
      BY <2>1 DEF Mapped
    <3>2. ChannelsOf[c] = subscriptions[f]
      BY <3>1 DEF Mapped
    <3>3. ChannelsOf'[c] = subscriptions'[f]
      BY <3>1 DEF Mapped
    <3> QED
      BY <3>2, <3>3
  <2>2. CASE c \notin OpenConns
    <3>1. ChannelsOf[c] = {}
      BY <2>2 DEF Mapped
    <3>2. ChannelsOf'[c] = {}
      BY <1>1, <2>2 DEF Mapped
    <3> QED
      BY <3>1, <3>2
  <2> QED
    BY <2>1, <2>2
<1>3. ChannelsOf = [c \in Conns |-> ChannelsOf[c]] /\ ChannelsOf' = [c \in Conns |-> ChannelsOf'[c]]
  BY DEF Mapped
<1> QED
  BY <1>2, <1>3

LEMMA SameInbox ==
    ASSUME Mapped, Mapped', UNCHANGED conn_on,
           \A f \in Fds : conn_on[f] # None => Given(f)' = Given(f)
    PROVE  InboxOf' = InboxOf
<1>1. OpenConns' = OpenConns
  BY SameOpen
<1>2. ASSUME NEW c \in Conns
      PROVE  InboxOf'[c] = InboxOf[c]
  <2>1. CASE c \in OpenConns
    <3>1. PICK f \in Fds : conn_on[f] = c /\ c # None
      BY <2>1 DEF Mapped
    <3>2. InboxOf[c] = Given(f)
      BY <3>1 DEF Mapped
    <3>3. InboxOf'[c] = Given(f)'
      BY <3>1 DEF Mapped
    <3> QED
      BY <3>1, <3>2, <3>3
  <2>2. CASE c \notin OpenConns
    <3>1. InboxOf[c] = <<>>
      BY <2>2 DEF Mapped
    <3>2. InboxOf'[c] = <<>>
      BY <1>1, <2>2 DEF Mapped
    <3> QED
      BY <3>1, <3>2
  <2> QED
    BY <2>1, <2>2
<1>3. InboxOf = [c \in Conns |-> InboxOf[c]] /\ InboxOf' = [c \in Conns |-> InboxOf'[c]]
  BY DEF Mapped
<1> QED
  BY <1>2, <1>3

\* What is given to a descriptor when something is written to it.
LEMMA GivenAppend ==
    ASSUME TypeOK, ConnInv, NEW f \in Fds, NEW x \in Item,
           pending_write'[f] = Append(pending_write[f], x), received'[f] = received[f]
    PROVE  Given(f)' = Add(Given(f), x)
<1>1. pending_write[f] \in Seq(Item) /\ received[f] \in Seq(Message)
  BY DEF TypeOK, ConnInv, Item
<1>2. /\ Messages(pending_write[f]) \in Seq(Message)
      /\ Messages(pending_write'[f]) = Add(Messages(pending_write[f]), x)
  BY <1>1, MessagesAppend
<1>3. CASE IsMessage(x)
  <2>1. x \in Message
    BY <1>3 DEF IsMessage, Item
  <2>2. \A a, b \in Seq(Message) : a \o Append(b, x) = Append(a \o b, x)
    BY <2>1
  <2> QED
    BY <1>1, <1>2, <1>3, <2>2 DEF Given, Add
<1>4. CASE ~IsMessage(x)
  BY <1>2, <1>4 DEF Given, Add
<1> QED
  BY <1>3, <1>4

----------------------------------------------------------------------------
(* The steps.                                                              *)

LEMMA GivenReply ==
    ASSUME TypeOK, ConnInv, NEW f \in Fds,
           pending_write'[f] = Append(pending_write[f], Reply), received'[f] = received[f]
    PROVE  Given(f)' = Given(f)
<1>1. Reply \in Item /\ ~IsMessage(Reply)
  BY DEF Item, IsMessage
<1> QED
  BY <1>1, GivenAppend DEF Add

LEMMA GivenSame ==
    ASSUME NEW f \in Fds, pending_write'[f] = pending_write[f], received'[f] = received[f]
    PROVE  Given(f)' = Given(f)
BY DEF Given

\* A reply gives no message.
LEMMA RepliesInbox ==
    ASSUME TypeOK, ConnInv, Mapped, Mapped', NEW fd \in Fds, Replies(fd), UNCHANGED <<conn_on, received>>
    PROVE  InboxOf' = InboxOf
<1>1. ASSUME NEW f \in Fds PROVE Given(f)' = Given(f)
  <2>1. \/ pending_write'[f] = Append(pending_write[f], Reply)
        \/ pending_write'[f] = pending_write[f]
    BY DEF Replies, send_to
  <2> QED
    BY <2>1, GivenReply, GivenSame
<1> QED
  BY <1>1, SameInbox

\* The flush moves messages from the buffer to the client, and so does not
\* change what was given.
LEMMA FlushInbox ==
    ASSUME TypeOK, ConnInv, Mapped, Mapped', flush_all, UNCHANGED conn_on
    PROVE  InboxOf' = InboxOf
<1>1. ASSUME NEW f \in Fds PROVE Given(f)' = Given(f)
  <2>1. CASE f \in Live(dirty_fds)
    <3>1. received'[f] = received[f] \o Messages(pending_write[f]) /\ pending_write'[f] = <<>>
      BY <2>1 DEF flush_all
    <3>2. pending_write[f] \in Seq(Item) /\ received[f] \in Seq(Message) /\ Reply \in Item
      BY DEF TypeOK, ConnInv, Item
    <3>3. Messages(pending_write[f]) \in Seq(Message)
      BY <3>2, MessagesAppend
    <3>4. received[f] \o Messages(pending_write[f]) \in Seq(Message)
      BY <3>2, <3>3
    <3>5. received'[f] \o <<>> = received'[f]
      BY <3>1, <3>4
    <3> QED
      BY <3>1, <3>5, MessagesEmpty DEF Given
  <2>2. CASE f \notin Live(dirty_fds)
    <3>1. received'[f] = received[f] /\ pending_write'[f] = pending_write[f]
      BY <2>2 DEF flush_all
    <3> QED
      BY <3>1, GivenSame
  <2> QED
    BY <2>1, <2>2
<1> QED
  BY <1>1, SameInbox

\* A subscription, in or out of EXEC, is the abstract one.
LEMMA SubscriptionStep ==
    ASSUME TypeOK, ConnInv, Mapped, Mapped', NEW fd \in Fds, NEW new \in SUBSET Channels,
           conn_on[fd] # None, UNCHANGED conn_on,
           subscriptions' = [subscriptions EXCEPT ![fd] = new]
    PROVE  ChannelsOf' = [ChannelsOf EXCEPT ![conn_on[fd]] = new]
<1>1. OpenConns' = OpenConns
  BY SameOpen
<1>2. ASSUME NEW c \in Conns
      PROVE  ChannelsOf'[c] = IF c = conn_on[fd] THEN new ELSE ChannelsOf[c]
  <2>1. CASE c \in OpenConns
    <3>1. PICK f \in Fds : conn_on[f] = c /\ c # None
      BY <2>1 DEF Mapped
    <3>2. f = fd <=> c = conn_on[fd]
      BY <3>1 DEF ConnInv
    <3>3. subscriptions'[f] = IF f = fd THEN new ELSE subscriptions[f]
      BY DEF TypeOK
    <3>4. ChannelsOf[c] = subscriptions[f]
      BY <3>1 DEF Mapped
    <3>5. ChannelsOf'[c] = subscriptions'[f]
      BY <3>1 DEF Mapped
    <3> QED
      BY <3>2, <3>3, <3>4, <3>5
  <2>2. CASE c \notin OpenConns
    <3>1. ChannelsOf[c] = {} /\ c # conn_on[fd]
      BY <2>2 DEF Mapped
    <3>2. ChannelsOf'[c] = {}
      BY <1>1, <2>2 DEF Mapped
    <3> QED
      BY <3>1, <3>2
  <2> QED
    BY <2>1, <2>2
<1>3. ChannelsOf = [c \in Conns |-> ChannelsOf[c]] /\ ChannelsOf' = [c \in Conns |-> ChannelsOf'[c]]
  BY DEF Mapped
<1> QED
  BY <1>2, <1>3

LEMMA SubscribeStep ==
    ASSUME TypeOK, ConnInv, Mapped, Mapped', NEW fd \in Fds, NEW ch \in Channels,
           conn_on[fd] # None, UNCHANGED <<conn_on, published>>, subscribe(fd, ch), InboxOf' = InboxOf
    PROVE  Abstract!Next
<1>1. subscriptions' = [subscriptions EXCEPT ![fd] = subscriptions[fd] \cup {ch}]
  BY DEF subscribe
<1>2. subscriptions[fd] \cup {ch} \in SUBSET Channels
  BY DEF TypeOK
<1>3. ChannelsOf' = [ChannelsOf EXCEPT ![conn_on[fd]] = subscriptions[fd] \cup {ch}]
  BY <1>1, <1>2, SubscriptionStep
<1>4. conn_on[fd] \in OpenConns /\ conn_on[fd] \in Conns /\ ChannelsOf[conn_on[fd]] = subscriptions[fd]
  BY DEF Mapped
<1>5. OpenConns' = OpenConns
  BY SameOpen
<1>6. Abstract!Subscribe(conn_on[fd], ch)
  BY <1>3, <1>4, <1>5 DEF Abstract!Subscribe
<1> QED
  BY <1>4, <1>6 DEF Abstract!Next

LEMMA UnsubscribeStep ==
    ASSUME TypeOK, ConnInv, Mapped, Mapped', NEW fd \in Fds, NEW ch \in Channels,
           conn_on[fd] # None, UNCHANGED <<conn_on, published>>, unsubscribe(fd, ch), InboxOf' = InboxOf
    PROVE  Abstract!Next
<1>1. subscriptions' = [subscriptions EXCEPT ![fd] = subscriptions[fd] \ {ch}]
  <2>1. CASE subscriptions[fd] = {}
    BY <2>1 DEF unsubscribe, indexes, TypeOK
  <2>2. CASE subscriptions[fd] # {}
    BY <2>2 DEF unsubscribe
  <2> QED
    BY <2>1, <2>2
<1>2. subscriptions[fd] \ {ch} \in SUBSET Channels
  BY DEF TypeOK
<1>3. ChannelsOf' = [ChannelsOf EXCEPT ![conn_on[fd]] = subscriptions[fd] \ {ch}]
  BY <1>1, <1>2, SubscriptionStep
<1>4. conn_on[fd] \in OpenConns /\ conn_on[fd] \in Conns /\ ChannelsOf[conn_on[fd]] = subscriptions[fd]
  BY DEF Mapped
<1>5. OpenConns' = OpenConns
  BY SameOpen
<1>6. Abstract!Unsubscribe(conn_on[fd], ch)
  BY <1>3, <1>4, <1>5 DEF Abstract!Unsubscribe
<1> QED
  BY <1>4, <1>6 DEF Abstract!Next

\* A message, in or out of EXEC: the subscribers in the index are the
\* connections that have the channel.
LEMMA PublishStep ==
    ASSUME TypeOK, IndexesMirror, ConnInv, Mapped, Mapped', NEW ch \in Channels,
           UNCHANGED <<subscriptions, conn_on>>, published' = published + 1,
           \A f \in Fds : Given(f)' = IF f \in Live(channel_subscribers[ch])
                                      THEN Append(Given(f), <<ch, published'>>) ELSE Given(f)
    PROVE  Abstract!Next
<1>1. OpenConns' = OpenConns /\ ChannelsOf' = ChannelsOf
  BY SameOpen, SameChannels
<1>2. ASSUME NEW c \in Conns
      PROVE  InboxOf'[c] = IF ch \in ChannelsOf[c] THEN Append(InboxOf[c], <<ch, published'>>)
                           ELSE InboxOf[c]
  <2>1. CASE c \in OpenConns
    <3>1. PICK f \in Fds : conn_on[f] = c /\ c # None
      BY <2>1 DEF Mapped
    <3>2. ChannelsOf[c] = subscriptions[f] /\ InboxOf[c] = Given(f)
      BY <3>1 DEF Mapped
    <3>3. InboxOf'[c] = Given(f)'
      BY <3>1 DEF Mapped
    <3>4. f \in Live(channel_subscribers[ch]) <=> ch \in subscriptions[f]
      BY <3>1 DEF Live, IndexesMirror
    <3> QED
      BY <3>2, <3>3, <3>4
  <2>2. CASE c \notin OpenConns
    <3>1. ChannelsOf[c] = {} /\ InboxOf[c] = <<>>
      BY <2>2 DEF Mapped
    <3>2. InboxOf'[c] = <<>>
      BY <1>1, <2>2 DEF Mapped
    <3> QED
      BY <3>1, <3>2
  <2> QED
    BY <2>1, <2>2
<1>3. InboxOf' = [c \in Conns |-> InboxOf'[c]]
  BY DEF Mapped
<1>4. InboxOf' = [c \in Conns |-> IF ch \in ChannelsOf[c] THEN Append(InboxOf[c], <<ch, published'>>)
                                  ELSE InboxOf[c]]
  BY <1>2, <1>3
<1>5. Abstract!Publish(ch)
  BY <1>1, <1>4 DEF Abstract!Publish
<1> QED
  BY <1>5 DEF Abstract!Next

\* A published message is not mistaken for a reply.
LEMMA MessageItem ==
    ASSUME NEW ch \in Channels, NEW n \in Nat
    PROVE  <<ch, n>> \in Item /\ IsMessage(<<ch, n>>)
<1>1. <<ch, n>> \in Message
  BY DEF Message
<1>2. Len(<<ch, n>>) = 2 /\ Len(Reply) = 1
  BY DEF Reply
<1> QED
  BY <1>1, <1>2 DEF Item, IsMessage

LEMMA GivenMessage ==
    ASSUME TypeOK, ConnInv, NEW f \in Fds, NEW ch \in Channels, published' = published + 1,
           pending_write'[f] = Append(pending_write[f], <<ch, published'>>), received'[f] = received[f]
    PROVE  Given(f)' = Append(Given(f), <<ch, published'>>)
<1>1. published' \in Nat
  BY DEF TypeOK
<1>2. <<ch, published'>> \in Item /\ IsMessage(<<ch, published'>>)
  BY <1>1, MessageItem
<1> QED
  BY <1>2, GivenAppend DEF Add

\* A connection is accepted: a new one, with nothing on its descriptor.
LEMMA AcceptStep ==
    ASSUME IInv, ConnInv, Mapped, Mapped', NEW fd \in Fds, Accept(fd)
    PROVE  Abstract!Next
<1> DEFINE c == accepted + 1
<1>1. /\ TypeOK /\ PendingListed
      /\ conn_on[fd] = None /\ conn_on' = [conn_on EXCEPT ![fd] = c] /\ accepted < MaxConns
      /\ UNCHANGED <<subscriptions, pending_write, received, published>>
  BY DEF Accept, indexes, output, IInv, OutputInv
<1>2. c \in Conns /\ c # None /\ accepted \in Nat
  BY <1>1, PubSubAssumption DEF TypeOK, Conns, None
<1>3. conn_on \in [Fds -> Nat] /\ \A f \in Fds : conn_on[f] # c
  BY <1>1, <1>2, PubSubAssumption DEF TypeOK, ConnInv, Conns, None
<1>4. c \notin OpenConns
  BY <1>3 DEF Mapped
<1>5. \A f \in Fds : conn_on'[f] = IF f = fd THEN c ELSE conn_on[f]
  BY <1>1, <1>3
<1>6. OpenConns' = OpenConns \cup {c}
  <2>1. ASSUME NEW d \in OpenConns PROVE d \in OpenConns'
    <3>1. PICK f \in Fds : conn_on[f] = d /\ d # None
      BY DEF Mapped
    <3>2. conn_on'[f] = d
      BY <1>1, <1>5, <3>1
    <3> QED
      BY <3>1, <3>2 DEF Mapped
  <2>2. ASSUME NEW d \in OpenConns' PROVE d \in OpenConns \cup {c}
    <3>1. PICK f \in Fds : conn_on'[f] = d /\ d # None
      BY DEF Mapped
    <3>2. d = c \/ conn_on[f] = d
      BY <1>5, <3>1
    <3> QED
      BY <3>1, <3>2 DEF Mapped
  <2>3. c \in OpenConns'
    <3>1. conn_on'[fd] = c
      BY <1>5
    <3> QED
      BY <1>2, <3>1 DEF Mapped
  <2> QED
    BY <2>1, <2>2, <2>3
<1>7. subscriptions'[fd] = {} /\ Given(fd)' = <<>>
  <2>1. subscriptions[fd] = {} /\ received[fd] = <<>> /\ pending_write[fd] = <<>>
    BY <1>1 DEF ConnInv, PendingListed
  <2> QED
    BY <1>1, <2>1, MessagesEmpty DEF Given
<1>8. ASSUME NEW d \in Conns
      PROVE  ChannelsOf'[d] = ChannelsOf[d] /\ InboxOf'[d] = InboxOf[d]
  <2>1. CASE d = c
    <3>1. ChannelsOf[d] = {} /\ InboxOf[d] = <<>>
      BY <1>4, <2>1 DEF Mapped
    <3>2. conn_on'[fd] = d /\ d # None
      BY <1>2, <1>5, <2>1
    <3>3. ChannelsOf'[d] = subscriptions'[fd] /\ InboxOf'[d] = Given(fd)'
      BY <3>2 DEF Mapped
    <3> QED
      BY <1>7, <3>1, <3>3
  <2>2. CASE d # c /\ d \in OpenConns
    <3>1. PICK f \in Fds : conn_on[f] = d /\ d # None
      BY <2>2 DEF Mapped
    <3>2. conn_on'[f] = d
      BY <1>1, <1>5, <3>1
    <3>3. ChannelsOf'[d] = subscriptions'[f] /\ InboxOf'[d] = Given(f)'
      BY <3>1, <3>2 DEF Mapped
    <3>4. ChannelsOf[d] = subscriptions[f] /\ InboxOf[d] = Given(f)
      BY <3>1 DEF Mapped
    <3>5. Given(f)' = Given(f)
      BY <1>1, GivenSame
    <3> QED
      BY <1>1, <3>3, <3>4, <3>5
  <2>3. CASE d # c /\ d \notin OpenConns
    <3>1. ChannelsOf[d] = {} /\ InboxOf[d] = <<>>
      BY <2>3 DEF Mapped
    <3>2. d \notin OpenConns'
      BY <1>6, <2>3
    <3>3. ChannelsOf'[d] = {} /\ InboxOf'[d] = <<>>
      BY <3>2 DEF Mapped
    <3> QED
      BY <3>1, <3>3
  <2> QED
    BY <2>1, <2>2, <2>3
<1>9. /\ ChannelsOf = [d \in Conns |-> ChannelsOf[d]] /\ ChannelsOf' = [d \in Conns |-> ChannelsOf'[d]]
      /\ InboxOf = [d \in Conns |-> InboxOf[d]] /\ InboxOf' = [d \in Conns |-> InboxOf'[d]]
  BY DEF Mapped
<1>10. ChannelsOf' = ChannelsOf /\ InboxOf' = InboxOf
  BY <1>8, <1>9
<1>11. Abstract!Open(c)
  BY <1>1, <1>4, <1>6, <1>10 DEF Abstract!Open
<1> QED
  BY <1>2, <1>11 DEF Abstract!Next

\* A connection is closed: it alone goes, with all it had.
LEMMA CloseStep ==
    ASSUME IInv, ConnInv, Mapped, Mapped', NEW fd \in Fds, Close(fd)
    PROVE  Abstract!Next
<1> DEFINE c == conn_on[fd]
<1>1. /\ TypeOK /\ c # None
      /\ conn_on' = [conn_on EXCEPT ![fd] = None]
      /\ subscriptions' = [subscriptions EXCEPT ![fd] = {}]
      /\ received' = [received EXCEPT ![fd] = <<>>]
      /\ pending_write' = [pending_write EXCEPT ![fd] = <<>>]
      /\ published' = published
  BY DEF Close, unsubscribe_all, IInv
<1>2. \A f \in Fds \ {fd} : /\ conn_on'[f] = conn_on[f] /\ subscriptions'[f] = subscriptions[f]
                            /\ received'[f] = received[f] /\ pending_write'[f] = pending_write[f]
  BY <1>1 DEF TypeOK, ConnInv
<1>3. conn_on'[fd] = None
  BY <1>1 DEF TypeOK
<1>4. c \in OpenConns /\ c \in Conns
  BY <1>1 DEF Mapped
<1>5. \A f \in Fds : conn_on[f] = c => f = fd
  BY <1>1 DEF ConnInv
<1>6. OpenConns' = OpenConns \ {c}
  <2>1. ASSUME NEW d \in OpenConns, d # c PROVE d \in OpenConns'
    <3>1. PICK f \in Fds : conn_on[f] = d /\ d # None
      BY DEF Mapped
    <3>2. conn_on'[f] = d
      BY <1>2, <2>1, <3>1
    <3> QED
      BY <3>1, <3>2 DEF Mapped
  <2>2. ASSUME NEW d \in OpenConns' PROVE d \in OpenConns /\ d # c
    <3>1. PICK f \in Fds : conn_on'[f] = d /\ d # None
      BY DEF Mapped
    <3>2. f # fd
      BY <1>3, <3>1
    <3>3. conn_on[f] = d
      BY <1>2, <3>1, <3>2
    <3> QED
      BY <1>5, <3>1, <3>2, <3>3 DEF Mapped
  <2> QED
    BY <2>1, <2>2
<1>7. ASSUME NEW d \in Conns
      PROVE  /\ ChannelsOf'[d] = IF d = c THEN {} ELSE ChannelsOf[d]
             /\ InboxOf'[d] = IF d = c THEN <<>> ELSE InboxOf[d]
  <2>1. CASE d \in OpenConns /\ d # c
    <3>1. PICK f \in Fds : conn_on[f] = d /\ d # None
      BY <2>1 DEF Mapped
    <3>2. f # fd
      BY <2>1, <3>1
    <3>3. conn_on'[f] = d
      BY <1>2, <3>1, <3>2
    <3>4. ChannelsOf'[d] = subscriptions'[f] /\ InboxOf'[d] = Given(f)'
      BY <3>1, <3>3 DEF Mapped
    <3>5. ChannelsOf[d] = subscriptions[f] /\ InboxOf[d] = Given(f)
      BY <3>1 DEF Mapped
    <3>6. Given(f)' = Given(f)
      BY <1>2, <3>2, GivenSame
    <3> QED
      BY <1>2, <2>1, <3>2, <3>4, <3>5, <3>6
  <2>2. CASE d \notin OpenConns \/ d = c
    <3>1. ChannelsOf'[d] = {} /\ InboxOf'[d] = <<>>
      BY <1>6, <2>2 DEF Mapped
    <3>2. d # c => ChannelsOf[d] = {} /\ InboxOf[d] = <<>>
      BY <2>2 DEF Mapped
    <3> QED
      BY <3>1, <3>2
  <2> QED
    BY <2>1, <2>2
<1>8. /\ ChannelsOf = [d \in Conns |-> ChannelsOf[d]] /\ ChannelsOf' = [d \in Conns |-> ChannelsOf'[d]]
      /\ InboxOf = [d \in Conns |-> InboxOf[d]] /\ InboxOf' = [d \in Conns |-> InboxOf'[d]]
  BY DEF Mapped
<1>9. ChannelsOf' = [ChannelsOf EXCEPT ![c] = {}] /\ InboxOf' = [InboxOf EXCEPT ![c] = <<>>]
  BY <1>7, <1>8
<1>10. Abstract!Close(c)
  BY <1>1, <1>4, <1>6, <1>9 DEF Abstract!Close
<1> QED
  BY <1>4, <1>10 DEF Abstract!Next

\* PUBLISH outside EXEC: the publisher, which is not subscribed, gets only
\* its reply.
LEMMA HandlePublishStep ==
    ASSUME IInv, ConnInv, Mapped, Mapped', NEW fd \in Fds, NEW op \in Op, handle_publish(fd, op)
    PROVE  Abstract!Next
<1> DEFINE ch == op.ch
           subs == channel_subscribers[ch]
<1>1. /\ TypeOK /\ IndexesMirror /\ ch \in Channels
      /\ conn_on[fd] # None /\ published' = published + 1
      /\ pending_write' = [send_to(subs, <<ch, published'>>) EXCEPT ![fd] = Append(@, Reply)]
      /\ UNCHANGED <<subscriptions, conn_on, received>>
  BY DEF handle_publish, Publishes, Receives, indexes, Op, IInv
<1>2. subscriptions[fd] = {}
  BY DEF handle_publish, Admits, is_subscribed
<1>3. fd \notin Live(subs)
  BY <1>1, <1>2 DEF Live, IndexesMirror
<1>4. ASSUME NEW f \in Fds
      PROVE  Given(f)' = IF f \in Live(subs) THEN Append(Given(f), <<ch, published'>>) ELSE Given(f)
  <2>1. CASE f = fd
    <3>1. pending_write'[f] = Append(pending_write[f], Reply)
      BY <1>1, <1>3, <2>1 DEF send_to
    <3> QED
      BY <1>1, <1>3, <2>1, <3>1, GivenReply
  <2>2. CASE f # fd /\ f \in Live(subs)
    <3>1. pending_write'[f] = Append(pending_write[f], <<ch, published'>>)
      BY <1>1, <2>2 DEF send_to
    <3> QED
      BY <1>1, <2>2, <3>1, GivenMessage
  <2>3. CASE f # fd /\ f \notin Live(subs)
    <3>1. pending_write'[f] = pending_write[f]
      BY <1>1, <2>3 DEF send_to
    <3> QED
      BY <1>1, <2>3, <3>1, GivenSame
  <2> QED
    BY <2>1, <2>2, <2>3
<1> QED
  BY <1>1, <1>4, PublishStep

\* One command of a transaction.
LEMMA ExecStepStep ==
    ASSUME IInv, ConnInv, Mapped, Mapped', NEW fd \in Fds, ExecStep(fd)
    PROVE  Abstract!Next
<1> DEFINE op == Head(queued_commands[fd])
           subs == channel_subscribers[op.ch]
<1>1. TypeOK /\ IndexesMirror /\ ExecOnOpen
  BY DEF IInv
<1>2. op \in Op /\ op.ch \in Channels
  <2>1. queued_commands[fd] \in Seq(Op) /\ queued_commands[fd] # <<>>
    BY <1>1 DEF TypeOK, ExecStep
  <2>2. op \in Op
    BY <2>1
  <2> QED
    BY <2>2 DEF Op
<1>3. conn_on[fd] # None /\ UNCHANGED <<conn_on, received>>
  BY <1>1, PubSubAssumption DEF ExecStep, ExecOnOpen
<1>4. CASE /\ subscribe(fd, op.ch) \/ unsubscribe(fd, op.ch)
           /\ UNCHANGED <<output, published>>
  <2>1. \A f \in Fds : Given(f)' = Given(f)
    BY <1>3, <1>4, GivenSame DEF output
  <2>2. InboxOf' = InboxOf
    BY <1>3, <2>1, SameInbox
  <2> QED
    BY <1>1, <1>2, <1>3, <1>4, <2>2, SubscribeStep, UnsubscribeStep
<1>5. CASE /\ published' = published + 1
           /\ pending_write' = send_to(subs, <<op.ch, published'>>)
           /\ UNCHANGED indexes
  <2>1. ASSUME NEW f \in Fds
        PROVE  Given(f)' = IF f \in Live(subs) THEN Append(Given(f), <<op.ch, published'>>) ELSE Given(f)
    <3>1. CASE f \in Live(subs)
      <4>1. pending_write'[f] = Append(pending_write[f], <<op.ch, published'>>)
        BY <1>5, <3>1 DEF send_to
      <4> QED
        BY <1>1, <1>2, <1>3, <1>5, <3>1, <4>1, GivenMessage
    <3>2. CASE f \notin Live(subs)
      <4>1. pending_write'[f] = pending_write[f]
        BY <1>5, <3>2 DEF send_to
      <4> QED
        BY <1>3, <3>2, <4>1, GivenSame
    <3> QED
      BY <3>1, <3>2
  <2> QED
    BY <1>1, <1>2, <1>3, <1>5, <2>1, PublishStep DEF indexes
<1> QED
  BY <1>4, <1>5 DEF ExecStep

\* Every step is a step of the abstract specification, or a stutter.
LEMMA NextStep == IInv /\ ConnInv /\ Mapped /\ Mapped' /\ [Next]_vars => [Abstract!Next]_(Abstract!vars)
<1> SUFFICES ASSUME IInv, ConnInv, Mapped, Mapped', [Next]_vars
             PROVE  Abstract!Next \/ UNCHANGED <<OpenConns, ChannelsOf, InboxOf, published>>
  BY DEF Abstract!vars
<1>0. TypeOK
  BY DEF IInv
<1>1. ASSUME NEW fd \in Fds, NEW op \in Op, handle_subscribe(fd, op) \/ handle_unsubscribe(fd, op)
      PROVE  Abstract!Next
  <2>1. /\ conn_on[fd] # None /\ op.ch \in Channels
        /\ Replies(fd) /\ UNCHANGED <<conn_on, received, published>>
        /\ subscribe(fd, op.ch) \/ unsubscribe(fd, op.ch)
    BY <1>1 DEF handle_subscribe, handle_unsubscribe, Receives, Op
  <2>2. InboxOf' = InboxOf
    BY <1>0, <2>1, RepliesInbox
  <2> QED
    BY <1>0, <2>1, <2>2, SubscribeStep, UnsubscribeStep
<1>2. CASE UNCHANGED <<conn_on, subscriptions, published>> /\ InboxOf' = InboxOf
  BY <1>2, SameOpen, SameChannels
<1>3. ASSUME NEW fd \in Fds, Replies(fd), UNCHANGED <<conn_on, received>>
      PROVE  InboxOf' = InboxOf
  BY <1>0, <1>3, RepliesInbox
<1>4. ASSUME NEW fd \in Fds,
             OnlyReplies(fd) \/ Multi(fd) \/ ExecEnds(fd) \/ Discard(fd) \/ \E op \in Op : Queue(fd, op)
      PROVE  UNCHANGED <<conn_on, subscriptions, published>> /\ InboxOf' = InboxOf
  <2>1. UNCHANGED <<conn_on, subscriptions, published, received>> /\ Replies(fd)
    BY <1>4 DEF OnlyReplies, Multi, ExecEnds, Discard, Queue, indexes
  <2> QED
    BY <1>3, <2>1
<1>5. ASSUME (\E fd \in Fds : Exec(fd)) \/ Wake \/ UNCHANGED vars
      PROVE  UNCHANGED <<conn_on, subscriptions, published>> /\ InboxOf' = InboxOf
  <2>1. UNCHANGED <<conn_on, subscriptions, published, received, pending_write>>
    BY <1>5 DEF Exec, Wake, vars, indexes, output
  <2>2. \A f \in Fds : Given(f)' = Given(f)
    BY <2>1, GivenSame
  <2> QED
    BY <2>1, <2>2, SameInbox
<1>6. ASSUME Sleep
      PROVE  UNCHANGED <<conn_on, subscriptions, published>> /\ InboxOf' = InboxOf
  <2>1. UNCHANGED <<conn_on, subscriptions, published>> /\ flush_all
    BY <1>6 DEF Sleep, indexes
  <2> QED
    BY <1>0, <2>1, FlushInbox
<1>7. ASSUME NEW fd \in Fds, Accept(fd) \/ Close(fd) \/ Command(fd)
      PROVE  Abstract!Next \/ UNCHANGED <<OpenConns, ChannelsOf, InboxOf, published>>
  BY <1>1, <1>2, <1>4, <1>5, <1>7, AcceptStep, CloseStep, HandlePublishStep, ExecStepStep DEF Command
<1> QED
  BY <1>2, <1>5, <1>6, <1>7 DEF Next

\* At the start there are no connections.
LEMMA InitStep == Init /\ Mapped => Abstract!Init
<1> SUFFICES ASSUME Init, Mapped PROVE Abstract!Init
  OBVIOUS
<1>1. OpenConns = {}
  BY DEF Init, Mapped
<1>2. \A c \in Conns : ChannelsOf[c] = {} /\ InboxOf[c] = <<>>
  BY <1>1 DEF Mapped
<1>3. ChannelsOf = [c \in Conns |-> ChannelsOf[c]] /\ InboxOf = [c \in Conns |-> InboxOf[c]]
  BY DEF Mapped
<1>4. ChannelsOf = [c \in Conns |-> {}] /\ InboxOf = [c \in Conns |-> <<>>]
  BY <1>2, <1>3
<1> QED
  BY <1>1, <1>4 DEF Init, Abstract!Init

\* PubSubManager's indexes, the output buffers and the reused descriptors
\* give every message to exactly the connections that have its channel when
\* it is published, in order.
THEOREM PubSubImplements == Spec => ImplementsPubSub
<1>1. Init => IInv /\ ConnInv
  BY InitInv, InitConn
<1>2. IInv /\ ConnInv /\ [Next]_vars => IInv' /\ ConnInv'
  BY NextInv, NextConn
<1>3. IInv /\ ConnInv => Mapped
  BY InvMapped DEF IInv
<1> QED
  BY <1>1, <1>2, <1>3, InitStep, NextStep, PTL DEF Spec, ImplementsPubSub, Abstract!Spec

=============================================================================
