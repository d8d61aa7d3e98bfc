------------------------------- MODULE PubSub -------------------------------
(***************************************************************************)
(* Publish and subscribe: pubsub/pubsub_manager.hpp and the commands of    *)
(* handler/pubsub_commands.cpp, on the connections and output buffers of   *)
(* connection/connection_pool.cpp, as server/event_dispatch.cpp and the    *)
(* loop of event_loop/event_loop.cpp drive them.                           *)
(*                                                                         *)
(* A file descriptor is used again after its connection is closed, so      *)
(* conn_on names the connection behind it.  The output of a connection is  *)
(* the messages in it; replies to its own commands are "reply".            *)
(***************************************************************************)
EXTENDS Naturals, Sequences

CONSTANTS Fds, Channels,
          MaxConns,     \* bound on the connections accepted
          MaxPublished, \* bound on the messages published
          MaxPending,   \* bound on the items one output buffer holds
          MaxQueued     \* bound on the commands queued by one MULTI

NoFd == "no fd"

ASSUME PubSubAssumption ==
    NoFd \notin Fds /\ MaxConns \in Nat /\ MaxPublished \in Nat /\ MaxPending \in Nat /\ MaxQueued \in Nat

VARIABLES subscriptions, channel_subscribers,  \* the two indexes of PubSubManager
          conn_on,       \* the connection on each descriptor, or None
          accepted,      \* the number of connections accepted
          pending_write, \* the output buffers
          dirty,         \* the dirty flags of the connections
          dirty_fds,
          received,      \* the messages sent on each open connection
          in_multi, queued_commands,  \* the transaction of each connection
          executing,     \* the descriptor whose EXEC is running, or NoFd
          phase,         \* "wait": in epoll_wait; "events": dispatching
          published

indexes == <<subscriptions, channel_subscribers>>
tx == <<in_multi, queued_commands>>
output == <<pending_write, dirty, dirty_fds>>
vars == <<indexes, conn_on, accepted, output, received, tx, executing, phase, published>>

Conns == 1..MaxConns
None == 0

\* An item of output: a message, or anything else.
Message == Channels \X Nat
Reply == <<"reply">>
IsMessage(item) == item # Reply

\* The messages in a buffer, in order.
Messages(buf) ==
    LET upto[i \in 0..Len(buf)] ==
          IF i = 0 THEN <<>>
          ELSE IF IsMessage(buf[i]) THEN Append(upto[i - 1], buf[i]) ELSE upto[i - 1]
    IN  upto[Len(buf)]

Op == [cmd : {"SUBSCRIBE", "UNSUBSCRIBE", "PUBLISH"}, ch : Channels]

Init ==
    /\ subscriptions = [fd \in Fds |-> {}]
    /\ channel_subscribers = [ch \in Channels |-> {}]
    /\ conn_on = [fd \in Fds |-> None]
    /\ accepted = 0
    /\ pending_write = [fd \in Fds |-> <<>>]
    /\ dirty = [fd \in Fds |-> FALSE]
    /\ dirty_fds = {}
    /\ received = [fd \in Fds |-> <<>>]
    /\ in_multi = [fd \in Fds |-> FALSE]
    /\ queued_commands = [fd \in Fds |-> <<>>]
    /\ executing = NoFd
    /\ phase = "wait"
    /\ published = 0

----------------------------------------------------------------------------
(* Output buffers.                                                         *)

\* send_to and get_pending_write, on the descriptors of items that have a
\* connection, each with what is added to its buffer; mark_dirty puts those
\* that are not yet flagged on the list.
Live(fds) == {fd \in fds : conn_on[fd] # None}

mark_dirty(fds) ==
    /\ dirty' = [fd \in Fds |-> dirty[fd] \/ fd \in fds]
    /\ dirty_fds' = dirty_fds \cup {fd \in fds : ~dirty[fd]}

send_to(fds, item) ==
    [fd \in Fds |-> IF fd \in Live(fds) THEN Append(pending_write[fd], item) ELSE pending_write[fd]]

\* The reply to a command of fd.
Replies(fd) ==
    /\ pending_write' = send_to({fd}, Reply)
    /\ mark_dirty({fd})

\* Mutant: the flags are not reset.
flush_all_KeepsFlags ==
    /\ received' = [fd \in Fds |-> IF fd \in Live(dirty_fds)
                                   THEN received[fd] \o Messages(pending_write[fd])
                                   ELSE received[fd]]
    /\ pending_write' = [fd \in Fds |-> IF fd \in Live(dirty_fds) THEN <<>> ELSE pending_write[fd]]
    /\ dirty_fds' = {}
    /\ UNCHANGED dirty

flush_all ==
    /\ received' = [fd \in Fds |-> IF fd \in Live(dirty_fds)
                                   THEN received[fd] \o Messages(pending_write[fd])
                                   ELSE received[fd]]
    /\ pending_write' = [fd \in Fds |-> IF fd \in Live(dirty_fds) THEN <<>> ELSE pending_write[fd]]
    /\ dirty' = [fd \in Fds |-> dirty[fd] /\ fd \notin Live(dirty_fds)]
    /\ dirty_fds' = {}

----------------------------------------------------------------------------
(* The indexes.                                                            *)

subscribe(fd, ch) ==
    /\ channel_subscribers' = [channel_subscribers EXCEPT ![ch] = @ \cup {fd}]
    /\ subscriptions' = [subscriptions EXCEPT ![fd] = @ \cup {ch}]

unsubscribe(fd, ch) ==
    IF subscriptions[fd] = {}
    THEN UNCHANGED indexes
    ELSE /\ channel_subscribers' = [channel_subscribers EXCEPT ![ch] = @ \ {fd}]
         /\ subscriptions' = [subscriptions EXCEPT ![fd] = @ \ {ch}]

\* Mutant: the other index is left alone.
unsubscribe_all_OneIndex(fd) ==
    /\ subscriptions' = [subscriptions EXCEPT ![fd] = {}]
    /\ UNCHANGED channel_subscribers

\* unsubscribe(fd), when the connection is closed.
unsubscribe_all(fd) ==
    /\ channel_subscribers' = [ch \in Channels |-> IF ch \in subscriptions[fd]
                                                   THEN channel_subscribers[ch] \ {fd}
                                                   ELSE channel_subscribers[ch]]
    /\ subscriptions' = [subscriptions EXCEPT ![fd] = {}]

clear_tx(fd) ==
    /\ in_multi' = [in_multi EXCEPT ![fd] = FALSE]
    /\ queued_commands' = [queued_commands EXCEPT ![fd] = <<>>]

is_subscribed(fd) == subscriptions[fd] # {}

----------------------------------------------------------------------------
(* Connections.                                                            *)

Dispatching == phase = "events" /\ executing = NoFd

Accept(fd) ==
    /\ Dispatching
    /\ conn_on[fd] = None
    /\ accepted < MaxConns
    /\ accepted' = accepted + 1
    /\ conn_on' = [conn_on EXCEPT ![fd] = accepted']
    /\ UNCHANGED <<indexes, output, received, tx, executing, phase, published>>

\* Mutant: the subscriptions are not removed.
Close_KeepsSubscriptions(fd) ==
    /\ Dispatching
    /\ conn_on[fd] # None
    /\ conn_on' = [conn_on EXCEPT ![fd] = None]
    /\ pending_write' = [pending_write EXCEPT ![fd] = <<>>]
    /\ dirty' = [dirty EXCEPT ![fd] = FALSE]
    /\ received' = [received EXCEPT ![fd] = <<>>]
    /\ clear_tx(fd)
    /\ UNCHANGED <<indexes, accepted, dirty_fds, executing, phase, published>>

\* The connection goes, with its buffer, its flag and its transaction; the
\* descriptor may stay on the list.
Close(fd) ==
    /\ Dispatching
    /\ conn_on[fd] # None
    /\ unsubscribe_all(fd)
    /\ conn_on' = [conn_on EXCEPT ![fd] = None]
    /\ pending_write' = [pending_write EXCEPT ![fd] = <<>>]
    /\ dirty' = [dirty EXCEPT ![fd] = FALSE]
    /\ received' = [received EXCEPT ![fd] = <<>>]
    /\ clear_tx(fd)
    /\ UNCHANGED <<accepted, dirty_fds, executing, phase, published>>

\* epoll_wait returns; later the batch of events is at its end, everything
\* is flushed, and the loop waits again.
Wake ==
    /\ phase = "wait"
    /\ phase' = "events"
    /\ UNCHANGED <<indexes, conn_on, accepted, output, received, tx, executing, published>>

Sleep ==
    /\ Dispatching
    /\ flush_all
    /\ phase' = "wait"
    /\ UNCHANGED <<indexes, conn_on, accepted, tx, executing, published>>

----------------------------------------------------------------------------
(* Commands.                                                               *)

\* A command of fd arrives, outside EXEC.
Receives(fd) ==
    /\ Dispatching
    /\ conn_on[fd] # None
    /\ Len(pending_write[fd]) < MaxPending

\* The subscribed mode admits SUBSCRIBE, UNSUBSCRIBE and PING.
Admits(fd, cmd) == is_subscribed(fd) => cmd \in {"SUBSCRIBE", "UNSUBSCRIBE", "PING"}

Publishes ==
    /\ published < MaxPublished
    /\ published' = published + 1

handle_subscribe(fd, op) ==
    /\ Receives(fd) /\ ~in_multi[fd]
    /\ op.cmd = "SUBSCRIBE"
    /\ subscribe(fd, op.ch)
    /\ Replies(fd)
    /\ UNCHANGED <<conn_on, accepted, received, tx, executing, phase, published>>

handle_unsubscribe(fd, op) ==
    /\ Receives(fd) /\ ~in_multi[fd]
    /\ op.cmd = "UNSUBSCRIBE"
    /\ unsubscribe(fd, op.ch)
    /\ Replies(fd)
    /\ UNCHANGED <<conn_on, accepted, received, tx, executing, phase, published>>

\* The message goes to the subscribers, the reply to fd, which is not one.
handle_publish(fd, op) ==
    /\ Receives(fd) /\ ~in_multi[fd]
    /\ op.cmd = "PUBLISH" /\ Admits(fd, "PUBLISH")
    /\ Publishes
    /\ LET subs == channel_subscribers[op.ch]
       IN  /\ pending_write' = [send_to(subs, <<op.ch, published'>>) EXCEPT ![fd] = Append(@, Reply)]
           /\ mark_dirty(Live(subs) \cup {fd})
    /\ UNCHANGED <<indexes, conn_on, accepted, received, tx, executing, phase>>

\* PING, any command that only replies, or one that subscribed mode refuses.
OnlyReplies(fd) ==
    /\ Receives(fd)
    /\ Replies(fd)
    /\ UNCHANGED <<indexes, conn_on, accepted, received, tx, executing, phase, published>>

Multi(fd) ==
    /\ Receives(fd) /\ ~in_multi[fd]
    /\ Admits(fd, "MULTI")
    /\ in_multi' = [in_multi EXCEPT ![fd] = TRUE]
    /\ Replies(fd)
    /\ UNCHANGED <<indexes, conn_on, accepted, received, queued_commands, executing, phase, published>>

Queue(fd, op) ==
    /\ Receives(fd) /\ in_multi[fd]
    /\ Admits(fd, op.cmd)
    /\ Len(queued_commands[fd]) < MaxQueued
    /\ queued_commands' = [queued_commands EXCEPT ![fd] = Append(@, op)]
    /\ Replies(fd)
    /\ UNCHANGED <<indexes, conn_on, accepted, received, in_multi, executing, phase, published>>

\* EXEC runs the queue, one command after the other, and nothing in between.
\* What a command replies is kept for the reply of EXEC; what it publishes
\* is sent at once.
Exec(fd) ==
    /\ Receives(fd) /\ in_multi[fd]
    /\ Admits(fd, "EXEC")
    /\ published + Len(queued_commands[fd]) <= MaxPublished
    /\ executing' = fd
    /\ mark_dirty({fd})
    /\ UNCHANGED <<indexes, conn_on, accepted, pending_write, received, tx, phase, published>>

ExecStep(fd) ==
    /\ executing = fd /\ queued_commands[fd] # <<>>
    /\ LET op == Head(queued_commands[fd])
           subs == channel_subscribers[op.ch]
       IN  \/ /\ op.cmd = "SUBSCRIBE"
              /\ subscribe(fd, op.ch)
              /\ UNCHANGED <<output, published>>
           \/ /\ op.cmd = "UNSUBSCRIBE"
              /\ unsubscribe(fd, op.ch)
              /\ UNCHANGED <<output, published>>
           \/ /\ op.cmd = "PUBLISH"
              /\ published' = published + 1
              /\ pending_write' = send_to(subs, <<op.ch, published'>>)
              /\ mark_dirty(Live(subs))
              /\ UNCHANGED indexes
    /\ queued_commands' = [queued_commands EXCEPT ![fd] = Tail(@)]
    /\ UNCHANGED <<in_multi, conn_on, accepted, received, executing, phase>>

ExecEnds(fd) ==
    /\ executing = fd /\ queued_commands[fd] = <<>>
    /\ executing' = NoFd
    /\ clear_tx(fd)
    /\ Replies(fd)
    /\ UNCHANGED <<indexes, conn_on, accepted, received, phase, published>>

Discard(fd) ==
    /\ Receives(fd) /\ in_multi[fd]
    /\ Admits(fd, "DISCARD")
    /\ clear_tx(fd)
    /\ Replies(fd)
    /\ UNCHANGED <<indexes, conn_on, accepted, received, executing, phase, published>>

Command(fd) ==
    \/ \E op \in Op : handle_subscribe(fd, op) \/ handle_unsubscribe(fd, op) \/ handle_publish(fd, op)
                      \/ Queue(fd, op)
    \/ OnlyReplies(fd) \/ Multi(fd) \/ Exec(fd) \/ ExecStep(fd) \/ ExecEnds(fd) \/ Discard(fd)

Next == Wake \/ Sleep \/ \E fd \in Fds : Accept(fd) \/ Close(fd) \/ Command(fd)

Spec == Init /\ [][Next]_vars

----------------------------------------------------------------------------
(* Properties.                                                             *)

TypeOK ==
    /\ subscriptions \in [Fds -> SUBSET Channels]
    /\ channel_subscribers \in [Channels -> SUBSET Fds]
    /\ conn_on \in [Fds -> {None} \cup Conns]
    /\ accepted \in 0..MaxConns
    /\ pending_write \in [Fds -> Seq(Message \cup {Reply})]
    /\ dirty \in [Fds -> BOOLEAN]
    /\ dirty_fds \in SUBSET Fds
    /\ in_multi \in [Fds -> BOOLEAN]
    /\ queued_commands \in [Fds -> Seq(Op)]
    /\ executing \in Fds \cup {NoFd}
    /\ phase \in {"wait", "events"}
    /\ published \in Nat

\* The two indexes agree: a descriptor is among the subscribers of a channel
\* exactly when the channel is among its subscriptions, through any mixture
\* of subscribing, unsubscribing, transactions and closed connections.
IndexesMirror ==
    \A fd \in Fds, ch \in Channels :
        fd \in channel_subscribers[ch] <=> ch \in subscriptions[fd]

\* Nothing waits in a buffer while the loop sleeps: whatever was written for
\* a connection is on the dirty list by the time of the flush.
SleepsFlushed ==
    phase = "wait" => \A fd \in Fds : pending_write[fd] = <<>>

\* A connection that is subscribed executes nothing but what its mode admits;
\* it does not publish.
SubscribedRestricted ==
    [][\A fd \in Fds : executing = fd /\ is_subscribed(fd) => published' = published]_vars

\* The connections, as the clients see them.
FdOf(c) == CHOOSE fd \in Fds : conn_on[fd] = c
IsOpen(c) == \E fd \in Fds : conn_on[fd] = c

\* What a descriptor has been given: sent, or waiting in its buffer.
Given(fd) == received[fd] \o Messages(pending_write[fd])

OpenConns == {c \in Conns : IsOpen(c)}
ChannelsOf == [c \in Conns |-> IF IsOpen(c) THEN subscriptions[FdOf(c)] ELSE {}]
InboxOf == [c \in Conns |-> IF IsOpen(c) THEN Given(FdOf(c)) ELSE <<>>]

Abstract == INSTANCE PubSubSpec WITH
    alive <- OpenConns, channels <- ChannelsOf, inbox <- InboxOf

\* A message is given exactly to the connections that have its channel when
\* it is published, in the order of publication, and to no later connection
\* on the same descriptor: the indexes and buffers implement PubSubSpec.
ImplementsPubSub == Abstract!Spec
=============================================================================
