----------------------------- MODULE PubSubSpec -----------------------------
(***************************************************************************)
(* What publish and subscribe promise, without file descriptors, indexes   *)
(* or buffers: a connection has a set of channels, and a message published *)
(* on a channel goes to exactly the connections that have the channel at   *)
(* that moment, in the order of publication.                               *)
(***************************************************************************)
EXTENDS Naturals, Sequences

CONSTANTS Conns, Channels

VARIABLES alive,      \* the connections that are open
          channels,   \* the channels of each connection
          inbox,      \* the messages each open connection was given
          published   \* the number of messages published

vars == <<alive, channels, inbox, published>>

Init ==
    /\ alive = {}
    /\ channels = [c \in Conns |-> {}]
    /\ inbox = [c \in Conns |-> <<>>]
    /\ published = 0

Open(c) ==
    /\ c \notin alive
    /\ alive' = alive \cup {c}
    /\ UNCHANGED <<channels, inbox, published>>

Close(c) ==
    /\ c \in alive
    /\ alive' = alive \ {c}
    /\ channels' = [channels EXCEPT ![c] = {}]
    /\ inbox' = [inbox EXCEPT ![c] = <<>>]
    /\ UNCHANGED published

Subscribe(c, ch) ==
    /\ c \in alive
    /\ channels' = [channels EXCEPT ![c] = @ \cup {ch}]
    /\ UNCHANGED <<alive, inbox, published>>

Unsubscribe(c, ch) ==
    /\ c \in alive
    /\ channels' = [channels EXCEPT ![c] = @ \ {ch}]
    /\ UNCHANGED <<alive, inbox, published>>

Publish(ch) ==
    /\ published' = published + 1
    /\ inbox' = [c \in Conns |-> IF ch \in channels[c]
                                 THEN Append(inbox[c], <<ch, published'>>) ELSE inbox[c]]
    /\ UNCHANGED <<alive, channels>>

Next ==
    \/ \E c \in Conns : Open(c) \/ Close(c)
    \/ \E c \in Conns, ch \in Channels : Subscribe(c, ch) \/ Unsubscribe(c, ch)
    \/ \E ch \in Channels : Publish(ch)

Spec == Init /\ [][Next]_vars
=============================================================================
