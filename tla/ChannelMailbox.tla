---------------------------- MODULE ChannelMailbox ----------------------------
(***************************************************************************)
(* How a channel is seen as a mailbox: through what its sends put in and   *)
(* its receives took out, and not through its queues.                      *)
(***************************************************************************)
EXTENDS Naturals, Sequences

VARIABLES
    capacity,   \* capacity_
    closed,     \* closed_
    got,        \* the value of a successful receive
    accepted,   \* history: the sends told "ok", in the order of their values
    delivered   \* history: the receives told "ok", in order

Received == [i \in 1 .. Len(delivered) |-> got[delivered[i]]]

M == INSTANCE Mailbox WITH limit <- capacity, delivered <- Received, shut <- closed

\* The channel implements the mailbox: its values are received in the order in
\* which they were accepted, no more than its capacity in between, and after
\* close none is accepted (channel.hpp:290).
IsMailbox == M!Spec
===============================================================================
