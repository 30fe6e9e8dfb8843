------------------------------- MODULE Channel -------------------------------
(***************************************************************************)
(* The bounded coroutine channel (src/include/oran/async/channel.hpp) that *)
(* path locks, task groups, the tool scheduler and the background-task     *)
(* manager wait on.  Threads enter it through one mutex; a step is one     *)
(* critical section, which ends with `pump_locked`.  Completions go to the *)
(* executors of the operations and find their result fixed.                *)
(***************************************************************************)
EXTENDS ChannelMailbox, Functions

CONSTANTS
    Sends,      \* send and try_send calls; each carries its own value
    Receives,   \* receive and try_receive calls
    Capacities, \* what a channel is created with
    NoValue     \* of a receive that got none

VARIABLES
    values,     \* values_
    senders,    \* senders_: the pending sends
    receivers,  \* receivers_: the pending receives
    result      \* what a call was told

channelVars == <<capacity, closed, values, senders, receivers, result, got, accepted, delivered>>

Operations == Sends \cup Receives
Results == {"new", "pending", "ok", "closed", "cancelled", "overflow", "empty"}

ChannelTypeOK ==
    /\ capacity \in Capacities
    /\ closed \in BOOLEAN
    /\ values \in Seq(Sends)
    /\ senders \in Seq(Sends)
    /\ receivers \in Seq(Receives)
    /\ result \in [Operations -> Results]
    /\ got \in [Receives -> Sends \cup {NoValue}]
    /\ accepted \in Seq(Sends)
    /\ delivered \in Seq(Receives)

ChannelInit ==
    /\ capacity \in Capacities
    /\ closed = FALSE
    /\ values = << >>
    /\ senders = << >>
    /\ receivers = << >>
    /\ result = [c \in Operations |-> "new"]
    /\ got = [r \in Receives |-> NoValue]
    /\ accepted = << >>
    /\ delivered = << >>

-----------------------------------------------------------------------------
Drop(s, n) == SubSeq(s, n + 1, Len(s))
Take(s, n) == SubSeq(s, 1, n)
Without(s, i) == Take(s, i - 1) \o Drop(s, i)
Lesser(m, n) == IF m <= n THEN m ELSE n

\* Mutant of PumpOpen: pending sends are taken beyond the capacity.
PumpOpenOverfull(v, s, r, res, acc) ==
    LET stream == v \o s
        d == Lesser(Len(r), Len(stream))
        keep == Lesser(capacity + 1, Len(stream) - d)
        a == (d + keep) - Len(v)
    IN /\ values' = SubSeq(stream, d + 1, d + keep)
       /\ senders' = Drop(s, a)
       /\ receivers' = Drop(r, d)
       /\ result' = [c \in Operations |->
                       IF c \in Range(Take(r, d)) \cup Range(Take(s, a)) THEN "ok" ELSE res[c]]
       /\ got' = [q \in Receives |->
                    IF \E i \in 1 .. d : r[i] = q
                    THEN stream[CHOOSE i \in 1 .. d : r[i] = q] ELSE got[q]]
       /\ accepted' = acc \o Take(s, a)
       /\ delivered' = delivered \o Take(r, d)

\* pump_locked on an open channel with buffer v, pending sends s and pending
\* receives r.  The loop serves receives from the front of the buffer, then
\* from the pending sends, and moves pending sends into the room that is left.
\* res and acc are the results and the history as the section left them.
PumpOpen(v, s, r, res, acc) ==
    LET stream == v \o s
        d == Lesser(Len(r), Len(stream))
        keep == Lesser(capacity, Len(stream) - d)
        a == (d + keep) - Len(v)
    IN /\ values' = SubSeq(stream, d + 1, d + keep)
       /\ senders' = Drop(s, a)
       /\ receivers' = Drop(r, d)
       /\ result' = [c \in Operations |->
                       IF c \in Range(Take(r, d)) \cup Range(Take(s, a)) THEN "ok" ELSE res[c]]
       /\ got' = [q \in Receives |->
                    IF \E i \in 1 .. d : r[i] = q
                    THEN stream[CHOOSE i \in 1 .. d : r[i] = q] ELSE got[q]]
       /\ accepted' = acc \o Take(s, a)
       /\ delivered' = delivered \o Take(r, d)

\* pump_locked on a closed channel: receives drain the buffer, everything else
\* that is pending fails.
PumpClosed(v, s, r, res) ==
    LET d == Lesser(Len(r), Len(v))
    IN /\ values' = Drop(v, d)
       /\ senders' = << >>
       /\ receivers' = << >>
       /\ result' = [c \in Operations |->
                       IF c \in Range(Take(r, d)) THEN "ok"
                       ELSE IF c \in Range(r) \cup Range(s) THEN "closed" ELSE res[c]]
       /\ got' = [q \in Receives |->
                    IF \E i \in 1 .. d : r[i] = q
                    THEN v[CHOOSE i \in 1 .. d : r[i] = q] ELSE got[q]]
       /\ accepted' = accepted
       /\ delivered' = delivered \o Take(r, d)

Pump(v, s, r, res) ==
    IF closed THEN PumpClosed(v, s, r, res) ELSE PumpOpen(v, s, r, res, accepted)

-----------------------------------------------------------------------------
\* Operations.

Told(c, what) == [result EXCEPT ![c] = what]

\* send: the call queues behind every pending send; then the queues are pumped.
Send(x) ==
    /\ result[x] = "new"
    /\ Pump(values, Append(senders, x), receivers, Told(x, "pending"))
    /\ UNCHANGED <<capacity, closed>>

\* receive.
Receive(r) ==
    /\ result[r] = "new"
    /\ Pump(values, senders, Append(receivers, r), Told(r, "pending"))
    /\ UNCHANGED <<capacity, closed>>

\* try_send.  The pump it starts with finds nothing to move (Settled).
TrySend(x) ==
    /\ result[x] = "new"
    /\ IF closed
       THEN /\ result' = Told(x, "closed")
            /\ UNCHANGED <<values, senders, receivers, got, accepted, delivered>>
       ELSE IF receivers # << >> /\ values = << >>
       THEN /\ result' = [Told(x, "ok") EXCEPT ![Head(receivers)] = "ok"]
            /\ got' = [got EXCEPT ![Head(receivers)] = x]
            /\ receivers' = Tail(receivers)
            /\ accepted' = Append(accepted, x)
            /\ delivered' = Append(delivered, Head(receivers))
            /\ UNCHANGED <<values, senders>>
       ELSE IF Len(values) < capacity
       THEN PumpOpen(Append(values, x), senders, receivers, Told(x, "ok"), Append(accepted, x))
       ELSE /\ result' = Told(x, "overflow")
            /\ UNCHANGED <<values, senders, receivers, got, accepted, delivered>>
    /\ UNCHANGED <<capacity, closed>>

\* try_receive.  The pump it starts with finds nothing to move (Settled).
TryReceive(r) ==
    /\ result[r] = "new"
    /\ IF values # << >>
       THEN Pump(values, senders, << r >> \o receivers, Told(r, "pending"))
       ELSE IF senders # << >>
       THEN /\ result' = [Told(r, "ok") EXCEPT ![Head(senders)] = "ok"]
            /\ got' = [got EXCEPT ![r] = Head(senders)]
            /\ senders' = Tail(senders)
            /\ accepted' = Append(accepted, Head(senders))
            /\ delivered' = Append(delivered, r)
            /\ UNCHANGED <<values, receivers>>
       ELSE /\ result' = Told(r, IF closed THEN "closed" ELSE "empty")
            /\ UNCHANGED <<values, senders, receivers, got, accepted, delivered>>
    /\ UNCHANGED <<capacity, closed>>

\* close.
Close ==
    /\ ~closed
    /\ closed' = TRUE
    /\ PumpClosed(values, senders, receivers, result)
    /\ UNCHANGED capacity

\* cancel_send: only a send that is still queued can be cancelled.
CancelSend(x) ==
    /\ \E i \in 1 .. Len(senders) :
         senders[i] = x /\ senders' = Without(senders, i)
    /\ result' = Told(x, "cancelled")
    /\ UNCHANGED <<capacity, closed, values, receivers, got, accepted, delivered>>

\* cancel_receive.
CancelReceive(r) ==
    /\ \E i \in 1 .. Len(receivers) :
         receivers[i] = r /\ receivers' = Without(receivers, i)
    /\ result' = Told(r, "cancelled")
    /\ UNCHANGED <<capacity, closed, values, senders, got, accepted, delivered>>

ChannelNext ==
    \/ \E x \in Sends : Send(x) \/ TrySend(x) \/ CancelSend(x)
    \/ \E r \in Receives : Receive(r) \/ TryReceive(r) \/ CancelReceive(r)
    \/ Close

ChannelSpec == ChannelInit /\ [][ChannelNext]_channelVars

-----------------------------------------------------------------------------
\* Properties.

\* Between critical sections nothing that could move is left: no receive waits
\* beside a value or a send, no send waits beside room, and nothing is pending
\* on a closed channel.
Settled ==
    /\ receivers # << >> => values = << >> /\ senders = << >>
    /\ senders # << >> => Len(values) = capacity
    /\ closed => senders = << >> /\ receivers = << >>
    /\ Len(values) <= capacity

\* A call waits in its queue, once, exactly while it was told nothing.
QueuesExact ==
    /\ \A x \in Sends : result[x] = "pending" <=> x \in Range(senders)
    /\ \A r \in Receives : result[r] = "pending" <=> r \in Range(receivers)
    /\ IsInjective(senders) /\ IsInjective(receivers)

\* The values received, in the order of the receives, followed by the buffer are
\* the values of the successful sends in their order: none is lost, duplicated or
\* reordered, and a send that failed delivers nothing.
NothingLost ==
    /\ Received \o values = accepted
    /\ \A x \in Sends : result[x] = "ok" <=> x \in Range(accepted)
    /\ \A r \in Receives : result[r] = "ok" <=> r \in Range(delivered)
    /\ IsInjective(accepted) /\ IsInjective(delivered)

ChannelInv == ChannelTypeOK /\ Settled /\ QueuesExact /\ NothingLost

\* A send is accepted only when every send that was pending before it is served,
\* and so is a receive.
ServesInOrder ==
    /\ \A x, y \in Sends :
         /\ result[x] # "ok" /\ result'[x] = "ok"
         /\ result[y] = "pending" /\ result'[y] = "pending"
         => \E i, j \in 1 .. Len(senders) : i < j /\ senders[i] = x /\ senders[j] = y
    /\ \A q, r \in Receives :
         /\ result[q] # "ok" /\ result'[q] = "ok"
         /\ result[r] = "pending" /\ result'[r] = "pending"
         => \E i, j \in 1 .. Len(receivers) : i < j /\ receivers[i] = q /\ receivers[j] = r

\* Every step of the channel serves in that order.
ServedInOrder == [][ServesInOrder]_channelVars
=============================================================================
