------------------------------- MODULE Mailbox -------------------------------
(***************************************************************************)
(* What a bounded channel promises, without its queues: values are taken   *)
(* in one order and handed out in that order, at most `limit` of them are  *)
(* in between, and a closed channel takes no more but still hands out what *)
(* it has.                                                                 *)
(***************************************************************************)
EXTENDS Naturals, Sequences

VARIABLES
    limit,      \* how many values fit between
    accepted,   \* the values taken so far, in order
    delivered,  \* the values handed out so far, in order
    shut

mailboxVars == <<limit, accepted, delivered, shut>>

Init ==
    /\ limit \in Nat
    /\ accepted = << >>
    /\ delivered = << >>
    /\ shut = FALSE

\* log goes on where start ends.
Continues(start, log) ==
    Len(start) <= Len(log) /\ \A i \in 1 .. Len(start) : log[i] = start[i]

\* What was taken and not handed out fits the buffer, and order is kept.
InOrder(taken, out) ==
    /\ Continues(out, taken)
    /\ Len(taken) - Len(out) <= limit

\* Values come in and go out.
Transfer ==
    /\ ~shut
    /\ Continues(accepted, accepted') /\ Continues(delivered, delivered')
    /\ InOrder(accepted', delivered')
    /\ UNCHANGED shut

Shut ==
    /\ shut' = TRUE
    /\ UNCHANGED <<accepted, delivered>>

\* A closed mailbox hands out what it has.
Drain ==
    /\ shut
    /\ Continues(delivered, delivered')
    /\ InOrder(accepted, delivered')
    /\ UNCHANGED <<accepted, shut>>

Next == (Transfer \/ Shut \/ Drain) /\ UNCHANGED limit

Spec == Init /\ [][Next]_mailboxVars
=============================================================================
