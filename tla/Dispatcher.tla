------------------------------ MODULE Dispatcher ------------------------------
(***************************************************************************)
(* The channel dispatcher (src/src/oran-channel/dispatcher.cpp): incoming  *)
(* events, possibly redelivered, become at most one agent turn each, whose *)
(* reply is sent part by part.  Entries of failed deliveries stay until an *)
(* operator resumes or acknowledges them; entries of finished ones are the *)
(* bounded duplicate cache.  One strand: a step runs from one await to the *)
(* next, the steps of different calls interleave.                          *)
(***************************************************************************)
EXTENDS Naturals, Sequences, SequencesExt, FiniteSets

CONSTANTS
    Events,             \* keys of incoming events
    ConversationOf,     \* the conversation of an event
    Calls,              \* calls of handle and resume
    Capacity,           \* DispatcherOptions::capacity
    MaxParts            \* bound on the parts of a reply

VARIABLES
    entries,        \* the retained events
    completed,      \* keys of the entries that may be evicted, oldest first
    busy,           \* conversations with a call in flight
    call,           \* the calls
    ran,            \* history: turns started for each event
    confirmed       \* history: parts of its latest reply the platform confirmed

vars == <<entries, completed, busy, call, ran, confirmed>>

Conversations == {ConversationOf[e] : e \in Events}

Entry == [parts : 0 .. MaxParts, next_part : 0 .. MaxParts, generated : BOOLEAN, complete : BOOLEAN, error : BOOLEAN]
NewEntry == [parts |-> 0, next_part |-> 0, generated |-> FALSE, complete |-> FALSE, error |-> FALSE]

\* idle.  receive: awaits permission for the event.  turn: the agent runs.  join:
\* the typing status is being taken back.  send: a part is on its way.
\* recover: awaits permission for a resume at part `from`.  returned.
Locations == {"idle", "receive", "turn", "join", "send", "recover", "returned"}
NoEvent == "none"

TypeOK ==
    /\ DOMAIN entries \subseteq Events /\ \A e \in DOMAIN entries : entries[e] \in Entry
    /\ completed \in Seq(Events)
    /\ busy \subseteq Conversations
    /\ call \in [Calls -> [pc : Locations, event : Events \cup {NoEvent}, from : 0 .. MaxParts,
                           typing : BOOLEAN, answered : BOOLEAN]]
    /\ ran \in [Events -> Nat]
    /\ confirmed \in [Events -> Seq(1 .. MaxParts)]

Init ==
    /\ entries = << >>
    /\ completed = << >>
    /\ busy = {}
    /\ call = [c \in Calls |-> [pc |-> "idle", event |-> NoEvent, from |-> 0,
                                typing |-> FALSE, answered |-> FALSE]]
    /\ ran = [e \in Events |-> 0]
    /\ confirmed = [e \in Events |-> << >>]

-----------------------------------------------------------------------------
\* Taking and leaving the conversation.

Lease(c) == ConversationOf[call[c].event]

Returned == [pc |-> "returned", event |-> NoEvent, from |-> 0, typing |-> FALSE, answered |-> FALSE]

\* A call returns: the lease ends on every path, the exceptional ones included.
Return(c) ==
    /\ call' = [call EXCEPT ![c] = Returned]
    /\ busy' = busy \ {Lease(c)}

Fail(c) ==
    /\ entries' = [entries EXCEPT ![call[c].event].error = TRUE]
    /\ Return(c)
    /\ UNCHANGED <<completed, ran, confirmed>>

\* handle: refused while the conversation is busy or the admission is full.
Handle(c, e) ==
    /\ call[c].pc = "idle"
    /\ ConversationOf[e] \notin busy
    /\ Cardinality(busy) < Capacity
    /\ busy' = busy \cup {ConversationOf[e]}
    /\ call' = [call EXCEPT ![c].pc = "receive", ![c].event = e]
    /\ UNCHANGED <<entries, completed, ran, confirmed>>

\* The permission is denied, or the call is cancelled while it awaits it.
Denied(c) ==
    /\ call[c].pc \in {"receive", "recover"}
    /\ Return(c)
    /\ UNCHANGED <<entries, completed, ran, confirmed>>

\* The event is known: its outcome is returned again.
Duplicate(c) ==
    /\ call[c].pc = "receive"
    /\ call[c].event \in DOMAIN entries
    /\ Return(c)
    /\ UNCHANGED <<entries, completed, ran, confirmed>>

\* The cache is full and nothing in it is finished.
CacheFull(c) ==
    /\ call[c].pc = "receive"
    /\ call[c].event \notin DOMAIN entries
    /\ Cardinality(DOMAIN entries) >= Capacity /\ completed = << >>
    /\ Return(c)
    /\ UNCHANGED <<entries, completed, ran, confirmed>>

With(f, e, x) == [k \in DOMAIN f \cup {e} |-> IF k = e THEN x ELSE f[k]]
Without(f, e) == [k \in DOMAIN f \ {e} |-> f[k]]

\* Mutant of RunTurn: the oldest entry makes room, whatever its state.
RunTurnEvictingAny(c, typing) ==
    /\ call[c].pc = "receive"
    /\ call[c].event \notin DOMAIN entries
    /\ LET full == Cardinality(DOMAIN entries) >= Capacity
           victim == CHOOSE e \in DOMAIN entries : TRUE
       IN  /\ entries' = With(IF full THEN Without(entries, victim) ELSE entries,
                              call[c].event, NewEntry)
           /\ completed' = IF full THEN SelectSeq(completed, LAMBDA e : e # victim) ELSE completed
    /\ call' = [call EXCEPT ![c].pc = "turn", ![c].typing = typing]
    /\ ran' = [ran EXCEPT ![call[c].event] = @ + 1]
    /\ confirmed' = [confirmed EXCEPT ![call[c].event] = << >>]
    /\ UNCHANGED busy

\* A new event: the oldest finished entry makes room if needed, and the turn
\* starts, with the typing status beside it where the platform has one.
RunTurn(c, typing) ==
    /\ call[c].pc = "receive"
    /\ call[c].event \notin DOMAIN entries
    /\ LET full == Cardinality(DOMAIN entries) >= Capacity
       IN  /\ full => completed # << >>
           /\ entries' = With(IF full THEN Without(entries, Head(completed)) ELSE entries,
                              call[c].event, NewEntry)
           /\ completed' = IF full THEN Tail(completed) ELSE completed
    /\ call' = [call EXCEPT ![c].pc = "turn", ![c].typing = typing]
    /\ ran' = [ran EXCEPT ![call[c].event] = @ + 1]
    /\ confirmed' = [confirmed EXCEPT ![call[c].event] = << >>]
    /\ UNCHANGED busy

\* The turn ends; the status task is told to stop and joined, uncancellably.
TurnEnds(c, answered) ==
    /\ call[c].pc = "turn"
    /\ call' = [call EXCEPT ![c].pc = "join", ![c].answered = answered]
    /\ UNCHANGED <<entries, completed, busy, ran, confirmed>>

\* The status task ends: its limit passed, a request failed, or it was stopped.
TypingEnds(c) ==
    /\ call[c].typing
    /\ call' = [call EXCEPT ![c].typing = FALSE]
    /\ UNCHANGED <<entries, completed, busy, ran, confirmed>>

\* No answer, an invalid reply, or an exception.
NoReply(c) ==
    /\ call[c].pc = "join" /\ ~call[c].typing
    /\ Fail(c)

\* Every part is sent and confirmed.
Finish(c, ents) ==
    LET e == call[c].event
    IN  /\ entries' = [ents EXCEPT ![e].complete = TRUE, ![e].error = FALSE]
        /\ completed' = Append(completed, e)
        /\ Return(c)

\* deliver, from the part `from`: nothing left to send finishes at once.
Deliver(c, ents, from) ==
    LET e == call[c].event
        ready == [ents EXCEPT ![e].next_part = from]
    IN  IF from = ready[e].parts THEN Finish(c, ready)
        ELSE /\ entries' = ready
             /\ call' = [call EXCEPT ![c].pc = "send"]
             /\ UNCHANGED <<completed, busy>>

\* The answer is split and kept; delivery starts unless the call was cancelled.
Generated(c, parts, cancelled) ==
    LET e == call[c].event
        kept == [entries EXCEPT ![e].generated = TRUE, ![e].parts = parts]
    IN  /\ call[c].pc = "join" /\ ~call[c].typing
        /\ call[c].answered
        /\ IF cancelled
           THEN /\ entries' = [kept EXCEPT ![e].error = TRUE]
                /\ Return(c)
                /\ UNCHANGED completed
           ELSE Deliver(c, kept, 0)
        /\ UNCHANGED <<ran, confirmed>>

\* The platform confirms the part on its way.
PartSent(c) ==
    LET e == call[c].event
        part == entries[e].next_part + 1
    IN  /\ call[c].pc = "send"
        /\ confirmed' = [confirmed EXCEPT ![e] = Append(@, part)]
        /\ Deliver(c, entries, part)
        /\ UNCHANGED ran

\* A part is refused, unauthorized, unconfirmed or cancelled.  The platform may
\* have shown it nevertheless.
PartFails(c) ==
    /\ call[c].pc = "send"
    /\ Fail(c)

-----------------------------------------------------------------------------
\* The operator.

\* resume: a generated reply goes on, at the first unconfirmed part or later.
ResumeAt(c, e, from) ==
    /\ call[c].pc = "idle"
    /\ ConversationOf[e] \notin busy
    /\ e \in DOMAIN entries /\ entries[e].generated /\ ~entries[e].complete
    /\ from \in entries[e].next_part .. entries[e].parts
    /\ busy' = busy \cup {ConversationOf[e]}
    /\ call' = [call EXCEPT ![c].pc = "recover", ![c].event = e, ![c].from = from]
    /\ UNCHANGED <<entries, completed, ran, confirmed>>

Recovered(c) ==
    /\ call[c].pc = "recover"
    /\ Deliver(c, entries, call[c].from)
    /\ UNCHANGED <<ran, confirmed>>

\* acknowledge_failure: a failed entry may be evicted from now on.
AcknowledgeFailure(e) ==
    /\ ConversationOf[e] \notin busy
    /\ e \in DOMAIN entries /\ entries[e].error /\ ~entries[e].complete
    /\ entries' = [entries EXCEPT ![e].complete = TRUE]
    /\ completed' = Append(completed, e)
    /\ UNCHANGED <<busy, call, ran, confirmed>>

Next ==
    \/ \E c \in Calls :
         \/ \E e \in Events : Handle(c, e) \/ \E from \in 0 .. MaxParts : ResumeAt(c, e, from)
         \/ Denied(c) \/ Duplicate(c) \/ CacheFull(c)
         \/ \E b \in BOOLEAN : 
               RunTurn(c, b) \/ TurnEnds(c, b) \/ \E n \in 0 .. MaxParts : Generated(c, n, b)
         \/ TypingEnds(c) \/ NoReply(c) \/ PartSent(c) \/ PartFails(c) \/ Recovered(c)
    \/ \E e \in Events : AcknowledgeFailure(e)

Spec == Init /\ [][Next]_vars

-----------------------------------------------------------------------------
\* Properties.

InFlight == {c \in Calls : call[c].pc \notin {"idle", "returned"}}

\* The limits hold; a conversation is busy exactly while one call serves it; the
\* eviction queue names each settled entry once, and never one that a call still
\* uses for a turn or a delivery; no part is sent while the typing status is shown.
CacheInv ==
    /\ TypeOK
    /\ Cardinality(DOMAIN entries) <= Capacity
    /\ \A k \in Conversations :
         Cardinality({c \in InFlight : Lease(c) = k}) = IF k \in busy THEN 1 ELSE 0
    /\ IsInjective(completed)
    /\ ToSet(completed) = {e \in DOMAIN entries : entries[e].complete}
    /\ \A c \in InFlight : call[c].pc \in {"turn", "join", "send", "recover"} =>
         call[c].event \in DOMAIN entries /\ ~entries[call[c].event].complete
    /\ \A c \in InFlight : call[c].pc = "send" => ~call[c].typing

\* "Preserve a terminal error, never replay the turn": while the delivery of an
\* event is neither finished nor acknowledged, its entry is not evicted and no
\* redelivery runs the agent again.
FailuresRetained ==
    [][\A e \in DOMAIN entries : ~entries[e].complete =>
         e \in DOMAIN entries' /\ ran'[e] = ran[e]]_vars

\* Confirmed parts of a reply are in order and none is confirmed twice, over any
\* number of failures and resumes of the same turn.
PartsInOrder ==
    \A e \in Events : \A i, j \in DOMAIN confirmed[e] :
      i < j => confirmed[e][i] < confirmed[e][j]
===============================================================================
