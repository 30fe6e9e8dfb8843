------------------------------ MODULE TaskGroup ------------------------------
(***************************************************************************)
(* The bounded group of child coroutines (src/src/oran-async/              *)
(* task_group.cpp): spawn, the child's outcome, stop, drain, and the plain *)
(* and the bounded join.  Callers and children run on several threads.  A  *)
(* step is one critical section of the group's mutex, or one of the things *)
(* the code does outside it: the co_spawn after a child was recorded, the  *)
(* wake-up after it finished, a posted cancellation.                       *)
(***************************************************************************)
EXTENDS Naturals, Sequences, SequencesExt, FiniteSets

CONSTANTS
    Children,       \* spawn calls
    MaxTasks,       \* TaskGroupOptions::max_tasks
    MaxCompleted    \* TaskGroupOptions::max_completed

VARIABLES
    active,         \* the children recorded and not finished
    completed,      \* outcomes kept, oldest first
    dropped,        \* completed_dropped
    closed, stop_requested, join_started,
    pc,             \* where a child is
    signalled,      \* the child saw its cancellation
    emits,          \* posted emissions of cancellation signals
    token,          \* the value in the `completion` channel, of capacity 1
    join,           \* where the joining coroutine is
    timed,          \* join_with_timeout
    cancellable,    \* the joining coroutine still reacts to its parent
    reported,       \* children whose outcome a report handed out
    lagging,        \* children a report called lagging
    evicted,        \* history: children whose outcome was dropped
    told            \* history: dropped outcomes that reports counted

group == <<active, completed, dropped, closed, stop_requested, join_started>>
joiner == <<join, timed, cancellable>>
reports == <<reported, lagging, evicted, told>>
vars == <<group, pc, signalled, emits, token, joiner, reports>>

\* new: not spawned.  rejected: refused.  recorded: active, before co_spawn.
\* running.  finishing: outcome recorded, wake-up not sent.  ended.
Locations == {"new", "rejected", "recorded", "running", "finishing", "ended"}
\* out: no join.  check: about to look at the active children.  receive: found
\* some.  wait: parked on the channel.  expired: past the deadline, before the report.  returned.
Joins == {"out", "check", "receive", "wait", "expired", "returned"}

TypeOK ==
    /\ active \subseteq Children
    /\ completed \in Seq(Children)
    /\ {dropped, told} \subseteq Nat
    /\ {closed, stop_requested, join_started, token, timed, cancellable} \subseteq BOOLEAN
    /\ pc \in [Children -> Locations]
    /\ signalled \in [Children -> BOOLEAN]
    /\ emits \subseteq Children
    /\ join \in Joins
    /\ UNION {reported, lagging, evicted} \subseteq Children

Init ==
    /\ active = {}
    /\ completed = << >>
    /\ dropped = 0
    /\ closed = FALSE /\ stop_requested = FALSE /\ join_started = FALSE
    /\ pc = [c \in Children |-> "new"]
    /\ signalled = [c \in Children |-> FALSE]
    /\ emits = {}
    /\ token = FALSE
    /\ join = "out" /\ timed = FALSE /\ cancellable = TRUE
    /\ reported = {} /\ lagging = {} /\ evicted = {} /\ told = 0

-----------------------------------------------------------------------------
\* Children.

\* spawn, the critical section: record the child, or refuse it.
Spawn(c) ==
    /\ pc[c] = "new"
    /\ IF closed \/ Cardinality(active) >= MaxTasks
       THEN /\ pc' = [pc EXCEPT ![c] = "rejected"]
            /\ UNCHANGED active
       ELSE /\ active' = active \cup {c}
            /\ pc' = [pc EXCEPT ![c] = "recorded"]
    /\ UNCHANGED <<completed, dropped, closed, stop_requested, join_started,
                   signalled, emits, token, joiner, reports>>

\* spawn, the rest: co_spawn starts the child and binds its cancellation slot.
CoSpawn(c) ==
    /\ pc[c] = "recorded"
    /\ pc' = [pc EXCEPT ![c] = "running"]
    /\ UNCHANGED <<group, signalled, emits, token, joiner, reports>>

\* finish, the critical section: the outcome replaces the active record; a full
\* list gives up its oldest outcome.
Finish(c) ==
    /\ active' = active \ {c}
    /\ IF Len(completed) = MaxCompleted
       THEN /\ completed' = Append(Tail(completed), c)
            /\ dropped' = dropped + 1
            /\ evicted' = evicted \cup {Head(completed)}
       ELSE /\ completed' = Append(completed, c)
            /\ UNCHANGED <<dropped, evicted>>
    /\ pc' = [pc EXCEPT ![c] = "finishing"]
    /\ UNCHANGED <<closed, stop_requested, join_started,
                   signalled, emits, token, joiner, reported, lagging, told>>

\* run_child returns or throws, or co_spawn itself fails.
ChildEnds(c) ==
    /\ pc[c] \in {"recorded", "running"}
    /\ Finish(c)

\* Mutant of Notify: the wake-up is sent only to a joiner that already waits.
NotifyWaiting(c) ==
    /\ pc[c] = "finishing"
    /\ pc' = [pc EXCEPT ![c] = "ended"]
    /\ join' = IF join = "wait" THEN "check" ELSE join
    /\ UNCHANGED <<token, group, signalled, emits, timed, cancellable, reports>>

\* finish, the rest: try_send on `completion` wakes the waiting joiner or leaves
\* a token; a second token does not fit and is not needed.
Notify(c) ==
    /\ pc[c] = "finishing"
    /\ pc' = [pc EXCEPT ![c] = "ended"]
    /\ IF join = "wait"
       THEN join' = "check" /\ UNCHANGED token
       ELSE token' = TRUE /\ UNCHANGED join
    /\ UNCHANGED <<group, signalled, emits, timed, cancellable, reports>>

\* A posted emission runs on the strand.  It reaches a child whose slot is
\* bound, and nobody otherwise.
Emit(c) ==
    /\ c \in emits
    /\ emits' = emits \ {c}
    /\ signalled' = [signalled EXCEPT ![c] = @ \/ pc[c] = "running"]
    /\ UNCHANGED <<group, pc, token, joiner, reports>>

-----------------------------------------------------------------------------
\* The owner.

\* request_stop: the first call posts an emission for every active child.
Stop ==
    /\ closed' = TRUE
    /\ stop_requested' = TRUE
    /\ emits' = IF stop_requested THEN emits ELSE emits \cup active

RequestStop ==
    /\ ~stop_requested
    /\ Stop
    /\ UNCHANGED <<active, completed, dropped, join_started, pc, signalled,
                   token, joiner, reports>>

Close ==
    /\ ~closed
    /\ closed' = TRUE
    /\ UNCHANGED <<active, completed, dropped, stop_requested, join_started, pc,
                   signalled, emits, token, joiner, reports>>

\* drain_completed: hand out the outcomes in spawn order, reset the count.
Drained ==
    /\ reported' = reported \cup ToSet(completed)
    /\ completed' = << >>
    /\ dropped' = 0
    /\ told' = told + dropped

DrainCompleted ==
    /\ completed # << >>
    /\ Drained
    /\ UNCHANGED <<active, closed, stop_requested, join_started, pc, signalled,
                   emits, token, joiner, lagging, evicted>>

\* begin_join.  A second join is refused and changes nothing.
BeginJoin(t) ==
    /\ ~join_started
    /\ join_started' = TRUE
    /\ closed' = TRUE
    /\ join' = "check"
    /\ timed' = t
    /\ UNCHANGED <<active, completed, dropped, stop_requested, pc, signalled,
                   emits, token, cancellable, reports>>

\* The loop of the joins: no active child ends it.
JoinCheck ==
    /\ join = "check"
    /\ IF active = {}
       THEN Drained /\ join' = "returned"
       ELSE join' = "receive" /\ UNCHANGED <<completed, dropped, reported, told>>
    /\ UNCHANGED <<active, closed, stop_requested, join_started, pc, signalled,
                   emits, token, timed, cancellable, lagging, evicted>>

\* Otherwise the joiner takes the token, or parks until one comes.
JoinReceive ==
    /\ join = "receive"
    /\ join' = IF token THEN "check" ELSE "wait"
    /\ token' = FALSE
    /\ UNCHANGED <<group, pc, signalled, emits, timed, cancellable, reports>>

\* The parent is cancelled: the receive fails, the group is stopped, and the
\* joiner goes on waiting without reacting to its parent any more.
JoinCancelled ==
    /\ join = "wait" /\ cancellable
    /\ Stop
    /\ join' = "check"
    /\ cancellable' = FALSE
    /\ UNCHANGED <<active, completed, dropped, join_started, pc, signalled,
                   token, timed, reports>>

\* The deadline of a bounded join passes: with children left, the group is
\* stopped.
JoinExpires ==
    /\ join \in {"check", "wait"} /\ timed
    /\ IF active = {}
       THEN /\ Drained
            /\ join' = "returned"
            /\ UNCHANGED <<closed, stop_requested, emits>>
       ELSE /\ Stop
            /\ join' = "expired"
            /\ UNCHANGED <<completed, dropped, reported, told>>
    /\ UNCHANGED <<active, join_started, pc, signalled, token, timed,
                   cancellable, lagging, evicted>>

\* Mutant of JoinReports: only the finished children are reported.
JoinReportsFinished ==
    /\ join = "expired"
    /\ Drained
    /\ join' = "returned"
    /\ UNCHANGED <<active, closed, stop_requested, join_started, pc, signalled,
                   emits, token, timed, cancellable, lagging, evicted>>

\* timed_join_report: the outcomes kept, and a lagging row for every child that
\* is active by now.
JoinReports ==
    /\ join = "expired"
    /\ Drained
    /\ lagging' = active
    /\ join' = "returned"
    /\ UNCHANGED <<active, closed, stop_requested, join_started, pc, signalled,
                   emits, token, timed, cancellable, evicted>>

Next ==
    \/ \E c \in Children :
         Spawn(c) \/ CoSpawn(c) \/ ChildEnds(c) \/ Notify(c) \/ Emit(c)
    \/ RequestStop \/ Close \/ DrainCompleted
    \/ \E t \in BOOLEAN : BeginJoin(t)
    \/ JoinCheck \/ JoinReceive \/ JoinCancelled \/ JoinExpires \/ JoinReports

\* The executor runs what is posted, and a child ends: by itself, or when it is
\* cancelled.  Nothing makes the owner act.
Fairness ==
    /\ \A c \in Children :
         /\ WF_vars(CoSpawn(c))
         /\ WF_vars(ChildEnds(c))
         /\ WF_vars(Notify(c))
         /\ WF_vars(Emit(c))
    /\ WF_vars(JoinCheck)
    /\ WF_vars(JoinReceive)
    /\ WF_vars(JoinReports)

Spec == Init /\ [][Next]_vars /\ Fairness

-----------------------------------------------------------------------------
\* Properties.

Spawned == {c \in Children : pc[c] \in {"recorded", "running", "finishing", "ended"}}

\* The limits hold, and the outcome of every child that was taken is in exactly
\* one place: not there yet, kept, handed out, or dropped and counted.
GroupInv ==
    /\ TypeOK
    /\ Cardinality(active) <= MaxTasks
    /\ Len(completed) <= MaxCompleted
    /\ IsInjective(completed)
    /\ active = {c \in Children : pc[c] \in {"recorded", "running"}}
    /\ Spawned = UNION {active, ToSet(completed), reported, evicted}
    /\ \A X, Y \in {active, ToSet(completed), reported, evicted} :
         X # Y => X \cap Y = {}
    /\ dropped + told = Cardinality(evicted)

\* When a join has returned, no further child starts, and what still runs is
\* what the report called lagging: nothing at all after a plain join, so that
\* what the children borrowed can be released.
JoinIsFinal ==
    join = "returned" => closed /\ active \subseteq (IF timed THEN lagging ELSE {})

\* A join that started, which nothing takes back, returns: coalesced tokens, a token
\* sent before the joiner parked and a cancelled wait never leave it parked beside
\* finished children.
JoinEnds == []<>(join_started => join = "returned")

\* "`request_stop()` closes the group and emits cancellation to every active
\* child": once the posted emissions have run, every child that still runs has
\* seen its cancellation.
StopReachesChildren ==
    \A c \in Children :
      stop_requested /\ pc[c] = "running" /\ c \notin emits => signalled[c]
=============================================================================
