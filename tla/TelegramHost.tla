----------------------------- MODULE TelegramHost -----------------------------
(***************************************************************************)
(* The Telegram host (src/apps/telegram/host.cpp, state.cpp): a poller that *)
(* serves one update at a time and keeps a journal in state.json, written   *)
(* atomically.  Anything may stop the process between two steps: a crash, a *)
(* failed write, a failed request; each of these ends the host the same     *)
(* way.  A journal with pending work is never replayed: the next start is   *)
(* refused until an operator archives and acknowledges it.                  *)
(***************************************************************************)
EXTENDS Naturals

CONSTANTS
    MaxUpdate,      \* bound on update identifiers
    MaxParts,       \* bound on the parts of a reply
    MaxTasks        \* bound on background completions

ASSUME BoundsAreNaturals == MaxUpdate \in Nat /\ MaxParts \in Nat /\ MaxTasks \in Nat

VARIABLES
    pc,             \* where the process is
    state,          \* the State of the running host
    writing, then,  \* the journal being written, and where the host goes after it
    parts,          \* the parts of the answer being delivered
    ready,          \* finished background tasks of the process, with their session
    disk,           \* state.json
    archive,        \* the handled-*.json files
    inbox,          \* kinds of the updates that arrived, by identifier
    started,        \* history: background tasks ever finished
    ran,            \* history: times the agent ran for a piece of work
    shown,          \* history: parts of its reply the user was sent
    settled,        \* history: work whose whole reply was confirmed
    announced       \* history: the last session announced to the user

vars == <<pc, state, writing, then, parts, ready, disk, archive, inbox, started, ran, shown,
          settled, announced>>
host == <<state, writing, then, parts, ready>>
world == <<archive, inbox, started, ran, shown, settled, announced>>

\* Kinds of update: a prompt, the command that opens a session, one not for us.
Kinds == {"prompt", "new", "foreign"}
Updates == 1 .. MaxUpdate
Work == [task : BOOLEAN, id : 1 .. MaxUpdate + MaxTasks]

NoPending == [none |-> TRUE]
Pending == [work : Work, answered : BOOLEAN, confirmed : 0 .. MaxParts, inflight : BOOLEAN]
State == [session : Nat, next_update : 1 .. MaxUpdate + 1, pending : Pending \cup {NoPending}]

\* down.  poll: asks for the next update.  saving.  run: the dispatcher has the
\* message.  turn: the agent works.  deliver: picks the next part.  send: a part
\* is on its way.  operator: the acknowledgement has archived the journal.
Locations == {"down", "poll", "saving", "run", "turn", "deliver", "send", "operator"}

NewState == [session |-> 0, next_update |-> 1, pending |-> NoPending]

TypeOK ==
    /\ pc \in Locations /\ then \in Locations
    /\ {state, writing, disk} \subseteq State
    /\ parts \in 0 .. MaxParts
    /\ ready \subseteq [id : 1 .. MaxTasks, session : Nat]
    /\ archive \subseteq State
    /\ DOMAIN inbox \subseteq Updates /\ \A u \in DOMAIN inbox : inbox[u] \in Kinds
    /\ started \in 0 .. MaxTasks
    /\ ran \in [Work -> Nat] /\ shown \in [Work -> Nat]
    /\ settled \subseteq Work
    /\ announced \in Nat

Init ==
    /\ pc = "down" /\ then = "down"
    /\ state = NewState /\ writing = NewState /\ disk = NewState
    /\ parts = 0
    /\ ready = {}
    /\ archive = {}
    /\ inbox = << >>
    /\ started = 0
    /\ ran = [w \in Work |-> 0] /\ shown = [w \in Work |-> 0]
    /\ settled = {}
    /\ announced = 0

-----------------------------------------------------------------------------
\* The environment.

\* Identifiers rise; the platform may skip some.
UpdateArrives(u, kind) ==
    /\ \A v \in DOMAIN inbox : v < u
    /\ inbox' = [v \in DOMAIN inbox \cup {u} |-> IF v = u THEN kind ELSE inbox[v]]
    /\ UNCHANGED <<pc, host, disk, archive, started, ran, shown, settled, announced>>

TaskFinishes ==
    /\ pc # "down" /\ pc # "operator"
    /\ started < MaxTasks
    /\ started' = started + 1
    /\ ready' = ready \cup {[id |-> started + 1, session |-> state.session]}
    /\ UNCHANGED <<pc, state, writing, then, parts, disk, archive, inbox, ran, shown, settled, announced>>

\* The process ends.  Memory is lost and its tasks with it.
Down ==
    /\ pc' = "down" /\ then' = "down"
    /\ state' = NewState /\ writing' = NewState
    /\ parts' = 0
    /\ ready' = {}

\* A crash, or an error or a cancellation that ends run.
Stops ==
    /\ pc \notin {"down", "saving"}
    /\ Down
    /\ UNCHANGED <<disk, world>>

-----------------------------------------------------------------------------
\* The journal.

Save(s, next) ==
    /\ pc' = "saving" /\ then' = next
    /\ writing' = s

\* persist succeeds: the journal is durable, and the host has the state it wrote.
Saved ==
    /\ pc = "saving"
    /\ disk' = writing /\ state' = writing
    /\ pc' = then
    /\ UNCHANGED <<writing, then, parts, ready, world>>

\* The process ends while it writes: the rename has happened or it has not.
SaveStops ==
    /\ pc = "saving"
    /\ disk' \in {disk, writing}
    /\ Down
    /\ UNCHANGED world

\* Mutant of Start: a restart takes the journal as it is.
StartUnchecked ==
    /\ pc = "down"
    /\ state' = [disk EXCEPT !.pending = NoPending]
    /\ pc' = "poll"
    /\ UNCHANGED <<writing, then, parts, ready, disk, world>>

\* load_state refuses a journal with pending work.
Start ==
    /\ pc = "down"
    /\ disk.pending = NoPending
    /\ state' = disk
    /\ pc' = "poll"
    /\ UNCHANGED <<writing, then, parts, ready, disk, world>>

-----------------------------------------------------------------------------
\* The poll loop.

NewPending(w) == [work |-> w, answered |-> FALSE, confirmed |-> 0, inflight |-> FALSE]
UpdateWork(u) == [task |-> FALSE, id |-> u]
TaskWork(t) == [task |-> TRUE, id |-> t]

\* getUpdates with offset next_update and limit 1: the oldest update not below.
IsNextUpdate(u) ==
    /\ u \in DOMAIN inbox /\ u >= state.next_update
    /\ \A v \in DOMAIN inbox : v >= state.next_update => u <= v

\* An update that is not admitted only moves the cursor.
SkipUpdate(u) ==
    /\ pc = "poll"
    /\ IsNextUpdate(u) /\ inbox[u] = "foreign"
    /\ Save([state EXCEPT !.next_update = u + 1], "poll")
    /\ UNCHANGED <<state, parts, ready, disk, world>>

\* Mutant of AdmitUpdate: the cursor moves before the update is handled.
AdmitUpdateEarly(u) ==
    /\ pc = "poll"
    /\ IsNextUpdate(u) /\ inbox[u] # "foreign"
    /\ Save([state EXCEPT !.pending = NewPending(UpdateWork(u)), !.next_update = u + 1], "run")
    /\ UNCHANGED <<state, parts, ready, disk, world>>

\* An admitted update is journalled before anything else happens.
AdmitUpdate(u) ==
    /\ pc = "poll"
    /\ IsNextUpdate(u) /\ inbox[u] # "foreign"
    /\ Save([state EXCEPT !.pending = NewPending(UpdateWork(u))], "run")
    /\ UNCHANGED <<state, parts, ready, disk, world>>

\* No update: a finished task of the session is journalled and reported.
AdmitTask(t) ==
    /\ pc = "poll"
    /\ ~ \E u \in DOMAIN inbox : u >= state.next_update
    /\ t \in ready /\ t.session = state.session
    /\ ready' = ready \ {t}
    /\ Save([state EXCEPT !.pending = NewPending(TaskWork(t.id))], "run")
    /\ UNCHANGED <<state, parts, disk, world>>

\* execute: the agent, a command, or the completion of a task.
RunTurn ==
    /\ pc = "run"
    /\ ran' = [ran EXCEPT ![state.pending.work] = @ + 1]
    /\ pc' = "turn"
    /\ UNCHANGED <<host, disk, archive, inbox, started, shown, settled, announced>>

IsNewCommand == ~state.pending.work.task /\ inbox[state.pending.work.id] = "new"

\* The answer, and the session a /new command opened, are saved before any send.
Answer(n) ==
    /\ pc = "turn"
    /\ parts' = n
    /\ Save([state EXCEPT !.pending.answered = TRUE,
                          !.session = IF IsNewCommand THEN @ + 1 ELSE @], "deliver")
    /\ UNCHANGED <<state, ready, disk, world>>

\* Mutant of NextPart: a part is sent and journalled once its receipt is there.
NextPartUnmarked ==
    /\ pc = "deliver"
    /\ state.pending.confirmed < parts
    /\ pc' = "send"
    /\ UNCHANGED <<host, disk, world>>

\* Every part is marked in flight in the journal before it is sent.
NextPart ==
    /\ pc = "deliver"
    /\ state.pending.confirmed < parts
    /\ Save([state EXCEPT !.pending.inflight = TRUE], "send")
    /\ UNCHANGED <<state, parts, ready, disk, world>>

Show ==
    /\ shown' = [shown EXCEPT ![state.pending.work] = @ + 1]
    /\ announced' = IF IsNewCommand THEN state.session ELSE announced

\* The receipt is recorded before the next part.
PartConfirmed ==
    /\ pc = "send"
    /\ Show
    /\ Save([state EXCEPT !.pending.inflight = FALSE, !.pending.confirmed = @ + 1], "deliver")
    /\ UNCHANGED <<state, parts, ready, disk, archive, inbox, started, ran, settled>>

\* The user sees the part, and no receipt reaches the journal.
ReceiptLost ==
    /\ pc = "send"
    /\ Show
    /\ Down
    /\ UNCHANGED <<disk, archive, inbox, started, ran, settled>>

\* The reply is complete: the work leaves the journal and the cursor moves.
Delivered ==
    LET w == state.pending.work
    IN  /\ pc = "deliver"
        /\ state.pending.confirmed = parts
        /\ settled' = settled \cup {w}
        /\ Save([state EXCEPT !.pending = NoPending,
                              !.next_update = IF w.task THEN @ ELSE w.id + 1], "poll")
        /\ UNCHANGED <<state, parts, ready, disk, archive, inbox, started, ran, shown, announced>>

-----------------------------------------------------------------------------
\* acknowledge_pending, which holds the same lock as the host.

Archive ==
    /\ pc = "down"
    /\ disk.pending # NoPending
    /\ archive' = archive \cup {disk}
    /\ pc' = "operator"
    /\ UNCHANGED <<host, disk, inbox, started, ran, shown, settled, announced>>

Acknowledge ==
    LET w == disk.pending.work
    IN  /\ pc = "operator"
        /\ disk' = [disk EXCEPT !.pending = NoPending,
                                !.next_update = IF w.task THEN @ ELSE w.id + 1]
        /\ pc' = "down"
        /\ UNCHANGED <<host, world>>

Next ==
    \/ \E u \in Updates : (\E k \in Kinds : UpdateArrives(u, k)) \/ SkipUpdate(u) \/ AdmitUpdate(u)
    \/ TaskFinishes \/ \E t \in ready : AdmitTask(t)
    \/ Stops \/ Saved \/ SaveStops \/ Start
    \/ RunTurn \/ \E n \in 0 .. MaxParts : Answer(n)
    \/ NextPart \/ PartConfirmed \/ ReceiptLost \/ Delivered
    \/ Archive \/ Acknowledge

Spec == Init /\ [][Next]_vars

-----------------------------------------------------------------------------
\* Properties.  Those of the journal are stated of any journal d: they hold of the
\* one on disk and, during a write, of the one that may replace it.

AccurateIn(d) ==
    LET p == d.pending
    IN  p # NoPending =>
          /\ p.confirmed <= shown[p.work]
          /\ shown[p.work] <= p.confirmed + (IF p.inflight THEN 1 ELSE 0)
          /\ ~p.answered => shown[p.work] = 0

Archived(w) == \E a \in archive : a.pending # NoPending /\ a.pending.work = w

NoneSkippedIn(d) ==
    \A u \in DOMAIN inbox : inbox[u] # "foreign" /\ u < d.next_update =>
      UpdateWork(u) \in settled \/ Archived(UpdateWork(u))

\* The pending record an operator inspects tells what the user has seen: every
\* confirmed part, at most one more and only while a send is marked in flight,
\* and nothing before the answer is saved.  Holds at every crash point.
JournalIsAccurate == AccurateIn(disk)

\* "A pending journal is never replayed automatically, including after a crash":
\* the agent runs at most once for an update, over all crashes and restarts.
TurnAtMostOnce == \A w \in Work : ran[w] <= 1

\* The cursor passes an admitted update only when its whole reply was confirmed or
\* an operator archived it.
NothingSkipped == NoneSkippedIn(disk)

\* A session the user was told of is the one the next start continues, whatever
\* crashes and acknowledgements come in between.
AnnouncedSessionKept == announced <= disk.session

\* Nothing the host took on, and nothing it told the user, is lost.
WorkKept == NothingSkipped /\ AnnouncedSessionKept

\* The agent has not run for w.
Unbegun(w) == ran[w] = 0 /\ shown[w] = 0

\* A journal the host could be restarted from or an operator could settle: work
\* that has begun is pending in it, or behind its cursor.
JournalOK(d) ==
    /\ AccurateIn(d) /\ NoneSkippedIn(d) /\ announced <= d.session
    /\ d.next_update = 1 \/ d.next_update - 1 \in DOMAIN inbox
    /\ d.pending # NoPending =>
         IF d.pending.work.task
         THEN d.pending.work.id \in 1 .. started /\ \A t \in ready : t.id # d.pending.work.id
         ELSE /\ d.pending.work.id \in DOMAIN inbox /\ d.next_update <= d.pending.work.id
              /\ \A v \in DOMAIN inbox : d.next_update <= v => d.pending.work.id <= v
    /\ \A u \in Updates : d.next_update <= u /\ ~Unbegun(UpdateWork(u)) =>
         d.pending # NoPending /\ d.pending.work = UpdateWork(u)

\* What the journal says of the work in hand when the host is at loc.
At(loc, d) ==
    LET p == d.pending
    IN  \/ loc = "poll" /\ p = NoPending
        \/ /\ loc \in {"run", "turn"} /\ p # NoPending
           /\ p = NewPending(p.work)
           /\ shown[p.work] = 0 /\ (loc = "run" => ran[p.work] = 0)
        \/ /\ loc \in {"deliver", "send"} /\ p # NoPending
           /\ p.answered /\ p.confirmed = shown[p.work]
           /\ IF loc = "send" THEN p.inflight /\ p.confirmed < parts
              ELSE ~p.inflight /\ p.confirmed <= parts

\* The inductive invariant: wherever the host stops, during a write included, the
\* journal left behind accounts for everything it did.
HostInv ==
    /\ TypeOK /\ TurnAtMostOnce
    /\ JournalOK(disk)
    /\ pc \notin {"down", "operator"} => state = disk
    /\ pc \notin {"down", "operator", "saving"} => At(pc, disk)
    /\ pc = "saving" => JournalOK(writing) /\ At(then, writing)
    /\ pc = "operator" => disk.pending # NoPending /\ disk \in archive
    /\ \A t \in ready : t.id <= started /\ Unbegun(TaskWork(t.id))
    /\ \A t, r \in ready : t.id = r.id => t = r
    /\ \A t \in 1 .. MaxTasks : started < t => Unbegun(TaskWork(t))
===============================================================================
