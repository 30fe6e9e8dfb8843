# Formal models of the Orangutan agent runtime

TLA+ models of the runtime's concurrent, crash-prone and error-prone parts,
model-checked with TLC on small instances and, for seven components, proved
with TLAPS for all instances. Paths are relative to the repository.

## The system

A host (the Telegram poller, the QQ webhook, an embedding application) receives
messages and hands them to the *channel dispatcher*, which turns each into at
most one turn of an *agent session* and sends the reply in parts. A session
loads the stored conversation, runs the *agent loop* (compact the context, ask
the provider, run the tools it calls, repeat) and commits the turn to SQLite.
A request to the provider follows a route of targets over two wire protocols and
the HTTP client. Tool calls go through the *tool scheduler* to *dispatch*, which
opens the hooks' gates, takes a path lock, decides on permission, asks for
approval, writes an audit row and only then runs the handler: a file tool, a
memory tool, a task tool. Long work becomes *background tasks*; a leader may run
a *team* of member sessions on them, which exchange messages through inboxes.
Underneath are the asynchronous *channel*, the *task group* and the *connection
pool*. Almost everything runs as coroutines on one strand per session, so what
interleaves are the pieces between suspension points; the channel, the task
group and the pool are used from several threads and protected by mutexes; the
database and the file system are shared with other processes.

| Part | Source | Module |
| --- | --- | --- |
| bounded channel | `include/oran/async/channel.hpp` | `Channel`, seen through `ChannelMailbox` as `Mailbox`; `DeliveryProof` |
| task group | `src/oran-async/task_group.cpp` | `TaskGroup` |
| path locks | `src/oran-tool/path-locks.cpp` | `PathLocks`, `PathLocksProof` |
| connection pool | `src/oran-storage/pool.cpp` | `Pool`, `StorageProof` |
| tool scheduler and dispatch | `src/oran-agent/scheduler.cpp`, `src/oran-tool/registry.cpp` | `ToolBatch`, `ToolBatchProof` |
| hooks, approval broker, audit row | `src/oran-hook/bus.cpp`, `src/oran-permission/approval*.cpp` | `Approvals`, `ApprovalsProof` |
| permission rules | `src/oran-permission/rule_set.cpp`, `defaults.cpp`, `src/oran-bootstrap/permissions.cpp` | `Permission` |
| session turn, loop, compaction, retries, commit, inbox | `src/oran-bootstrap/agent_session.cpp`, `src/oran-agent/loop.cpp`, `context.cpp`, `src/oran-provider/execution.cpp`, `src/oran-storage/session_repository.cpp` | `AgentTurn`, `AgentTurnProof` |
| background tasks and teams | `src/oran-bootstrap/background_tasks.cpp`, `agent-team.cpp`, `team-scheduling.cpp` | `BackgroundTasks`; `JobChangesProof`, `JobsProof` |
| workspace, file tools, directory authority | `src/oran-tool/workspace.cpp`, `file_*.cpp`, `src/oran-io/` | `Workspace`, `Files` |
| text algorithms | `src/oran-core/str.cpp`, `src/oran-channel/protocol.cpp`, `apps/telegram/format.cpp` | `Text` |
| migrations | `src/oran-storage/migrations.cpp`, `migration_assets.cpp` | `Migrations`, `StorageProof` |
| statement cache and repositories | `src/oran-storage/*_repository.cpp`, `statement_cache.cpp` | `Repositories` |
| session import and backup | `src/oran-storage/session_import.cpp` | `SessionImport`, `StorageProof` |
| long-term memory and its tools | `src/oran-memory/`, `src/oran-bootstrap/memory_tools.cpp` | `Memory` |
| provider protocols | `src/oran-provider/` | `Protocol` |
| provider execution, HTTP client | `src/oran-provider/execution.cpp`, `src/oran-http/` | `Provider` |
| channel dispatcher | `src/oran-channel/dispatcher.cpp` | `Dispatcher` |
| Telegram host and journal | `apps/telegram/host.cpp`, `state.cpp` | `TelegramHost`, `DeliveryProof` |
| Telegram presentation | `apps/telegram/presentation.cpp` | `Presentation` |
| QQ token, login, chat | `src/oran-bootstrap/qq_*.cpp`, `apps/qq/` | `QQToken`, `QQLogin`, `QQChat` |
| desktop prototype | `apps/desktop/src/` | `Desktop` |

`PROJECT.json` maps each definition to the lines it models and lists every
component, modelled or not, and the hazards the models were built for. The
`MC*` modules give the constants their values, and compose components that share
a question. Operators whose comment begins with "Mutant of" are plausible faults
of the code that the properties catch; no specification uses them.

## Modules

**Channel, Mailbox.** One step is one critical section of the channel's mutex,
which ends with `pump_locked`. State: the buffer, the queues of blocked sends
and receives, what each call was told. `Mailbox` is the promise: accepted
values come out once, in order. `ChannelMailbox` gives the mapping: what was
accepted and what was received, without the queues.

**TaskGroup.** `spawn` records a child under the mutex and starts it after it;
an ending child records its outcome under the mutex and wakes the joiner after
it. Those gaps are steps. Joins are plain or bounded, and may be cancelled.

**PathLocks.** `AcquireNow` and `AcquireWait` are `acquire` up to its
`co_await`; `Resume` is the code after it, which must find out whether it was
granted, cancelled, or both; `GuardReset` is the guard's destructor. `Advance`
is the shared hand-over of the queue.

**Pool.** A release may pop a waiter and *post* the grant; the waiter can be
cancelled between. `grants` and `returns` hold what is posted.

**ToolBatch.** Batches of several turns on one scheduler. Each call goes through
lookup, before-hook, path lock, decision, approval, audit row, handler and
after-hook, with timeout or cancellation at each suspension. Cancellation opens
the grace window after which the batch returns beside calls that still run;
`wait_idle` then keeps the dispatch context alive. The lock is abstracted to
what `PathLocks` guarantees: a permit only when no conflicting one is out. The
verdict of the rules, the hooks' decisions and the operator's answers are
choices.

**Approvals, Permission.** The same dispatch with its policy, its tokens and its
clock taken from the code instead: gates in subscription order, sinks that
subscribe meanwhile, tokens issued, verified, charged, expired and evicted. The
policy is `Permission`: glob matching, precedence, the intersection with the
parent's policy, the baseline of the mode.

**AgentTurn.** Sessions on one stored conversation. A turn takes a snapshot,
loads history message by message and may compact after each, then iterates:
read the inbox, fit the context, ask the provider (attempts and fallback
targets), run the tools. `Commit` compares the snapshot with the store in the
transaction that appends the transcript and the working context; `Acknowledge`
follows it. `Fail` may happen at any point before the commit and stands for
every error return of the loop and the session. Whether the context fits is a
choice, so every pattern of compaction is covered; a summary is represented by
the messages it replaces.

**BackgroundTasks.** The service is one record; each handler maps it to the
next. Leader calls, posted pumps, deadlines, ends of children and their monitors
interleave.

**Workspace, Files, Text.** Every system call of FileRead, FileEdit and
FileWrite is a step, and another program writes, deletes, renames and relinks
between any two. `Workspace` resolves paths against such a tree. `Text` has the
algorithms on bytes and lines, each beside a reference definition.

**Migrations, Repositories, SessionImport, Memory.** SQLite is external: a
transaction is atomic and durable once it commits, and writers exclude each
other. A statement is the sequence of columns its parameters stand for, so a
value bound in the wrong place is seen. Crashes and errors may come at every
step of a migration.

**Protocol, Provider.** The writing of requests, the reading of bodies and both
stream decoders over typed JSON values, and one call of the model on three
threads: the blocking transfer with the event parser, the strand, the
coroutine. The server, the connection and the moment of cancellation are any.

**Dispatcher, TelegramHost, Presentation.** Calls of `handle` and `resume` on a
bounded cache of events; the poll loop with its atomically written journal,
which may stop between any two steps and in the middle of a write (either file
may be found afterwards); the updater that shows progress beside a turn.

**QQToken, QQLogin, QQChat, Desktop.** The gate around the token's refresh;
login processes on one directory, with crashes; decoding, quoting and splitting
of chat messages as operators checked on every bounded input; the commands, tick
and snapshots of the desktop page.

## Runs

Run one with `tlc -config MCAsync.cfg MCAsync`. Where a run lists several
components, a behaviour is of one of them (`part`), and the others stay as they
were created: one state space per component, added rather than multiplied.

| Run | Shows |
| --- | --- |
| `async` | a dispatch that writes a path is alone on it (`Exclusion`); permits, connections and values are each in one place and nobody waits beside a free one (`PermitsExact`); the channel is a FIFO mailbox (`IsMailbox`); nobody is overtaken (`NoneOvertaken`); one call at a time asks for the QQ token and a saved binding is never replaced (`AccountKept`); every wait ends (`WaitsOver`) |
| `task_group_stop` | *violated*: `StopReachesChildren`, see Findings |
| `background_tasks` | the board tells the truth about the jobs (`BoardMatchesJobs`), work builds on accepted results (`BuiltOnAccepted`), a completion is kept until it is delivered, and delivered once (`CompletionsKept`) |
| `jobs` | limits hold, every outcome of a child is accounted for and a returned join leaves only the children it named (`OutcomesKept`); ready tasks run, shutdown and join return (`JobsProceed`) |
| `messaging` | the journal tells what the user was sent (`JournalIsAccurate`), an update runs at most one turn (`TurnAtMostOnce`), nothing admitted or announced is lost (`WorkKept`), parts arrive in order and failed deliveries stay (`DeliveredInOrder`), QQ texts and quotes are exact (`ChatExact`), the desktop's snapshots, permissions and attempts are sound (`DesktopSound`) |
| `tool_batch` | no effect without authorisation and its durable row (`EffectsAuthorized`), no conflicting effects side by side (`EffectsExcluded`), contexts outlive calls (`ContextOutlivesCalls`), cancelled batches return although handlers hang (`BatchesEnd`) |
| `agent_turn` | a request sees the whole conversation and whole tool groups (`ContextWhole`), turns are serial (`TurnsSerialized`), mail is acknowledged exactly when stored (`MailKept`), no call runs and no answer streams twice (`EffectsOnce`) |
| `files` | nothing outside the pinned roots is changed (`StaysBeneath`), a read is one version of the file (`ReadIsSnapshot`), a commit replaces what was read (`CommitReplacesWhatWasRead`), the text algorithms agree with their definitions (`TextExact`) |
| `storage` | a migration runs and is recorded once (`AppliedOnce`), queries return what matches (`AnswersMatch`), imports and backups are the source at one moment (`ImportWhole`), memory and its index agree (`NotesKept`) |
| `provider` | decoders see the events that were sent, however chunked (`StreamDecoded`), a success is the whole answer and can be sent back (`AnswerKept`), every call returns (`CallEnds`), the updater never outlives its message nor follows the answer (`Presented`) |
| `permission` | a handler runs only past its gates, with the input that was decided on and recorded and a path that is inside the workspace or approved (`EffectsGated`), grants are charged once per use (`GrantsCharged`), rules and payloads are what they promise on every bounded input (`DecisionsExact`) |
| `grant_expiry` | *violated*: `ExpiredGrantsFail`, see Findings |

**Bounds.** Each is the smallest at which the hazard of its component can occur.
Four lock calls allow a holder, a cancelled waiter and two others behind it;
three pool requests exhaust the writer and leave two waiters; capacities 0, 1
and 2 give a rendezvous, a full buffer and a buffer with room. A cache of two
with three events evicts. Three prompts let a turn load a history that one
session compacted while another committed; two iterations and a message allow a
call, a compaction that hides it, and a second call. Two batches on one path with
parallelism one leave a call waiting for admission and one waiting for the lock.
Two updates and two parts let the host fail in the middle of a reply and still
have something to skip. One change from outside between two tool calls is what
the verification before a commit is for. Two runners with one fault each let a
migration stop half-way under another. `background_tasks` has
two team tasks on a host that delivers automatically, and spends the rest of its
budget in one of three ways: an ordinary job, two claims (one may be abandoned and
the completion claimed again), or a claim and an expired record; all at once is
several times the states. `jobs` has one member on a host that only answers queries,
with a correction, an ordinary job and a record that expires unread. The constants named `Max*` for updates,
parts, starts, teams, claims, turns, mail, faults, time and outside changes bound
the environment and are not limits of the code.

**Deadlock** is checked in `async` and `messaging`, whose parts either always
have a step or rest explicitly. The other instances use up their calls and stop.

**Fairness** is weak fairness of what the executor owes: a posted handler runs, a
resumable coroutine resumes, a timer that is due fires. In `PathLocks` and
`Pool` a holder eventually lets go (guards and leases are scoped, and every
dispatch has a timeout), in `TaskGroup` a child eventually ends. In `ToolBatch`
fairness covers only the batch's own steps and `wait_idle`: the audit rows of
laggards, which the scheduler itself awaits, are written or fail, but handlers may
hang for ever, and the freeing of a context is claimed only for calls that end. In
`Provider` the transfer's timeout is due whenever the server stalls
(`Expires`). In `Migrations` a runner goes on unless it crashes. Nothing is
assumed of users, leaders, operators, servers or cancellation. `Channel`,
`Dispatcher`, `TelegramHost`, `AgentTurn`, `Approvals` and `Files` are checked
for safety only.

## Proofs

Each proof module extends the components it is about and states what holds for
every value of the constants: `StorageProof` covers the database (import, migrations,
pool), `DeliveryProof` the Telegram host and the channel. Each property named here is
also checked by a run. A leaf names the backend it is meant for where it matters: Zenon
where there is no arithmetic, SMT otherwise.

**Path locks** (`PathLocksProof`, from `CallsFinite` and `PathsNonempty`):
`LockInvariant`, `TypeCorrect`, `MutualExclusion`, `LocksServeInOrder`. Exclusion is not inductive: a
release hands the path to waiters that have not resumed yet and may already be
cancelled. `LockInv` therefore counts *permits*, guards and reservations in
flight together: the reader count is the number of shared permits, the writer
flag stands for the only exclusive one (`PermitsCounted`), a queue holds exactly
the calls that wait without a permit (`QueuesExact`), and an entry exists exactly
while something refers to it (`EntriesLive`). The central lemma,
`AdvanceRestores`, says that the hand-over re-establishes these facts whatever
prefix of the queue it grants. Service in order (`NoOvertaking`) rests on the same
facts: `advance` wakes the front of a queue that lists its calls in the order they
came, also after a withdrawal from the middle (`RemoveAtOrdered`, `AdvanceInOrder`),
and an acquire takes a path in place only when nobody is queued.

**Connection pool** (`StorageProof`, from `ReaderCount \in Nat`): `PoolInvariant`
and `FirstComeFirstServed`. `PoolInv` gives every connection one place (free,
leased, reserved by a posted grant, or coming back); queues and the list of free
readers enter only through what they have, each thing once. Service in order is
an action property on top of it.

**Channel** (`DeliveryProof`, from `ChannelConstants`: sends and receives are
different calls, capacities are naturals): `ChannelInvariant`,
`ChannelIsMailbox`, the refinement of `Mailbox` step by step, and
`ChannelServesInOrder`. `ChannelInv` says
that a call is queued exactly while it was told nothing, that the queues are
settled (nothing that could move waits), and that the accepted values are those
received, in order, followed by the buffer. `Moves` describes what a critical
section may do to the histories and the buffer, and is all a mailbox sees; the
lemmas `OpenPump` and `ClosedPump` show that `pump_locked` moves values that way
from any queues, so that each operation only has to establish what the pump
starts from. The mailbox does not see who waits, so the order of service is a
property of its own: the pump serves the front of a queue that grew at its end
(`FrontFirst`), and the direct hand-overs of `try_send` and `try_receive` reach the
head of one queue when the other is empty.

**Tool batches** (`ToolBatchProof`, from `Bounds` and `CallsDistinct`:
finitely many batches, each call at one place of one of them): `BatchInvariant`,
and from it `OnlyAuthorizedEffects`, `EffectsNeverConflict` and
`ContextsOutliveCalls`. The invariant `Sound` says of a batch what its phase
promises (`BatchSound`: the active count is the number of frames, completions and
reports together are the ended calls, frames and unread completions stay within
the limit) and of a call what its place in the dispatch promises (`CallSound`:
who holds a lock, what was decided, what was recorded). A step of a dispatch keeps
the first because the scheduler sees only whether a frame exists
(`BatchesUnaware`, `DispatchKeeps`); a step of the scheduler keeps
the second because it touches only calls that have not started
(`SchedulerKeeps`).

**Approvals** (`ApprovalsProof`, from `ApprovalConstants`: a ceiling of at least
one grant, a policy and a request for every call): `ApprovalInvariant`, and from it
`HandlersAreGated` and `GrantsAreCharged`. Of a dispatch `ApprovalInv` says what
its place promises (`Promise`): which sinks let it pass, that policy did not deny
the input it carries now, that its path was resolved, that it was approved if a rule
or a sink asked or the path leaves the workspace, that the row names that input.
A dispatch changes only
its own frame, so overlapping ones cannot disturb this. Of the broker it says that
what is left of a grant and what it authorized add up to what was granted
(`Balanced`) and that no identity holds more than the ceiling (`Ceiling`); the
lemmas on eviction find the oldest grant of an identity by a least sequence number.

**Background tasks and teams** (`JobChangesProof`, `JobsProof`, from
`LimitsValid`: limits are naturals, at least one job may run and a task may be
attempted, tasks are finitely many; hosts with and without automatic delivery): `JobsInvariant`, and from it `LimitsHold`
(`WithinLimits`, the service's part of `OutcomesKept`), `BoardIsTrue`,
`WorkRestsOnAccepted` and the action property `CompletionsAreKept`. `SvcInv` says of
the service that a task's recorded run is the job of its present attempt, in the
same state while in flight, and that an unfinished job of a task is that run
(`Board`); that records, with those reserved for waiting tasks, and unfinished jobs
are within bounds (`Room`); that the active count is the number of children
(`Slots`); and that only finished jobs are claimed and a stopped team has nothing
to deliver (`Acked`). `JobsInv` adds the ends whose monitors have not resumed and
the history of deliveries. A handler is made of a few changes (prune, cancel, stop,
settle, enqueue, admit, start). `JobChangesProof` shows once for each that it keeps
`SvcInv` and relates the service before and after by `Kept` (outcomes and
acknowledgements stay, claimed records are not removed) or `Silent` (no
record goes that is still owed to its owner, `Unread`); both compose, so that the lemma of a handler in
`JobsProof` composes those of its changes. The pump goes through the tasks in the
order of their submission, a recursive function; `PassesExist` and `PassSound`
reason about it by the least number of passes at which a claim would fail.

**Agent turns** (`AgentTurnProof`, from `TurnBounds` and `OneReader`: an inbox
belongs to one session): `TurnInvariant`, and from it `ContextStaysWhole`,
`TurnsAreSerialized`, `MailIsKept` and `EffectsHappenOnce`. The four properties
speak of moments (a request, a commit); `Sound` says what lies between. The store
consists of whole turns and its saved context is the summary of a prefix that
ends where no call is open (`StoreSound`); a frame's summary and view together
are the prefix it was given and its own transcript, whatever was compacted, and
the frame would be accepted unless another turn was accepted since
(`TurnSound`); every message noted in the store or a transcript is noted there
once (`MailSound`). Only a commit changes the store, and only by extending it:
what another turn was given stays what it was (`OthersKept`), and its own commit
is refused from then on.

**Migrations** (`StorageProof`, from `ListsAreLists`): `MigrationsInvariant`
and `EveryMigrationOnce`. The invariant relates what each runner has staged and
read to the committed database at every statement; one lemma says what a step of
one runner leaves of the others.

**Session import and backup** (`StorageProof`, without assumptions on the
constants): `ImportInvariant` and the action property `SessionsImportedWhole`.
`ImportInv` says that the snapshot being read is a past state of the source, that
what is staged is, table by table, a prefix of it up to the row the copy has reached,
that the destination was empty when the transaction opened and stays so because the
transaction keeps other writers out, and that a written backup file is a past state.
A commit therefore publishes the whole of one past state, or nothing.

**Telegram host** (`DeliveryProof`, from `BoundsAreNaturals`):
`HostInvariant`, and from it `JournalAccurate`, `AtMostOneTurn` and
`NoMessageLost`. `HostInv` says of the file on disk, and of the file being written,
that it accounts for the work done so far (`JournalOK`), and relates the position
of the process to it; since a crash keeps only the disk, these are the facts a
restart can rely on.

**Only model-checked.** Every liveness property (`WaitsOver`, `JobsProceed`,
`BatchesEnd`, `CallEnds` and the second half of `Presented`): fairness and
`ENABLED` are outside the prover's reach. What rests on recursive operators:
`Workspace`, `Files`, `Repositories`, `Memory` and `QQChat` use them, so
`StaysBeneath`, `ReadIsSnapshot`, `CommitReplacesWhatWasRead`, `AnswersMatch`,
`NotesKept` and `ChatExact` stay with TLC; so do `TextExact`, `StreamDecoded`,
`AnswerKept` and `DecisionsExact`, which say what functions over sequences
compute: the library's induction theorems cannot be instantiated, and the least
counterexample that replaces them for the passes of a pump does not scale to
parsers and decoders. `PermitsExact` is stated in the module that composes the
structures; its three conjuncts are the invariants proved in `PathLocksProof`,
`StorageProof` and `DeliveryProof`. So is `NoneOvertaken`, whose conjuncts are
`LocksServeInOrder`, `ChannelServesInOrder` and `FirstComeFirstServed`. `OutcomesKept` is proved for the service and model-checked
for the task group. `AccountKept`, `DeliveredInOrder` and `DesktopSound`
are not proved.

## Findings

`TaskGroup::spawn` records the child under the mutex and binds its cancellation
slot in `co_spawn` afterwards. A `request_stop` from another thread in between
emits a signal nobody is connected to, and later stops do not emit again: the
child runs without cancellation although `include/oran/async/task_group.hpp`
says that a stop reaches every active child. Callers that spawn and stop on one
strand never meet this (`task_group_stop`).

`ApprovalBroker::check` compares the time with the expiry of the token, never
with the one of the grant it charges, although
`include/oran/permission/approval_broker.hpp` says that expired entries fail
`check`. A prompt answered late overwrites a grant with an earlier expiry, and a
longer-lived token for the same identity and input is honoured on the expired
entry until a reap removes it (`grant_expiry`).

Observed while modelling, and not claimed against any document: after
`prepare_final` has joined the updater, the second join in the presentation's
`deliver` returns a conflict, so that `activity_failures` grows by one with every
successful delivery; on the desktop, a permission changed to deny while the reply
of a file task streams leaves its message "streaming" beside the failed task; and
between the last verification of a file and its rename another program's write is
overwritten, which `CommitReplacesWhatWasRead` excuses.

## Not modelled

Thin ownership of Asio executors and timers; delegation to child agents, whose
parts (a session, a background job, the wait for calls that outlive a batch, the
inherited policy) are modelled where they live; assembly and configuration;
parsing and formatting around the modelled services; rendering. SQLite, libcurl,
Asio, md4c, React and the operating system are external. In the modelled parts:
token counts, texts, schemas, digests and costs; back-off delays; durability
against power loss; the eviction of other owners' boards; the limits on team
messages. A call for whose path the workspace finds no lock key goes on without a
lock (`src/oran-tool/registry.cpp:399`); `EffectsExcluded` is about calls that have
one. Every change of a file has a time of its own: two changes of equal size within
one tick of the file system's clock are not told apart by the code, nor modelled.
Turns carry the time they were created, messages none; the errors of a malformed
request are one kind.
