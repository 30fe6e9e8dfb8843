------------------------------- MODULE Desktop --------------------------------
(* The desktop prototype (apps/desktop/src): the state the page shows, the     *)
(* commands of its user, the 700 ms tick that connects channels and advances   *)
(* tasks, and the snapshot kept in the browser's storage, which may hold what  *)
(* this version cannot read and may fail to read or write.  A tick, a command  *)
(* and a recovery are state updaters of one page, so they are atomic; React    *)
(* runs the saving effect of a render before the next render, and the page may *)
(* be hidden or closed before it.  Texts are reduced to what the code tests in *)
(* them, replies to their number of 60-unit slices, and a requester and        *)
(* session to one owner.  External: React, localStorage, the page's lifecycle. *)
EXTENDS Naturals, Sequences, SequencesExt

CONSTANTS
    Absent,         \* null
    Tasks,          \* the ids sends draw, in this order
    Inputs,         \* texts: [kind, fails, cue], cue one of "none", "head" (in the title), "tail"
    Slices,         \* the length of each reply
    MaxAttempt,     \* bound: attempts of a task and of a connection
    MaxCommands,    \* bound: commands about tasks and what they may do
    MaxBlocked,     \* bound: the same for a page that may not save
    MaxAsides       \* bound: other commands, loads, resets, restorations and failed writes

VARIABLES
    app,            \* the state of the page
    storage,        \* what STORAGE_KEY holds
    backups,        \* what the backup keys hold
    page            \* [blocked, error, dirty, shown]; and what the bounds count: [commands, asides]

vars == <<app, storage, backups, page>>

Foreign == [raw |-> "foreign", state |-> Absent]
NoFile == [raw |-> "none", state |-> Absent]
Saved(s) == [raw |-> "saved", state |-> s]

-------------------------------------------------------------------------------
(* schema.ts, fixtures.ts                                                      *)

active(status) == status \in {"queued", "running", "awaiting_approval", "cancelling"}

Conversation(connection, locator) ==
    [id |-> <<connection, locator>>, connection |-> connection, locator |-> locator,
     owner |-> <<connection, IF connection = "desktop" THEN "you" ELSE locator, locator>>,
     origin |-> IF connection = "desktop" THEN "desktop" ELSE "channel",
     name |-> "given", customName |-> FALSE, unread |-> 0]

Seed(id, conversation, kind, status) ==
    [id |-> id, conversation |-> conversation.id, owner |-> conversation.owner, kind |-> kind,
     cue |-> "none", shouldFail |-> FALSE, status |-> status, step |-> 0, attempt |-> 1, history |-> <<>>,
     members |-> IF kind = "team" THEN <<"waiting", "waiting", "waiting">> ELSE <<>>,
     approval |-> Absent, artifact |-> FALSE]

Notice(key, conversation) == [id |-> key, conversation |-> conversation, read |-> FALSE]
Approval(task, attempt, status) == [id |-> <<task, attempt, "approval">>, status |-> status]

HOME == Conversation("desktop", "home")
createInitialState ==
    LET qq == Conversation("qq-main", "zhou-ran")
        studio == Conversation("qq-studio", "zhou-ran")
        files == [Seed("qq-files", qq, "file", "awaiting_approval") EXCEPT
                     !.step = 3, !.approval = Approval("qq-files", 1, "pending")]
    IN [settings |-> [notifications |-> TRUE, memory |-> TRUE, permission |-> "ask"],
        selected |-> HOME.id, drafts |-> {}, conversations |-> <<HOME, qq, studio>>,
        connections |-> <<[id |-> "qq-main", status |-> "connecting", attempt |-> 1, fails |-> FALSE],
                          [id |-> "qq-studio", status |-> "disconnected", attempt |-> 0, fails |-> FALSE]>>,
        tasks |-> <<files, Seed("studio-notes", studio, "team", "queued")>>,
        messages |-> <<>>,
        notes |-> <<[id |-> <<"shared", "style">>, scope |-> "shared", owner |-> Absent, body |-> "first"]>>,
        notifications |-> <<Notice(<<"qq-files", 1, "approval">>, qq.id)>>]

Ids(records) == {records[i].id : i \in DOMAIN records}
Distinct(records) == \A i, j \in DOMAIN records : records[i].id = records[j].id => i = j
Among(records, id) == records[CHOOSE i \in DOMAIN records : records[i].id = id]

\* What stateSchema accepts beyond the types of its fields.
stateSchema(s) ==
    /\ \A records \in {s.connections, s.conversations, s.messages, s.tasks, s.notes, s.notifications} :
          Distinct(records)
    /\ s.selected \in Ids(s.conversations)
    /\ \A c \in ToSet(s.conversations) :
          /\ c.id = <<c.connection, c.locator>>
          /\ c.origin = "channel" => c.connection \in Ids(s.connections)
          /\ c.origin = "desktop" => c.connection = "desktop"
    /\ \A m \in ToSet(s.messages) : m.conversation \in Ids(s.conversations)
    /\ \A t \in ToSet(s.tasks) :
          /\ t.conversation \in Ids(s.conversations)
          /\ Among(s.conversations, t.conversation).owner = t.owner
    /\ \A n \in ToSet(s.notes) : (n.scope = "shared") <=> (n.owner = Absent)

-------------------------------------------------------------------------------
(* model.ts                                                                    *)

canControl(s, id) == \E c \in ToSet(s.conversations) : c.id = id /\ c.origin = "desktop"

Each(records, change(_)) == [i \in DOMAIN records |-> change(records[i])]
EachWith(records, id, change(_)) ==
    [i \in DOMAIN records |-> IF records[i].id = id THEN change(records[i]) ELSE records[i]]

notify(s, notice) ==
    IF ~s.settings.notifications \/ notice.id \in Ids(s.notifications) THEN s
    ELSE [s EXCEPT !.notifications = <<notice>> \o @]

taskNotice(s, task, kind) == notify(s, Notice(<<task.id, task.attempt, kind>>, task.conversation))

updateTask(s, task) == [s EXCEPT !.tasks = EachWith(@, task.id, LAMBDA t : task)]

select(s, id) ==
    IF id \notin Ids(s.conversations) THEN s
    ELSE [s EXCEPT !.selected = id,
                   !.conversations = EachWith(@, id, LAMBDA c : [c EXCEPT !.unread = 0])]

new(s, locator) ==
    LET c == [Conversation("desktop", locator) EXCEPT !.name = "new"]
    IN IF c.id \in Ids(s.conversations) THEN s
       ELSE [s EXCEPT !.selected = c.id, !.conversations = <<c>> \o @]

rename(s, id) ==
    IF ~canControl(s, id) THEN s
    ELSE [s EXCEPT !.conversations =
             EachWith(@, id, LAMBDA c : [c EXCEPT !.name = "custom", !.customName = TRUE])]

draft(s, id) == IF canControl(s, id) THEN [s EXCEPT !.drafts = @ \union {id}] ELSE s

BusyIn(s, conversation) ==
    \E t \in ToSet(s.tasks) : t.conversation = conversation /\ active(t.status)

UserMessage(id, conversation, text) ==
    [id |-> <<id, 0, "user">>, conversation |-> conversation, state |-> "complete", text |-> text, shown |-> 0]

SendWhen(s, id, conversation, text, free) ==
    IF ~canControl(s, conversation) \/ id \in Ids(s.tasks) \/ ~free THEN s
    ELSE LET c == Among(s.conversations, conversation)
             task == [Seed(id, c, text.kind, "queued") EXCEPT !.cue = text.cue, !.shouldFail = text.fails]
             first == ~c.customName /\ \A m \in ToSet(s.messages) : m.conversation # c.id
         IN [s EXCEPT !.tasks = <<task>> \o @,
                      !.drafts = @ \ {c.id},
                      !.conversations = EachWith(@, c.id, LAMBDA v :
                                            IF first THEN [v EXCEPT !.name = "first"] ELSE v),
                      !.messages = Append(@, UserMessage(id, c.id, text.cue))]
\* A plausible fault: a send does not look for a task at work.
send_always(s, id, conversation, text) == SendWhen(s, id, conversation, text, TRUE)
send(s, id, conversation, text) == SendWhen(s, id, conversation, text, ~BusyIn(s, conversation))

Controlled(s, id) == id \in Ids(s.tasks) /\ canControl(s, Among(s.tasks, id).conversation)

stop(s, id) ==
    LET task == Among(s.tasks, id)
    IN IF ~Controlled(s, id) \/ ~active(task.status) \/ task.status = "cancelling" THEN s
       ELSE updateTask(s, [task EXCEPT !.status = "cancelling",
                !.approval = IF @ # Absent /\ @.status = "pending" THEN [@ EXCEPT !.status = "cancelled"] ELSE @])

retry(s, id) ==
    LET task == Among(s.tasks, id)
    IN IF \/ ~Controlled(s, id) \/ task.status \notin {"failed", "cancelled", "interrupted"}
          \/ BusyIn(s, task.conversation)
       THEN s
       ELSE updateTask(s, [task EXCEPT !.attempt = @ + 1, !.step = 0, !.status = "queued",
                !.shouldFail = FALSE, !.history = Append(@, <<task.attempt, task.status>>),
                !.approval = Absent, !.artifact = FALSE, !.members = Each(@, LAMBDA m : "waiting")])

Asked(s, id, approval) ==
    /\ Controlled(s, id)
    /\ LET task == Among(s.tasks, id)
       IN /\ task.status = "awaiting_approval"
          /\ task.approval # Absent /\ task.approval.id = approval /\ task.approval.status = "pending"

approve(s, id, approval) ==
    IF ~Asked(s, id, approval) \/ s.settings.permission = "deny" THEN s
    ELSE updateTask(s, [Among(s.tasks, id) EXCEPT !.status = "running", !.approval.status = "approved"])

reject(s, id, approval) ==
    IF ~Asked(s, id, approval) THEN s
    ELSE LET task == Among(s.tasks, id)
         IN taskNotice(updateTask(s, [task EXCEPT !.status = "failed", !.approval.status = "rejected"]),
                       task, "failed")

settings(s, field, value) == [s EXCEPT !.settings[field] = value]

\* `fails` is the set-up dialog's choice, or Absent for the buttons of the list.
connect(s, id, status, fails) ==
    [s EXCEPT !.connections = EachWith(@, id, LAMBDA c :
        [c EXCEPT !.status = status, !.attempt = @ + 1, !.fails = IF fails = Absent THEN @ ELSE fails])]

note_save(s, note) ==
    IF \/ note.id \notin Ids(s.notes) \/ note.body = Absent
       \/ Among(s.notes, note.id).scope # note.scope \/ Among(s.notes, note.id).owner # note.owner
    THEN s
    ELSE [s EXCEPT !.notes = EachWith(@, note.id, LAMBDA n : note)]

note_delete(s, id) == [s EXCEPT !.notes = SelectSeq(@, LAMBDA n : n.id # id)]

read_notification(s, id) ==
    [s EXCEPT !.notifications = EachWith(@, id, LAMBDA n : [n EXCEPT !.read = TRUE])]

-------------------------------------------------------------------------------
\* Which reply a task gets.
responseFor(task, memory) ==
    IF task.kind = "chat" /\ task.cue = "head" THEN (IF memory THEN "kept" ELSE "off") ELSE task.kind

ReplyId(task) == <<task.id, task.attempt, "reply">>

\* No comparison tells steps beyond the sixth apart.
LastStep == 6
Stepped(old) ==
    LET step == IF old.step < LastStep THEN old.step + 1 ELSE LastStep
        State(i) == IF step > i + 2 THEN "done" ELSE IF step >= (IF i = 1 THEN 1 ELSE 2) THEN "working" ELSE "waiting"
    IN [old EXCEPT !.status = "running", !.step = step, !.members = [i \in DOMAIN @ |-> State(i)]]

Cancelled(s, old) ==
    [updateTask(s, [old EXCEPT !.status = "cancelled",
         !.members = Each(@, LAMBDA m : IF m \in {"done", "failed"} THEN m ELSE "stopped")])
     EXCEPT !.messages = EachWith(@, ReplyId(old), LAMBDA m : [m EXCEPT !.state = "interrupted"])]

\* The last step: the result, the unread mark, the remembered note, the notice.
Completed(s, task, c) ==
    LET done == updateTask(s, [task EXCEPT !.status = "completed", !.members = Each(@, LAMBDA m : "done"),
                                           !.artifact = task.kind # "chat"])
        marked == [done EXCEPT !.conversations = EachWith(@, c.id, LAMBDA v :
                      IF c.id # s.selected THEN [v EXCEPT !.unread = @ + 1] ELSE v)]
        note == [id |-> <<task.id, "memory">>, scope |-> "personal", owner |-> c.owner, body |-> "first"]
        asked == \E m \in ToSet(s.messages) : m.id = <<task.id, 0, "user">> /\ m.text # "none"
        noted == IF s.settings.memory /\ asked /\ note.id \notin Ids(s.notes)
                 THEN [marked EXCEPT !.notes = Append(@, note)] ELSE marked
    IN taskNotice(noted, task, "completed")

Replied(s, task, c) ==
    LET id == ReplyId(task)
        exists == id \in Ids(s.messages)
        text == responseFor(task, s.settings.memory)
        before == IF exists THEN Among(s.messages, id).shown ELSE 0
        shown == IF before + 1 < Slices[text] THEN before + 1 ELSE Slices[text]
        reply == [id |-> id, conversation |-> c.id, text |-> text, shown |-> shown,
                  state |-> IF shown = Slices[text] THEN "complete" ELSE "streaming"]
        next == [updateTask(s, task) EXCEPT !.messages =
                    IF exists THEN EachWith(@, id, LAMBDA m : reply) ELSE Append(@, reply)]
    IN IF reply.state = "streaming" THEN next ELSE Completed(next, task, c)

advanceDemo(s, id, attempt) ==
    LET old == Among(s.tasks, id)
        c == Among(s.conversations, old.conversation)
        online == \E v \in ToSet(s.connections) : v.id = c.connection /\ v.status = "connected"
        task == Stepped(old)
        permission == IF c.origin = "desktop" THEN s.settings.permission ELSE "ask"
    IN IF id \notin Ids(s.tasks) THEN s
       ELSE IF old.attempt # attempt \/ ~active(old.status) \/ old.status = "awaiting_approval" THEN s
       ELSE IF c.origin = "channel" /\ ~online THEN s
       ELSE IF old.status = "cancelling" THEN Cancelled(s, old)
       ELSE IF task.kind = "file" /\ task.approval = Absent /\ task.step >= 3 /\ permission = "deny"
            THEN taskNotice(updateTask(s, [task EXCEPT !.status = "failed"]), task, "failed")
       ELSE IF task.kind = "file" /\ task.approval = Absent /\ task.step >= 3 /\ permission = "ask"
            THEN taskNotice(updateTask(s, [task EXCEPT !.status = "awaiting_approval",
                                  !.approval = Approval(id, attempt, "pending")]), task, "approval")
       ELSE IF task.shouldFail /\ task.step >= 4
            THEN taskNotice(updateTask(s, [task EXCEPT !.status = "failed",
                     !.members = [i \in DOMAIN @ |-> IF i = 1 THEN "failed" ELSE "stopped"]]), task, "failed")
       ELSE IF task.step < 5 THEN updateTask(s, task)
       ELSE Replied(s, task, c)

settleConnection(s, id, attempt) ==
    LET c == Among(s.connections, id)
        settled(status) == [s EXCEPT !.connections = EachWith(@, id, LAMBDA v : [v EXCEPT !.status = status])]
    IN IF id \notin Ids(s.connections) THEN s
       ELSE IF c.attempt # attempt \/ c.status # "connecting" THEN s
       ELSE IF c.fails THEN notify(settled("error"), Notice(<<id, attempt, "error">>, Absent))
       ELSE settled("connected")

recover(s) ==
    [s EXCEPT
        !.connections = Each(@, LAMBDA c : [c EXCEPT !.status = "disconnected", !.attempt = @ + 1]),
        !.tasks = Each(@, LAMBDA t : [t EXCEPT
            !.status = IF active(@) THEN "interrupted" ELSE @,
            !.members = Each(@, LAMBDA m :
                IF t.status # "completed" /\ m \in {"working", "waiting"} THEN "stopped" ELSE m),
            !.approval = IF @ # Absent /\ @.status = "pending" THEN [@ EXCEPT !.status = "expired"] ELSE @]),
        !.messages = Each(@, LAMBDA m : [m EXCEPT !.state = IF @ = "streaming" THEN "interrupted" ELSE @])]

\* useAgent's timer: the connections and tasks are those of the state it was given.
tick(s) ==
    LET settled == FoldLeft(LAMBDA next, c :
                       IF c.status = "connecting" THEN settleConnection(next, c.id, c.attempt) ELSE next,
                       s, s.connections)
    IN FoldLeft(LAMBDA next, t : IF active(t.status) THEN advanceDemo(next, t.id, t.attempt) ELSE next,
                settled, s.tasks)
-------------------------------------------------------------------------------
(* storage.ts and useAgent.ts                                                  *)

loadState(readable) ==
    LET Blocked(error) == [state |-> createInitialState, error |-> error, blocked |-> TRUE]
    IN IF ~readable THEN Blocked("unavailable")
       ELSE IF storage = NoFile THEN [state |-> createInitialState, error |-> Absent, blocked |-> FALSE]
       ELSE IF storage = Foreign \/ ~stateSchema(storage.state) THEN Blocked("invalid")
       ELSE [state |-> recover(storage.state), error |-> Absent, blocked |-> FALSE]

Idle == page.shown /\ ~page.dirty

\* A state updater; React renders only a state that differs.
Update(next, count, bound) ==
    /\ Idle /\ page[count] < bound
    /\ app' = next
    /\ page' = [page EXCEPT !.dirty = app' # app, ![count] = IF app' = app THEN @ ELSE @ + 1]
    /\ UNCHANGED <<storage, backups>>
Dispatch(next) == Update(next, "commands", IF page.blocked THEN MaxBlocked ELSE MaxCommands)
Aside(next) == Update(next, "asides", MaxAsides)

Send ==
    \E c \in Ids(app.conversations), i \in DOMAIN Tasks, text \in Inputs :
        /\ \A j \in 1..(i - 1) : Tasks[j] \in Ids(app.tasks)
        /\ Dispatch(send(app, Tasks[i], c, text))

Arrange ==
    \/ \E c \in Ids(app.conversations) : Aside(select(app, c)) \/ Aside(rename(app, c)) \/ Aside(draft(app, c))
    \/ \E locator \in {"home", "later"} : Aside(new(app, locator))

Control ==
    \E t \in ToSet(app.tasks) :
        \/ Dispatch(stop(app, t.id))
        \/ t.attempt < MaxAttempt /\ Dispatch(retry(app, t.id))
        \/ \E attempt \in 1..t.attempt :          \* the card the user sees may be of an earlier attempt
              \/ Dispatch(approve(app, t.id, <<t.id, attempt, "approval">>))
              \/ Dispatch(reject(app, t.id, <<t.id, attempt, "approval">>))

Configure ==
    \/ \E b \in BOOLEAN : Aside(settings(app, "notifications", b)) \/ Dispatch(settings(app, "memory", b))
    \/ \E p \in {"ask", "allow", "deny"} : Dispatch(settings(app, "permission", p))
    \/ \E c \in ToSet(app.connections) :
          /\ c.attempt < MaxAttempt
          /\ \/ \E fails \in BOOLEAN \union {Absent} : Aside(connect(app, c.id, "connecting", fails))
             \/ Aside(connect(app, c.id, "disconnected", Absent))

Keep ==
    \/ \E n \in ToSet(app.notes) :
          \/ \E body \in {"edited", Absent}, scope \in {"shared", "personal"} :
                Aside(note_save(app, [n EXCEPT !.body = body, !.scope = scope]))
          \/ Aside(note_delete(app, n.id))
    \/ \E id \in Ids(app.notifications) : Aside(read_notification(app, id))

Tick ==
    /\ Idle
    /\ app' = tick(app) /\ page' = [page EXCEPT !.dirty = app' # app]
    /\ UNCHANGED <<storage, backups>>

\* The effect of a rendered state; `written` is what setItem does.
Save(written) ==
    /\ page.shown /\ page.dirty
    /\ written \/ (page.asides < MaxAsides /\ ~page.blocked)
    /\ IF page.blocked THEN UNCHANGED storage /\ page' = [page EXCEPT !.dirty = FALSE]
       ELSE /\ storage' = IF written THEN Saved(app) ELSE storage
            /\ page' = [page EXCEPT !.dirty = FALSE, !.error = IF written THEN Absent ELSE "write",
                                    !.asides = IF written THEN @ ELSE @ + 1]
    /\ UNCHANGED <<app, backups>>

pagehide ==
    /\ page.shown /\ page.asides < MaxAsides
    /\ page' = [page EXCEPT !.shown = FALSE] /\ UNCHANGED <<app, storage, backups>>

\* The page comes back from the browser's cache, or is loaded anew.
restore ==
    /\ ~page.shown /\ page.asides < MaxAsides
    /\ app' = recover(app)
    /\ page' = [page EXCEPT !.shown = TRUE, !.dirty = TRUE, !.asides = @ + 1]
    /\ UNCHANGED <<storage, backups>>
Loaded(l) == [page EXCEPT !.shown = TRUE, !.dirty = TRUE, !.asides = @ + 1,
                          !.blocked = l.blocked, !.error = l.error]
Load(readable) ==
    /\ ~page.shown /\ page.asides < MaxAsides
    /\ app' = loadState(readable).state /\ page' = Loaded(loadState(readable))
    /\ UNCHANGED <<storage, backups>>

\* resetState keeps the old snapshot before it writes the new one.
reset(reads, copies, writes) ==
    /\ Idle /\ page.asides < MaxAsides
    /\ backups' = IF reads /\ copies /\ storage # NoFile THEN backups \union {storage} ELSE backups
    /\ IF reads /\ copies /\ writes
       THEN /\ storage' = Saved(createInitialState) /\ app' = createInitialState
            /\ page' = [page EXCEPT !.blocked = FALSE, !.error = Absent, !.dirty = TRUE, !.asides = @ + 1]
       ELSE page' = [page EXCEPT !.error = "write", !.asides = @ + 1] /\ UNCHANGED <<app, storage>>

Init ==
    /\ storage \in {NoFile, Foreign} /\ backups = {}
    /\ LET l == loadState(TRUE)
       IN /\ app = l.state
          /\ page = [blocked |-> l.blocked, error |-> l.error, dirty |-> TRUE, shown |-> TRUE,
                     commands |-> 0, asides |-> 0]

Next ==
    \/ Send \/ Arrange \/ Control \/ Configure \/ Keep
    \/ Tick \/ pagehide \/ restore
    \/ \E written \in BOOLEAN : Save(written)
    \/ \E readable \in BOOLEAN : Load(readable)
    \/ \E reads, copies, writes \in BOOLEAN : reset(reads, copies, writes)
-------------------------------------------------------------------------------
(* Properties                                                                  *)

\* A snapshot this program wrote can be loaded: no id is drawn twice, no message,
\* task or note loses its owner, whatever commands, ticks, failed attempts and
\* recoveries came before (stateSchema against command, advanceDemo, recover).
SnapshotsLoad == storage.raw = "saved" => stateSchema(storage.state)

\* Unless the page says that it could not read or write, what it shows is what
\* is stored (useAgent's effect, reset).
ShownIsStored == Idle /\ ~page.blocked /\ page.error = Absent => storage = Saved(app)

\* A conversation has one task at work: a send and a retry wait for the other
\* (command).
OneTaskPerConversation ==
    \A i, j \in DOMAIN app.tasks :
        /\ app.tasks[i].conversation = app.tasks[j].conversation
        /\ active(app.tasks[i].status) /\ active(app.tasks[j].status)
        => i = j

AttemptStatus(task, attempt) ==
    IF attempt = task.attempt THEN task.status ELSE task.history[attempt][2]

\* A reply is complete exactly when its attempt is, and one still marked as being
\* written belongs to an attempt at work or to one that failed by a rejection or
\* a withdrawn permission (advanceDemo, recover, retry).
RepliesTell ==
    \A m \in ToSet(app.messages) :
        m.id[3] = "reply" =>
            LET status == AttemptStatus(Among(app.tasks, m.id[1]), m.id[2])
            IN /\ m.state = "complete" <=> status = "completed"
               /\ m.state = "streaming" => active(status) \/ status = "failed"

\* What this version cannot read is replaced only after it was copied (loadState,
\* resetState, useAgent's blocked).
ForeignKept == storage = Foreign /\ storage' # Foreign => Foreign \in backups'

TaskThen(id) == Among(app'.tasks, id)

\* An ended attempt stays as it ended: only a retry changes the task, and puts
\* the attempt and how it ended on the history (command, advanceDemo, recover).
EndedStays ==
    \A t \in ToSet(app.tasks) :
        /\ ~active(t.status) /\ TaskThen(t.id) # t
        => /\ TaskThen(t.id).attempt = t.attempt + 1
           /\ TaskThen(t.id).history = Append(t.history, <<t.attempt, t.status>>)

\* A task of a channel changes only while its channel is connected: no
\* command of the desktop reaches it (canControl, advanceDemo).
ChannelsApart ==
    \A t \in ToSet(app.tasks) :
        /\ ~canControl(app, t.conversation) /\ TaskThen(t.id) # t
        => Among(app'.connections, Among(app.conversations, t.conversation).connection).status = "connected"

\* A file is written only with a permission: an approval of this very attempt,
\* or, on the desktop, the setting that allows it (advanceDemo, approve).
FilesPermitted ==
    \A t \in ToSet(app.tasks) :
        /\ t.kind = "file" /\ ~t.artifact /\ TaskThen(t.id).artifact
        => \/ TaskThen(t.id).approval = Approval(t.id, t.attempt, "approved")
           \/ canControl(app, t.conversation) /\ app.settings.permission = "allow"

\* A chat that asks to be remembered is told so exactly when a note is made
\* (responseFor, advanceDemo).
MemoryTold ==
    \A t \in ToSet(app.tasks) :
        /\ t.kind = "chat" /\ t.cue = "head" /\ t.status # "completed" /\ TaskThen(t.id).status = "completed"
        => ((Among(app'.messages, ReplyId(t)).text = "kept") <=> (<<t.id, "memory">> \in Ids(app'.notes)))

Stays == page.shown /\ app' # createInitialState

\* The desktop keeps its word: in every state, and in every step, those of a step
\* that does not load, restore or reset the page.
StateSound == SnapshotsLoad /\ ShownIsStored /\ OneTaskPerConversation /\ RepliesTell
StepSound == ForeignKept /\ (Stays => EndedStays /\ ChannelsApart /\ FilesPermitted /\ MemoryTold)
===============================================================================
