------------------------------ MODULE AgentTurn ------------------------------
(***************************************************************************)
(* Turns of agent sessions that share one stored conversation:             *)
(* AgentSession::run_prompt (src/src/oran-bootstrap/agent_session.cpp)     *)
(* around the agent loop (src/src/oran-agent/loop.cpp), with the working   *)
(* context that compaction keeps (context.cpp), the retry policy of the    *)
(* provider (src/src/oran-provider/execution.cpp), the commit of the       *)
(* session repository (src/src/oran-storage/session_repository.cpp) and    *)
(* the inbox of a team member.  Token counts are data: whether the context *)
(* fits, must be compacted, or cannot be, is a choice of the model.        *)
(* A summary is represented by the messages it stands for.                 *)
(***************************************************************************)
EXTENDS Naturals, Sequences, FiniteSets

CONSTANTS
    Sessions,       \* AgentSession objects on the same session id and agent key
    Readers,        \* the sessions that are bound to the inbox
    Ids,            \* tool-use ids a provider may choose
    MaxTurns,       \* prompts to all the sessions
    MaxIterations,  \* LoopOptions::max_iterations
    MaxAttempts,    \* retry.max_attempts
    Targets,        \* the primary model and its fallbacks, as a count
    MaxMail         \* messages sent to the inbox

ASSUME TurnBounds ==
    /\ MaxTurns \in Nat /\ MaxIterations \in Nat /\ MaxMail \in Nat
    /\ MaxAttempts \in Nat \ {0} /\ Targets \in Nat \ {0}

\* bind_team_inbox gives the inbox of a member to the one session it creates.
ASSUME OneReader == \A r, s \in Readers : r = s

VARIABLES
    stored,         \* the rows of session_messages, in sequence order
    saved,          \* the working context in the session's metadata
    turn,           \* the frame of run_prompt and run_turn
    prompts,        \* prompts begun so far
    mail,           \* messages sent to the inbox so far
    acknowledged    \* the messages the inbox no longer shows

vars == <<stored, saved, turn, prompts, mail, acknowledged>>

\* What a message is to the loop: the user's prompt with the length of the
\* history it was given, an inbox note, tool calls, their results, the answer.
User(base) == [kind |-> "user", of |-> {base}]
Note(ms) == [kind |-> "note", of |-> ms]
Call(ids) == [kind |-> "call", of |-> ids]
Result(ids) == [kind |-> "result", of |-> ids]
Answer == [kind |-> "answer", of |-> {}]

NoContext == [covered |-> 0, revision |-> 0, summary |-> << >>]

NoTurn == [pc |-> "idle", then |-> "idle", base |-> 0, revision |-> 0, loaded |-> 0,
           context |-> NoContext, view |-> << >>, transcript |-> << >>, iteration |-> 0,
           attempt |-> 0, target |-> 0, emitted |-> FALSE, streams |-> 0,
           seen |-> {}, ran |-> << >>, inbox_ids |-> {}]

Init ==
    /\ stored = << >>
    /\ saved = NoContext
    /\ turn = [s \in Sessions |-> NoTurn]
    /\ prompts = 0
    /\ mail = 0
    /\ acknowledged = {}

\* The frame of s becomes f; nothing outside the turn changes.
Step(s, f) ==
    /\ turn' = [turn EXCEPT ![s] = f]
    /\ UNCHANGED <<stored, saved, prompts, mail, acknowledged>>

At(s, loc) == turn[s].pc = loc

-----------------------------------------------------------------------------
\* The start of a turn: the snapshot, then the history page by page.

\* What load_context accepts of the saved context.
Loadable == saved.covered <= Len(stored) /\ (saved.covered > 0 => saved.summary # << >>)

Begin(s) ==
    /\ At(s, "idle") /\ prompts < MaxTurns
    /\ Loadable
    /\ turn' = [turn EXCEPT ![s] =
         [NoTurn EXCEPT !.pc = "load", !.base = Len(stored), !.revision = saved.revision,
                        !.loaded = saved.covered, !.context = saved,
                        !.transcript = <<User(Len(stored))>>]]
    /\ prompts' = prompts + 1
    /\ UNCHANGED <<stored, saved, mail, acknowledged>>

\* A message of the page enters the view, which is fitted at once.
LoadMessage(s) ==
    /\ At(s, "load") /\ turn[s].loaded < turn[s].base
    /\ Step(s, [turn[s] EXCEPT !.view = Append(@, stored[turn[s].loaded + 1]),
                               !.loaded = @ + 1, !.pc = "fit", !.then = "load"])

LoadEnds(s) ==
    /\ At(s, "load") /\ turn[s].loaded = turn[s].base
    /\ Step(s, [turn[s] EXCEPT !.view = @ \o turn[s].transcript, !.iteration = 1, !.pc = "iterate"])

\* Every error before the commit: the turn is dropped, with its transcript.
Fail(s) ==
    /\ turn[s].pc \notin {"idle", "committed"}
    /\ Step(s, NoTurn)

-----------------------------------------------------------------------------
\* fit_context.

\* The tool calls that are open after the first i messages of q.
Pending(q, i) ==
    {id \in Ids : \E j \in 1 .. i :
       /\ q[j].kind = "call" /\ id \in q[j].of
       /\ \A k \in j .. i : ~(q[k].kind = "result" /\ id \in q[k].of)}

\* Where compaction may cut: after a complete response or group of results,
\* never after the last message.
Cuts(q) ==
    {i \in 1 .. Len(q) - 1 : Pending(q, i) = {} /\ q[i].kind \in {"call", "result", "answer"}}

\* The context fits, or compaction is optional and was not possible.
Fits(s) ==
    /\ At(s, "fit")
    /\ Step(s, [turn[s] EXCEPT !.pc = turn[s].then])

\* Mutant of Compact: the coverage is counted from the history that was loaded.
CompactFromLoaded(s) ==
    /\ At(s, "fit")
    /\ \E cut \in Cuts(turn[s].view) :
         Step(s, [turn[s] EXCEPT
           !.context = [covered |-> turn[s].loaded, revision |-> @.revision + 1,
                        summary |-> @.summary \o SubSeq(turn[s].view, 1, cut)],
           !.view = SubSeq(@, cut + 1, Len(@)),
           !.pc = turn[s].then])

\* The messages before a cut are replaced by a summary.
Compact(s) ==
    /\ At(s, "fit")
    /\ \E cut \in Cuts(turn[s].view) :
         Step(s, [turn[s] EXCEPT
           !.context = [covered |-> @.covered + cut, revision |-> @.revision + 1,
                        summary |-> @.summary \o SubSeq(turn[s].view, 1, cut)],
           !.view = SubSeq(@, cut + 1, Len(@)),
           !.pc = turn[s].then])

-----------------------------------------------------------------------------
\* The inbox.

Send ==
    /\ mail < MaxMail
    /\ mail' = mail + 1
    /\ UNCHANGED <<stored, saved, turn, prompts, acknowledged>>

\* The messages a reading gives this turn: unacknowledged, new to it, two at most.
Inbox(s) ==
    LET open == {m \in 1 .. mail : m \notin acknowledged /\ m \notin turn[s].inbox_ids}
    IN IF s \notin Readers THEN {}
       ELSE {m \in open : Cardinality({n \in open : n < m}) < 2}

\* Mutant of Iterate: mail is acknowledged when the turn has read it.
IterateAcknowledging(s) ==
    /\ At(s, "iterate") /\ turn[s].iteration <= MaxIterations
    /\ LET ms == Inbox(s)
           note == IF ms = {} THEN << >> ELSE <<Note(ms)>>
       IN /\ turn' = [turn EXCEPT ![s] =
               [@ EXCEPT !.transcript = @ \o note, !.view = @ \o note,
                         !.inbox_ids = @ \cup ms, !.attempt = 1, !.target = 1,
                         !.streams = 0, !.emitted = FALSE, !.pc = "fit", !.then = "send"]]
          /\ acknowledged' = acknowledged \cup ms
    /\ UNCHANGED <<stored, saved, prompts, mail>>

\* An iteration starts: new mail is added, the context fitted.
Iterate(s) ==
    /\ At(s, "iterate") /\ turn[s].iteration <= MaxIterations
    /\ LET ms == Inbox(s)
           note == IF ms = {} THEN << >> ELSE <<Note(ms)>>
       IN Step(s, [turn[s] EXCEPT !.transcript = @ \o note, !.view = @ \o note,
                                  !.inbox_ids = @ \cup ms, !.attempt = 1, !.target = 1,
                                  !.streams = 0, !.emitted = FALSE, !.pc = "fit", !.then = "send"])

-----------------------------------------------------------------------------
\* The provider.

\* The attempt's first event reaches the sink of the turn.
Emit(s) ==
    /\ At(s, "send") /\ ~turn[s].emitted
    /\ Step(s, [turn[s] EXCEPT !.emitted = TRUE, !.streams = @ + 1])

\* A retryable failure that streamed nothing: the next attempt, then the next
\* target.  Any other failure ends the turn (Fail).
AttemptFails(s) ==
    /\ At(s, "send") /\ ~turn[s].emitted
    /\ turn[s].attempt < MaxAttempts \/ turn[s].target < Targets
    /\ Step(s, [turn[s] EXCEPT
         !.emitted = FALSE,
         !.attempt = IF turn[s].attempt < MaxAttempts THEN @ + 1 ELSE 1,
         !.target = IF turn[s].attempt < MaxAttempts THEN @ ELSE @ + 1])

\* The frame once the request has a response.
Responded(s) == [turn[s] EXCEPT !.attempt = 0, !.target = 0, !.emitted = FALSE, !.streams = 0]

\* A complete answer without tool calls.
Answered(s) ==
    /\ At(s, "send")
    /\ Step(s, [Responded(s) EXCEPT !.transcript = Append(@, Answer), !.pc = "commit"])

\* Mutant of Fresh: ids are compared with the calls the view still shows.
FreshInView(s, ids) ==
    \A i \in 1 .. Len(turn[s].view) : turn[s].view[i].kind = "call" => turn[s].view[i].of \cap ids = {}

\* The ids of a response are new to the turn.
Fresh(s, ids) == ids \cap turn[s].seen = {}

\* A response that calls tools; ids that are not new end the turn (Fail).
ToolUse(s) ==
    /\ At(s, "send")
    /\ \E ids \in (SUBSET Ids) \ {{}} :
         /\ Fresh(s, ids)
         /\ Step(s, [Responded(s) EXCEPT !.seen = @ \cup ids,
                                      !.transcript = Append(@, Call(ids)),
                                      !.view = Append(@, Call(ids)), !.pc = "tools"])

\* The batch ran and every result can be shown to the model.
RunBatch(s) ==
    /\ At(s, "tools")
    /\ LET ids == turn[s].transcript[Len(turn[s].transcript)].of
       IN Step(s, [turn[s] EXCEPT !.ran = Append(@, ids),
                                  !.transcript = Append(@, Result(ids)),
                                  !.view = Append(@, Result(ids)),
                                  !.iteration = @ + 1, !.pc = "iterate"])

-----------------------------------------------------------------------------
\* The commit.

\* Mutant of Unchanged: only the revision of the context is compared.
UnchangedContext(s) == saved.revision = turn[s].revision

\* Nobody committed to the session since the snapshot.
Unchanged(s) == Len(stored) = turn[s].base /\ saved.revision = turn[s].revision

\* The conditions the update of the working context puts on a turn's own.
Acceptable(s) ==
    LET c == turn[s].context
    IN /\ saved.covered <= c.covered /\ c.covered <= Len(stored) + Len(turn[s].transcript)
       /\ c.revision > turn[s].revision \/ c = saved

\* Transcript and context are committed in one transaction.  A conflict, a
\* refused context and a failing store end the turn (Fail).
Commit(s) ==
    /\ At(s, "commit") /\ Unchanged(s) /\ Acceptable(s)
    /\ stored' = stored \o turn[s].transcript
    /\ saved' = turn[s].context
    /\ turn' = [turn EXCEPT ![s] = [NoTurn EXCEPT !.pc = "committed", !.inbox_ids = turn[s].inbox_ids]]
    /\ UNCHANGED <<prompts, mail, acknowledged>>

\* Back from the store: the mail is acknowledged and the prompt returns.
Acknowledge(s) ==
    /\ At(s, "committed")
    /\ acknowledged' = acknowledged \cup turn[s].inbox_ids
    /\ turn' = [turn EXCEPT ![s] = NoTurn]
    /\ UNCHANGED <<stored, saved, prompts, mail>>

Next ==
    \/ Send
    \/ \E s \in Sessions :
         \/ Begin(s) \/ LoadMessage(s) \/ LoadEnds(s) \/ Fail(s)
         \/ Fits(s) \/ Compact(s) \/ Iterate(s)
         \/ Emit(s) \/ AttemptFails(s) \/ Answered(s) \/ ToolUse(s) \/ RunBatch(s)
         \/ Commit(s) \/ Acknowledge(s)

Spec == Init /\ [][Next]_vars

-----------------------------------------------------------------------------
\* Properties.

\* A transcript without the message that ends it.
Unanswered(q) == SubSeq(q, 1, Len(q) - 1)

\* What the turn has of the conversation at this point.
Known(s) ==
    IF At(s, "load") \/ (At(s, "fit") /\ turn[s].then = "load")
    THEN SubSeq(stored, 1, turn[s].loaded)
    ELSE SubSeq(stored, 1, turn[s].base) \o
         (IF At(s, "commit") THEN Unanswered(turn[s].transcript) ELSE turn[s].transcript)

\* A request shows the model the whole conversation once, as the summary and
\* the messages after it, over page boundaries and any number of compactions;
\* and it shows no result without its call and no call without its result.
ContextWhole ==
    \A s \in Sessions : turn[s].pc \notin {"idle", "committed"} =>
      /\ turn[s].context.summary \o turn[s].view = Known(s)
      /\ turn[s].context.covered = Len(turn[s].context.summary)
      /\ At(s, "send") =>
           LET q == turn[s].view
           IN /\ Pending(q, Len(q)) = {}
              /\ \A i \in 1 .. Len(q) : q[i].kind = "result" => i > 1 /\ q[i - 1] = Call(q[i].of)

\* The stored conversation is a sequence of whole turns, each of which was given
\* everything before it, whatever sessions ran side by side; and the saved
\* summary stands for exactly the prefix it claims, so that nothing is summarised
\* twice or skipped by the next turn, and is one that a next turn can load.
TurnsSerialized ==
    /\ \A i \in 1 .. Len(stored) :
         /\ stored[i].kind = "user" => stored[i].of = {i - 1}
         /\ (i = 1 \/ stored[i - 1].kind = "answer") <=> stored[i].kind = "user"
         /\ stored[i].kind = "call" => i < Len(stored) /\ stored[i + 1] = Result(stored[i].of)
         /\ i = Len(stored) => stored[i].kind = "answer"
    /\ Loadable
    /\ saved.summary = SubSeq(stored, 1, saved.covered)
    /\ \A s \in Sessions : At(s, "commit") /\ Unchanged(s) => Acceptable(s)

\* A message of the inbox is acknowledged, or about to be, exactly when one
\* committed turn has it: a turn that fails or loses the commit leaves its mail
\* for the next one.
MailKept ==
    \A m \in 1 .. MaxMail :
      Cardinality({i \in 1 .. Len(stored) : stored[i].kind = "note" /\ m \in stored[i].of})
        = (IF m \in acknowledged \/ \E s \in Sessions : At(s, "committed") /\ m \in turn[s].inbox_ids
           THEN 1 ELSE 0)

\* Within a turn no tool call is executed twice, although compaction hides the
\* earlier ones from the model, and no request streams twice to the user,
\* although attempts are repeated and targets change.
EffectsOnce ==
    \A s \in Sessions :
      /\ turn[s].streams <= 1
      /\ \A i, j \in 1 .. Len(turn[s].ran) : i # j => turn[s].ran[i] \cap turn[s].ran[j] = {}
=============================================================================
