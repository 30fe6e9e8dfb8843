----------------------------- MODULE Presentation -----------------------------
(* What the Telegram host shows while a turn runs (apps/telegram/              *)
(* presentation.cpp): deliver borrows the message, runs the turn through the   *)
(* dispatcher and beside it an updater that shows reactions and previews; both *)
(* run on one strand, so a step ends where a coroutine awaits.  prepare_final  *)
(* and deliver close the updater and join it.  Texts are numbered versions, 0  *)
(* the empty one; the clock shows only in what is due.                         *)
(* External: the dispatcher, hooks and transport end in any way.               *)
EXTENDS Naturals

CONSTANTS
    None,
    Deliveries,     \* bound: messages delivered one after the other
    MaxDeltas       \* bound: text deltas of one delivery

VARIABLES
    turn,           \* where deliver and the turn in it are
    updater,        \* where update is, and with what: [at, op, phase]
    message,        \* message_ is set
    phase, shown_phase, text, shown_text,
    failures,       \* [react, draft]
    closing, admitted,
    woken,          \* the updater's timer: "set", "fired", "cancelled"
    joined,         \* join_started of the group
    stopped,        \* a stop was emitted to the updater
    cancelled,      \* the turn was cancelled
    waits,          \* now < retry_at_
    deltas, rounds  \* what the bounds count

vars == <<turn, updater, message, phase, shown_phase, text, shown_text, failures, closing, admitted,
          woken, joined, stopped, cancelled, waits, deltas, rounds>>
view == <<phase, shown_phase, text, shown_text>>
borrowed == <<message, closing, admitted, joined, stopped, cancelled>>

Ended == [at |-> "ended", op |-> None, phase |-> None]
At(place) == [at |-> place, op |-> None, phase |-> None]

Init ==
    /\ turn = [at |-> "idle", phase |-> None, ok |-> FALSE] /\ updater = Ended
    /\ message = FALSE /\ phase = "received" /\ shown_phase = None /\ text = 0 /\ shown_text = 0
    /\ failures = [react |-> 0, draft |-> 0] /\ closing = FALSE /\ admitted = FALSE /\ woken = "set"
    /\ joined = FALSE /\ stopped = FALSE /\ cancelled = FALSE /\ waits = FALSE
    /\ deltas = 0 /\ rounds = 0

To(place) == turn' = [turn EXCEPT !.at = place]

-------------------------------------------------------------------------------
(* deliver, and the turn callback of host.cpp                                  *)

\* The message is borrowed, the counters start again and the updater is spawned.
Deliver ==
    /\ turn.at \in {"idle", "done"} /\ rounds < Deliveries
    /\ turn' = [at |-> "handling", phase |-> None, ok |-> FALSE] /\ updater' = At("start")
    /\ message' = TRUE /\ phase' = "received" /\ shown_phase' = None /\ text' = 0 /\ shown_text' = 0
    /\ failures' = [react |-> 0, draft |-> 0] /\ closing' = FALSE /\ admitted' = FALSE /\ woken' = "set"
    /\ joined' = FALSE /\ stopped' = FALSE /\ cancelled' = FALSE
    /\ deltas' = 0 /\ rounds' = rounds + 1
    /\ UNCHANGED waits

CancelTimer == woken' = IF woken = "set" THEN "cancelled" ELSE woken

accepted ==
    /\ turn.at = "handling" /\ To("running")
    /\ admitted' = TRUE /\ CancelTimer
    /\ UNCHANGED <<updater, view, message, failures, closing, joined, stopped, cancelled, waits, deltas, rounds>>

\* Callbacks of the provider and the hooks; they change values and start nothing.
Shows(p, t) ==
    /\ turn.at = "running" /\ message
    /\ phase' = p /\ text' = t
    /\ UNCHANGED <<turn, updater, shown_phase, shown_text, failures, borrowed, woken, waits, rounds>>
observe ==
    \/ Shows("thinking", 0) /\ UNCHANGED deltas              \* provider_request
    \/ \E p \in {"thinking", "tool"} : Shows(p, text) /\ UNCHANGED deltas
on_text_delta ==
    /\ deltas < MaxDeltas /\ deltas' = deltas + 1
    /\ Shows("answering", deltas + 1)

\* The answer is there, or its error: the admitted turn drains previews first.
CloseFrom(from, to) ==
    /\ turn.at = from /\ To(to)
    /\ closing' = TRUE /\ CancelTimer
    /\ joined' = TRUE
    /\ UNCHANGED <<updater, view, message, failures, admitted, stopped, cancelled, waits, deltas, rounds>>
\* A plausible fault: closing is announced and the updater is not waited for.
prepare_final_unjoined == CloseFrom("running", "answered")
prepare_final == CloseFrom("running", "draining")

\* join returns when the updater is gone.
Drained ==
    /\ turn.at = "draining" /\ updater = Ended /\ To("answered")
    /\ UNCHANGED <<updater, view, failures, borrowed, woken, waits, deltas, rounds>>

\* handle returns or throws: refused, cut short, or with the answer sent or not.
Handled ==
    /\ turn.at \in {"handling", "running", "answered"}
    /\ \E ok \in IF turn.at = "answered" THEN BOOLEAN ELSE {FALSE} :
          turn' = [turn EXCEPT !.at = "closing", !.ok = ok]
    /\ UNCHANGED <<updater, view, failures, borrowed, woken, waits, deltas, rounds>>

\* deliver closes and joins; a second join of one group returns at once.
Join ==
    /\ turn.at = "closing"
    /\ closing' = TRUE /\ CancelTimer
    /\ joined' = TRUE
    /\ To(IF joined THEN "joined" ELSE "joining")
    /\ UNCHANGED <<updater, view, message, failures, admitted, stopped, cancelled, waits, deltas, rounds>>
Joined ==
    /\ turn.at = "joining" /\ updater = Ended /\ To("joined")
    /\ UNCHANGED <<updater, view, failures, borrowed, woken, waits, deltas, rounds>>

\* react for the outcome, by deliver itself; its cancellation is set aside.
Outcome == IF turn.ok THEN "done" ELSE "failed"
Concludes ==
    /\ turn.at = "joined"
    /\ To(IF admitted /\ failures.react < 2 /\ shown_phase # Outcome /\ ~waits THEN "concluding" ELSE "releasing")
    /\ failures' = IF admitted /\ failures.react < 2 /\ shown_phase # Outcome /\ waits
                   THEN [failures EXCEPT !.react = @ + 1] ELSE failures
    /\ shown_phase' = IF admitted /\ failures.react < 2 THEN Outcome ELSE shown_phase
    /\ UNCHANGED <<updater, phase, text, shown_text, borrowed, woken, waits, deltas, rounds>>
Concluded ==
    /\ turn.at = "concluding" /\ To("releasing")
    /\ \E sent, limited \in BOOLEAN :
          /\ ~(sent /\ limited)
          /\ failures' = IF sent THEN failures ELSE [failures EXCEPT !.react = @ + 1]
          /\ waits' = (waits \/ limited)
    /\ UNCHANGED <<updater, view, borrowed, woken, deltas, rounds>>
Release ==
    /\ turn.at = "releasing" /\ To("done")
    /\ message' = FALSE
    /\ UNCHANGED <<updater, view, failures, closing, admitted, woken, joined, stopped, cancelled, waits, deltas, rounds>>

\* The turn is cancelled; a join that waits passes it on and goes on waiting.
Cancel ==
    /\ turn.at \in {"handling", "running", "draining", "answered"} /\ ~cancelled
    /\ cancelled' = TRUE
    /\ UNCHANGED <<turn, updater, view, message, failures, closing, admitted, joined, woken, stopped, waits, deltas, rounds>>
Stop ==
    /\ turn.at = "draining" /\ cancelled /\ ~stopped
    /\ stopped' = TRUE /\ CancelTimer
    /\ UNCHANGED <<turn, updater, view, message, failures, closing, admitted, joined, cancelled, waits, deltas, rounds>>

-------------------------------------------------------------------------------
(* update and send                                                             *)

\* send begins: refused by a cancellation or the rate limit, or it awaits the hook.
Sends(op, p, then) ==
    IF stopped \/ waits
    THEN updater' = At(then) /\ failures' = [failures EXCEPT ![op] = @ + 1]
    ELSE updater' = [at |-> "hook", op |-> op, phase |-> p] /\ UNCHANGED failures

\* react: nothing to do, or a send.  The phase counts as shown either way.
Reacts(p, then) ==
    IF failures.react >= 2 \/ shown_phase = p
    THEN updater' = At(then) /\ UNCHANGED <<failures, shown_phase>>
    ELSE Sends("react", p, then) /\ shown_phase' = p

Arm == woken' = "set"

\* The first loop: wait until admitted.
Start ==
    /\ updater.at \in {"start", "parked"} /\ (updater.at = "parked" => woken # "set")
    /\ IF updater.at = "parked" /\ stopped
       THEN updater' = Ended /\ UNCHANGED <<woken, failures, shown_phase>>
       ELSE IF closing THEN updater' = Ended /\ UNCHANGED <<woken, failures, shown_phase>>
       ELSE IF admitted THEN Reacts("received", "loop") /\ UNCHANGED woken
       ELSE updater' = At("parked") /\ Arm /\ UNCHANGED <<failures, shown_phase>>
    /\ UNCHANGED <<turn, phase, text, shown_text, borrowed, waits, deltas, rounds>>

\* The second loop: wait for the interval, unless closing.
Loop ==
    /\ updater.at = "loop"
    /\ IF closing THEN updater' = Ended /\ UNCHANGED woken ELSE updater' = At("ticking") /\ Arm
    /\ UNCHANGED <<turn, view, failures, borrowed, waits, deltas, rounds>>
Fires ==
    /\ updater.at = "ticking" /\ woken = "set" /\ woken' = "fired"
    /\ UNCHANGED <<turn, updater, view, failures, borrowed, waits, deltas, rounds>>
Ticked ==
    /\ updater.at = "ticking" /\ woken # "set"
    /\ IF closing \/ woken = "cancelled" THEN updater' = Ended /\ UNCHANGED <<failures, shown_phase>>
       ELSE Reacts(phase, "preview")
    /\ UNCHANGED <<turn, phase, text, shown_text, borrowed, woken, waits, deltas, rounds>>

\* The snapshot is taken before the send; `due` is the fifteen seconds, `formats`
\* whether the text can be shown.
Preview ==
    /\ updater.at = "preview"
    /\ \E due, formats \in BOOLEAN :
          IF failures.draft >= 2 \/ text = 0 \/ (text = shown_text /\ ~due)
          THEN updater' = At("loop") /\ UNCHANGED <<shown_text, failures>>
          ELSE /\ shown_text' = text
               /\ IF formats THEN Sends("draft", None, "loop")
                  ELSE updater' = At("loop") /\ UNCHANGED failures
    /\ UNCHANGED <<turn, phase, shown_phase, text, borrowed, woken, waits, deltas, rounds>>

Then == IF updater.op = "react" /\ updater.phase # "received" THEN "preview" ELSE "loop"
\* The hook was told; the rules allow the send or not.
Published ==
    /\ updater.at = "hook"
    /\ \/ updater' = [updater EXCEPT !.at = "transport"] /\ UNCHANGED failures
       \/ updater' = At(Then) /\ failures' = [failures EXCEPT ![updater.op] = @ + 1]
    /\ UNCHANGED <<turn, view, borrowed, woken, waits, deltas, rounds>>
\* The platform took it, refused it, asked to wait, or the transport failed.
Answered ==
    /\ updater.at = "transport" /\ updater' = At(Then)
    /\ \E sent, limited \in BOOLEAN :
          /\ ~(sent /\ limited)
          /\ failures' = IF sent THEN failures ELSE [failures EXCEPT ![updater.op] = @ + 1]
          /\ waits' = (waits \/ limited)
    /\ UNCHANGED <<turn, view, borrowed, woken, deltas, rounds>>

\* The rate limit passes.
RetryDue ==
    /\ waits /\ waits' = FALSE
    /\ UNCHANGED <<turn, updater, view, failures, borrowed, woken, deltas, rounds>>

Rest == turn.at = "done" /\ rounds = Deliveries /\ ~waits /\ UNCHANGED vars

Update == Start \/ Loop \/ Fires \/ Ticked \/ Preview \/ Published \/ Answered
Finish == Drained \/ Handled \/ Join \/ Joined \/ Concludes \/ Concluded \/ Release \/ prepare_final
Next ==
    \/ Deliver \/ accepted \/ observe \/ on_text_delta \/ Cancel \/ Stop
    \/ Finish \/ Update \/ RetryDue \/ Rest

-------------------------------------------------------------------------------
(* Properties                                                                  *)

\* The updater uses the borrowed message only while deliver holds it, and is gone
\* before deliver returns, in whatever way the turn ends (update, send, deliver).
MessageHeld ==
    /\ updater.at \in {"hook", "transport"} => message
    /\ ~message => updater = Ended

\* Once the turn has drained its previews none is on its way, so no preview comes
\* after the answer it announces (prepare_final).
AnswerIsLast == turn.at = "answered" => updater = Ended

\* A status or preview that fails twice is not tried again in this delivery, and
\* the outcome counts as shown last.
FailuresBounded ==
    /\ failures.react <= 2 /\ failures.draft <= 2
    /\ turn.at = "done" /\ admitted /\ failures.react < 2 => shown_phase = Outcome

ShownSafely == MessageHeld /\ AnswerIsLast /\ FailuresBounded
===============================================================================
