------------------------------ MODULE ToolBatch ------------------------------
(***************************************************************************)
(* The tool scheduler (src/src/oran-agent/scheduler.cpp) running batches   *)
(* of dispatches (src/src/oran-tool/registry.cpp) for the turns of several *)
(* sessions, with the approvals, hooks, audit rows and path locks that a   *)
(* dispatch goes through.  A batch belongs to one dispatch context; the    *)
(* session frees the context after wait_idle.  Steps are the code between  *)
(* two suspension points of one strand.  The locks are what PathLocks      *)
(* promises: a waiting call may get its permit when no conflicting one is  *)
(* out.                                                                    *)
(***************************************************************************)
EXTENDS Naturals, Sequences, FiniteSets, Functions

CONSTANTS
    Batches,        \* one batch, and one dispatch context, each
    CallsOf,        \* the calls of a batch, in the model's order
    PathOf,         \* the lock key of a call
    Writers,        \* the calls that take their lock exclusively
    MaxParallel,    \* max_parallel_tools
    ReplayMax,      \* the uses an approval grants
    Tokened,        \* the batches whose context carries an approval token
    HostUses        \* the uses of the grant that token refers to

Calls == UNION {Range(CallsOf[b]) : b \in Batches}
BatchOf(c) == CHOOSE b \in Batches : c \in Range(CallsOf[b])

ASSUME Bounds == MaxParallel \in Nat \ {0} /\ ReplayMax \in Nat /\ HostUses \in Nat

\* Finitely many batches, and every call has one place in one of them.
ASSUME CallsDistinct ==
    /\ IsFiniteSet(Batches)
    /\ \A b \in Batches : CallsOf[b] \in Seq(Range(CallsOf[b]))
    /\ \A a, b \in Batches : \A i \in DOMAIN CallsOf[a], j \in DOMAIN CallsOf[b] :
         CallsOf[a][i] = CallsOf[b][j] => a = b /\ i = j

VARIABLES
    phase,          \* where run_batch and the wait_idle after it are
    outcome,        \* what run_batch returned
    parentCancel,   \* the turn's coroutine was cancelled
    admitted,       \* the number of calls started
    reported,       \* reported[i]
    completion,     \* the indices in the completion channel
    lag,            \* laggards still to be recorded
    active,         \* active_contexts[context]
    pc,             \* where the dispatch of a call is
    cut,            \* the timeout or the batch asked the dispatch to stop
    plan,           \* the outcome of the decision, before and in its audit row
    hook,           \* what the before-hook decided
    recorded,       \* the decision row of the call is durable
    held,           \* the calls that own their path lock
    uses,           \* remaining_uses of the grant
    issued          \* every use ever granted (history)

batchVars == <<phase, outcome, parentCancel, admitted, reported, completion, lag, active>>
callVars == <<pc, cut, plan, hook, recorded, held>>
grantVars == <<uses, issued>>
vars == <<batchVars, callVars, grantVars>>

Phases == {"new", "draining", "grace", "lagging", "returned", "parked", "freed"}
Locations == {"queued", "start", "before", "lock", "ask", "audit", "run", "after", "done", "dropped"}
\* refused stands for every outcome that keeps the handler from running: deny,
\* blocked_by_hook, rejected, an ask nobody resolved, an unresolvable path.
Plans == {"none", "allow", "approved", "refused"}

InFlight(c) == pc[c] \notin {"queued", "done", "dropped"}
CallSet(b) == Range(CallsOf[b])

Init ==
    /\ phase = [b \in Batches |-> "new"]
    /\ outcome = [b \in Batches |-> "none"]
    /\ parentCancel = [b \in Batches |-> FALSE]
    /\ admitted = [b \in Batches |-> 0]
    /\ reported = [b \in Batches |-> {}]
    /\ completion = [b \in Batches |-> {}]
    /\ lag = [b \in Batches |-> {}]
    /\ active = [b \in Batches |-> 0]
    /\ pc = [c \in Calls |-> "queued"]
    /\ cut = [c \in Calls |-> FALSE]
    /\ plan = [c \in Calls |-> "none"]
    /\ hook = [c \in Calls |-> "none"]
    /\ recorded = [c \in Calls |-> FALSE]
    /\ held = {}
    /\ uses = HostUses
    /\ issued = HostUses

-----------------------------------------------------------------------------
\* run_batch.

\* start_call for the calls of b with an index in from + 1 .. to.
StartCalls(b, from, to) ==
    /\ admitted' = [admitted EXCEPT ![b] = to]
    /\ active' = [active EXCEPT ![b] = @ + (to - from)]
    /\ pc' = [c \in Calls |-> IF \E i \in from + 1 .. to : CallsOf[b][i] = c
                              THEN "start" ELSE pc[c]]

\* run_batch up to its first receive.
RunBatch(b) ==
    /\ phase[b] = "new" /\ ~parentCancel[b]
    /\ phase' = [phase EXCEPT ![b] = "draining"]
    /\ LET n == Len(CallsOf[b])
       IN StartCalls(b, 0, IF n < MaxParallel THEN n ELSE MaxParallel)
    /\ UNCHANGED <<outcome, parentCancel, reported, completion, lag,
                   cut, plan, hook, recorded, held, grantVars>>

\* run_batch on a turn that is already cancelled.
RunBatchCancelled(b) ==
    /\ phase[b] = "new" /\ parentCancel[b]
    /\ phase' = [phase EXCEPT ![b] = "returned"]
    /\ outcome' = [outcome EXCEPT ![b] = "cancelled"]
    /\ UNCHANGED <<parentCancel, admitted, reported, completion, lag, active, callVars, grantVars>>

CancelParent(b) ==
    /\ phase[b] \in {"new", "draining"} /\ ~parentCancel[b]
    /\ parentCancel' = [parentCancel EXCEPT ![b] = TRUE]
    /\ UNCHANGED <<phase, outcome, admitted, reported, completion, lag, active, callVars, grantVars>>

\* Phase 1: a completion arrives and makes room for the next call.
Receive(b) ==
    /\ phase[b] = "draining" /\ ~parentCancel[b]
    /\ \E c \in completion[b] :
         /\ completion' = [completion EXCEPT ![b] = @ \ {c}]
         /\ reported' = [reported EXCEPT ![b] = @ \cup {c}]
         /\ IF reported'[b] = CallSet(b)
            THEN /\ phase' = [phase EXCEPT ![b] = "returned"]
                 /\ outcome' = [outcome EXCEPT ![b] = "results"]
                 /\ UNCHANGED <<admitted, active, pc>>
            ELSE /\ StartCalls(b, admitted[b],
                               IF admitted[b] < Len(CallsOf[b]) THEN admitted[b] + 1 ELSE admitted[b])
                 /\ UNCHANGED <<phase, outcome>>
    /\ UNCHANGED <<parentCancel, lag, cut, plan, hook, recorded, held, grantVars>>

\* Phase 2 of batch b after its completions `seen`: drop the calls not started
\* and signal the others.
Cancelled(b, seen) ==
    LET queued == {c \in CallSet(b) : pc[c] = "queued"}
    IN /\ reported' = [reported EXCEPT ![b] = seen \cup queued]
       /\ pc' = [c \in Calls |-> IF c \in queued THEN "dropped" ELSE pc[c]]
       /\ cut' = [c \in Calls |-> cut[c] \/ (c \in CallSet(b) /\ InFlight(c))]
       /\ IF reported'[b] = CallSet(b)
          THEN /\ phase' = [phase EXCEPT ![b] = "returned"]
               /\ outcome' = [outcome EXCEPT ![b] = "cancelled"]
          ELSE /\ phase' = [phase EXCEPT ![b] = "grace"]
               /\ UNCHANGED outcome

\* The receive of phase 1 is aborted, or brings a completion that was already
\* sent; the cancellation ends the phase either way.
ReceiveCancelled(b) ==
    /\ phase[b] = "draining" /\ parentCancel[b]
    /\ \/ /\ Cancelled(b, reported[b])
          /\ UNCHANGED completion
       \/ \E c \in completion[b] :
            /\ completion' = [completion EXCEPT ![b] = @ \ {c}]
            /\ Cancelled(b, reported[b] \cup {c})
    /\ UNCHANGED <<parentCancel, admitted, lag, active, plan, hook, recorded, held, grantVars>>

\* drain_remaining takes a completion within the grace window.
DrainRemaining(b) ==
    /\ phase[b] = "grace"
    /\ \E c \in completion[b] :
         /\ completion' = [completion EXCEPT ![b] = @ \ {c}]
         /\ reported' = [reported EXCEPT ![b] = @ \cup {c}]
    /\ IF reported'[b] = CallSet(b)
       THEN /\ phase' = [phase EXCEPT ![b] = "returned"]
            /\ outcome' = [outcome EXCEPT ![b] = "cancelled"]
       ELSE UNCHANGED <<phase, outcome>>
    /\ UNCHANGED <<parentCancel, admitted, lag, active, callVars, grantVars>>

\* Mutant of GraceExpires: the batch waits for the handlers that are running.
GraceExpiresCooperative(b) ==
    /\ phase[b] = "grace"
    /\ \A c \in CallSet(b) : pc[c] # "run"
    /\ phase' = [phase EXCEPT ![b] = "lagging"]
    /\ lag' = [lag EXCEPT ![b] = CallSet(b) \ reported[b]]
    /\ UNCHANGED <<outcome, parentCancel, admitted, reported, completion, active, callVars, grantVars>>

\* The grace timer wins: the calls that did not report are to be named.
GraceExpires(b) ==
    /\ phase[b] = "grace"
    /\ phase' = [phase EXCEPT ![b] = "lagging"]
    /\ lag' = [lag EXCEPT ![b] = CallSet(b) \ reported[b]]
    /\ UNCHANGED <<outcome, parentCancel, admitted, reported, completion, active, callVars, grantVars>>

\* record_cancellation_lag for one laggard; after the last one the batch returns.
RecordLag(b) ==
    /\ phase[b] = "lagging"
    /\ \E c \in lag[b] : lag' = [lag EXCEPT ![b] = @ \ {c}]
    /\ IF lag'[b] = {}
       THEN /\ phase' = [phase EXCEPT ![b] = "returned"]
            /\ outcome' = [outcome EXCEPT ![b] = "cancelled"]
       ELSE UNCHANGED <<phase, outcome>>
    /\ UNCHANGED <<parentCancel, admitted, reported, completion, active, callVars, grantVars>>

-----------------------------------------------------------------------------
\* wait_idle, which the session calls before its context goes out of scope.

\* Mutant of WaitIdle: the session does not wait for calls that lag.
WaitIdleSkipped(b) ==
    /\ phase[b] = "returned"
    /\ phase' = [phase EXCEPT ![b] = "freed"]
    /\ UNCHANGED <<outcome, parentCancel, admitted, reported, completion, lag, active, callVars, grantVars>>

\* The test of the loop: leave when no call uses the context, otherwise park.
WaitIdle(b) ==
    /\ phase[b] = "returned"
    /\ phase' = [phase EXCEPT ![b] = IF active[b] = 0 THEN "freed" ELSE "parked"]
    /\ UNCHANGED <<outcome, parentCancel, admitted, reported, completion, lag, active, callVars, grantVars>>

\* The waiters after the completion of call c: all of them test again.
Woken(c) ==
    [b \in Batches |-> IF phase[b] = "parked" THEN "returned" ELSE phase[b]]

-----------------------------------------------------------------------------
\* One dispatch.

\* The end of run_call and its completion handler: the frame and its lock are
\* gone, the context is released, the waiters are woken, the index is sent.
Complete(c) ==
    LET b == BatchOf(c)
    IN /\ pc' = [pc EXCEPT ![c] = "done"]
       /\ held' = held \ {c}
       /\ cut' = [cut EXCEPT ![c] = FALSE]
       /\ hook' = [hook EXCEPT ![c] = "none"]
       /\ recorded' = [recorded EXCEPT ![c] = FALSE]
       /\ plan' = [plan EXCEPT ![c] = IF @ = "approved" THEN @ ELSE "none"]
       /\ active' = [active EXCEPT ![b] = @ - 1]
       /\ phase' = Woken(c)
       /\ completion' = [completion EXCEPT ![b] = @ \cup {c}]

\* The per-call timeout wins the race and asks the dispatch to stop.  In the
\* after-hook it would only replace the result.
TimeoutFires(c) ==
    /\ InFlight(c) /\ pc[c] # "after" /\ ~cut[c]
    /\ cut' = [cut EXCEPT ![c] = TRUE]
    /\ UNCHANGED <<batchVars, pc, plan, hook, recorded, held, grantVars>>

\* The dispatch looks the tool up and publishes its before-hook; one that is
\* unknown or not active ends there.
Start(c) ==
    /\ pc[c] = "start" /\ ~cut[c]
    /\ pc' = [pc EXCEPT ![c] = "before"]
    /\ UNCHANGED <<batchVars, cut, plan, hook, recorded, held, grantVars>>

StartUnknown(c) ==
    /\ pc[c] = "start"
    /\ Complete(c)
    /\ UNCHANGED <<outcome, parentCancel, admitted, reported, lag, grantVars>>

\* A cancelled dispatch leaves its hook or its lock wait: it decides nothing and
\* records nothing.
Unwind(c) ==
    /\ pc[c] \in {"start", "before", "lock", "ask"} /\ cut[c]
    /\ pc' = [pc EXCEPT ![c] = "after"]
    /\ UNCHANGED <<batchVars, cut, plan, hook, recorded, held, grantVars>>

\* The before-hook decides (a sink's error or timeout is a veto), then the input
\* is prepared: a veto and a bad input go straight to their audit row.
Before(c) ==
    /\ pc[c] = "before" /\ ~cut[c]
    /\ \E decision \in {"proceed", "veto", "require_approval"}, prepared \in BOOLEAN :
         /\ hook' = [hook EXCEPT ![c] = decision]
         /\ plan' = [plan EXCEPT ![c] = IF decision = "veto" \/ ~prepared THEN "refused" ELSE @]
         /\ pc' = [pc EXCEPT ![c] = IF decision # "veto" /\ prepared THEN "lock" ELSE "audit"]
    /\ UNCHANGED <<batchVars, cut, recorded, held, grantVars>>

\* What the rules say of the call, after the hook's escalation.
Verdict(c, rules) == IF hook[c] = "require_approval" /\ rules = "allow" THEN "ask" ELSE rules

\* Mutant of CanLock: two writers of a path are let through together.
CanLockBesideWriters(c) ==
    \A d \in held : PathOf[d] = PathOf[c] => (c \in Writers <=> d \in Writers)

\* No permit that conflicts with the one of c is out.
CanLock(c) ==
    \A d \in held : PathOf[d] = PathOf[c] => c \notin Writers /\ d \notin Writers

\* ApprovalBroker::check on a grant with n uses left, for a token that is valid
\* or not (expired, or for another tool, input or identity).
Check(c, n, valid) ==
    /\ uses' = IF valid /\ n > 0 THEN n - 1 ELSE n
    /\ plan' = [plan EXCEPT ![c] = IF valid /\ n > 0 THEN "approved" ELSE "refused"]

\* The path lock is taken; the path is resolved and the rules evaluated under
\* it.  A token of the context is checked at once, otherwise an ask goes out.
LockAndDecide(c) ==
    /\ pc[c] = "lock" /\ ~cut[c]
    /\ CanLock(c)
    /\ held' = held \cup {c}
    /\ \E rules \in {"allow", "ask", "deny"}, resolved \in BOOLEAN :
         LET asks == resolved /\ Verdict(c, rules) = "ask"
             withToken == BatchOf(c) \in Tokened
         IN /\ pc' = [pc EXCEPT ![c] = IF asks /\ ~withToken THEN "ask" ELSE "audit"]
            /\ IF asks /\ withToken
               THEN \E valid \in BOOLEAN : Check(c, uses, valid)
               ELSE /\ plan' = [plan EXCEPT ![c] = IF asks THEN @
                                                   ELSE IF resolved /\ rules = "allow" THEN "allow"
                                                   ELSE "refused"]
                    /\ UNCHANGED uses
    /\ UNCHANGED <<batchVars, cut, hook, recorded, issued>>

\* The operator answers the ask, in time or after the call was cut.  Approving
\* replaces the grant and charges it; a late answer changes nothing else.
Answer(c) ==
    /\ pc[c] = "ask"
    /\ \/ /\ Check(c, ReplayMax, TRUE)
          /\ issued' = issued + ReplayMax
       \/ /\ plan' = [plan EXCEPT ![c] = "refused"]
          /\ UNCHANGED <<uses, issued>>
    /\ pc' = [pc EXCEPT ![c] = IF ~cut[c] THEN "audit" ELSE "after"]
    /\ UNCHANGED <<batchVars, cut, hook, recorded, held>>

\* Mutant of Record: the handler starts although the row was not written.
RecordBestEffort(c) ==
    /\ pc[c] = "audit"
    /\ \E ok \in BOOLEAN :
         /\ recorded' = [recorded EXCEPT ![c] = ok]
         /\ pc' = [pc EXCEPT ![c] = IF ~cut[c] /\ plan[c] \in {"allow", "approved"}
                                    THEN "run" ELSE "after"]
    /\ UNCHANGED <<batchVars, cut, plan, hook, held, grantVars>>

\* The decision row is written, or fails; only then may the handler start.
Record(c) ==
    /\ pc[c] = "audit"
    /\ \E ok \in BOOLEAN :
         /\ recorded' = [recorded EXCEPT ![c] = ok]
         /\ pc' = [pc EXCEPT ![c] = IF ok /\ ~cut[c] /\ plan[c] \in {"allow", "approved"}
                                    THEN "run" ELSE "after"]
    /\ UNCHANGED <<batchVars, cut, plan, hook, held, grantVars>>

\* The handler returns, heeding a cancellation or not.
HandlerEnds(c) ==
    /\ pc[c] = "run"
    /\ pc' = [pc EXCEPT ![c] = "after"]
    /\ UNCHANGED <<batchVars, cut, plan, hook, recorded, held, grantVars>>

\* The after-hook is published, or skipped by the cancellation, and the frame ends.
After(c) ==
    /\ pc[c] = "after"
    /\ Complete(c)
    /\ UNCHANGED <<outcome, parentCancel, admitted, reported, lag, grantVars>>

-----------------------------------------------------------------------------
Return(b) ==
    Receive(b) \/ ReceiveCancelled(b) \/ DrainRemaining(b) \/ GraceExpires(b) \/ RecordLag(b)

Dispatch(c) ==
    \/ Start(c) \/ StartUnknown(c) \/ Before(c) \/ LockAndDecide(c) \/ Answer(c)
    \/ Record(c) \/ HandlerEnds(c) \/ After(c) \/ Unwind(c)

Next ==
    \/ \E b \in Batches :
         RunBatch(b) \/ RunBatchCancelled(b) \/ CancelParent(b) \/ Return(b) \/ WaitIdle(b)
    \/ \E c \in Calls : Dispatch(c) \/ TimeoutFires(c)

\* The strand runs the scheduler's own coroutines and its timers, and the audit rows
\* of laggards, which the scheduler itself awaits, are written or fail.  Hooks,
\* operators, handlers and the audit rows of dispatches owe it nothing.
Fairness == \A b \in Batches : WF_vars(Return(b)) /\ WF_vars(WaitIdle(b))

Spec == Init /\ [][Next]_vars /\ Fairness

-----------------------------------------------------------------------------
\* Properties.

\* The scheduler's accounts agree with its calls: a context counts the frames
\* that borrow it, at most max_parallel_tools of a batch run at once, a call
\* reports exactly when its frame is gone, and a batch returns results only
\* when all of them exist.
BatchInv ==
    /\ phase \in [Batches -> Phases]
    /\ pc \in [Calls -> Locations]
    /\ plan \in [Calls -> Plans]
    /\ held \subseteq {c \in Calls : pc[c] \in {"ask", "audit", "run", "after"}}
    /\ \A b \in Batches :
         LET flying == {c \in CallSet(b) : InFlight(c)}
         IN /\ active[b] = Cardinality(flying)
            /\ active[b] <= MaxParallel
            /\ completion[b] \cap reported[b] = {}
            /\ completion[b] \cup reported[b] = {c \in CallSet(b) : pc[c] \in {"done", "dropped"}}
            /\ \A i \in 1 .. Len(CallsOf[b]) :
                 pc[CallsOf[b][i]] \in {"queued", "dropped"} <=> i > admitted[b]
            /\ outcome[b] = "results" => \A c \in CallSet(b) : pc[c] = "done"

\* No more calls are approved than uses were granted, over all the batches that
\* share a grant; approving again replaces what was left of it.
ApprovalsCharged ==
    uses + Cardinality({c \in Calls : plan[c] = "approved"}) <= issued

\* A handler runs only while its durable row says so: the call was allowed or
\* approved, never blocked by a hook or denied, whatever was cancelled, timed
\* out or answered late around it; and no more calls are approved than granted.
EffectsAuthorized ==
    /\ ApprovalsCharged
    /\ \A c \in Calls :
         pc[c] = "run" =>
           /\ recorded[c] /\ plan[c] \in {"allow", "approved"}
           /\ hook[c] # "veto"
           /\ hook[c] = "require_approval" => plan[c] = "approved"

\* Two handlers never work on one path when one of them writes, even when one
\* lags behind a batch that was cancelled and has returned.
EffectsExcluded ==
    \A c, d \in Calls :
      c # d /\ pc[c] = "run" /\ pc[d] = "run" /\ PathOf[c] = PathOf[d]
        => c \notin Writers /\ d \notin Writers

\* A dispatch context is freed only after the last frame that borrows it, and
\* after the lag rows that are written through it; the accounts stay exact.
ContextOutlivesCalls ==
    /\ BatchInv
    /\ \A b \in Batches : phase[b] = "freed" => lag[b] = {} /\ \A c \in CallSet(b) : ~InFlight(c)

\* A cancelled batch returns although a handler, a hook or the operator never
\* does: the grace window bounds the wait.
CancelledBatchReturns ==
    \A b \in Batches :
      phase[b] = "draining" /\ parentCancel[b] ~> outcome[b] = "cancelled"

\* A session waiting for its context leaves once its calls have ended: the
\* completion that makes the context idle is never missed by a parked waiter.
ContextIsFreed ==
    \A b \in Batches :
      (\A c \in CallSet(b) : <>[]~InFlight(c)) => (phase[b] = "returned" ~> phase[b] = "freed")

\* A cancelled batch returns, and its context is freed.
BatchesEnd == CancelledBatchReturns /\ ContextIsFreed
=============================================================================
