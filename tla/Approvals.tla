------------------------------ MODULE Approvals ------------------------------
(***************************************************************************)
(* What stands before the effect of a tool call: the gates of the hook bus *)
(* (src/src/oran-hook/bus.cpp), the policy, the approval broker with its   *)
(* signed tokens (src/src/oran-permission/approval.cpp and                 *)
(* approval_broker.cpp), and the audit row, in the order of                *)
(* Registry::dispatch.  Dispatches overlap wherever the code suspends: in  *)
(* a gate, in the wait for the path lock, in an approval prompt and in the *)
(* audit write.  ToolBatch has the scheduler around them and lets the      *)
(* policy be any; here the policy, the tokens and the time are the code's. *)
(***************************************************************************)
EXTENDS Permission

CONSTANTS
    Calls,          \* dispatches
    Identity,       \* the identity of a dispatch's context
    Requested,      \* the input a dispatch is called with
    Sinks,          \* the sinks that subscribe, in their order
    Deciders,       \* the sinks with a decide callback bound to a gate
    Policy,         \* the policies' decision on an input of the tool (Permission)
    MaxGrants,      \* max_grants_per_identity
    MaxTime         \* bound on the clock

Decisions == [verdict : Verdicts, reason : Nat, replay_max : Nat, approval_ttl : Nat]

\* The ceiling is positive, limits are unsigned, and every input has a decision.
ASSUME ApprovalConstants ==
    /\ MaxGrants \in Nat \ {0}
    /\ {DefaultReplays, DefaultTtl} \subseteq Nat
    /\ Requested \in [Calls -> Inputs]
    /\ Policy \in [Inputs -> Decisions]

VARIABLES
    clock,
    subscribed,     \* how many of Sinks have subscribed
    call,           \* the frame of a dispatch
    grants,         \* grants_ of the broker, Unset where there is none
    sequence,       \* next_sequence_
    tokens,         \* the tokens stored through approval_token_output
    ledger          \* per key, the uses last granted and those made since (history)

vars == <<clock, subscribed, call, grants, sequence, tokens, ledger>>

Key == [identity : {Identity[c] : c \in Calls}, input : Inputs]
KeyOf(c) == [identity |-> Identity[c], input |-> call[c].input]

Idle(c) ==
    [pc |-> "idle", runtime |-> FALSE, now |-> 0, since |-> 0, input |-> Requested[c], token |-> Unset,
     gates |-> <<>>, trace |-> <<>>, prompt |-> <<>>, asked |-> <<>>,
     path |-> "none", decision |-> Unset, plan |-> "none", row |-> Unset]

Frame(c, update) == call' = [call EXCEPT ![c] = update]
Ended(c) == Frame(c, [Idle(c) EXCEPT !.pc = "done"])

\* The frame once the call is decided.  The handler gets the input and the path;
\* what else led to the decision is not used again.
Planned(f, plan) ==
    [f EXCEPT !.pc = "audit", !.plan = plan, !.now = 0, !.since = 0, !.token = Unset,
              !.prompt = <<>>, !.asked = <<>>, !.decision = Unset]

\* ctx.now, which a wait for the path lock moves and a prompt does not.
Now(c) == IF call[c].pc = "lock" THEN call[c].now + (clock - call[c].since) ELSE call[c].now

Init ==
    /\ clock = 0
    /\ subscribed = 1
    /\ call = [c \in Calls |-> Idle(c)]
    /\ grants = [k \in Key |-> Unset]
    /\ sequence = 0
    /\ tokens = {}
    /\ ledger = [k \in Key |-> [granted |-> 0, used |-> 0]]

-----------------------------------------------------------------------------
\* The hook bus.

Tick ==
    /\ clock < MaxTime
    /\ clock' = clock + 1
    /\ UNCHANGED <<subscribed, call, grants, sequence, tokens, ledger>>

subscribe ==
    /\ subscribed < Len(Sinks)
    /\ subscribed' = subscribed + 1
    /\ UNCHANGED <<clock, call, grants, sequence, tokens, ledger>>

\* The sinks a publication asks: those that decide among the ones subscribed when
\* it starts.
Gates(event) == SelectSeq(SubSeq(Sinks, 1, subscribed), LAMBDA s : s \in Deciders[event])

\* What call_decide_within makes of a sink: an error, an exception or a timeout is
\* a veto.  Whether a sink names a reason matters to the approval prompt alone.
Answers(reasons) ==
    {[kind |-> k, reason |-> FALSE] : k \in {"veto", "rewrite", "require_approval"}}
      \cup {[kind |-> "proceed", reason |-> r] : r \in reasons}

\* The walk of publish_blocking ends at the first decision that is not proceed.
Settled(gates, trace) ==
    Len(trace) = Len(gates) \/ (trace # <<>> /\ Last(trace).kind # "proceed")

-----------------------------------------------------------------------------
\* The authority and the broker.

issue(key, ttl, now) == [key |-> key, expires_at |-> now + ttl]

\* A token of this process, whose signature therefore holds.
verify(token, key, now) == now < token.expires_at /\ token.key = key

Reaped(g, now) == [k \in Key |-> IF g[k] # Unset /\ g[k].expires_at <= now THEN Unset ELSE g[k]]

\* enforce_identity_ceiling: the oldest other grant of the identity makes room.
WithinCeiling(g, key) ==
    LET others == {k \in Key \ {key} : g[k] # Unset /\ k.identity = key.identity}
        oldest == CHOOSE k \in others : \A o \in others : g[k].sequence <= g[o].sequence
    IN IF Cardinality(others) >= MaxGrants THEN [g EXCEPT ![oldest] = Unset] ELSE g

\* grants_ after approve.
Approved(key, decision, now) ==
    [WithinCeiling(Reaped(grants, now), key) EXCEPT ![key] =
       [expires_at |-> now + decision.approval_ttl, remaining_uses |-> decision.replay_max,
        sequence |-> sequence]]

\* Whether check accepts the token for the key.
Honoured(g, token, key, now) ==
    verify(token, key, now) /\ g[key] # Unset /\ g[key].remaining_uses > 0

\* Mutant of Charged: the replay counter is not decremented.
ChargedNothing(g, key) == g

Charged(g, key) == [g EXCEPT ![key].remaining_uses = @ - 1]

-----------------------------------------------------------------------------
\* One dispatch.

\* Up to the first gate, for a tool with the runtime policy or a permissioned one.
\* The context was cloned just now, with a token the caller kept or with none.
Dispatch(c) ==
    /\ call[c].pc = "idle"
    /\ \E runtime \in BOOLEAN, token \in tokens \cup {Unset} :
         Frame(c, [call[c] EXCEPT !.pc = "gate", !.runtime = runtime, !.now = clock, !.token = token,
                                  !.gates = Gates("tool_before")])
    /\ UNCHANGED <<clock, subscribed, grants, sequence, tokens, ledger>>

\* A sink answers the tool_before gate.
Gate(c) ==
    LET f == call[c]
    IN /\ f.pc = "gate" /\ ~Settled(f.gates, f.trace)
       /\ \E a \in Answers({FALSE}) : Frame(c, [f EXCEPT !.trace = Append(@, a)])
       /\ UNCHANGED <<clock, subscribed, grants, sequence, tokens, ledger>>

\* The gate is settled.  A veto, a rewrite without an input and an escalation of a
\* runtime tool block the call; so does an input that cannot be prepared.
\* Otherwise the final input waits for its path lock.
Prepare(c) ==
    LET f == call[c]
        kind == IF f.trace = <<>> THEN "proceed" ELSE Last(f.trace).kind
    IN /\ f.pc = "gate" /\ Settled(f.gates, f.trace)
       /\ \E input \in IF kind = "rewrite" THEN Inputs \cup {Unset} ELSE {f.input}, prepared \in BOOLEAN :
            LET blocked == \/ kind = "veto" \/ input = Unset
                           \/ kind = "require_approval" /\ f.runtime
            IN Frame(c, IF blocked \/ ~prepared
                        THEN Planned(f, "refused")
                        ELSE [f EXCEPT !.pc = "lock", !.input = input, !.since = clock])
       /\ UNCHANGED <<clock, subscribed, grants, sequence, tokens, ledger>>

\* A hook asks for approval of a call that the policies allow.
require_approval_decision(d) == IF d.verdict = "allow" THEN [d EXCEPT !.verdict = "ask"] ELSE d

\* A path outside the workspace is approved for one use.
require_workspace_override_approval(d) ==
    IF d.verdict = "allow" THEN [d EXCEPT !.verdict = "ask", !.replay_max = 1] ELSE d

\* Mutant of Evaluated: the policies judge the input before the hook's rewrite.
EvaluatedRequested(c) == Policy[Requested[c]]

\* What the policies say of the final input; a runtime tool has none.
Evaluated(c) ==
    IF call[c].runtime
    THEN [verdict |-> "allow", reason |-> 0, replay_max |-> DefaultReplays, approval_ttl |-> DefaultTtl]
    ELSE Policy[call[c].input]

\* The decision after the hook's escalation and the one for the path.
Decision(c, escalated, override) ==
    LET hooked == IF escalated THEN require_approval_decision(Evaluated(c)) ELSE Evaluated(c)
    IN IF override THEN require_workspace_override_approval(hooked) ELSE hooked

\* check_token on the grants g, charging the use.
Check(c, f, g, token) ==
    IF Honoured(g, token, KeyOf(c), f.now)
    THEN /\ Frame(c, Planned(f, "approved"))
         /\ grants' = Charged(g, KeyOf(c))
    ELSE /\ Frame(c, Planned(f, "refused"))
         /\ grants' = g

Spent(c) ==
    IF call'[c].plan = "approved" THEN [ledger EXCEPT ![KeyOf(c)].used = @ + 1] ELSE ledger

\* A decided call: an ask goes to the token of the context or to the prompt.
Decided(c, f) ==
    LET ends(plan) == Frame(c, Planned(f, plan)) /\ UNCHANGED <<grants, ledger>>
        prompt == Gates("permission_ask_rendered")
    IN IF f.path = "error" \/ f.decision.verdict = "deny" THEN ends("refused")
       ELSE IF f.decision.verdict = "allow" THEN ends("allow")
       ELSE IF f.token # Unset THEN Check(c, f, grants, f.token) /\ ledger' = Spent(c)
       ELSE IF prompt = <<>> THEN ends("refused")
       ELSE /\ Frame(c, [f EXCEPT !.pc = "ask", !.prompt = prompt])
            /\ UNCHANGED <<grants, ledger>>

\* The lock is granted, and the wait for it counts as time of the dispatch.  The
\* path is resolved under it and the policy decides.
Decide(c) ==
    LET f == call[c]
        escalated == f.trace # <<>> /\ Last(f.trace).kind = "require_approval"
    IN /\ f.pc = "lock"
       /\ \E path \in IF f.runtime THEN {"inside"} ELSE {"inside", "override", "error"} :
            Decided(c, [f EXCEPT !.now = Now(c), !.since = 0, !.path = path,
                                 !.decision = Decision(c, escalated, path = "override")])
       /\ UNCHANGED <<clock, subscribed, sequence, tokens>>

\* A sink answers the prompt, which has no timeout.
Ask(c) ==
    LET f == call[c]
    IN /\ f.pc = "ask" /\ ~Settled(f.prompt, f.asked)
       /\ \E a \in Answers(BOOLEAN) : Frame(c, [f EXCEPT !.asked = Append(@, a)])
       /\ UNCHANGED <<clock, subscribed, grants, sequence, tokens, ledger>>

\* resolve_ask after the prompt: only sinks that all proceed, one of them naming
\* the operator, approve.  The grant is issued and used at the time of the
\* dispatch, which did not move while the prompt waited.
Resolve(c) ==
    LET f == call[c]
        key == KeyOf(c)
        token == issue(key, f.decision.approval_ttl, f.now)
    IN /\ f.pc = "ask" /\ Settled(f.prompt, f.asked)
       /\ IF Last(f.asked).kind = "proceed" /\ \E i \in DOMAIN f.asked : f.asked[i].reason
          THEN /\ Check(c, f, Approved(key, f.decision, f.now), token)
               /\ sequence' = sequence + 1
               /\ tokens' = tokens \cup {token}
               /\ ledger' = [ledger EXCEPT ![key] = [granted |-> f.decision.replay_max,
                                                     used |-> IF call'[c].plan = "approved" THEN 1 ELSE 0]]
          ELSE /\ Frame(c, Planned(f, "refused"))
               /\ UNCHANGED <<grants, sequence, tokens, ledger>>
       /\ UNCHANGED <<clock, subscribed>>

\* write_audit: the row is stored, the write fails, or the call is cancelled after
\* the row was stored.  Only a row that is reported stored lets the handler start.
Record(c) ==
    LET f == call[c]
    IN /\ f.pc = "audit"
       /\ \E written \in BOOLEAN, cancelled \in BOOLEAN :
            IF written /\ ~cancelled /\ f.plan \in {"allow", "approved"}
            THEN Frame(c, [f EXCEPT !.pc = "run", !.row = [input |-> f.input, plan |-> f.plan]])
            ELSE Ended(c)
       /\ UNCHANGED <<clock, subscribed, grants, sequence, tokens, ledger>>

HandlerEnds(c) ==
    /\ call[c].pc = "run"
    /\ Ended(c)
    /\ UNCHANGED <<clock, subscribed, grants, sequence, tokens, ledger>>

Next ==
    \/ Tick \/ subscribe
    \/ \E c \in Calls : \/ Dispatch(c) \/ Gate(c) \/ Prepare(c) \/ Decide(c)
                        \/ Ask(c) \/ Resolve(c) \/ Record(c) \/ HandlerEnds(c)

Spec == Init /\ [][Next]_vars

-----------------------------------------------------------------------------
\* Payloads: what a publication hands to its sinks.  A payload has the tool input
\* and its redacted form, the structured output, and memory text of its records.

redact_payload(p) ==
    [p EXCEPT !.input = IF p.redacted_input # Unset THEN p.redacted_input ELSE @,
              !.data = IF p.after THEN Unset ELSE @,
              !.records = [i \in DOMAIN @ |-> IF @[i].redacted THEN [@[i] EXCEPT !.text = Unset] ELSE @[i]]]

\* At most one snapshot of each kind, made only when some sink needs it.
make_shared_payloads(trust, p) ==
    LET needs_trusted == \E i \in DOMAIN trust : trust[i]
        needs_redacted == ~\A i \in DOMAIN trust : trust[i]
    IN [trusted |-> IF needs_trusted THEN p ELSE Unset,
        redacted |-> IF needs_redacted THEN redact_payload(p) ELSE Unset]

for_sink(shared, trusted_local) == IF trusted_local THEN shared.trusted ELSE shared.redacted

-----------------------------------------------------------------------------
\* Properties.

\* A handler runs only past its gates: every sink that decides and had subscribed
\* when the gate opened let the call proceed, or the first that did not rewrote it
\* or asked for approval; its path was resolved; the policies do not deny the input
\* that runs; an ask, theirs or a sink's, was approved, and so was a path outside the
\* workspace; and a durable row has that very input.
EffectsGated ==
    \A c \in Calls : call[c].pc = "run" =>
      LET f == call[c]
          n == Len(f.trace)
          verdict == Policy[f.input].verdict
      IN /\ \A i \in 1 .. n : f.trace[i].kind = "proceed" \/ (i = n /\ f.trace[i].kind # "veto")
         /\ n = Len(f.gates) \/ (n > 0 /\ f.trace[n].kind # "proceed")
         /\ ~f.runtime =>
              /\ verdict # "deny" /\ f.path \in {"inside", "override"}
              /\ \/ verdict = "ask" \/ f.path = "override"
                 \/ n > 0 /\ f.trace[n].kind = "require_approval"
                 => f.plan = "approved"
         /\ f.row = [input |-> f.input, plan |-> f.plan]

\* A grant is used at most as often as the operator's last approval of the same
\* identity and input allows, whoever holds tokens for it and however approvals
\* overlap; and an identity never has more grants than the ceiling.
GrantsCharged ==
    /\ \A k \in Key :
         /\ ledger[k].used <= ledger[k].granted
         /\ grants[k] # Unset => grants[k].remaining_uses + ledger[k].used = ledger[k].granted
    /\ \A k \in Key :
         Cardinality({o \in Key : o.identity = k.identity /\ grants[o] # Unset}) <= MaxGrants

\* An expired grant fails every check: "expired entries simply fail `check` via the
\* underlying authority's expiry check, then linger until reaped or overwritten".
ExpiredGrantsFailStep ==
    \A c \in Calls :
      call[c].plan # "approved" /\ call'[c].plan = "approved"
        => Now(c) < grants'[KeyOf(c)].expires_at

ExpiredGrantsFail == [][ExpiredGrantsFailStep]_vars

\* Every sink of a publication gets a payload: a trusted one the original, any
\* other one with nothing left of what has a redacted form.
SinksServed(trust, p) ==
    \A i \in DOMAIN trust :
      LET seen == for_sink(make_shared_payloads(trust, p), trust[i])
      IN /\ seen # Unset
         /\ IF trust[i] THEN seen = p
            ELSE /\ p.redacted_input # Unset => seen.input = p.redacted_input
                 /\ p.redacted_input = Unset => seen.input = p.input
                 /\ p.after => seen.data = Unset
                 /\ \A r \in DOMAIN p.records : p.records[r].redacted <=> seen.records[r].text = Unset
=============================================================================
