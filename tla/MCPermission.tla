----------------------------- MODULE MCPermission -----------------------------
\* The gates before an effect for two dispatches under a policy and the one of
\* its parent, beside two tables of inputs: calls for the policy, and payloads.
EXTENDS Approvals, TLC

CONSTANTS c1, c2, i1, i2, i3, u, raw, redacted

VARIABLES part, input

Symmetry == Permutations(Calls)
MCIdentity == [c \in Calls |-> u]
MCRequested == [c \in Calls |-> i1]

Configured(verdict, pattern, capability, inputs, replays, ttl) ==
    [verdict |-> verdict, tool_pattern |-> pattern, capability |-> capability,
     input_pattern |-> inputs, replay_max |-> replays, approval_ttl |-> ttl]

\* i1 is asked for by both policies, i2 allowed and i3 denied by the parent.
OwnRules == materialize_permissions("default", << Configured("allow", <<"*">>, "write_file", {i2}, Unset, Unset) >>)
ParentRules ==
    materialize_permissions("permissive",
        << Configured("ask", <<"a", "*">>, Unset, {i1}, Unset, 1),
           Configured("deny", <<"*">>, "write_file", {i3}, Unset, Unset) >>)
Own == [rules |-> OwnRules, mode |-> "default"]
Parent == [rules |-> ParentRules, mode |-> "permissive"]
MCTool == <<"a", "b">>
PolicyTable == [i \in Inputs |-> Authorized(Own, Parent, MCTool, i, << "write_file" >>)]
MCPolicy == PolicyTable
MCSinks == << "host", "guard" >>
MCDeciders == [tool_before |-> {"host", "guard"}, permission_ask_rendered |-> {"host", "guard"}]
PromptOnly == [tool_before |-> {}, permission_ask_rendered |-> {"host"}]

\* Calls for the policy.
Patterns == UNION {[1 .. n -> {"a", "b", "*"}] : n \in 0 .. 4}
Texts == UNION {[1 .. n -> {"a", "b"}] : n \in 0 .. 4}
RuleTable ==
    {Configured(v, p, k, m, r, Unset) :
       v \in Verdicts, p \in {<<"*", "b">>, <<"b">>}, k \in {Unset, "write_file"}, m \in {Unset, {i1}},
       r \in {Unset, 1}}
      \ {Configured(v, p, k, m, 1, Unset) :
           v \in {"allow", "deny"}, p \in {<<"*", "b">>, <<"b">>}, k \in {Unset, "write_file"}, m \in {Unset, {i1}}}
RuleLists == {<<>>} \cup {<<r>> : r \in RuleTable} \cup {<<r, s>> : r \in RuleTable, s \in RuleTable}
CapabilityLists == {<<>>, <<"read_file">>, <<"read_file", "write_file">>, <<"write_file", "read_file">>,
                    <<"write_file", "delete_path">>}
Modes == {"strict", "sandboxed", "default", "permissive"}
PolicyInputs ==
    [kind : {"glob"}, pattern : Patterns, text : Texts]
      \cup [kind : {"call"}, mode : Modes, rules : RuleLists, capabilities : CapabilityLists,
            input : {i1, i2}]

\* Payloads.
Records == [text : {raw}, redacted : BOOLEAN]
Payloads == [input : {raw}, redacted_input : {redacted, Unset}, data : {raw, Unset}, after : BOOLEAN,
             records : {<<>>} \cup {<<r>> : r \in Records} \cup {<<r, s>> : r \in Records, s \in Records}]
PayloadInputs == [kind : {"payload"}, trust : UNION {[1 .. n -> BOOLEAN] : n \in 0 .. 3}, payload : Payloads]

-----------------------------------------------------------------------------
MCInit ==
    /\ Init
    /\ \/ part = "approvals" /\ input = Unset
       \/ part = "policy" /\ input \in PolicyInputs
       \/ part = "payload" /\ input \in PayloadInputs

MCNext == part = "approvals" /\ Next /\ UNCHANGED <<part, input>>

MCSpec == MCInit /\ [][MCNext]_<<vars, part, input>>

\* The dispatches alone.
ApprovalsSpec == Init /\ part = "approvals" /\ input = Unset /\ [][MCNext]_<<vars, part, input>>

-----------------------------------------------------------------------------
\* The matcher accepts exactly the texts its pattern denotes.  The decision on a
\* call, alone and for a child of the agent above, is the strictest over the
\* policies and the required capabilities, with the smallest limits of the asks; no
\* configured rule lifts a denial of the baseline.
PolicyExact ==
    part = "policy" =>
      IF input.kind = "glob" THEN glob_match(input.pattern, input.text) <=> Denotes(input.pattern, input.text)
      ELSE LET rules == materialize_permissions(input.mode, input.rules)
               own == [rules |-> rules, mode |-> input.mode]
               c == [tool |-> MCTool, input |-> input.input, capabilities |-> input.capabilities]
           IN \A above \in {Unset, Parent} :
                Exact({own, above} \ {Unset}, c, Authorized(own, above, c.tool, c.input, c.capabilities))

\* Every sink of a publication gets the payload its trust calls for.
PayloadsServed == part = "payload" => SinksServed(input.trust, input.payload)

\* The policy decides what its rules say, and the sinks see what they may.
DecisionsExact == PolicyExact /\ PayloadsServed

=============================================================================
