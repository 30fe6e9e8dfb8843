------------------------------ MODULE Permission ------------------------------
(***************************************************************************)
(* The policy core (src/src/oran-permission/rule_set.cpp, defaults.cpp)    *)
(* and its compilation from the configuration (src/src/oran-bootstrap/     *)
(* permissions.cpp).  Tool names and patterns are sequences of characters; *)
(* an input expression is the set of inputs it matches.                    *)
(***************************************************************************)
EXTENDS Naturals, Sequences, FiniteSets, FiniteSetsExt, SequencesExt

CONSTANTS
    Inputs,         \* tool inputs
    Unset,          \* an optional without a value
    DefaultReplays, \* Rule::replay_max where nothing sets it
    DefaultTtl      \* Rule::approval_ttl where nothing sets it

Verdicts == {"allow", "ask", "deny"}

\* The pattern from pi on can match nothing more.
stars_only(pattern, pi) == \A i \in pi .. Len(pattern) : pattern[i] = "*"

\* The two-pointer matcher: a mismatch goes back to the last star, which then
\* swallows one more character.  star = 0 is npos.
glob_match(pattern, text) ==
    LET walk[s \in [pi : 1 .. Len(pattern) + 1, ti : 1 .. Len(text) + 1,
                    star : 0 .. Len(pattern), match : 0 .. Len(text) + 1]] ==
          IF s.ti > Len(text)
          THEN stars_only(pattern, s.pi)
          ELSE IF s.pi <= Len(pattern) /\ pattern[s.pi] = "*"
          THEN walk[[s EXCEPT !.star = s.pi, !.pi = @ + 1, !.match = s.ti]]
          ELSE IF s.pi <= Len(pattern) /\ pattern[s.pi] = text[s.ti]
          THEN walk[[s EXCEPT !.pi = @ + 1, !.ti = @ + 1]]
          ELSE IF s.star # 0
          THEN walk[[s EXCEPT !.pi = s.star + 1, !.match = @ + 1, !.ti = s.match + 1]]
          ELSE FALSE
    IN walk[[pi |-> 1, ti |-> 1, star |-> 0, match |-> 0]]

-----------------------------------------------------------------------------
\* Rules.

Rule(verdict, capability) ==
    [verdict |-> verdict, tool_pattern |-> <<"*">>, capability |-> capability,
     input_pattern |-> Unset, replay_max |-> DefaultReplays, approval_ttl |-> DefaultTtl]

default_rules(mode) ==
    CASE mode = "default" ->
           << Rule("deny", "runtime_loader"), Rule("deny", "delete_path"),
              Rule("allow", "read_file"), Rule("ask", "write_file"), Rule("ask", "edit_file"),
              Rule("ask", "spawn_subprocess"), Rule("ask", "egress_http") >>
      [] mode = "permissive" -> << Rule("deny", "runtime_loader"), Rule("deny", "delete_path") >>
      [] mode = "sandboxed" -> << Rule("allow", "read_file") >>
      [] mode = "strict" -> << >>

\* A configured rule as a runtime rule: optional limits fall back to the defaults.
Compiled(config) ==
    [config EXCEPT !.replay_max = IF @ = Unset THEN DefaultReplays ELSE @,
                   !.approval_ttl = IF @ = Unset THEN DefaultTtl ELSE @]

\* The baseline of the mode, then the configured rules in their order.  Every pattern
\* compiles: one that does not is an error and there is no rule set.  Both enumerations
\* have the same verdicts, so the fallback to deny is not taken.
materialize_permissions(mode, global) ==
    default_rules(mode) \o [i \in DOMAIN global |-> Compiled(global[i])]

mode_default_verdict(mode) ==
    CASE mode \in {"strict", "sandboxed"} -> "deny"
      [] mode = "default" -> "ask"
      [] mode = "permissive" -> "allow"

Applies(rule, tool, input, capability) ==
    /\ glob_match(rule.tool_pattern, tool)
    /\ rule.capability \in {Unset, capability}
    /\ rule.input_pattern = Unset \/ input \in rule.input_pattern

\* The first rule of the strongest verdict that has one; `reason` is its index.
evaluate_requirement(rules, tool, input, capability, mode) ==
    LET matching == {i \in DOMAIN rules : Applies(rules[i], tool, input, capability)}
        found == {rules[i].verdict : i \in matching}
        verdict == IF "deny" \in found THEN "deny" ELSE IF "allow" \in found THEN "allow" ELSE "ask"
        first == Min({i \in matching : rules[i].verdict = verdict})
    IN IF matching = {}
       THEN [verdict |-> mode_default_verdict(mode), reason |-> 0,
             replay_max |-> DefaultReplays, approval_ttl |-> DefaultTtl]
       ELSE [verdict |-> verdict, reason |-> first,
             replay_max |-> rules[first].replay_max, approval_ttl |-> rules[first].approval_ttl]

\* Mutant of intersect: the limits of the second ask are not combined in.
intersect_left(left, right) ==
    IF left.verdict = "deny" THEN left
    ELSE IF right.verdict = "deny" THEN right
    ELSE IF right.verdict = "ask" /\ left.verdict # "ask" THEN right
    ELSE left

\* Deny dominates ask, which dominates allow; two asks keep the smaller limits.
intersect(left, right) ==
    IF left.verdict = "deny" THEN left
    ELSE IF right.verdict = "deny" THEN right
    ELSE IF right.verdict = "ask"
    THEN IF left.verdict = "ask"
         THEN [left EXCEPT !.replay_max = Min({@, right.replay_max}),
                           !.approval_ttl = Min({@, right.approval_ttl})]
         ELSE right
    ELSE left

\* Every required capability must be authorized.
evaluate(rules, tool, input, capabilities, mode) ==
    LET requirement(capability) == evaluate_requirement(rules, tool, input, capability, mode)
        combine(combined, capability) ==
          IF combined.verdict = "deny" THEN combined ELSE intersect(combined, requirement(capability))
    IN IF capabilities = <<>> THEN requirement(Unset)
       ELSE FoldLeft(combine, requirement(Head(capabilities)), Tail(capabilities))

\* What a dispatch computes: its context's own policy, then that of its parent.
Authorized(own, parent, tool, input, capabilities) ==
    LET on(p) == evaluate(p.rules, tool, input, capabilities, p.mode)
    IN IF parent = Unset THEN on(own) ELSE intersect(on(parent), on(own))

-----------------------------------------------------------------------------
\* What the policy promises, without the order in which the code looks.

\* The texts a pattern denotes: a star stands for any run of characters.
Denotes(pattern, text) ==
    LET rest[p \in 0 .. Len(pattern), t \in 0 .. Len(text)] ==   \* from p + 1 and t + 1
          IF p = Len(pattern) THEN t = Len(text)
          ELSE IF pattern[p + 1] = "*" THEN \E k \in t .. Len(text) : rest[p + 1, k]
          ELSE t < Len(text) /\ text[t + 1] = pattern[p + 1] /\ rest[p + 1, t + 1]
    IN rest[0, 0]

Strictest(verdicts) ==
    IF "deny" \in verdicts THEN "deny" ELSE IF "ask" \in verdicts THEN "ask" ELSE "allow"

\* The decision on a call under the policies of a child and of its parents: the
\* strictest verdict over every policy and every capability, with the smallest
\* limits among the asks it combines.
Exact(policies, call, decision) ==
    LET needed == IF call.capabilities = <<>> THEN {Unset} ELSE Range(call.capabilities)
        of(p, capability) ==
          evaluate_requirement(p.rules, call.tool, call.input, capability, p.mode)
        all == {of(p, capability) : p \in policies, capability \in needed}
        asks == {d \in all : d.verdict = "ask"}
    IN /\ decision.verdict = Strictest({d.verdict : d \in all})
       /\ decision.verdict = "ask" =>
            /\ decision.replay_max = Min({d.replay_max : d \in asks})
            /\ decision.approval_ttl = Min({d.approval_ttl : d \in asks})
       /\ \A p \in policies, capability \in needed :
            LET said == {p.rules[i].verdict : i \in {i \in DOMAIN p.rules :
                           /\ Denotes(p.rules[i].tool_pattern, call.tool)
                           /\ p.rules[i].capability \in {Unset, capability}
                           /\ p.rules[i].input_pattern = Unset \/ call.input \in p.rules[i].input_pattern}}
            IN of(p, capability).verdict =
                 IF "deny" \in said THEN "deny" ELSE IF "allow" \in said THEN "allow"
                 ELSE IF "ask" \in said THEN "ask" ELSE mode_default_verdict(p.mode)
       /\ \A p \in policies :
            /\ p.mode \in {"default", "permissive"} /\ needed \cap {"delete_path", "runtime_loader"} # {}
                 => decision.verdict = "deny"
            /\ p.mode = "strict" /\ Len(p.rules) = 0 => decision.verdict = "deny"
=============================================================================
