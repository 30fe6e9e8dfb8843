---------------------------- MODULE MCProvider -----------------------------
\* One model call, over answers of every kind; or, apart from it, what a chat
\* shows meanwhile: two deliveries, a preview of one delta in each.
EXTENDS Provider

Blk(f) == Obj([content_block |-> Obj(f)])
Dlt(f) == Obj([delta |-> Obj(f)])
Tool == Obj([type |-> Str("function_call"), id |-> Str("i1"), call_id |-> Str("c1"),
             name |-> Str("read"), arguments |-> Str("{a}")])
Said1 == Obj([type |-> Str("message"), role |-> Str("assistant"),
              content |-> Arr(<<Obj([type |-> Str("output_text"), text |-> Str("hi!")])>>)])
Thought == Obj([type |-> Str("reasoning"),
                summary |-> Arr(<<Obj([type |-> Str("summary_text"), text |-> Str("hm")])>>)])
Whole(items, status) == Obj([output |-> Arr(items), status |-> Str(status), model |-> Str("m2")])

Texts ==
    [x \in {"{}"} |-> Obj([y \in {} |-> Null])] @@
    ("{a}" :> Obj([a |-> Num(1)])) @@
    ("start" :> Obj([message |-> Obj([model |-> Str("m1"), usage |->
                       Obj([input_tokens |-> Num(3), output_tokens |-> Num(1)])])])) @@
    ("btext" :> Blk([type |-> Str("text")])) @@
    ("bthink" :> Blk([type |-> Str("thinking")])) @@
    ("btool" :> Blk([type |-> Str("tool_use"), id |-> Str("t1"), name |-> Str("read")])) @@
    ("hi" :> Dlt([type |-> Str("text_delta"), text |-> Str("hi")])) @@
    ("bang" :> Dlt([type |-> Str("text_delta"), text |-> Str("!")])) @@
    ("hm" :> Dlt([type |-> Str("thinking_delta"), thinking |-> Str("hm")])) @@
    ("sig" :> Dlt([type |-> Str("signature_delta"), signature |-> Str("s")])) @@
    ("in1" :> Dlt([type |-> Str("input_json_delta"), partial_json |-> Str("{")])) @@
    ("in2" :> Dlt([type |-> Str("input_json_delta"), partial_json |-> Str("a}")])) @@
    ("stop" :> Obj([index |-> Num(0)])) @@
    ("tool_use" :> Obj([delta |-> Obj([stop_reason |-> Str("tool_use")]),
                        usage |-> Obj([output_tokens |-> Num(5)])])) @@
    ("end_turn" :> Obj([delta |-> Obj([stop_reason |-> Str("end_turn")])])) @@
    ("err" :> Obj([error |-> Obj([type |-> Str("overloaded_error")])])) @@
    ("body" :> Obj([content |-> Arr(<<Obj([type |-> Str("text"), text |-> Str("hi!")])>>),
                    stop_reason |-> Str("end_turn"), model |-> Str("m1")])) @@
    ("added" :> Obj([item |-> Tool])) @@
    ("args1" :> Obj([item_id |-> Str("i1"), delta |-> Str("{")])) @@
    ("args2" :> Obj([item_id |-> Str("i1"), delta |-> Str("a}")])) @@
    ("argsdone" :> Obj([item_id |-> Str("i1"), name |-> Str("read"), arguments |-> Str("{a}")])) @@
    ("otext1" :> Obj([delta |-> Str("hi")])) @@
    ("otext2" :> Obj([delta |-> Str("!")])) @@
    ("othink" :> Obj([delta |-> Str("hm")])) @@
    ("completed" :> Obj([response |-> Whole(<<Thought, Said1, Tool>>, "completed")])) @@
    ("failed" :> Obj([response |-> Obj([error |-> Obj([code |-> Str("rate_limit_exceeded")])])])) @@
    ("obody" :> Whole(<<Said1>>, "completed"))

\* A stream of events in their plainest form, nine symbols each.
Ev(type, text) == <<[event |-> type, data |-> text]>>
Frame(e) == <<"event", ":", e.event, "\n", "data", ":", e.data, "\n", "\n">>
Delta(text) == Ev("content_block_delta", text)
Block(kind, deltas) == Ev("content_block_start", kind) \o deltas \o Ev("content_block_stop", "stop")
Ending(reason) == Ev("message_delta", reason) \o Ev("message_stop", "stop")

Wired(protocol, wire, events, framed, meant) ==
    [protocol |-> protocol, status |-> 200, event_stream |-> TRUE, framed |-> framed,
     wire |-> wire, events |-> events, meant |-> meant]
SSE(protocol, evs, framed, meant) ==
    Wired(protocol, <<>> \o [i \in 1..(9 * Len(evs)) |-> Frame(evs[((i - 1) \div 9) + 1])[((i - 1) % 9) + 1]],
          <<>> \o [k \in 1..Len(evs) |-> [at |-> 9 * k, event |-> evs[k].event, data |-> evs[k].data]],
          framed, meant)
Plain(protocol, status, wire, meant) ==
    [protocol |-> protocol, status |-> status, event_stream |-> FALSE, framed |-> TRUE,
     wire |-> wire, events |-> <<>>, meant |-> meant]

An == "anthropic_messages"
Oa == "openai_responses"
ToolAnswer == Response(<<TextContent("hi!"), ToolUseContent("t1", "read", Obj([a |-> Num(1)]))>>,
                       "tool_use", Usage(3, 5, 0, 0), <<"m1">>)
ThinkAnswer == Response(<<ThinkingContent("hm", <<"s">>), TextContent("hi")>>,
                        "end_turn", Usage(3, 1, 0, 0), <<"m1">>)
OpenAnswer == Response(<<ThinkingContent("hm", <<>>), TextContent("hi!"),
                         ToolUseContent("c1", "read", Obj([a |-> Num(1)]))>>,
                       "tool_use", NoUsage, <<"m2">>)

\* A comment, a ping with CRLF, an event without data, one of two lines.
Oddities ==
    Wired(An, <<":", "x", "\n", "event", ":", " ", "ping", "\r", "\n", "data", ":", " ", "stop", "\r",
                "\n", "\r", "\n", "event", ":", "error", "\n", "\n",
                "data", ":", "a", "\n", "data", ":", "b", "\n", "\n">>,
          <<[at |-> 17, event |-> "ping", data |-> "stop"],
            [at |-> 31, event |-> "message", data |-> "a\nb"]>>, TRUE, <<>>)
LongData == Wired(An, <<"data", ":", "a", "b", "c", "d", "\n", "\n">>, <<>>, TRUE, <<>>)
LongLine == Wired(An, <<"data", ":", "a", "b", "c", "d", "e", "f", "g", "\n", "\n">>, <<>>, TRUE, <<>>)

ToolStream == Ev("message_start", "start") \o Block("btext", Delta("hi") \o Delta("bang"))
                \o Block("btool", Delta("in1") \o Delta("in2")) \o Ending("tool_use")
ThinkStream == Ev("message_start", "start") \o Block("bthink", Delta("hm") \o Delta("sig"))
                 \o Block("btext", Delta("hi")) \o Ending("end_turn")
OpenStream == Ev("response.output_item.added", "added")
                \o Ev("response.reasoning_summary_text.delta", "othink")
                \o Ev("response.output_text.delta", "otext1")
                \o Ev("response.function_call_arguments.delta", "args1")
                \o Ev("response.output_text.delta", "otext2")
                \o Ev("response.function_call_arguments.delta", "args2")
                \o Ev("response.function_call_arguments.done", "argsdone")
                \o Ev("response.completed", "completed")
Greeting(model) == <<Response(<<TextContent("hi!")>>, "end_turn", NoUsage, <<model>>)>>

Servers ==
    ("none" :> Plain("none", 0, <<>>, <<>>)) @@
    ("tool" :> SSE(An, ToolStream, TRUE, <<ToolAnswer>>)) @@
    ("think" :> SSE(An, ThinkStream, FALSE, <<ThinkAnswer>>)) @@
    ("flood" :> SSE(An, ToolStream \o Ev("ping", "stop"), TRUE, <<ToolAnswer>>)) @@
    ("early_error" :> SSE(An, Ev("message_start", "start") \o Ev("error", "err"), TRUE, <<>>)) @@
    ("late_error" :> SSE(An, Ev("content_block_start", "btext") \o Delta("hi")
                               \o Ev("error", "err"), TRUE, <<>>)) @@
    ("bad_tool" :> SSE(An, Block("btool", Delta("in1")), TRUE, <<>>)) @@
    ("odd" :> Oddities) @@ ("long_data" :> LongData) @@ ("long_line" :> LongLine) @@
    ("limited" :> Plain(An, 429, <<"no">>, <<>>)) @@
    ("rejected" :> Plain(An, 400, <<"no">>, <<>>)) @@
    ("body" :> Plain(An, 200, <<"bo", "dy">>, Greeting("m1"))) @@
    ("open" :> SSE(Oa, OpenStream, FALSE, <<OpenAnswer>>)) @@
    ("failed" :> SSE(Oa, Ev("response.created", "stop") \o Ev("response.failed", "failed"), TRUE, <<>>)) @@
    ("down" :> Plain(Oa, 503, <<"no">>, <<>>)) @@
    ("obody" :> Plain(Oa, 200, <<"ob", "ody">>, Greeting("m2")))

Text(role, text) == [role |-> role, blocks |-> <<TextContent(text)>>]
Req(stream, budget) ==
    [messages |-> <<Text("user", "go")>>, system_prompt |-> "be brief", tools |-> <<>>, tool_choice |-> "",
     max_tokens |-> 9, thinking_budget |-> budget, stream |-> stream, cache |-> <<>>]
Cached == [Req(TRUE, 0) EXCEPT !.cache = <<5>>, !.tool_choice = "any",
             !.tools = <<[name |-> "read", schema |-> Obj([a |-> Num(1)])]>>,
             !.messages = <<Text("system", "one"), Text("user", "go"), Text("system", "two")>>]
MCRequests == {Req(TRUE, 0), Req(FALSE, 2), Cached, [Cached EXCEPT !.system_prompt = "", !.stream = FALSE]}

Profile(name, provider, protocol) ==
    [profile |-> name, model |-> "m", provider |-> provider, protocol |-> protocol,
     base_url |-> "https://", api_key_env |-> "KEY", thinking_budget |-> 0,
     cache |-> [enabled |-> TRUE, min_prefix_bytes |-> 0]]
Profiles == <<Profile("a", "claude", ""), Profile("b", "x", "openai_responses"),
              Profile("c", "deepseek", "")>>
Config(route) == [profiles |-> Profiles, route |-> route, secrets |-> {"KEY"}]
Routes ==
    ("claude first" :> Config(<<"a", "b">>)) @@ ("openai first" :> Config(<<"b", "a">>)) @@
    ("unsupported" :> Config(<<"a", "c">>)) @@ ("twice" :> Config(<<"a", "a">>)) @@
    ("missing" :> Config(<<"z">>))

\* TLC evaluates the definitions above once.
MCJson == Texts
MCAnswers == Servers
MCConfigs == Routes

-----------------------------------------------------------------------------
CONSTANT None

VARIABLES
    part,       \* which of the two this behaviour is of
    turn, updater, message, phase, shown_phase, preview, shown_text, failures, closing, admitted,
    woken, joined, stopped, turn_cancelled, waits, spoken, rounds

shown == <<turn, updater, message, phase, shown_phase, preview, shown_text, failures, closing, admitted,
           woken, joined, stopped, turn_cancelled, waits, spoken, rounds>>

V == INSTANCE Presentation WITH
        text <- preview, deltas <- spoken, cancelled <- turn_cancelled, Deliveries <- 2, MaxDeltas <- 1

\* The presentation runs beside the first of the calls.
AnyCall == CHOOSE c \in DOMAIN Configs : TRUE
AnyRequest == CHOOSE r \in Requests : TRUE
CallInit ==
    /\ part \in {"call", "presentation"}
    /\ Init /\ V!Init
    /\ part = "presentation" => call.config = AnyCall /\ call.request = AnyRequest /\ call.max_attempts = 1

CallNext ==
    /\ UNCHANGED part
    /\ \/ part = "call" /\ Next /\ UNCHANGED shown
       \/ part = "presentation" /\ V!Next /\ UNCHANGED providerVars

\* Provider's fairness, for a call.  The turn and the sends of the updater end, and
\* the strand runs both.
CallSpec ==
    /\ CallInit /\ [][CallNext]_<<part, providerVars, shown>>
    /\ WF_providerVars(part = "call" /\ (Build \/ StartAttempt \/ Wake))
    /\ WF_providerVars(part = "call" /\ (Consume \/ Complete))
    /\ WF_providerVars(part = "call" /\ Expires)
    /\ WF_shown(part = "presentation" /\ V!Update)
    /\ WF_shown(part = "presentation" /\ V!Finish)
    /\ WF_shown(part = "presentation" /\ V!Deliver)

\* Every call of the model returns, whatever the server does (run, libcurl's
\* timeout, the strand's completion).
CallEnds == <>(part = "presentation" \/ call.pc = "returned")

\* The updater uses the message only while it is borrowed and sends nothing after
\* the answer, and every delivery returns (presentation.cpp).
Presented ==
    /\ [](part = "presentation" => V!ShownSafely)
    /\ part = "presentation" /\ turn.at # "done" ~> turn.at = "done"
=============================================================================
