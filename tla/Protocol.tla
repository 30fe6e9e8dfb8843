------------------------------ MODULE Protocol ------------------------------
(* The two wire protocols of oran-provider: how a request is written, how a *)
(* response body is read, and how the events of a stream are assembled.     *)
(*                                                                          *)
(* A JSON value is a record of one field that says its type.  A text that   *)
(* the JSON library refuses is Bad.  Content blocks keep the source's       *)
(* fields; an optional is a sequence of at most one element.                *)
EXTENDS Integers, SequencesExt

CONSTANT Json      \* the texts that are JSON, and the value each one parses to

Str(s) == [str |-> s]
Num(n) == [num |-> n]
Arr(q) == [arr |-> q]
Obj(f) == [obj |-> f]
Null == [null |-> "null"]
Bad == [bad |-> "bad"]
Absent == [absent |-> "absent"]

Is(type, j) == type \in DOMAIN j

\* A text of a value; the library dumps what parses back to the value.
dump(value) == CHOOSE text \in DOMAIN Json : Json[text] = value

parse(text) == IF text \in DOMAIN Json THEN Json[text] ELSE Bad

Ok(x) == [ok |-> x]
Error(kind) == [error |-> kind]
Failed(r) == "error" \in DOMAIN r
\* Every error of these files but the vendor's own is Error::parsing.
Malformed == Error("parsing")

member(j, key) == IF Is("obj", j) /\ key \in DOMAIN j.obj THEN j.obj[key] ELSE Absent

string_or_empty(j, key) == IF Is("str", member(j, key)) THEN member(j, key).str ELSE ""

u64_or_zero(j, key) ==
    IF Is("num", member(j, key)) /\ member(j, key).num >= 0 THEN member(j, key).num ELSE 0

required_string(j, key) == Is("str", member(j, key))

\* null and a missing key both stand for the empty string, or for zero.
Unset(j) == Is("absent", j) \/ Is("null", j)
optional_string(j, key) == Unset(member(j, key)) \/ Is("str", member(j, key))
optional_u64(j, key) ==
    Unset(member(j, key)) \/ (Is("num", member(j, key)) /\ member(j, key).num >= 0)

optional(s) == IF s = "" THEN <<>> ELSE <<s>>

TextContent(text) == [kind |-> "text", text |-> text]
ThinkingContent(text, signature) == [kind |-> "thinking", text |-> text, signature |-> signature]
ToolUseContent(id, name, input) == [kind |-> "tool_use", id |-> id, name |-> name, input |-> input]

StopReasons == {"end_turn", "max_tokens", "tool_use", "stop_sequence", "cancelled", "error"}
anthropic_stop_reason(s) == IF s \in StopReasons THEN s ELSE "error"

Usage(input, output, creation, read) ==
    [input |-> input, output |-> output, creation |-> creation, read |-> read]
NoUsage == Usage(0, 0, 0, 0)

-----------------------------------------------------------------------------
(* protocol_response.cpp: the body of a response                            *)

anthropic_content_block(b) ==
    LET type == string_or_empty(b, "type") IN
    CASE type = "text" /\ required_string(b, "text") ->
           Ok(<<TextContent(string_or_empty(b, "text"))>>)
      [] type = "thinking" /\ required_string(b, "thinking") /\ optional_string(b, "signature") ->
           Ok(<<ThinkingContent(string_or_empty(b, "thinking"),
                                optional(string_or_empty(b, "signature")))>>)
      [] type = "tool_use" /\ required_string(b, "id") /\ required_string(b, "name")
           /\ Is("obj", member(b, "input")) ->
           Ok(<<ToolUseContent(string_or_empty(b, "id"), string_or_empty(b, "name"),
                               member(b, "input"))>>)
      [] OTHER -> Malformed

\* The decoded blocks of a list, one after another; the first error ends it.
Decoded(q, Decode(_)) ==
    IF \E i \in DOMAIN q : Failed(Decode(q[i]))
      THEN Malformed
      ELSE Ok(FlattenSeq([i \in DOMAIN q |-> Decode(q[i]).ok]))

anthropic_usage(body) ==
    LET u == member(body, "usage") IN
    CASE Unset(u) -> Ok(NoUsage)
      [] Is("obj", u) /\ \A k \in {"input_tokens", "output_tokens",
           "cache_creation_input_tokens", "cache_read_input_tokens"} : optional_u64(u, k) ->
           Ok(Usage(u64_or_zero(u, "input_tokens"), u64_or_zero(u, "output_tokens"),
                    u64_or_zero(u, "cache_creation_input_tokens"),
                    u64_or_zero(u, "cache_read_input_tokens")))
      [] OTHER -> Malformed

Response(blocks, stop, usage, model) ==
    [blocks |-> blocks, stop_reason |-> stop, usage |-> usage, model_used |-> model]

decode_anthropic_response(body) ==
    IF /\ Is("arr", member(body, "content"))
       /\ ~Failed(Decoded(member(body, "content").arr, anthropic_content_block))
       /\ required_string(body, "stop_reason")
       /\ ~Failed(anthropic_usage(body))
       /\ optional_string(body, "model")
      THEN Ok(Response(Decoded(member(body, "content").arr, anthropic_content_block).ok,
                       anthropic_stop_reason(string_or_empty(body, "stop_reason")),
                       anthropic_usage(body).ok, optional(string_or_empty(body, "model"))))
      ELSE Malformed

output_text(b) ==
    IF string_or_empty(b, "type") = "output_text" /\ required_string(b, "text")
      THEN Ok(<<TextContent(string_or_empty(b, "text"))>>)
      ELSE Malformed

append_openai_message_content(item) ==
    IF /\ optional_string(item, "role")
       /\ string_or_empty(item, "role") \in {"", "assistant"}
       /\ Is("arr", member(item, "content"))
      THEN Decoded(member(item, "content").arr, output_text)
      ELSE Malformed

\* An entry of another type than summary_text is skipped.
summary_text(entry) ==
    CASE ~required_string(entry, "type") -> Malformed
      [] required_string(entry, "type") /\ string_or_empty(entry, "type") # "summary_text" ->
           Ok(<<>>)
      [] string_or_empty(entry, "type") = "summary_text" /\ required_string(entry, "text") ->
           Ok(<<ThinkingContent(string_or_empty(entry, "text"), <<>>)>>)
      [] OTHER -> Malformed

append_openai_reasoning(item) ==
    LET summary == member(item, "summary") IN
    CASE Unset(summary) -> Ok(<<>>)
      [] Is("arr", summary) -> Decoded(summary.arr, summary_text)
      [] OTHER -> Malformed

append_openai_function_call(item) ==
    IF /\ \A k \in {"call_id", "name", "arguments"} : required_string(item, k)
       /\ Is("obj", parse(string_or_empty(item, "arguments")))
      THEN Ok(<<ToolUseContent(string_or_empty(item, "call_id"), string_or_empty(item, "name"),
                               parse(string_or_empty(item, "arguments")))>>)
      ELSE Malformed

openai_item(item) ==
    CASE string_or_empty(item, "type") = "message" -> append_openai_message_content(item)
      [] string_or_empty(item, "type") = "reasoning" -> append_openai_reasoning(item)
      [] string_or_empty(item, "type") = "function_call" -> append_openai_function_call(item)
      [] OTHER -> Malformed

openai_usage(body) ==
    LET u == member(body, "usage")
        details == member(u, "input_tokens_details")
    IN
    CASE Unset(u) -> Ok(NoUsage)
      [] Is("obj", u) /\ optional_u64(u, "input_tokens") /\ optional_u64(u, "output_tokens")
           /\ (Unset(details) \/ (Is("obj", details) /\ optional_u64(details, "cached_tokens"))) ->
           Ok(Usage(u64_or_zero(u, "input_tokens"), u64_or_zero(u, "output_tokens"), 0,
                    u64_or_zero(details, "cached_tokens")))
      [] OTHER -> Malformed

openai_status_stop_reason(status, has_tool_use, body) ==
    CASE status = "completed" -> IF has_tool_use THEN "tool_use" ELSE "end_turn"
      [] status = "cancelled" -> "cancelled"
      [] status = "incomplete" /\ string_or_empty(member(body, "incomplete_details"), "reason")
                                    = "max_output_tokens" -> "max_tokens"
      [] OTHER -> "error"

decode_openai_response(body) ==
    LET output == member(body, "output") IN
    IF /\ Is("arr", output)
       /\ ~Failed(Decoded(output.arr, openai_item))
       /\ required_string(body, "status")
       /\ ~Failed(openai_usage(body))
       /\ optional_string(body, "model")
      THEN Ok(Response(Decoded(output.arr, openai_item).ok,
                       openai_status_stop_reason(string_or_empty(body, "status"),
                         \E i \in DOMAIN output.arr :
                           string_or_empty(output.arr[i], "type") = "function_call", body),
                       openai_usage(body).ok, optional(string_or_empty(body, "model"))))
      ELSE Malformed

decode_protocol_response(body, protocol) ==
    CASE protocol = "anthropic_messages" -> decode_anthropic_response(body)
      [] protocol = "openai_responses" -> decode_openai_response(body)
      [] OTHER -> Error("config")

-----------------------------------------------------------------------------
(* _impl/anthropic_sse_decoder.cpp, _impl/openai_responses_sse_decoder.cpp  *)

NoBlock == [kind |-> "none", text |-> "", signature |-> <<>>, id |-> "", name |-> "", input |-> ""]

\* A decoder; calls are the calls it made of its EventSink.
NewDecoder ==
    [blocks |-> <<>>, open |-> NoBlock, usage |-> NoUsage, stop_reason |-> "end_turn",
     model |-> <<>>, error |-> <<>>, saw_message_stop |-> FALSE, final |-> <<>>,
     function_calls |-> <<>>, calls |-> <<>>]

\* The first failure wins.
fail(d, kind) == IF d.error = <<>> THEN [d EXCEPT !.error = <<kind>>] ELSE d

Called(d, call) == [d EXCEPT !.calls = Append(@, call)]

\* A failed input leaves the block open; nothing reads it any more.
finalize_open_block(d) ==
    LET b == d.open
        input == parse(IF b.input = "" THEN "{}" ELSE b.input)
        Push(content) == [d EXCEPT !.blocks = Append(@, content), !.open = NoBlock]
    IN
    CASE b.kind = "text" -> Push(TextContent(b.text))
      [] b.kind = "thinking" -> Push(ThinkingContent(b.text, b.signature))
      [] b.kind = "tool_use" /\ Is("obj", input) -> Push(ToolUseContent(b.id, b.name, input))
      [] b.kind = "tool_use" /\ ~Is("obj", input) -> fail(d, "parsing")

content_block_start(d, block) ==
    LET type == string_or_empty(block, "type")
        id == string_or_empty(block, "id")
        name == string_or_empty(block, "name")
    IN
    CASE d.open.kind # "none" \/ ~Is("obj", block) -> fail(d, "parsing")
      [] type \in {"text", "thinking"} /\ d.open.kind = "none" ->
           [d EXCEPT !.open = [NoBlock EXCEPT !.kind = type]]
      [] type = "tool_use" /\ d.open.kind = "none" ->
           Called([d EXCEPT !.open = [NoBlock EXCEPT !.kind = type, !.id = id, !.name = name]],
                  <<"tool_start", id, name>>)
      [] OTHER -> fail(d, "parsing")

content_block_delta(d, delta) ==
    LET type == string_or_empty(delta, "type")
        text == string_or_empty(delta, "text")
        thinking == string_or_empty(delta, "thinking")
        partial == string_or_empty(delta, "partial_json")
    IN
    CASE d.open.kind = "none" \/ ~Is("obj", delta) -> fail(d, "parsing")
      [] type = "text_delta" /\ d.open.kind # "none" ->
           Called([d EXCEPT !.open.text = @ \o text],
                  <<IF d.open.kind = "thinking" THEN "thinking" ELSE "text", text>>)
      [] type = "thinking_delta" /\ d.open.kind # "none" ->
           Called([d EXCEPT !.open.text = @ \o thinking], <<"thinking", thinking>>)
      [] type = "signature_delta" /\ d.open.kind # "none" ->
           [d EXCEPT !.open.signature =
              <<(IF @ = <<>> THEN "" ELSE @[1]) \o string_or_empty(delta, "signature")>>]
      [] type = "input_json_delta" /\ d.open.kind # "none" ->
           Called([d EXCEPT !.open.input = @ \o partial], <<"tool_delta", d.open.id, partial>>)
      [] OTHER -> d

message_start(d, message) ==
    LET u == member(message, "usage") IN
    IF ~Is("obj", message) THEN d
    ELSE [d EXCEPT
            !.model = IF string_or_empty(message, "model") = "" THEN @
                      ELSE <<string_or_empty(message, "model")>>,
            !.usage = IF ~Is("obj", u) THEN @
                      ELSE Usage(u64_or_zero(u, "input_tokens"), u64_or_zero(u, "output_tokens"),
                                 u64_or_zero(u, "cache_creation_input_tokens"),
                                 u64_or_zero(u, "cache_read_input_tokens"))]

message_delta(d, p) ==
    LET reason == string_or_empty(member(p, "delta"), "stop_reason")
        u == member(p, "usage")
    IN [d EXCEPT !.stop_reason = IF reason = "" THEN @ ELSE anthropic_stop_reason(reason),
                 !.usage.output = IF Is("obj", u) THEN u64_or_zero(u, "output_tokens") ELSE @]

message_stop(d) ==
    IF d.open.kind # "none" THEN fail(d, "parsing")
    ELSE Called([d EXCEPT !.saw_message_stop = TRUE], <<"done", d.stop_reason>>)

anthropic_consume(d, event, data) ==
    LET p == parse(data) IN
    IF d.error # <<>> \/ event = "ping" THEN d
    ELSE IF ~Is("obj", p) THEN fail(d, "parsing")
    ELSE CASE event = "message_start" -> message_start(d, member(p, "message"))
           [] event = "content_block_start" -> content_block_start(d, member(p, "content_block"))
           [] event = "content_block_delta" -> content_block_delta(d, member(p, "delta"))
           [] event = "content_block_stop" ->
                IF d.open.kind = "none" THEN fail(d, "parsing") ELSE finalize_open_block(d)
           [] event = "message_delta" -> message_delta(d, p)
           [] event = "message_stop" -> message_stop(d)
           [] event = "error" -> fail(d, "upstream")
           [] OTHER -> d

\* A mutant: the end of the transfer passes for the end of the message.
anthropic_result_unstopped(d) ==
    IF d.error # <<>> THEN Error(d.error[1])
    ELSE Ok(Response(d.blocks, d.stop_reason, d.usage, d.model))

anthropic_result(d) ==
    CASE d.error # <<>> -> Error(d.error[1])
      [] d.error = <<>> /\ ~d.saw_message_stop -> Malformed
      [] OTHER -> Ok(Response(d.blocks, d.stop_reason, d.usage, d.model))

\* function_calls_: the state of each item seen, by item id, in the order of
\* its first event.
NewCall(id) == [item_id |-> id, call_id |-> "", name |-> "", arguments |-> "", started |-> FALSE]
IndexOf(d, id) ==
    IF \E i \in DOMAIN d.function_calls : d.function_calls[i].item_id = id
      THEN CHOOSE i \in DOMAIN d.function_calls : d.function_calls[i].item_id = id
      ELSE Len(d.function_calls) + 1
CallOf(d, id) ==
    IF IndexOf(d, id) \in DOMAIN d.function_calls THEN d.function_calls[IndexOf(d, id)]
    ELSE NewCall(id)
WithCall(d, c) ==
    [d EXCEPT !.function_calls =
       IF IndexOf(d, c.item_id) \in DOMAIN @ THEN [@ EXCEPT ![IndexOf(d, c.item_id)] = c]
       ELSE Append(@, c)]
CallName(c) == IF c.call_id # "" THEN c.call_id ELSE c.item_id

maybe_start_tool(d, c) ==
    IF c.name = "" \/ c.started THEN WithCall(d, c)
    ELSE Called(WithCall(d, [c EXCEPT !.started = TRUE]), <<"tool_start", CallName(c), c.name>>)

output_item_added(d, item) ==
    LET id == string_or_empty(item, "id")
        arguments == string_or_empty(item, "arguments")
    IN
    IF string_or_empty(item, "type") # "function_call" \/ id = "" THEN d
    ELSE maybe_start_tool(d, [CallOf(d, id) EXCEPT
           !.call_id = string_or_empty(item, "call_id"), !.name = string_or_empty(item, "name"),
           !.arguments = IF arguments = "" THEN @ ELSE arguments])

arguments_delta(d, p) ==
    LET id == string_or_empty(p, "item_id")
        delta == string_or_empty(p, "delta")
    IN IF id = "" THEN d
       ELSE Called(WithCall(d, [CallOf(d, id) EXCEPT !.arguments = @ \o delta]),
                   <<"tool_delta", CallName(CallOf(d, id)), delta>>)

arguments_done(d, p) ==
    LET id == string_or_empty(p, "item_id") IN
    IF id = "" THEN d
    ELSE maybe_start_tool(d, [CallOf(d, id) EXCEPT
           !.name = string_or_empty(p, "name"), !.arguments = string_or_empty(p, "arguments")])

failed_response_error(response) ==
    IF string_or_empty(member(response, "error"), "code") = "rate_limit_exceeded"
      THEN "rate_limit" ELSE "upstream"

Terminal == {"response.completed", "response.incomplete", "response.failed"}
openai_consume(d, event, data) ==
    LET p == parse(data)
        response == member(p, "response")
    IN
    IF d.error # <<>> THEN d
    ELSE IF ~Is("obj", p) THEN fail(d, "parsing")
    ELSE CASE event = "response.output_item.added" -> output_item_added(d, member(p, "item"))
           [] event = "response.output_text.delta" ->
                Called(d, <<"text", string_or_empty(p, "delta")>>)
           [] event \in {"response.reasoning_summary_text.delta", "response.reasoning_text.delta"} ->
                Called(d, <<"thinking", string_or_empty(p, "delta")>>)
           [] event = "response.function_call_arguments.delta" -> arguments_delta(d, p)
           [] event = "response.function_call_arguments.done" -> arguments_done(d, p)
           [] event \in Terminal ->
                IF ~Is("obj", response) THEN fail(d, "parsing")
                ELSE IF event = "response.failed" THEN fail(d, failed_response_error(response))
                ELSE [d EXCEPT !.final = <<response>>]
           [] event = "error" -> fail(d, "upstream")
           [] OTHER -> d

\* result() also tells the sink that the response is done.
openai_result(d) ==
    CASE d.error # <<>> -> Error(d.error[1])
      [] d.error = <<>> /\ d.final = <<>> -> Malformed
      [] OTHER -> decode_openai_response(d.final[1])

-----------------------------------------------------------------------------
(* protocol_request.cpp: the body of a request                              *)

use_prompt_cache(request, target) ==
    /\ request.cache # <<>>
    /\ target.cache.enabled
    /\ request.cache[1] > 0 /\ request.cache[1] >= target.cache.min_prefix_bytes
    /\ request.system_prompt # "" \/ request.tools # <<>>

tool_result_text(result) ==
    IF result.output # "" \/ result.data_json = <<>> THEN result.output ELSE result.data_json[1]

valid_image(image) ==
    image.data # "" /\ image.media_type \in {"image/jpeg", "image/png", "image/gif", "image/webp"}

\* A block that cannot be written: an image that is not the user's or not
\* valid, or a tool input that is not a JSON object.
Refused(content, role) ==
    \/ content.kind = "image" /\ (role # "user" \/ ~valid_image(content))
    \/ content.kind = "tool_use" /\ ~Is("obj", content.input)

anthropic_block_json(content) ==
    CASE content.kind = "text" -> Obj([type |-> Str("text"), text |-> Str(content.text)])
      [] content.kind = "image" ->
           Obj([type |-> Str("image"), source |-> Obj([type |-> Str("base64"),
                media_type |-> Str(content.media_type), data |-> Str(content.data)])])
      [] content.kind = "thinking" ->
           IF content.signature = <<>>
             THEN Obj([type |-> Str("thinking"), thinking |-> Str(content.text)])
             ELSE Obj([type |-> Str("thinking"), thinking |-> Str(content.text),
                       signature |-> Str(content.signature[1])])
      [] content.kind = "tool_use" ->
           Obj([type |-> Str("tool_use"), id |-> Str(content.id), name |-> Str(content.name),
                input |-> content.input])
      [] content.kind = "tool_result" ->
           IF content.is_error
             THEN Obj([type |-> Str("tool_result"), tool_use_id |-> Str(content.tool_use_id),
                       content |-> Str(tool_result_text(content)), is_error |-> Str("true")])
             ELSE Obj([type |-> Str("tool_result"), tool_use_id |-> Str(content.tool_use_id),
                       content |-> Str(tool_result_text(content))])

\* A tool message is the user's on this wire.
anthropic_message_json(message) ==
    Obj([role |-> Str(IF message.role = "assistant" THEN "assistant" ELSE "user"),
         content |-> Arr([i \in DOMAIN message.blocks |->
                            anthropic_block_json(message.blocks[i])])])

openai_input_item(content, role) ==
    CASE content.kind = "text" ->
           Obj([role |-> Str(role), content |-> Arr(<<Obj([text |-> Str(content.text),
                type |-> Str(IF role = "assistant" THEN "output_text" ELSE "input_text")])>>)])
      [] content.kind = "image" ->
           Obj([role |-> Str("user"), content |-> Arr(<<Obj([type |-> Str("input_image"),
                image_url |-> Str("data:" \o content.media_type \o ";base64," \o content.data)])>>)])
      [] content.kind = "thinking" ->
           Obj([type |-> Str("reasoning"), summary |-> Arr(<<Obj([type |-> Str("summary_text"),
                text |-> Str(content.text)])>>)])
      [] content.kind = "tool_use" ->
           Obj([type |-> Str("function_call"), call_id |-> Str(content.id),
                name |-> Str(content.name), arguments |-> Str(dump(content.input))])
      [] content.kind = "tool_result" ->
           IF content.is_error
             THEN Obj([type |-> Str("function_call_output"), call_id |-> Str(content.tool_use_id),
                       output |-> Str(tool_result_text(content)), status |-> Str("error")])
             ELSE Obj([type |-> Str("function_call_output"), call_id |-> Str(content.tool_use_id),
                       output |-> Str(tool_result_text(content))])

anthropic_tool_choice(choice) ==
    IF choice \in {"auto", "any"} THEN Obj([type |-> Str(choice)])
    ELSE Obj([type |-> Str("tool"), name |-> Str(choice)])

openai_tool_choice(choice) ==
    CASE choice \in {"auto", "none", "required"} -> Str(choice)
      [] choice = "any" -> Str("required")
      [] OTHER -> Obj([type |-> Str("function"), name |-> Str(choice)])

\* The texts of a system message, joined; the empty text adds nothing.
SystemText(message) ==
    FoldLeft(LAMBDA parts, b : IF parts = "" THEN b.text ELSE parts \o "\n\n" \o b.text,
             "", message.blocks)

\* The system field is a text, one piece, or, with the cached prefix, a list of
\* pieces whose first one carries the cache breakpoint.
append_anthropic_system_text(system, message) ==
    LET parts == SystemText(message) IN
    CASE parts = "" -> system
      [] parts # "" /\ system = <<>> -> <<[text |-> parts, cached |-> FALSE]>>
      [] parts # "" /\ system # <<>> /\ system[1].cached ->
           Append(system, [text |-> "\n\n" \o parts, cached |-> FALSE])
      [] OTHER -> <<[text |-> system[1].text \o "\n\n" \o parts, cached |-> FALSE]>>

append_openai_instructions_text(instructions, message) ==
    LET parts == SystemText(message) IN
    IF parts = "" THEN instructions
    ELSE IF instructions = "" THEN parts ELSE instructions \o "\n\n" \o parts

SystemMessages(request) == SelectSeq(request.messages, LAMBDA m : m.role = "system")
OtherMessages(request) == SelectSeq(request.messages, LAMBDA m : m.role # "system")

\* What both protocols refuse.  JSON that does not parse is a parsing error and the
\* rest a config error; neither is retried, and the one kind stands for both.
Unwritable(request, target) ==
    \/ target.model = ""
    \/ \E i \in DOMAIN request.messages : \E j \in DOMAIN request.messages[i].blocks :
         LET m == request.messages[i] IN
         IF m.role = "system" THEN m.blocks[j].kind # "text" ELSE Refused(m.blocks[j], m.role)
    \/ \E i \in DOMAIN request.tools : ~Is("obj", request.tools[i].schema)

\* The breakpoint is on the system prefix, or on the last tool without one.
make_anthropic_request(request, target) ==
    LET cache == use_prompt_cache(request, target)
        prefix == IF request.system_prompt = "" THEN <<>>
                  ELSE <<[text |-> request.system_prompt, cached |-> cache]>>
        messages == OtherMessages(request)
    IN
    IF Unwritable(request, target) \/ request.max_tokens = 0
      THEN Error("config")
      ELSE Ok([path |-> "/v1/messages", stream |-> request.stream,
               thinking |-> request.thinking_budget,
               tool_choice |-> IF request.tool_choice = "" THEN Absent
                               ELSE anthropic_tool_choice(request.tool_choice),
               system |-> FoldLeft(append_anthropic_system_text, prefix, SystemMessages(request)),
               messages |-> [i \in DOMAIN messages |-> anthropic_message_json(messages[i])],
               tools |-> [i \in DOMAIN request.tools |->
                 [name |-> request.tools[i].name,
                  cached |-> cache /\ prefix = <<>> /\ i = Len(request.tools)]]])

make_openai_responses_request(request, target) ==
    LET messages == OtherMessages(request) IN
    IF Unwritable(request, target) \/ request.thinking_budget # 0
      THEN Error("config")
      ELSE Ok([path |-> "/responses", stream |-> request.stream,
               prompt_cache_key |-> use_prompt_cache(request, target),
               tool_choice |-> IF request.tool_choice = "" THEN Absent
                               ELSE openai_tool_choice(request.tool_choice),
               instructions |-> FoldLeft(append_openai_instructions_text, request.system_prompt,
                                         SystemMessages(request)),
               input |-> FlattenSeq([i \in DOMAIN messages |->
                 [j \in DOMAIN messages[i].blocks |->
                    openai_input_item(messages[i].blocks[j], messages[i].role)]]),
               tools |-> [i \in DOMAIN request.tools |-> [name |-> request.tools[i].name]]])

make_protocol_request(request, target) ==
    CASE target.protocol = "anthropic_messages" -> make_anthropic_request(request, target)
      [] target.protocol = "openai_responses" -> make_openai_responses_request(request, target)
      [] OTHER -> Error("config")

=============================================================================
