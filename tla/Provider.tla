------------------------------ MODULE Provider ------------------------------
(* One call of the model: provider::execution::run tries the targets of a   *)
(* route, each attempt goes through the protocol system and the HTTP client *)
(* (oran-http), and the events of its answer reach the caller's sink.       *)
(*                                                                          *)
(* Three threads work on an attempt.  The blocking executor runs libcurl    *)
(* and the event-stream parser; the strand runs, one at a time, what that   *)
(* thread posts to it, which are the events and then the completion; and    *)
(* the coroutine of the call continues from the completion.  The server,    *)
(* the connection and the moment of a cancellation are the environment.     *)
EXTENDS Protocol, FiniteSets

CONSTANTS
    Requests,          \* the requests a call may be made with
    Configs,           \* by name: profiles, a route over them, the credentials set
    AttemptLimits,     \* the values of retry.max_attempts
    Answers,           \* by name: what the server of a protocol may answer
    Chunks,            \* the sizes in which a transfer may arrive
    MaxLine,           \* SseParserOptions::max_line_bytes
    MaxEvent,          \* SseParserOptions::max_event_bytes
    MaxBytes,          \* BodyRequest::max_bytes
    MaxDelivered       \* the bound on what waits on the strand

VARIABLES
    call,       \* execution::run: where it is, and its outcome
    answer,     \* the name of what the server sends to the attempt
    sent,       \* how much of it libcurl has handed to the write callback
    transfer,   \* StreamState or BodyState, and the parser in it
    strand,     \* what has been posted to the strand and has not run
    decoder,    \* the attempt's decoder
    seen,       \* history: the events the decoder has consumed
    sink,       \* every call the caller's sink has had
    cancelled   \* the call was cancelled

\* The wire of an answer, the events it encodes with the place where each one
\* ends, and the response it means, if any.
Its == Answers[answer]

providerVars == <<call, answer, sent, transfer, strand, decoder, seen, sink, cancelled>>

-----------------------------------------------------------------------------
(* _impl/sse_parser.hpp.  The wire is a sequence of symbols: a line ends    *)
(* with "\n", a colon ends its field name, anything else is text.           *)

Joined(symbols) == IF symbols = <<>> THEN "" ELSE FlattenSeq(symbols)

NewParser == [line |-> <<>>, type |-> "", data |-> <<>>, exceeded |-> FALSE, out |-> <<>>]

Field(line) ==
    LET colon == SelectInSeq(line, LAMBDA c : c = ":")
        rest == SubSeq(line, colon + 1, Len(line))
    IN IF colon = 0 THEN [name |-> Joined(line), value |-> <<>>]
       ELSE [name |-> Joined(SubSeq(line, 1, colon - 1)),
             value |-> IF rest # <<>> /\ rest[1] = " " THEN Tail(rest) ELSE rest]

DataBytes(data) == FoldLeft(LAMBDA n, v : n + Len(v) + 1, 0, data)

consume_field(p, line) ==
    LET f == Field(line) IN
    IF line[1] = ":" THEN p
    ELSE CASE f.name = "event" -> [p EXCEPT !.type = Joined(f.value)]
           [] f.name = "data" ->
                IF DataBytes(p.data) + Len(f.value) + 1 > MaxEvent
                  THEN [p EXCEPT !.exceeded = TRUE]
                  ELSE [p EXCEPT !.data = Append(@, f.value)]
           [] OTHER -> p

\* The data lines of an event are joined with a newline.
Payload(data) ==
    Joined(FlattenSeq([i \in DOMAIN data |-> IF i = 1 THEN data[i] ELSE <<"\n">> \o data[i]]))

dispatch(p) ==
    IF p.exceeded THEN p
    ELSE IF p.data = <<>> THEN [p EXCEPT !.type = ""]
    ELSE [p EXCEPT !.out = Append(@, [event |-> IF p.type = "" THEN "message" ELSE p.type,
                                      data |-> Payload(p.data)]),
                   !.type = "", !.data = <<>>]

\* One byte.  A parser that exceeded a bound consumes nothing more, and an
\* event that exceeds it does so on its line, before the next byte.
feed_byte(p, byte) ==
    LET line == IF p.line # <<>> /\ Last(p.line) = "\r" THEN Front(p.line) ELSE p.line IN
    CASE p.exceeded -> p
      [] ~p.exceeded /\ byte # "\n" ->
           IF Len(p.line) < MaxLine THEN [p EXCEPT !.line = Append(@, byte)]
           ELSE [p EXCEPT !.exceeded = TRUE]
      [] ~p.exceeded /\ byte = "\n" ->
           [(IF line = <<>> THEN dispatch(p) ELSE consume_field(p, line)) EXCEPT !.line = <<>>]

\* A mutant: a line that a chunk leaves unfinished is lost.
feed_unbuffered(p, chunk) == FoldLeft(feed_byte, [p EXCEPT !.out = <<>>, !.line = <<>>], chunk)

feed(p, chunk) == FoldLeft(feed_byte, [p EXCEPT !.out = <<>>], chunk)

-----------------------------------------------------------------------------
(* client.cpp                                                               *)

NoTransfer ==
    [parser |-> NewParser, fed |-> 0, exceeded |-> FALSE, is_stream |-> <<>>, body |-> ""]

success(status) == status >= 200 /\ status < 300

response_is_event_stream == success(Its.status) /\ Its.event_stream

\* The events a chunk completes are posted to the strand in their order.
write_stream(t, chunk) ==
    LET is == IF t.is_stream = <<>> THEN response_is_event_stream ELSE t.is_stream[1]
        into == [t EXCEPT !.fed = @ + Len(chunk), !.is_stream = <<is>>]
    IN
    IF t.fed + Len(chunk) > MaxBytes \/ t.parser.exceeded THEN [t EXCEPT !.exceeded = TRUE]
    ELSE IF is THEN [into EXCEPT !.parser = feed(@, chunk)]
    ELSE [into EXCEPT !.body = @ \o Joined(chunk)]

write_body(t, chunk) ==
    IF t.fed + Len(chunk) > MaxBytes THEN [t EXCEPT !.exceeded = TRUE]
    ELSE [t EXCEPT !.fed = @ + Len(chunk), !.body = @ \o Joined(chunk)]

\* The blocking thread posts the result, after every event it posted.
PostResult(result) ==
    /\ strand' = Append(strand, [completion |-> result])
    /\ call' = [call EXCEPT !.worker = "idle"]

Working == call.pc = "transfer" /\ call.worker = "running"

\* libcurl hands the next bytes to the write callback.
Receive ==
    /\ Working
    /\ Len(strand) < MaxDelivered
    /\ \E n \in Chunks :
         LET chunk == SubSeq(Its.wire, sent + 1, sent + n)
             next == IF call.request.stream THEN write_stream(transfer, chunk)
                     ELSE write_body(transfer, chunk)
             events == IF call.request.stream THEN next.parser.out ELSE <<>>
         IN /\ sent + n <= Len(Its.wire)
            /\ sent' = sent + n
            /\ transfer' = [next EXCEPT !.parser.out = <<>>]
            /\ IF next.exceeded
                 THEN PostResult(Error("network"))
                 ELSE /\ strand' = strand \o [i \in DOMAIN events |-> [event |-> events[i]]]
                      /\ UNCHANGED call
    /\ UNCHANGED <<answer, decoder, seen, sink, cancelled>>

\* The transfer ends.  An answer of unknown length ends when the connection
\* closes, wherever that is.
Ends ==
    /\ Working
    /\ sent = Len(Its.wire) \/ ~Its.framed
    /\ PostResult(Ok([status |-> Its.status, body |-> transfer.body]))
    /\ UNCHANGED <<answer, sent, transfer, decoder, seen, sink, cancelled>>

\* libcurl fails: the connection breaks (network, or upstream for the codes
\* the switch of curl_error does not name) or its timeout expires.
Breaks ==
    /\ Working
    /\ \E kind \in {"network", "upstream"} : PostResult(Error(kind))
    /\ UNCHANGED <<answer, sent, transfer, decoder, seen, sink, cancelled>>

\* A mutant: a timeout ends the transfer and completes nothing.
ExpiresUnposted ==
    /\ Working
    /\ call' = [call EXCEPT !.worker = "idle"]
    /\ UNCHANGED <<answer, sent, transfer, strand, decoder, seen, sink, cancelled>>

Expires ==
    /\ Working
    /\ PostResult(Error("timeout"))
    /\ UNCHANGED <<answer, sent, transfer, decoder, seen, sink, cancelled>>

\* run_multi looks at the flag between two polls.
StopsTransfer ==
    /\ Working
    /\ cancelled
    /\ PostResult(Error("cancelled"))
    /\ UNCHANGED <<answer, sent, transfer, decoder, seen, sink, cancelled>>

-----------------------------------------------------------------------------
(* provider-profiles.cpp and make_protocol_system: the route of a call      *)

Protocols == {"anthropic_messages", "openai_responses", "openai_chat_completions",
              "gemini_generate_content", "custom_openai_compatible"}

\* A provider is named by its protocol or by one of the protocol's aliases.
protocol_for_provider(provider) ==
    CASE provider \in Protocols -> provider
      [] provider \in {"anthropic", "claude"} -> "anthropic_messages"
      [] provider \in {"openai_response"} -> "openai_responses"
      [] provider \in {"openai", "openai_chat"} -> "openai_chat_completions"
      [] provider \in {"gemini", "google_gemini"} -> "gemini_generate_content"
      [] provider \in {"openai_compatible", "deepseek", "deepseek_chat", "local"} ->
           "custom_openai_compatible"
      [] OTHER -> "unknown"

resolve_protocol(profile) ==
    IF profile.protocol = "" THEN protocol_for_provider(profile.provider)
    ELSE IF profile.protocol \in Protocols THEN profile.protocol ELSE "unknown"

\* The profiles a route names, in order; none when one is missing or unknown.
resolve_route_profiles(config) ==
    LET names == config.route
        Named(n) == SelectSeq(config.profiles, LAMBDA p : p.profile = n)
    IN IF \E i \in DOMAIN names : \/ Named(names[i]) = <<>>
                                 \/ resolve_protocol(Named(names[i])[1]) = "unknown"
         THEN Error("config")
         ELSE Ok([i \in DOMAIN names |->
                    [Named(names[i])[1] EXCEPT !.protocol = resolve_protocol(Named(names[i])[1])]])

validate_profile(p) ==
    /\ "" \notin {p.profile, p.model, p.base_url, p.api_key_env}
    /\ p.base_url \in {"http://", "https://"}
    /\ p.protocol \in {"anthropic_messages", "openai_responses"}

\* The whole route is validated before the first credential is looked up.
make_protocol_system(profiles, secrets) ==
    IF \E i \in DOMAIN profiles :
         \/ ~validate_profile(profiles[i])
         \/ \E j \in 1..(i - 1) : profiles[j].profile = profiles[i].profile
      THEN [system |-> Error("config"), asked |-> {}]
      ELSE LET missing == {i \in DOMAIN profiles : profiles[i].api_key_env \notin secrets} IN
           [system |-> IF missing = {} THEN Ok(profiles) ELSE Error("auth"),
            asked |-> {profiles[i].api_key_env :
                         i \in {j \in DOMAIN profiles : \A m \in missing : j <= m}}]

-----------------------------------------------------------------------------
(* execution.cpp and protocol_transport.cpp                                 *)

Retryable == {"network", "rate_limit", "timeout", "upstream"}

http_status_error(status) ==
    CASE status \in {401, 403} -> "auth"
      [] status = 408 -> "timeout"
      [] status = 429 -> "rate_limit"
      [] status >= 500 -> "upstream"
      [] status >= 400 /\ status < 500 /\ status \notin {401, 403, 408, 429} -> "invalid_argument"
      [] OTHER -> "network"

Target == call.route[call.target]

\* A fallback's own budget replaces the primary's; without one, only a
\* protocol that takes budgets keeps it.
apply_fallback_thinking_policy(request, target) ==
    [request EXCEPT !.thinking_budget =
       IF target.thinking_budget # 0 THEN target.thinking_budget
       ELSE IF target.protocol # "anthropic_messages" THEN 0 ELSE @]

Returned(result) == [call EXCEPT !.pc = "returned", !.outcome = <<result>>]

\* What run() does with the result of an attempt that made these sink calls.
Settle(result, calls) ==
    LET terminal == result.error \notin Retryable \/ calls # <<>> IN
    IF ~Failed(result) THEN Returned(result)
    ELSE IF terminal THEN Returned(result)
    ELSE IF call.attempt < call.max_attempts THEN [call EXCEPT !.pc = "backoff"]
    ELSE IF call.target < Len(call.route)
      THEN [call EXCEPT !.pc = "attempt", !.target = @ + 1, !.attempt = 1]
    ELSE Returned(result)

\* The request is written before the client looks at the cancellation.
StartAttempt ==
    LET request == IF call.target = 1 THEN call.request
                   ELSE apply_fallback_thinking_policy(call.request, Target)
        written == make_protocol_request(request, Target)
    IN
    /\ call.pc = "attempt"
    /\ decoder' = NewDecoder
    /\ seen' = <<>>
    /\ transfer' = NoTransfer
    /\ sent' = 0
    /\ IF Failed(written) \/ cancelled
         THEN /\ call' = Settle(IF Failed(written) THEN written ELSE Error("cancelled"), <<>>)
              /\ UNCHANGED answer
         ELSE /\ call' = [call EXCEPT !.pc = "transfer", !.worker = "running"]
              /\ answer' \in {a \in DOMAIN Answers : Answers[a].protocol = Target.protocol}
    /\ UNCHANGED <<strand, sink, cancelled>>

\* The strand runs an event: the decoder consumes it and calls the sink.
Consume ==
    /\ strand # <<>> /\ "event" \in DOMAIN Head(strand)
    /\ LET e == Head(strand).event IN
         decoder' = IF Target.protocol = "openai_responses"
                      THEN openai_consume(decoder, e.event, e.data)
                      ELSE anthropic_consume(decoder, e.event, e.data)
    /\ sink' = sink \o SubSeq(decoder'.calls, Len(decoder.calls) + 1, Len(decoder'.calls))
    /\ seen' = Append(seen, Head(strand).event)
    /\ strand' = Tail(strand)
    /\ UNCHANGED <<call, answer, sent, transfer, cancelled>>

\* What ProtocolTransportSystem makes of what the client returned.
ResultOf(r) ==
    CASE Failed(r) -> r
      [] ~Failed(r) /\ ~success(r.ok.status) -> Error(http_status_error(r.ok.status))
      [] ~Failed(r) /\ success(r.ok.status) /\ ~call.request.stream ->
           decode_protocol_response(parse(r.ok.body), Target.protocol)
      [] OTHER -> IF Target.protocol = "openai_responses" THEN openai_result(decoder)
                  ELSE anthropic_result(decoder)

\* The strand runs the completion, and the coroutine of the call continues.
\* The Anthropic stream told the sink at message_stop; the others do it here.
Complete ==
    LET result == ResultOf(Head(strand).completion)
        told == call.request.stream /\ Target.protocol = "anthropic_messages"
        done == IF Failed(result) \/ told THEN <<>>
                ELSE <<<<"done", result.ok.stop_reason>>>>
    IN
    /\ strand # <<>> /\ "completion" \in DOMAIN Head(strand)
    /\ strand' = Tail(strand)
    /\ sink' = sink \o done
    /\ call' = Settle(result, decoder.calls)
    /\ UNCHANGED <<answer, sent, transfer, decoder, seen, cancelled>>

\* The delay before the next attempt at the same target.
Wake ==
    /\ call.pc = "backoff"
    /\ call' = IF cancelled THEN Returned(Error("cancelled"))
               ELSE [call EXCEPT !.pc = "attempt", !.attempt = @ + 1]
    /\ UNCHANGED <<answer, sent, transfer, strand, decoder, seen, sink, cancelled>>

Cancel ==
    /\ call.pc # "returned" /\ ~cancelled
    /\ cancelled' = TRUE
    /\ UNCHANGED <<call, answer, sent, transfer, strand, decoder, seen, sink>>

\* HttpProviderBackend::build, then the check of run() before its loop.
Build ==
    LET resolved == resolve_route_profiles(Configs[call.config])
        built == make_protocol_system(resolved.ok, Configs[call.config].secrets)
    IN
    /\ call.pc = "build"
    /\ call' = IF Failed(resolved) THEN Returned(resolved)
               ELSE IF Failed(built.system) THEN Returned(built.system)
               ELSE IF call.max_attempts = 0 THEN Returned(Error("invalid_argument"))
               ELSE [call EXCEPT !.pc = "attempt", !.route = built.system.ok]
    /\ UNCHANGED <<answer, sent, transfer, strand, decoder, seen, sink, cancelled>>

Init ==
    /\ call \in {[pc |-> "build", worker |-> "idle", config |-> c, route |-> <<>>, request |-> r,
                   target |-> 1, attempt |-> 1, max_attempts |-> n, outcome |-> <<>>] :
                  c \in DOMAIN Configs, r \in Requests, n \in AttemptLimits}
    /\ answer \in DOMAIN Answers /\ Its.protocol = "none"
    /\ sent = 0
    /\ transfer = NoTransfer
    /\ strand = <<>>
    /\ decoder = NewDecoder
    /\ seen = <<>>
    /\ sink = <<>>
    /\ cancelled = FALSE

Next ==
    \/ Build \/ StartAttempt \/ Wake \/ Cancel
    \/ Receive \/ Ends \/ Breaks \/ Expires \/ StopsTransfer
    \/ Consume \/ Complete

\* Coroutines, the strand and timers run; the timeout of libcurl bounds every
\* transfer.  Nothing makes the server answer.
Fairness ==
    /\ WF_providerVars(Build \/ StartAttempt \/ Wake)
    /\ WF_providerVars(Consume \/ Complete)
    /\ WF_providerVars(Expires)

Spec == Init /\ [][Next]_providerVars /\ Fairness

-----------------------------------------------------------------------------
Waiting == SelectSeq(strand, LAMBDA x : "event" \in DOMAIN x)
Completed == SelectSeq(Its.events, LAMBDA e : e.at <= sent)

\* The chunks in which a stream arrives, and the moments at which the strand
\* runs, are invisible to the decoder: what it has consumed and what waits for
\* it are the events that the bytes received so far complete (client.cpp write_stream,
\* sse_parser.hpp feed).  No event is left when the operation has returned
\* (client.hpp: "Event callbacks finish before this operation returns").
StreamDecoded ==
    /\ call.pc # "transfer" => strand = <<>>
    /\ call.pc = "transfer" /\ transfer.is_stream = <<TRUE>>
         /\ ~transfer.exceeded /\ ~transfer.parser.exceeded =>
         seen \o [i \in DOMAIN Waiting |-> Waiting[i].event]
           = [i \in DOMAIN Completed |-> [event |-> Completed[i].event, data |-> Completed[i].data]]

Heard(kind) ==
    Joined([i \in DOMAIN SelectSeq(sink, LAMBDA c : c[1] = kind) |->
              SelectSeq(sink, LAMBDA c : c[1] = kind)[i][2]])
Said(blocks, kind) ==
    Joined([i \in DOMAIN SelectSeq(blocks, LAMBDA b : b.kind = kind) |->
              SelectSeq(blocks, LAMBDA b : b.kind = kind)[i].text])
ToolIds(blocks) ==
    [i \in DOMAIN SelectSeq(blocks, LAMBDA b : b.kind = "tool_use") |->
       SelectSeq(blocks, LAMBDA b : b.kind = "tool_use")[i].id]

\* A call that succeeds returns the whole answer the server meant, although
\* the connection may close anywhere, and the sink has heard that answer and
\* nothing of an attempt before it: its texts, its tools in order, and one
\* final on_done with its stop reason (execution.cpp run, the decoders).
ResponseIsTheAnswer ==
    call.pc = "returned" /\ ~Failed(call.outcome[1]) =>
      LET response == call.outcome[1].ok IN
      /\ Its.meant = <<response>>
      /\ Last(sink) = <<"done", response.stop_reason>>
      /\ Cardinality({i \in DOMAIN sink : sink[i][1] = "done"}) = 1
      /\ call.request.stream =>
           /\ Heard("text") = Said(response.blocks, "text")
           /\ Heard("thinking") = Said(response.blocks, "thinking")
           /\ [i \in DOMAIN SelectSeq(sink, LAMBDA c : c[1] = "tool_start") |->
                 SelectSeq(sink, LAMBDA c : c[1] = "tool_start")[i][2]] = ToolIds(response.blocks)

ReadBack(item) ==
    IF Is("absent", member(item, "type")) THEN append_openai_message_content(item)
    ELSE openai_item(item)
Unsigned(blocks) ==
    [i \in DOMAIN blocks |->
       IF blocks[i].kind = "thinking" THEN ThinkingContent(blocks[i].text, <<>>) ELSE blocks[i]]
Pieces(system) == FlattenSeq([i \in DOMAIN system |-> system[i].text])

\* A response can be sent back: once it is part of the history, the next request,
\* which asks for no thinking, as not every protocol can, is written for every target
\* of the route, the one it came from and the fallbacks of another protocol.  What is
\* written reads as the same blocks in the same order, for OpenAI without the
\* signatures of thinking, which its items do not have (protocol_request.cpp and
\* protocol_response.cpp).
\* The system text keeps its pieces, and an Anthropic request marks one cache
\* breakpoint when the cache is used and none otherwise.
HistoryKept ==
    call.pc = "returned" /\ ~Failed(call.outcome[1]) =>
      LET blocks == call.outcome[1].ok.blocks
          next == [call.request EXCEPT !.thinking_budget = 0,
                     !.messages = Append(@, [role |-> "assistant", blocks |-> blocks])]
          system == FoldLeft(append_openai_instructions_text, next.system_prompt, SystemMessages(next))
      IN
      \A k \in DOMAIN call.route :
        LET target == call.route[k]
            written == make_protocol_request(next, target)
        IN
        /\ ~Failed(written)
        /\ IF target.protocol = "anthropic_messages"
             THEN /\ Decoded(Last(written.ok.messages).obj.content.arr, anthropic_content_block) = Ok(blocks)
                  /\ Pieces(written.ok.system) = system
                  /\ Cardinality({i \in DOMAIN written.ok.system : written.ok.system[i].cached})
                       + Cardinality({i \in DOMAIN written.ok.tools : written.ok.tools[i].cached})
                       = IF use_prompt_cache(next, target) THEN 1 ELSE 0
             ELSE LET items == written.ok.input IN
                  Decoded(SubSeq(items, Len(items) - Len(blocks) + 1, Len(items)), ReadBack)
                    = Ok(Unsigned(blocks))

\* A successful call returns the answer, and the answer can be sent back.
AnswerKept == ResponseIsTheAnswer /\ HistoryKept
=============================================================================
