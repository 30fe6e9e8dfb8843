----------------------------- MODULE Repositories -----------------------------
(* Prepared statements and their cache on one connection (sqlite.cpp,           *)
(* statement_cache.cpp), and the trace, audit and session repositories that     *)
(* bind and step them (trace_repository.cpp, audit_repository.cpp,              *)
(* session_repository.cpp), with the messages of a session as JSON              *)
(* (memory/session.cpp). A statement is the sequence of columns its parameters  *)
(* stand for, so a parameter bound in the wrong place is seen.                  *)
EXTENDS Integers, SequencesExt, FiniteSetsExt

CONSTANTS Holders, Capacity, NULL, ZeroId, HashBits,
          Operations,   \* what each holder asks for
          Messages,     \* the messages of the sessions at the start
          IdOrder,      \* the turn ids in the order of their bytes
          MaxRows

-------------------------------------------------------------------------------
(* Conversions and validation.                                                 *)

to_sql_hash(value) == IF value >= 2^(HashBits - 1) THEN value - 2^HashBits ELSE value
from_sql_hash(value) == value % 2^HashBits

EventRequired == {"event_kind", "scope_key", "agent_key", "tool_name", "identity", "verdict", "outcome", "reason",
                  "metadata_json"}
valid_event(request) == (\A f \in EventRequired : request[f] # "") /\ request.parent_turn_id # ZeroId

TurnTexts == {"agent_key", "origin", "route_profile", "route_model", "stop_reason", "context_json"}
TurnCounts == {"started_at_ns", "finished_at_ns", "prompt_prefix_bytes", "cache_creation_tokens", "cache_read_tokens",
               "input_tokens", "output_tokens"}
valid_turn(request) ==
  /\ ZeroId \notin {request.turn_id, request.session_id, request.parent_turn_id}
  /\ \A f \in TurnTexts : request[f] # ""
  /\ request.iteration_count > 0 /\ request.schema_version > 0
  /\ \A f \in TurnCounts : request[f] >= 0
  /\ request.finished_at_ns >= request.started_at_ns

\* A message is its role and its content blocks; a row has the role and the
\* blocks as JSON, where a field a block lacks is left out. size: the bytes. Times
\* are left out: the JSON has the message's own, which is not read back, and a
\* loaded message has that of its row.
content_to_json(block) == [f \in {g \in DOMAIN block : block[g] # NULL} |-> block[f]]
message_to_json(message) ==
  [version |-> 1, blocks |-> [i \in DOMAIN message.blocks |-> content_to_json(message.blocks[i])], size |-> message.size]

RequiredFields ==
  [text |-> {"text"}, image |-> {"media_type", "data_base64"}, thinking |-> {"thinking"},
   tool_use |-> {"id", "name", "input_json"}, tool_result |-> {"tool_use_id", "output", "is_error"}]
OptionalFields == [text |-> {}, image |-> {}, thinking |-> {"signature"}, tool_use |-> {}, tool_result |-> {"data_json"}]
content_from_json(json) ==
  IF json.type \notin DOMAIN RequiredFields \/ ~(RequiredFields[json.type] \subseteq DOMAIN json) THEN NULL
  ELSE [f \in {"type"} \cup RequiredFields[json.type] \cup OptionalFields[json.type] |->
          IF f \in DOMAIN json THEN json[f] ELSE NULL]
message_from_json(row) ==
  LET blocks == [i \in DOMAIN row.body.blocks |-> content_from_json(row.body.blocks[i])]
  IN IF row.body.version # 1 \/ NULL \in ToSet(blocks) THEN NULL
     ELSE [role |-> row.role, blocks |-> blocks, size |-> row.body.size]

-------------------------------------------------------------------------------
(* Statements, by the columns of their parameters.                             *)

\* The columns a SELECT or RETURNING of turns and of events yields, in order.
TurnColumns ==
  <<"turn_id", "parent_turn_id", "session_id", "agent_key", "origin", "route_profile", "route_model", "started_at_ns",
    "finished_at_ns", "stop_reason", "iteration_count", "prompt_prefix_hash", "prompt_prefix_bytes",
    "active_catalog_hash", "cache_creation_tokens", "cache_read_tokens", "input_tokens", "output_tokens",
    "cost_estimate_usd", "cancellation_phase", "context_json", "schema_version">>
EventColumns ==
  <<"id", "event_kind", "scope_key", "agent_key", "tool_name", "identity", "verdict", "outcome", "reason",
    "input_hash_hex", "parent_turn_id", "metadata_json">>
\* VALUES has the literal 0 in the place of deferred_catalog_hash.
kAppendTurnSql ==
  [table |-> "turns", verb |-> "insert",
   columns |-> <<"turn_id", "parent_turn_id", "session_id", "agent_key", "origin", "route_profile", "route_model",
                 "started_at_ns", "finished_at_ns", "stop_reason", "iteration_count", "prompt_prefix_hash",
                 "prompt_prefix_bytes", "active_catalog_hash", "deferred_catalog_hash", "cache_creation_tokens",
                 "cache_read_tokens", "input_tokens", "output_tokens", "cost_estimate_usd", "cancellation_phase",
                 "context_json", "schema_version">>]
kGetTurnSql == [table |-> "turns", verb |-> "get", columns |-> <<"turn_id">>]
kAppendEventSql == [table |-> "events", verb |-> "insert",
                    columns |-> <<"event_kind", "scope_key", "agent_key", "tool_name", "identity", "verdict", "outcome",
                                  "reason", "input_hash_hex", "parent_turn_id", "metadata_json">>]

Asked(options, columns) == SelectSeq(columns, LAMBDA c : options[c] # "")
build_event_list_sql(options) ==
  [table |-> "events", verb |-> "list",
   columns |-> <<"scope_key">> \o Asked(options, <<"agent_key", "tool_name", "event_kind", "outcome">>) \o <<"limit">>]
build_turn_list_sql(options) ==
  [table |-> "turns", verb |-> "list", columns |-> Asked(options, <<"session_id", "agent_key">>) \o <<"limit">>]
kAppendMessageSql == [table |-> "messages", verb |-> "insert", columns |-> <<"key", "key", "role", "body">>]
kLoadMessagesSql == [table |-> "messages", verb |-> "all", columns |-> <<"key">>]
kLoadTailSql == [table |-> "messages", verb |-> "tail", columns |-> <<"key", "limit">>]
kLoadAfterSql == [table |-> "messages", verb |-> "after", columns |-> <<"key", "after", "through", "limit">>]
kGetSessionSql == [table |-> "sessions", verb |-> "get", columns |-> <<"key">>]

SqlOf(op) ==
  CASE op.kind = "append_event" -> kAppendEventSql
    [] op.kind = "append_turn" -> kAppendTurnSql
    [] op.kind = "get_turn" -> kGetTurnSql
    [] op.kind = "list_events" -> build_event_list_sql(op.options)
    [] op.kind = "list_turns" -> build_turn_list_sql(op.options)
    [] op.kind = "append_messages" -> kAppendMessageSql
    [] op.kind = "load_messages" -> kLoadMessagesSql
    [] op.kind = "get_session" -> kGetSessionSql
    [] op.kind = "load_tail" -> kLoadTailSql
    [] op.kind = "load_after" -> kLoadAfterSql

\* The values bound to parameters 1, 2, ... of the statement.
bind_turn(request) ==
  <<request.turn_id, request.parent_turn_id, request.session_id, request.agent_key, request.origin,
    request.route_profile, request.route_model, request.started_at_ns, request.finished_at_ns, request.stop_reason,
    request.iteration_count, to_sql_hash(request.prompt_prefix_hash), request.prompt_prefix_bytes,
    to_sql_hash(request.active_catalog_hash), request.cache_creation_tokens, request.cache_read_tokens,
    request.input_tokens, request.output_tokens, request.cost_estimate_usd, request.cancellation_phase,
    request.context_json, request.schema_version>>
bind_event(request) ==
  <<request.event_kind, request.scope_key, request.agent_key, request.tool_name, request.identity, request.verdict,
    request.outcome, request.reason, IF request.input_hash_hex = "" THEN NULL ELSE request.input_hash_hex,
    request.parent_turn_id, request.metadata_json>>
Given(value) == IF value = "" THEN <<>> ELSE <<value>>
bind_event_list(options) ==
  <<options.scope_key>> \o Given(options.agent_key) \o Given(options.tool_name) \o Given(options.event_kind)
    \o Given(options.outcome) \o <<options.limit>>
bind_turn_list(options) == Given(options.session_id) \o Given(options.agent_key) \o <<options.limit>>

BindingsOf(op) ==
  CASE op.kind = "append_event" -> bind_event(op.request)
    [] op.kind = "append_turn" -> bind_turn(op.request)
    [] op.kind = "get_turn" -> <<op.turn_id>>
    [] op.kind = "list_events" -> bind_event_list(op.options)
    [] op.kind = "list_turns" -> bind_turn_list(op.options)
    [] op.kind = "append_messages" -> <<op.key, op.key, Last(op.bodies).role, message_to_json(Last(op.bodies))>>
    [] op.kind \in {"load_messages", "get_session"} -> <<op.key>>
    [] op.kind = "load_tail" -> <<op.key, op.max_messages>>
    [] op.kind = "load_after" -> <<op.key, op.after, op.through, op.max_messages>>

validate_key(key) == key.session_id # "" /\ key.agent_key # ""
valid_tail(op) == op.max_messages \in 1..4096 /\ op.max_bytes \in 1..16 * 1024 * 1024

\* What is refused before a connection is asked for.
Accepts(op) ==
  CASE op.kind = "append_event" -> valid_event(op.request)
    [] op.kind = "append_turn" -> valid_turn(op.request)
    [] op.kind = "get_turn" -> op.turn_id # ZeroId
    [] op.kind = "list_events" -> op.options.scope_key # "" /\ op.options.limit > 0
    [] op.kind = "list_turns" -> op.options.limit > 0 /\ op.options.session_id # ZeroId
    [] op.kind = "append_messages" -> validate_key(op.key) /\ \A i \in DOMAIN op.bodies : op.bodies[i].size > 0
    [] op.kind \in {"load_messages", "get_session"} -> validate_key(op.key)
    [] op.kind = "load_tail" -> validate_key(op.key) /\ valid_tail(op)
    [] op.kind = "load_after" -> validate_key(op.key) /\ op.after >= 0 /\ op.through >= op.after /\ valid_tail(op)

-------------------------------------------------------------------------------
(* entries: the statements in existence, by number. lru: the cached ones, the   *)
(* most recently used first. lease: the statement each holder uses and for what.*)
(* turns, events, messages: the rows of the tables, in insertion order. inserted: *)
(* ghost, the requests whose insert succeeded.                                  *)

VARIABLES entries, lru, lease, turns, events, messages, inserted

vars == <<entries, lru, lease, turns, events, messages, inserted>>

NoLease == [entry |-> 0, op |-> NULL, stage |-> "none"]
Numbers == 1..(Capacity + Cardinality(Holders))

Init ==
  /\ entries = <<>>
  /\ lru = <<>>
  /\ lease = [h \in Holders |-> NoLease]
  /\ turns = <<>>
  /\ events = <<>>
  /\ messages = [i \in DOMAIN Messages |->
       [key |-> Messages[i].key, sequence |-> Messages[i].sequence, role |-> Messages[i].message.role,
        body |-> message_to_json(Messages[i].message)]]
  /\ inserted = <<>>

Appends == {"append_turn", "append_event", "append_messages"}

prepare(sql) == [sql |-> sql, bound |-> <<>>, row |-> FALSE, failed |-> FALSE, leased |-> TRUE, orphaned |-> FALSE]
\* reset reports the error of the last step, and clears it.
reset(entry) == [entry EXCEPT !.row = FALSE, !.failed = FALSE]
clear_bindings(entry) == [entry EXCEPT !.bound = <<>>]

Cached(sql) == {i \in DOMAIN lru : entries[lru[i]].sql = sql}
Unused == CHOOSE n \in Numbers : n \notin DOMAIN entries
Keep(n) == [m \in DOMAIN entries \ {n} |-> entries[m]]
With(es, n, entry) == [m \in DOMAIN es \cup {n} |-> IF m = n THEN entry ELSE es[m]]

Hold(h, n, op) == lease' = [lease EXCEPT ![h] = [entry |-> n, op |-> op, stage |-> "leased"]]

\* A mutant: a cached statement is handed out although it is leased.
HitLeased(h, op, i) ==
  LET n == lru[i]
  IN /\ lru' = <<n>> \o RemoveAt(lru, i)
     /\ entries' = [entries EXCEPT ![n] = [clear_bindings(reset(@)) EXCEPT !.leased = TRUE]]
     /\ Hold(h, n, op)

Hit(h, op, i) ==
  LET n == lru[i]
  IN /\ ~entries[n].leased
     /\ lru' = <<n>> \o RemoveAt(lru, i)
     /\ entries' = [entries EXCEPT ![n] = [clear_bindings(reset(@)) EXCEPT !.leased = TRUE]]
     /\ Hold(h, n, op)

\* The least recently used statement that nobody holds makes room; with none,
\* the new statement stays outside the cache.
Miss(h, op) ==
  LET n == Unused
      free == {i \in DOMAIN lru : ~entries[lru[i]].leased}
      victim == lru[Max(free)]
  IN /\ Hold(h, n, op)
     /\ IF Len(lru) < Capacity
        THEN lru' = <<n>> \o lru /\ entries' = With(entries, n, prepare(SqlOf(op)))
        ELSE IF free = {}
        THEN lru' = lru /\ entries' = With(entries, n, [prepare(SqlOf(op)) EXCEPT !.orphaned = TRUE])
        ELSE lru' = <<n>> \o RemoveAt(lru, Max(free)) /\ entries' = With(Keep(victim), n, prepare(SqlOf(op)))

acquire(h, op) ==
  /\ lease[h] = NoLease
  /\ Accepts(op)
  /\ IF Cached(SqlOf(op)) # {} THEN \E i \in Cached(SqlOf(op)) : Hit(h, op, i) ELSE Miss(h, op)
  /\ UNCHANGED <<turns, events, messages, inserted>>

StoredTurn(bound) ==
  LET columns == kAppendTurnSql.columns
  IN [c \in ToSet(columns) |->
        LET i == CHOOSE j \in DOMAIN columns : columns[j] = c
        IN IF i < 15 THEN bound[i] ELSE IF i = 15 THEN 0 ELSE bound[i - 1]]
StoredEvent(bound, id) ==
  [c \in ToSet(kAppendEventSql.columns) \cup {"id"} |->
     IF c = "id" THEN id ELSE bound[CHOOSE j \in DOMAIN kAppendEventSql.columns : kAppendEventSql.columns[j] = c]]

Of(key) == SelectSeq(messages, LAMBDA m : m.key = key)
\* One transaction: each insert takes the sequence number after the greatest.
insert_messages(key, bodies) ==
  messages \o [i \in DOMAIN bodies |->
    [key |-> key, sequence |-> Max({0} \cup {m.sequence : m \in ToSet(Of(key))}) + i,
     role |-> bodies[i].role, body |-> message_to_json(bodies[i])]]

\* Bind every parameter, then step; an insert's row is durable once it is done.
\* turn_id is the primary key.
BindAndStep(h) ==
  /\ lease[h].stage = "leased"
  /\ LET op == lease[h].op
         n == lease[h].entry
         bound == BindingsOf(op)
     IN /\ entries' = [entries EXCEPT ![n].bound = bound, ![n].row = TRUE]
        /\ op.kind \in Appends => Len(inserted) < MaxRows
        /\ op.kind = "append_turn" => \A t \in ToSet(turns) : t.turn_id # bound[1]
        /\ turns' = IF op.kind = "append_turn" THEN Append(turns, StoredTurn(bound)) ELSE turns
        /\ events' = IF op.kind = "append_event" THEN Append(events, StoredEvent(bound, Len(events) + 1)) ELSE events
        /\ messages' = IF op.kind = "append_messages" THEN insert_messages(bound[1], op.bodies) ELSE messages
        /\ inserted' = IF op.kind \in Appends THEN Append(inserted, op) ELSE inserted
  /\ lease' = [lease EXCEPT ![h].stage = "stepped"]
  /\ UNCHANGED lru

\* A step fails: the disk, a constraint, or a row of the wrong type.
StepFails(h) ==
  /\ lease[h].stage = "leased"
  /\ entries' = [entries EXCEPT ![lease[h].entry] = [@ EXCEPT !.bound = BindingsOf(lease[h].op), !.failed = TRUE]]
  /\ lease' = [lease EXCEPT ![h].stage = "failed"]
  /\ UNCHANGED <<lru, turns, events, messages, inserted>>

\* A statement that cannot be reset leaves the cache; an orphan is finalized.
release(h) ==
  LET n == lease[h].entry
      entry == entries[n]
      cached == {i \in DOMAIN lru : lru[i] = n}
  IN /\ lease[h] # NoLease
     /\ lease' = [lease EXCEPT ![h] = NoLease]
     /\ IF entry.orphaned \/ cached = {} THEN entries' = Keep(n) /\ UNCHANGED lru
        ELSE IF entry.failed
        THEN entries' = Keep(n) /\ lru' = RemoveAt(lru, Max(cached))
        ELSE /\ entries' = [entries EXCEPT ![n] = [clear_bindings(reset(@)) EXCEPT !.leased = FALSE]]
             /\ UNCHANGED lru
     /\ UNCHANGED <<turns, events, messages, inserted>>

clear ==
  /\ lru # <<>>
  /\ entries' = [n \in {m \in DOMAIN entries : entries[m].leased} |-> [entries[n] EXCEPT !.orphaned = TRUE]]
  /\ lru' = <<>>
  /\ UNCHANGED <<lease, turns, events, messages, inserted>>

Next ==
  \/ \E h \in Holders : (\E op \in Operations[h] : acquire(h, op)) \/ BindAndStep(h) \/ StepFails(h) \/ release(h)
  \/ clear

Spec == Init /\ [][Next]_vars

-------------------------------------------------------------------------------
(* What a stepped statement yields, and how the repositories read it.          *)

Cells(row, columns) == [i \in DOMAIN columns |-> row[columns[i]]]

read_turn_row(c) ==
  [turn_id |-> c[1], parent_turn_id |-> c[2], session_id |-> c[3], agent_key |-> c[4], origin |-> c[5],
   route_profile |-> c[6], route_model |-> c[7], started_at_ns |-> c[8], finished_at_ns |-> c[9], stop_reason |-> c[10],
   iteration_count |-> c[11], prompt_prefix_hash |-> from_sql_hash(c[12]), prompt_prefix_bytes |-> c[13],
   active_catalog_hash |-> from_sql_hash(c[14]), cache_creation_tokens |-> c[15], cache_read_tokens |-> c[16],
   input_tokens |-> c[17], output_tokens |-> c[18], cost_estimate_usd |-> c[19], cancellation_phase |-> c[20],
   context_json |-> c[21], schema_version |-> c[22]]

read_event_row(c) ==
  [event_kind |-> c[2], scope_key |-> c[3], agent_key |-> c[4], tool_name |-> c[5], identity |-> c[6], verdict |-> c[7],
   outcome |-> c[8], reason |-> c[9], input_hash_hex |-> IF c[10] = NULL THEN "" ELSE c[10], parent_turn_id |-> c[11],
   metadata_json |-> c[12]]

FirstRows(rows, limit) == SubSeq(rows, 1, Min({limit, Len(rows)}))
Where(rows, entry) ==
  SelectSeq(rows, LAMBDA row : \A i \in 1..Len(entry.sql.columns) - 1 : row[entry.sql.columns[i]] = entry.bound[i])
IdLess(a, b) == \E i, j \in DOMAIN IdOrder : i < j /\ IdOrder[i] = a /\ IdOrder[j] = b
NewestTurnFirst(a, b) ==
  a.started_at_ns > b.started_at_ns \/ (a.started_at_ns = b.started_at_ns /\ IdLess(a.turn_id, b.turn_id))
Selected(entry) ==
  LET limit == entry.bound[Len(entry.bound)]
  IN CASE entry.sql = kGetTurnSql -> SelectSeq(turns, LAMBDA t : t.turn_id = entry.bound[1])
       [] entry.sql.table = "turns" -> FirstRows(SortSeq(Where(turns, entry), NewestTurnFirst), limit)
       [] entry.sql.table = "events" -> FirstRows(Reverse(Where(events, entry)), limit)
       [] entry.sql = kLoadMessagesSql -> Of(entry.bound[1])
       [] entry.sql = kLoadTailSql -> FirstRows(Reverse(Of(entry.bound[1])), limit)
       [] entry.sql = kLoadAfterSql ->
            FirstRows(SelectSeq(Of(entry.bound[1]), LAMBDA m : m.sequence > entry.bound[2] /\ m.sequence <= entry.bound[3]),
                      limit)
       \* A trigger of the first insert creates the row; the join counts.
       [] entry.sql = kGetSessionSql ->
            IF Of(entry.bound[1]) = <<>> THEN <<>>
            ELSE <<[key |-> entry.bound[1], message_count |-> Len(Of(entry.bound[1]))]>>

\* The rows taken while their bytes fit.
RECURSIVE Fitting(_, _)
Fitting(rows, remaining) ==
  IF rows = <<>> \/ Head(rows).body.size > remaining THEN <<>>
  ELSE <<Head(rows)>> \o Fitting(Tail(rows), remaining - Head(rows).body.size)
load_tail(rows, op) == Reverse(Fitting(rows, op.max_bytes))
\* A first row over the budget and a gap are errors.
load_after(rows, op) ==
  LET page == Fitting(rows, op.max_bytes)
  IN IF (rows # <<>> /\ page = <<>>) \/ \E i \in DOMAIN page : page[i].sequence # op.after + i THEN NULL ELSE page

Decoded(rows) == [i \in DOMAIN rows |-> message_from_json(rows[i])]
Answer(op, entry) ==
  CASE op.kind \in {"get_turn", "list_turns"} ->
         [i \in DOMAIN Selected(entry) |-> read_turn_row(Cells(Selected(entry)[i], TurnColumns))]
    [] op.kind = "list_events" ->
         [i \in DOMAIN Selected(entry) |-> read_event_row(Cells(Selected(entry)[i], EventColumns))]
    [] op.kind = "get_session" -> Selected(entry)
    [] op.kind = "load_messages" -> Decoded(Selected(entry))
    [] op.kind = "load_tail" -> Decoded(load_tail(Selected(entry), op))
    [] op.kind = "load_after" ->
         LET page == load_after(Selected(entry), op) IN IF page = NULL THEN NULL ELSE Decoded(page)

-------------------------------------------------------------------------------
(* Properties.                                                                 *)

Sent(kind) == LET ops == SelectSeq(inserted, LAMBDA op : op.kind = kind) IN [i \in DOMAIN ops |-> ops[i].request]
Suits(request, options, fields) == \A f \in fields : options[f] = "" \/ request[f] = options[f]
Bytes(bodies) == FoldLeft(LAMBDA sum, b : sum + b.size, 0, bodies)

\* The messages appended under a key, in order.
Sequences(ops) == FlattenSeq([i \in DOMAIN ops |-> ops[i].bodies])
History(key) ==
  LET old == SelectSeq(Messages, LAMBDA m : m.key = key)
  IN [i \in DOMAIN old |-> old[i].message]
       \o Sequences(SelectSeq(inserted, LAMBDA op : op.kind = "append_messages" /\ op.key = key))

RightMessages(op, answer) ==
  LET history == History(op.key)
      Newest(n) == SubSeq(history, Len(history) - n + 1, Len(history))
      kept == {n \in 0..Min({op.max_messages, Len(history)}) : Bytes(Newest(n)) <= op.max_bytes}
  IN CASE op.kind = "load_messages" -> answer = history
       [] op.kind = "get_session" ->
            IF history = <<>> THEN answer = <<>> ELSE answer = <<[key |-> op.key, message_count |-> Len(history)]>>
       [] op.kind = "load_tail" -> answer = Newest(Max(kept))
       [] op.kind = "load_after" ->
            \/ answer = NULL /\ op.after < Len(history) /\ history[op.after + 1].size > op.max_bytes
            \/ /\ answer # NULL
               /\ answer = SubSeq(history, op.after + 1, op.after + Len(answer))
               /\ Bytes(answer) <= op.max_bytes
               /\ answer = <<>> => Min({op.through, Len(history)}) <= op.after

\* The answer a caller should get, from the requests that were stored.
Right(op, answer) ==
  LET sent == Sent(IF op.kind = "list_events" THEN "append_event" ELSE "append_turn")
      chosen == CASE op.kind = "get_turn" -> {i \in DOMAIN sent : sent[i].turn_id = op.turn_id}
                  [] op.kind = "list_turns" -> {i \in DOMAIN sent : Suits(sent[i], op.options, {"session_id", "agent_key"})}
                  [] op.kind = "list_events" ->
                       {i \in DOMAIN sent : Suits(sent[i], op.options, {"scope_key", "agent_key", "tool_name", "event_kind", "outcome"})}
      newer(j, i) == IF op.kind = "list_turns" THEN NewestTurnFirst(sent[j], sent[i]) ELSE j > i
      first(i) == 1 + Cardinality({j \in chosen : newer(j, i)})
      wanted == IF op.kind = "get_turn" THEN chosen ELSE {i \in chosen : first(i) <= op.options.limit}
  IN Len(answer) = Cardinality(wanted) /\ \A i \in wanted : answer[first(i)] = sent[i]

\* Whatever statement the cache hands out, and whatever was bound to it before,
\* a caller of get_turn, list_turns, list_events, load_messages, load_tail,
\* load_after and get_session gets
\* the stored records that match its options: every field as it was sent, the
\* newest first and turns of one time by id, within its limits, without gap (trace_repository.cpp:403,
\* audit_repository.cpp:293, session_repository.cpp:407, 446).
AnswersMatch ==
  \A h \in Holders :
    lease[h].stage = "stepped" /\ lease[h].op.kind \notin Appends =>
      LET answer == Answer(lease[h].op, entries[lease[h].entry])
      IN IF lease[h].op.kind \in {"get_turn", "list_turns", "list_events"} THEN Right(lease[h].op, answer)
         ELSE RightMessages(lease[h].op, answer)

\* A statement has at most one holder; the cache keeps one statement for a text
\* and never more than its capacity; it never drops a statement in use; and a
\* statement that waits in it is reset, unbound and not the survivor of a failed
\* step (statement_cache.cpp:112, 227).
StatementsExclusive ==
  /\ \A g, h \in Holders : g # h /\ lease[g] # NoLease => lease[g].entry # lease[h].entry
  /\ Len(lru) <= Capacity /\ \A i, j \in DOMAIN lru : entries[lru[i]].sql = entries[lru[j]].sql => i = j
  /\ \A h \in Holders : lease[h] # NoLease =>
       lease[h].entry \in DOMAIN entries /\ entries[lease[h].entry].sql = SqlOf(lease[h].op)
  /\ \A i \in DOMAIN lru :
       IF entries[lru[i]].leased THEN \E h \in Holders : lease[h].entry = lru[i]
       ELSE ~entries[lru[i]].row /\ ~entries[lru[i]].failed /\ entries[lru[i]].bound = <<>>
===============================================================================
