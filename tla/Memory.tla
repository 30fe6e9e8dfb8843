-------------------------------- MODULE Memory --------------------------------
(* Long-term memory: the tools MemoryRemember, MemoryRecall and MemoryForget    *)
(* (src/oran-tool, bootstrap/memory_tools.cpp), the store with its full-text    *)
(* index (longterm.cpp, longterm_fts5.cpp, longterm_index.cpp), recall and the  *)
(* paged index (recall.cpp, recall_index.cpp), and the import of a scope        *)
(* (longterm-import.cpp). A text is a sequence of words and separators, its     *)
(* size the number of them. Importance is counted in tenths.                    *)
EXTENDS Integers, SequencesExt, FiniteSetsExt

CONSTANTS Callers, Absent, NoOne, Refused,
          Scope,          \* the scope each caller is bound to
          Inputs,         \* the calls each caller makes
          Ids,            \* in their order
          SourceRecords,  \* a scope of another store, by id, and
          SourceVersion,  \* the version of its schema
          Times,          \* what the clock may show, which may go back
          Tick,           \* clock units in a millisecond
          MaxTerms, MaxQuery, TitleCue, SummaryCue,
          Header, Reserve, MinIndexBytes, MaxIndexBytes, TextCap

-------------------------------------------------------------------------------
(* Texts and what is refused.                                                  *)

kMemoryKinds == <<"user", "feedback", "project", "reference", "team">>
Spaces == {" ", "\n"}
Controls == {"\n", "^A"}
NotUtf8 == "?"
NotWords == Spaces \cup Controls \cup {NotUtf8, "-"}

validate_memory_text(text, multiline) ==
  /\ \E i \in DOMAIN text : text[i] \notin Spaces
  /\ \A i \in DOMAIN text : text[i] # NotUtf8 /\ (text[i] \in Controls => multiline /\ text[i] \in Spaces)
validate_required(value, allow_multiline) == validate_memory_text(value, allow_multiline)
Unique(values) == \A i, j \in DOMAIN values : values[i] = values[j] => i = j
validate_string_list(values) == (\A i \in DOMAIN values : validate_required(values[i], FALSE)) /\ Unique(values)
validate_key(key) == validate_required(key.id, FALSE) /\ validate_required(key.scope_key, FALSE)
validate_record(key, r) ==
  /\ validate_key(key)
  /\ validate_required(r.title, FALSE) /\ validate_required(r.body, TRUE)
  /\ r.importance \in 0..10
  /\ r.created_at <= r.updated_at /\ r.created_at <= r.last_read_at
  /\ validate_string_list(r.tags) /\ validate_string_list(r.linked_record_ids)
validate_query(query, limit) ==
  /\ validate_required(query.scope_key, FALSE) /\ validate_required(query.text, TRUE)
  /\ Len(query.text) <= MaxQuery
  /\ Unique(query.kinds) /\ limit \in 1..100
validate_recall_request(request) ==
  IF request.id = <<>> THEN validate_query(request.query, request.limit)
  ELSE /\ request.query.text = <<>>
       /\ validate_key([id |-> request.id, scope_key |-> request.query.scope_key])
       /\ Unique(request.query.kinds) /\ request.limit \in 1..100
validate_index_request(request) ==
  /\ validate_required(request.scope_key, FALSE) /\ Unique(request.kinds)
  /\ request.limit \in 1..20
  /\ request.max_bytes \in MinIndexBytes..MaxIndexBytes

\* An input is a record of the fields the model sent.
Has(input, field) == field \in DOMAIN input
Or(input, field, default) == IF Has(input, field) THEN input[field] ELSE default

parse_kinds(kinds) == Unique(kinds) /\ \A i \in DOMAIN kinds : kinds[i] \in ToSet(kMemoryKinds)
parse_recall(input) ==
  LET query == Or(input, "query", <<>>)
      id == Or(input, "id", <<>>)
      limit == Or(input, "limit", IF id # <<>> THEN 1 ELSE IF query = <<>> THEN 20 ELSE 5)
      kinds == Or(input, "kinds", <<>>)
  IN IF /\ Cardinality(DOMAIN input \cap {"query", "id", "offset"}) <= 1
        /\ Has(input, "query") => validate_memory_text(query, TRUE) /\ Len(query) <= MaxQuery
        /\ Has(input, "id") => validate_memory_text(id, FALSE)
        /\ Or(input, "offset", 0) >= 0 /\ limit \in 1..20
        /\ parse_kinds(kinds)
     THEN [query |-> query, id |-> id, offset |-> Or(input, "offset", 0), limit |-> limit, kinds |-> kinds]
     ELSE Refused
parse_string_array(values) == Unique(values) /\ \A i \in DOMAIN values : validate_memory_text(values[i], FALSE)
parse_remember(input) ==
  LET tags == Or(input, "tags", <<>>)
      links == Or(input, "linked_record_ids", <<>>)
  IN IF /\ {"id", "kind", "title", "body"} \subseteq DOMAIN input
        /\ validate_memory_text(input.id, FALSE) /\ input.kind \in ToSet(kMemoryKinds)
        /\ validate_memory_text(input.title, FALSE) /\ validate_memory_text(input.body, TRUE)
        /\ Or(input, "importance", 5) \in 0..10
        /\ parse_string_array(tags) /\ parse_string_array(links)
     THEN [id |-> input.id, kind |-> input.kind, title |-> input.title, body |-> input.body,
           importance |-> Or(input, "importance", 5), tags |-> tags, linked_record_ids |-> links]
     ELSE Refused
parse_forget(input) == IF Has(input, "id") /\ validate_memory_text(input.id, FALSE) THEN [id |-> input.id] ELSE Refused

-------------------------------------------------------------------------------
(* store: the committed tables, the records by key and the index rows of each   *)
(* key. draft: the tables as the transaction of writer sees them. calls: where  *)
(* each caller is in its call.                                                  *)

VARIABLES store, draft, writer, calls

vars == <<store, draft, writer, calls>>

Keys == [id : ToSet(Ids), scope_key : {Scope[c] : c \in Callers}]
Idle == [stage |-> "idle"]

Init ==
  /\ store = [records |-> [k \in Keys |-> Absent], fts |-> [k \in Keys |-> <<>>]]
  /\ draft = store
  /\ writer = NoOne
  /\ calls = [c \in Callers |-> Idle]

At(c, stage) == calls[c].stage = stage
Goto(c, frame) == calls' = [calls EXCEPT ![c] = frame]
Return(c) == Goto(c, Idle)

\* Times are stored as text of whole milliseconds.
format_iso8601_utc(time) == time \div Tick

RecordOf(request, now) ==
  [kind |-> request.kind, title |-> request.title, body |-> request.body, created_at |-> now, updated_at |-> now,
   last_read_at |-> now, importance |-> request.importance, tags |-> request.tags,
   linked_record_ids |-> request.linked_record_ids, shadow |-> FALSE]

\* A call is parsed, then prepared by the runtime for the scope it is bound to.
CallRemember(c, input) ==
  LET request == parse_remember(input)
  IN /\ At(c, "idle") /\ request # Refused
     /\ \E now \in Times :
          Goto(c, [stage |-> "hook", key |-> [id |-> request.id, scope_key |-> Scope[c]],
                   record |-> RecordOf(request, format_iso8601_utc(now))])
     /\ UNCHANGED <<store, draft, writer>>

\* A hook may refuse the write: it fails, vetoes, rewrites or wants an approval.
HookDecides(c) ==
  /\ At(c, "hook")
  /\ \/ validate_record(calls[c].key, calls[c].record) /\ Goto(c, [calls[c] EXCEPT !.stage = "upsert"])
     \/ Return(c)
  /\ UNCHANGED <<store, draft, writer>>

CallForget(c, input) ==
  LET request == parse_forget(input)
  IN /\ At(c, "idle") /\ request # Refused
     /\ validate_key([id |-> request.id, scope_key |-> Scope[c]])
     /\ Goto(c, [stage |-> "remove", key |-> [id |-> request.id, scope_key |-> Scope[c]]])
     /\ UNCHANGED <<store, draft, writer>>

-------------------------------------------------------------------------------
(* Reading.                                                                    *)

Words(text) == SelectSeq(text, LAMBDA t : t \notin NotWords)
make_fts_query(text) == LET words == Words(text) IN ToSet(SubSeq(words, 1, Min({MaxTerms, Len(words)})))
joined_tags(tags) == FlattenSeq([i \in DOMAIN tags |-> IF i = 1 THEN tags[i] ELSE <<" ">> \o tags[i]])
IndexRow(r) == [kind |-> r.kind, shadow |-> r.shadow, title |-> r.title, body |-> r.body, tags |-> joined_tags(r.tags)]
Matches(row, terms) == terms \cap ToSet(Words(row.title \o row.body \o row.tags)) # {}
OfKinds(r, kinds) == kinds = <<>> \/ r.kind \in ToSet(kinds)

\* The rows of the index that match, joined with the records; the rank is the
\* engine's, so any choice of at most limit of them is possible.
search(query, limit) ==
  LET found == {k \in Keys : /\ k.scope_key = query.scope_key
                             /\ \E i \in DOMAIN store.fts[k] : Matches(store.fts[k][i], make_fts_query(query.text))
                             /\ store.records[k] # Absent /\ ~store.records[k].shadow
                             /\ OfKinds(store.records[k], query.kinds)}
  IN {hits \in SUBSET found : Cardinality(hits) = Min({limit, Cardinality(found)})}
get(key, kinds) ==
  LET r == store.records[key] IN {hits \in {{key}} : r # Absent /\ ~r.shadow /\ OfKinds(r, kinds)}

\* The first half of recall: the snapshot, without a lock.
CallRecall(c, input) ==
  LET request == parse_recall(input)
      query == [scope_key |-> Scope[c], text |-> request.query, kinds |-> request.kinds]
      asked == [query |-> query, id |-> request.id, limit |-> request.limit]
  IN /\ At(c, "idle") /\ request # Refused
     /\ request.query # <<>> \/ request.id # <<>>
     /\ validate_recall_request(asked)
     /\ \E hits \in IF request.id # <<>> THEN get([id |-> request.id, scope_key |-> Scope[c]], request.kinds)
                    ELSE search(query, request.limit) :
          /\ hits # {}
          /\ \E now \in Times : Goto(c, [stage |-> "touch", keys |-> hits, read_at |-> format_iso8601_utc(now)])
     /\ UNCHANGED <<store, draft, writer>>

\* The order of the index: corrections, then facts about the user, then the rest.
Rank(kind) == CASE kind = "feedback" -> 0 [] kind = "user" -> 1 [] OTHER -> 2
Position(id) == CHOOSE i \in DOMAIN Ids : Ids[i] = id
IndexBefore(a, b) ==
  LET x == store.records[a]
      y == store.records[b]
      before == <<Rank(x.kind) - Rank(y.kind), y.importance - x.importance, y.updated_at - x.updated_at,
                  Position(a.id) - Position(b.id)>>
      first == CHOOSE i \in DOMAIN before : before[i] # 0 /\ \A j \in 1..i - 1 : before[j] = 0
  IN before[first] < 0
Listed(scope_key, kinds) ==
  SetToSortSeq({k \in Keys : k.scope_key = scope_key /\ store.records[k] # Absent /\ ~store.records[k].shadow
                             /\ OfKinds(store.records[k], kinds)}, IndexBefore)

\* One row more than asked for shows whether there is another page.
list(request) ==
  LET rows == Listed(request.scope_key, request.kinds)
  IN SubSeq(rows, request.offset + 1, Min({request.offset + request.limit + 1, Len(rows)}))

\* Runs of white space become one space; none at the ends.
flatten(text) ==
  LET dark == {i \in DOMAIN text : text[i] \notin Spaces}
      gap(i) == \E j \in dark : j < i - 1 /\ \A n \in j + 1..i - 1 : n \notin dark
  IN FlattenSeq([i \in DOMAIN text |-> IF i \notin dark THEN <<>> ELSE IF gap(i) THEN <<" ", text[i]>> ELSE <<text[i]>>])
cue(text, max) ==
  LET prefix == SubSeq(text, 1, Min({max, Len(text)}))
  IN flatten(prefix) \o (IF prefix # text THEN <<"...">> ELSE <<>>)

Budget(line, used, max) ==
  IF line > max - Header - Reserve THEN "omit" ELSE IF used + line + Reserve > max THEN "break" ELSE "add"

LineOf(key) ==
  Len(key.id) + Len(cue(store.records[key].title, TitleCue)) + Len(cue(store.records[key].body, SummaryCue))

make_index(candidates, request) ==
  LET Step(page, key) ==
        LET verdict == Budget(LineOf(key), page.bytes, request.max_bytes)
        IN CASE page.full \/ verdict = "break" -> [page EXCEPT !.full = TRUE]
             [] ~page.full /\ verdict = "omit" -> [page EXCEPT !.omitted = @ \cup {key}, !.consumed = @ + 1]
             [] ~page.full /\ verdict = "add" ->
                  [page EXCEPT !.entries = Append(@, key), !.bytes = @ + LineOf(key), !.consumed = @ + 1]
      page == FoldLeft(Step, [entries |-> <<>>, bytes |-> Header, omitted |-> {}, consumed |-> 0, full |-> FALSE],
                       SubSeq(candidates, 1, Min({request.limit, Len(candidates)})))
  IN [entries |-> page.entries, bytes |-> page.bytes, omitted |-> page.omitted,
      next_offset |-> IF page.consumed < Len(candidates) THEN request.offset + page.consumed ELSE Absent]

IndexRequest(c, request) ==
  [scope_key |-> Scope[c], kinds |-> request.kinds, limit |-> request.limit, offset |-> request.offset,
   max_bytes |-> IF TextCap = 0 THEN MaxIndexBytes ELSE Min({TextCap, MaxIndexBytes})]

\* The caller browses: it follows next_offset until the index ends, or gives up.
Browse(c, input) ==
  LET request == parse_recall(input)
      asked == IndexRequest(c, request)
      page == make_index(list(asked), asked)
  IN /\ At(c, "idle") /\ request # Refused /\ request.query = <<>> /\ request.id = <<>>
     /\ validate_index_request(asked)
     /\ page.next_offset # Absent
     /\ Goto(c, [stage |-> "paged", request |-> [request EXCEPT !.offset = page.next_offset]])
     /\ UNCHANGED <<store, draft, writer>>

BrowseOn(c) ==
  /\ At(c, "paged")
  /\ LET asked == IndexRequest(c, calls[c].request)
         page == make_index(list(asked), asked)
     IN \/ page.next_offset # Absent /\ Goto(c, [calls[c] EXCEPT !.request.offset = page.next_offset])
        \/ Return(c)
  /\ UNCHANGED <<store, draft, writer>>

-------------------------------------------------------------------------------
(* Writing. One connection writes, in one transaction; the tables change with   *)
(* the commit and a failing statement rolls everything back.                    *)

Begins == [upsert |-> "upsert_row", remove |-> "remove_fts", touch |-> "touch_row", import |-> "import_row"]

Begin(c) ==
  /\ writer = NoOne
  /\ calls[c].stage \in DOMAIN Begins
  /\ writer' = c
  /\ draft' = store
  /\ Goto(c, [calls[c] EXCEPT !.stage = Begins[calls[c].stage]])
  /\ UNCHANGED store

Statement(c, stage, frame, tables) ==
  /\ At(c, stage)
  /\ draft' = tables
  /\ Goto(c, frame)
  /\ UNCHANGED <<store, writer>>

\* kUpsertRecordSql: a note that exists keeps when it was created and read.
Upserted(old, new) ==
  IF old = Absent THEN new
  ELSE [new EXCEPT !.created_at = old.created_at, !.updated_at = Max({old.updated_at, @}),
                   !.last_read_at = old.last_read_at]

\* The columns of a row, and the record a row that is returned is read as.
bind_record(key, r) ==
  <<key.scope_key, key.id, r.kind, r.title, r.body, r.created_at, r.updated_at, r.last_read_at, r.importance, r.tags,
    r.linked_record_ids, r.shadow>>
read_record_row(column) ==
  [kind |-> column[3], title |-> column[4], body |-> column[5], created_at |-> column[6], updated_at |-> column[7],
   last_read_at |-> column[8], importance |-> column[9], tags |-> column[10], linked_record_ids |-> column[11],
   shadow |-> column[12]]

UpsertRow(c) ==
  At(c, "upsert_row") /\
  LET key == calls[c].key
      row == Upserted(draft.records[key], calls[c].record)
      stored == read_record_row(bind_record(key, row))
  IN Statement(c, "upsert_row", [stage |-> "upsert_fts", key |-> key, record |-> stored],
               [draft EXCEPT !.records[key] = row])

\* A mutant: the old index row of a replaced note stays.
delete_fts_row_skipped(tables, key) == tables

delete_fts_row(tables, key) == [tables EXCEPT !.fts[key] = <<>>]
insert_fts_row(tables, key, record) == [tables EXCEPT !.fts[key] = Append(@, IndexRow(record))]

UpsertDeleteIndex(c) ==
  At(c, "upsert_fts") /\
  Statement(c, "upsert_fts", [calls[c] EXCEPT !.stage = "upsert_index"], delete_fts_row(draft, calls[c].key))

UpsertInsertIndex(c) ==
  At(c, "upsert_index") /\
  Statement(c, "upsert_index", [stage |-> "commit"], insert_fts_row(draft, calls[c].key, calls[c].record))

RemoveIndex(c) ==
  At(c, "remove_fts") /\
  Statement(c, "remove_fts", [calls[c] EXCEPT !.stage = "remove_row"], delete_fts_row(draft, calls[c].key))

RemoveRow(c) ==
  At(c, "remove_row") /\
  Statement(c, "remove_row", [stage |-> "commit"], [draft EXCEPT !.records[calls[c].key] = Absent])

\* kTouchRecordSql: a note that is gone, or was read later, is left alone.
Touched(record, read_at) ==
  IF record = Absent \/ record.last_read_at >= read_at THEN record ELSE [record EXCEPT !.last_read_at = read_at]

TouchRow(c) ==
  /\ At(c, "touch_row")
  /\ \E key \in calls[c].keys :
       LET rest == calls[c].keys \ {key}
       IN Statement(c, "touch_row", IF rest = {} THEN [stage |-> "commit"] ELSE [calls[c] EXCEPT !.keys = rest],
                    [draft EXCEPT !.records[key] = Touched(@, calls[c].read_at)])

Commit(c) ==
  /\ At(c, "commit")
  /\ store' = draft
  /\ writer' = NoOne
  /\ Return(c)
  /\ UNCHANGED draft

\* A statement or the commit fails, an import is cancelled, or the process ends.
Rollback(c) ==
  /\ writer = c
  /\ draft' = store
  /\ writer' = NoOne
  /\ Return(c)
  /\ UNCHANGED store

-------------------------------------------------------------------------------
(* Importing a scope of another store, which a read transaction pins.          *)

CallImport(c) ==
  /\ At(c, "idle")
  /\ validate_required(Scope[c], FALSE)
  /\ SourceVersion = 1
  /\ Goto(c, [stage |-> "import", left |-> DOMAIN SourceRecords])
  /\ UNCHANGED <<store, draft, writer>>

\* The destination scope has no record and no index row.
ScopeEmpty(scope_key) == \A k \in Keys : k.scope_key = scope_key => draft.records[k] = Absent /\ draft.fts[k] = <<>>

\* Row by row in the order of the ids; a source without rows is rolled back.
ImportRow(c) ==
  /\ At(c, "import_row")
  /\ calls[c].left = DOMAIN SourceRecords => ScopeEmpty(Scope[c])
  /\ \E id \in calls[c].left :
       LET key == [id |-> id, scope_key |-> Scope[c]]
           rest == calls[c].left \ {id}
       IN /\ \A other \in rest : Position(id) < Position(other)
          /\ Statement(c, "import_row", IF rest = {} THEN [stage |-> "commit"] ELSE [calls[c] EXCEPT !.left = rest],
                       insert_fts_row([draft EXCEPT !.records[key] = SourceRecords[id]], key, SourceRecords[id]))

Next ==
  \E c \in Callers :
    \/ \E input \in Inputs[c].remember : CallRemember(c, input)
    \/ \E input \in Inputs[c].recall : CallRecall(c, input) \/ Browse(c, input)
    \/ \E input \in Inputs[c].forget : CallForget(c, input)
    \/ Inputs[c].import /\ CallImport(c)
    \/ HookDecides(c) \/ BrowseOn(c) \/ Begin(c)
    \/ UpsertRow(c) \/ UpsertDeleteIndex(c) \/ UpsertInsertIndex(c)
    \/ RemoveIndex(c) \/ RemoveRow(c) \/ TouchRow(c) \/ ImportRow(c)
    \/ Commit(c) \/ Rollback(c)

Spec == Init /\ [][Next]_vars

-------------------------------------------------------------------------------
(* Properties.                                                                 *)

\* Between transactions, however they interleave and fail, every note has
\* exactly one index row, of its current content, and the index has no other:
\* a search neither misses a note nor finds what a note used to say
\* (longterm_fts5.cpp:501, 631, longterm-import.cpp:91).
IndexMatches ==
  \A k \in Keys : store.fts[k] = IF store.records[k] = Absent THEN <<>> ELSE <<IndexRow(store.records[k])>>

\* While a note exists its creation time is kept and its update and read times
\* never go back, although the clock may, and a recall may be overtaken between
\* its read and its stamp; a stamp changes nothing else and brings no forgotten
\* note back (longterm_fts5.cpp:79, 101, recall.cpp:38).
StampStep ==
  \A k \in Keys :
    LET old == store.records[k]
        new == store'.records[k]
    IN /\ new # Absent => new.created_at <= new.updated_at /\ new.created_at <= new.last_read_at
       /\ old # Absent /\ new # Absent =>
            /\ new.created_at = old.created_at
            /\ new.updated_at >= old.updated_at /\ new.last_read_at >= old.last_read_at
            /\ new.last_read_at # old.last_read_at => new = [old EXCEPT !.last_read_at = new.last_read_at]
\* The pages from an offset on, by following next_offset at most n times.
RECURSIVE Pages(_, _)
Pages(request, n) ==
  LET page == make_index(list(request), request)
      rest == IF page.next_offset = Absent \/ n = 0 THEN [entries |-> <<>>, omitted |-> {}]
              ELSE Pages([request EXCEPT !.offset = page.next_offset], n - 1)
  IN [entries |-> page.entries \o rest.entries, omitted |-> page.omitted \cup rest.omitted]

\* Whoever follows next_offset through a store at rest sees every live note of
\* the scope and kinds once, in the order of the index, but for the notes whose
\* entry fits no page, which are counted; and comes to an end
\* (recall_index.cpp:33, longterm_index.cpp:79).
IndexTiles ==
  (\A c \in Callers : calls[c] = Idle) =>
    \A c \in Callers, kinds \in {<<>>, <<"project", "feedback">>}, limit \in 1..3 :
      LET request == IndexRequest(c, [kinds |-> kinds, limit |-> limit, offset |-> 0])
          pages == Pages(request, Len(Ids))
      IN validate_index_request(request) =>
           /\ pages.entries = SelectSeq(Listed(Scope[c], kinds), LAMBDA k : k \notin pages.omitted)
           /\ pages.omitted = {k \in ToSet(Listed(Scope[c], kinds)) : LineOf(k) > request.max_bytes - Header - Reserve}
===============================================================================
