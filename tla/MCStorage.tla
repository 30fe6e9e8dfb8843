------------------------------ MODULE MCStorage ------------------------------
(* The storage components side by side: part says which one a behaviour is   *)
(* of, and the variables of the others stay as they are.                     *)
EXTENDS Migrations, TLC

CONSTANTS r1, r2, h1, h2, m1, m2, NULL, None, Absent

VARIABLES part,
          entries, lru, lease, turns, events, messages, inserted,                \* Repositories
          source, schema, dest, locked, job, backup, past, writes,    \* SessionImport
          store, draft, writer, calls                                  \* Memory

-----------------------------------------------------------------------------
File(d, n) == [extension |-> "sql", digits |-> d, name |-> n, sql |-> n, bytes |-> 1]
Dirs ==
  {{}, {File(1, "sessions-initial"), File(2, "other")}, {File(1, "a"), File(3, "c")},
   {[File(1, "a") EXCEPT !.bytes = 9]}, {File(1, "a"), [File(2, "b") EXCEPT !.extension = "txt"]},
   {File(-1, "a")}, {File(1, "a"), File(1, "b")}}
Rows(names) == [i \in DOMAIN names |-> [version |-> i, name |-> names[i], sql |-> names[i]]]
GivenLists == {Rows(<<"sessions-initial">>), Rows(<<"a", "b", "c">>), Rows(<<"">>)}

ASSUME ListsAreLists

-----------------------------------------------------------------------------
Turn(id, session, agent, started) ==
  [turn_id |-> id, parent_turn_id |-> IF id = "t1" THEN NULL ELSE "t1", session_id |-> session, agent_key |-> agent,
   origin |-> "o", route_profile |-> "p", route_model |-> "m", started_at_ns |-> started, finished_at_ns |-> 9,
   stop_reason |-> "s", iteration_count |-> 1, prompt_prefix_hash |-> 6, prompt_prefix_bytes |-> 2,
   active_catalog_hash |-> 3, cache_creation_tokens |-> 4, cache_read_tokens |-> 5, input_tokens |-> 7,
   output_tokens |-> 8, cost_estimate_usd |-> 10, cancellation_phase |-> NULL, context_json |-> "c", schema_version |-> 11]
Event(agent, tool, hash) ==
  [event_kind |-> "k", scope_key |-> "z", agent_key |-> agent, tool_name |-> tool, identity |-> "i", verdict |-> "v",
   outcome |-> "u", reason |-> "r", input_hash_hex |-> hash, parent_turn_id |-> NULL, metadata_json |-> "j"]
Events(agent, tool, kind, outcome, limit) ==
  [scope_key |-> "z", agent_key |-> agent, tool_name |-> tool, event_kind |-> kind, outcome |-> outcome, limit |-> limit]
Turns(session, agent, limit) == [session_id |-> session, agent_key |-> agent, limit |-> limit]
Key(session) == [session_id |-> session, agent_key |-> "a"]
Said(role, block, size) == [role |-> role, blocks |-> <<block>>, size |-> size]
Text(text) == [type |-> "text", text |-> text]
Calling == [type |-> "tool_use", id |-> "u", name |-> "n", input_json |-> "{}"]
Thinking(signature) == [type |-> "thinking", thinking |-> "h", signature |-> signature]
ResultOf(data) == [type |-> "tool_result", tool_use_id |-> "u", output |-> "o", data_json |-> data, is_error |-> FALSE]
Image == [type |-> "image", media_type |-> "png", data_base64 |-> "d"]
Message(n, message) == [key |-> Key("s1"), sequence |-> n, message |-> message]
Ops ==
  {[kind |-> "append_turn", request |-> r] :
     r \in {Turn("t1", "s1", "a", 3), Turn("t2", "s2", "a", 2), Turn("t3", "s2", "a", 2), Turn("zero", "s1", "a", 1)}}
  \cup {[kind |-> "append_event", request |-> r] : r \in {Event("a", "x", ""), Event("b", "x", "ff"), Event("", "x", "")}}
  \cup {[kind |-> "get_turn", turn_id |-> "t1"]}
  \cup {[kind |-> "list_turns", options |-> o] : o \in {Turns("", "a", 1), Turns("s2", "", 2)}}
  \cup {[kind |-> "list_events", options |-> o] :
          o \in {Events("", "", "", "", 1), Events("b", "", "", "", 2), Events("", "x", "k", "u", 2)}}
  \cup {[kind |-> "append_messages", key |-> Key("s1"), bodies |-> <<[Said("assistant", Thinking("sig"), 2) EXCEPT !.blocks = @ \o <<Calling>>]>>],
         [kind |-> "append_messages", key |-> Key("s2"), bodies |-> <<Said("user", Image, 1), Said("user", ResultOf(NULL), 1)>>],
         [kind |-> "load_messages", key |-> Key("s2")], [kind |-> "get_session", key |-> Key("s2")],
         [kind |-> "get_session", key |-> Key("")],
         [kind |-> "load_tail", key |-> Key("s1"), max_messages |-> 3, max_bytes |-> 3],
         [kind |-> "load_after", key |-> Key("s1"), after |-> 0, through |-> 3, max_messages |-> 2, max_bytes |-> 3],
         [kind |-> "load_after", key |-> Key("s1"), after |-> 2, through |-> 4, max_messages |-> 2, max_bytes |-> 3]}
Stored == <<Message(1, Said("user", Text("t"), 1)), Message(2, Said("assistant", Thinking(NULL), 2)),
            Message(3, Said("user", ResultOf("d"), 4))>>

OpsOf == (h1 :> Ops) @@ (h2 :> {op \in Ops : op.kind \in {"list_events", "load_tail"}})

Repository ==
  INSTANCE Repositories WITH Holders <- {h1, h2}, Capacity <- 1, ZeroId <- "zero", HashBits <- 3,
                             Operations <- OpsOf, Messages <- Stored, MaxRows <- 2,
                             IdOrder <- <<"zero", "t1", "t2", "t3">>

Import == INSTANCE SessionImport WITH MaxWrites <- 3, SchemaVersions <- {1, 2}

-----------------------------------------------------------------------------
Note(id, kind, title, body) == [id |-> id, kind |-> kind, title |-> title, body |-> body]
LongId == <<"c", "-", "c", "-", "c">>
NoteIds == <<<<"a">>, <<"b">>, LongId>>
Notes ==
  {Note(<<"a">>, "project", <<"fig">>, <<"pear", "\n", " ", "plum">>),
   Note(<<"a">>, "user", <<"kiwi">>, <<"lime">>) @@ [tags |-> <<<<"fig">>, <<"red">>>>, importance |-> 9],
   Note(<<"b">>, "feedback", <<"fig">>, <<" ", "nut">>), Note(<<"b">>, "other", <<"fig">>, <<"nut">>),
   Note(<<"a">>, "project", <<"\n">>, <<"nut">>)}
RecallInputs ==
  {[query |-> <<"fig">>, kinds |-> <<"project", "user">>],
   [id |-> <<"a">>], [id |-> <<"a">>, query |-> <<"fig">>], [query |-> <<"-">>]}
OldNote(kind, shadow) ==
  [kind |-> kind, title |-> <<"fig">>, body |-> <<"nut", " ", "oil">>, created_at |-> 0, updated_at |-> 1, last_read_at |-> 0,
   importance |-> 5, tags |-> <<>>, linked_record_ids |-> <<>>, shadow |-> shadow]
SourceNotes == (<<"b">> :> OldNote("project", TRUE)) @@ (LongId :> OldNote("reference", FALSE))
CallsOf ==
  (m1 :> [remember |-> Notes, recall |-> RecallInputs, forget |-> {[id |-> <<"a">>], [id |-> LongId], [id |-> <<" ">>]}, import |-> FALSE])
  @@ (m2 :> [remember |-> {}, recall |-> {[query |-> <<"fig">>, limit |-> 1], [limit |-> 1, offset |-> 0]}, forget |-> {}, import |-> TRUE])
ScopeOf == (m1 :> <<"s">>) @@ (m2 :> <<"s">>)

Memories ==
  INSTANCE Memory WITH Callers <- {m1, m2}, Scope <- ScopeOf, Inputs <- CallsOf, Ids <- NoteIds,
                       SourceRecords <- SourceNotes, SourceVersion <- 1, Times <- {3, 4}, Tick <- 2, MaxTerms <- 2, MaxQuery <- 6,
                       TitleCue <- 2, SummaryCue <- 3, Header <- 2, Reserve <- 2, MinIndexBytes <- 6,
                       MaxIndexBytes <- 13, TextCap <- 12

-----------------------------------------------------------------------------
ofRepositories == <<entries, lru, lease, turns, events, messages, inserted>>
ofImport == <<source, schema, dest, locked, job, backup, past, writes>>
ofMemory == <<store, draft, writer, calls>>

StorageInit ==
  /\ part \in {"migrations", "repositories", "import", "memory"}
  /\ MigrationsInit
  /\ IF part = "repositories" THEN Repository!Init ELSE entries = 0 /\ lru = 0 /\ lease = 0 /\ turns = 0 /\ events = 0 /\ messages = 0 /\ inserted = 0
  /\ IF part = "import" THEN Import!ImportInit ELSE source = 0 /\ schema = 0 /\ dest = 0 /\ locked = 0 /\ job = 0 /\ backup = 0 /\ past = 0 /\ writes = 0
  /\ IF part = "memory" THEN Memories!Init ELSE store = 0 /\ draft = 0 /\ writer = 0 /\ calls = 0

StorageNext ==
  \/ part = "migrations" /\ MigrationsNext /\ UNCHANGED <<part, ofRepositories, ofImport, ofMemory>>
  \/ part = "repositories" /\ Repository!Next /\ UNCHANGED <<part, migrationsVars, ofImport, ofMemory>>
  \/ part = "import" /\ Import!ImportNext /\ UNCHANGED <<part, migrationsVars, ofRepositories, ofMemory>>
  \/ part = "memory" /\ Memories!Next /\ UNCHANGED <<part, migrationsVars, ofRepositories, ofImport>>

StorageSpec == StorageInit /\ [][StorageNext]_<<part, migrationsVars, ofRepositories, ofImport, ofMemory>>

-----------------------------------------------------------------------------
\* A caller gets the stored records that match its options; a statement has one
\* holder, and waits reset and unbound (Repositories).
AnswersMatch == part = "repositories" => Repository!AnswersMatch /\ Repository!StatementsExclusive

\* An imported session and a backup are the source at one moment (SessionImport).
ImportWhole == [][part = "import" => Import!ImportStep]_ofImport

\* Every note has one index row, of its current content, the pages of the index
\* show every note once, and the stamps of a note never go back (Memory).
NotesKept ==
  /\ [](part = "memory" => Memories!IndexMatches /\ Memories!IndexTiles)
  /\ [][part = "memory" => Memories!StampStep]_ofMemory
=============================================================================
