------------------------------ MODULE Migrations ------------------------------
(* Schema migrations of one SQLite database run by several processes            *)
(* (src/src/oran-storage/migrations.cpp, migration_assets.cpp and the           *)
(* transactions of sqlite.cpp). A migration is its version, its name and its    *)
(* SQL; a database keeps the recorded names by version and, as ghost state, the *)
(* migrations whose SQL has run.                                                *)
EXTENDS Integers, Sequences, FiniteSets

CONSTANTS Runners, MaxFileBytes, MaxFaults,
          Directories,   \* the directories a runner may be pointed at: sets of files
          Lists,         \* the lists a caller may pass to run_migrations
          NoOne, Refused

-------------------------------------------------------------------------------
(* Loading and validating a list.                                              *)

migrations(versions, names) == [i \in DOMAIN names |-> [version |-> versions[i], name |-> names[i], sql |-> names[i]]]

built_in_audit_migrations ==
  migrations(<<1, 2, 3, 4, 5, 6>>,
             <<"audit-initial", "trace-turns-initial", "audit-parent-turn-id",
               "audit-event-kind", "audit-tool-call-rollups", "audit-drop-tool-call-rollups">>)

built_in_trace_migrations == built_in_audit_migrations

built_in_session_migrations == migrations(<<1, 2>>, <<"sessions-initial", "session-skill-activations">>)

BuiltIn == {built_in_audit_migrations, built_in_trace_migrations, built_in_session_migrations}

validate_migration_list(list) ==
  \A i \in DOMAIN list : list[i].version > 0 /\ list[i].version = i /\ list[i].name # "" /\ list[i].sql # ""

\* A file name is NNNN-name.sql; digits is -1 where the four digits are missing.
load_migration_file(file) ==
  IF file.extension = "sql" /\ file.digits > 0 /\ file.name # "" /\ file.bytes <= MaxFileBytes
  THEN [version |-> file.digits, name |-> file.name, sql |-> file.sql]
  ELSE Refused

SortedByVersion(set) ==
  CHOOSE list \in [1..Cardinality(set) -> set] :
    /\ \A m \in set : \E i \in DOMAIN list : list[i] = m
    /\ \A i, j \in DOMAIN list : i <= j => list[i].version <= list[j].version

load_migrations_from_directory(directory) ==
  LET loaded == {load_migration_file(file) : file \in directory}
  IN IF directory = {} \/ Refused \in loaded THEN Refused
     ELSE LET list == SortedByVersion(loaded)
          IN IF validate_migration_list(list) THEN list ELSE Refused

\* The greatest recorded version, or -1: there is a gap, or more than the list has.
validate_applied_versions(versions, count) ==
  IF \E n \in 0..count : versions = 1..n THEN CHOOSE n \in 0..count : versions = 1..n ELSE -1

-------------------------------------------------------------------------------
(* db: the committed database. recorded: a function from versions to names.    *)
(* ran: the names whose SQL has been executed, in order.                       *)
(* lock: the runner inside BEGIN IMMEDIATE; staged: its uncommitted database.  *)

VARIABLES db, lock, staged, run, faults

migrationsVars == <<db, lock, staged, run, faults>>

Fresh == [table |-> FALSE, recorded |-> <<>>, ran |-> <<>>]
Idle == [pc |-> "off", list |-> <<>>, next |-> 1, previous |-> 0, current |-> 0, applied |-> {}]

MigrationsInit ==
  /\ db = Fresh
  /\ lock = NoOne
  /\ staged = Fresh
  /\ run = [r \in Runners |-> Idle]
  /\ faults = 0

Goto(r, pc) == run' = [run EXCEPT ![r].pc = pc]

\* Every error path destroys the Transaction, which rolls back.
Leave(r, pc) ==
  /\ Goto(r, pc)
  /\ lock' = IF lock = r THEN NoOne ELSE lock
  /\ staged' = IF lock = r THEN Fresh ELSE staged
  /\ UNCHANGED <<db, faults>>

RunMigrations(r, list) ==
  /\ run[r].pc = "off"
  /\ run' = [run EXCEPT ![r] = [Idle EXCEPT !.pc = IF list # Refused /\ validate_migration_list(list)
                                                   THEN "create" ELSE "refused",
                                            !.list = IF list # Refused THEN list ELSE <<>>]]
  /\ UNCHANGED <<db, lock, staged, faults>>

RunFromDirectory(r, directory) == RunMigrations(r, load_migrations_from_directory(directory))

\* The repositories run a built-in list, or a directory when one is configured.
migrate(r) ==
  \/ \E list \in Lists \cup BuiltIn : RunMigrations(r, list)
  \/ \E directory \in Directories : RunFromDirectory(r, directory)

CreateTable(r) ==
  /\ run[r].pc = "create"
  /\ lock = NoOne
  /\ db' = [db EXCEPT !.table = TRUE]
  /\ Goto(r, "read")
  /\ UNCHANGED <<lock, staged, faults>>

ReadApplied(r) ==
  /\ run[r].pc = "read"
  /\ LET current == validate_applied_versions(DOMAIN db.recorded, Len(run[r].list))
     IN run' = [run EXCEPT ![r] = IF current = -1 THEN [@ EXCEPT !.pc = "refused"]
                                  ELSE [@ EXCEPT !.pc = "next", !.previous = current, !.current = current]]
  /\ UNCHANGED <<db, lock, staged, faults>>

\* The loop header: migrations up to the current version are skipped.
NextMigration(r) ==
  /\ run[r].pc = "next"
  /\ run' = [run EXCEPT ![r] = IF @.current >= Len(@.list) THEN [@ EXCEPT !.pc = "done"]
                               ELSE [@ EXCEPT !.pc = "begin", !.next = run[r].current + 1]]
  /\ UNCHANGED <<db, lock, staged, faults>>

Begin(r) ==
  /\ run[r].pc = "begin"
  /\ lock = NoOne
  /\ lock' = r
  /\ staged' = db
  /\ Goto(r, "check")
  /\ UNCHANGED <<db, faults>>

\* What another runner did since ReadApplied is seen here, under the lock.
Check(r) ==
  /\ run[r].pc = "check"
  /\ LET list == run[r].list
         version == run[r].next
         recorded == staged.recorded
     IN IF validate_applied_versions(DOMAIN recorded, Len(list)) = -1
        THEN Leave(r, "refused")
        ELSE IF version \in DOMAIN recorded
             THEN IF recorded[version] # list[version].name THEN Leave(r, "refused")
                  ELSE Goto(r, "skip") /\ UNCHANGED <<db, lock, staged, faults>>
             ELSE Goto(r, "execute") /\ UNCHANGED <<db, lock, staged, faults>>

\* A mutant: the SQL runs outside the transaction.
ExecuteAutocommit(r) ==
  /\ run[r].pc = "execute"
  /\ db' = [db EXCEPT !.ran = Append(@, run[r].list[run[r].next].name)]
  /\ staged' = [staged EXCEPT !.ran = Append(@, run[r].list[run[r].next].name)]
  /\ Goto(r, "record")
  /\ UNCHANGED <<lock, faults>>

Execute(r) ==
  /\ run[r].pc = "execute"
  /\ staged' = [staged EXCEPT !.ran = Append(@, run[r].list[run[r].next].name)]
  /\ Goto(r, "record")
  /\ UNCHANGED <<db, lock, faults>>

\* version is the primary key: a second insert of it is a constraint error.
record_migration(r) ==
  /\ run[r].pc = "record"
  /\ LET version == run[r].next
     IN IF version \in DOMAIN staged.recorded THEN Leave(r, "failed")
        ELSE /\ staged' = [staged EXCEPT !.recorded = [v \in DOMAIN @ \cup {version} |->
                                           IF v = version THEN run[r].list[version].name ELSE @[v]]]
             /\ Goto(r, "commit")
             /\ UNCHANGED <<db, lock, faults>>

Commit(r) ==
  /\ run[r].pc \in {"commit", "skip"}
  /\ db' = staged
  /\ lock' = NoOne
  /\ staged' = Fresh
  /\ LET applied == IF run[r].pc = "commit" THEN run[r].applied \cup {run[r].next} ELSE run[r].applied
     IN run' = [run EXCEPT ![r] = [@ EXCEPT !.pc = "next", !.current = run[r].next, !.applied = applied]]
  /\ UNCHANGED faults

\* SQLite reports an error: the busy timeout, a full disk, bad SQL.
Fails(r) ==
  /\ run[r].pc \in {"create", "read", "begin", "check", "execute", "record", "commit", "skip"}
  /\ faults < MaxFaults
  /\ faults' = faults + 1
  /\ Goto(r, "failed")
  /\ lock' = IF lock = r THEN NoOne ELSE lock
  /\ staged' = IF lock = r THEN Fresh ELSE staged
  /\ UNCHANGED db

\* The process dies and is started again; the journal keeps what was committed.
Crash(r) ==
  /\ run[r].pc # "off"
  /\ faults < MaxFaults
  /\ faults' = faults + 1
  /\ run' = [run EXCEPT ![r] = Idle]
  /\ lock' = IF lock = r THEN NoOne ELSE lock
  /\ staged' = IF lock = r THEN Fresh ELSE staged
  /\ UNCHANGED db

Step(r) == CreateTable(r) \/ ReadApplied(r) \/ NextMigration(r) \/ Begin(r) \/ Check(r)
           \/ Execute(r) \/ record_migration(r) \/ Commit(r)

MigrationsNext ==
  \E r \in Runners :
    \/ migrate(r)
    \/ Step(r)
    \/ Fails(r)
    \/ Crash(r)

MigrationsSpec ==
  MigrationsInit /\ [][MigrationsNext]_migrationsVars /\ \A r \in Runners : WF_migrationsVars(Step(r))

-------------------------------------------------------------------------------
\* The SQL that has run is the SQL of the recorded migrations, each once and in
\* version order, whatever crashes, errors and other runners interleave. A version
\* is reported as applied by at most one runner, which recorded its own name for
\* it; and a runner that ends with success finds every version it did not skip at
\* the start recorded under the name of its own list (migrations.cpp:259, 309).
AppliedOnce ==
  /\ db.recorded = db.ran
  /\ \A r \in Runners :
       /\ \A v \in run[r].applied : v \in DOMAIN db.recorded /\ db.recorded[v] = run[r].list[v].name
       /\ run[r].pc = "done" => \A v \in run[r].previous + 1..Len(run[r].list) :
                                 v \in DOMAIN db.recorded /\ db.recorded[v] = run[r].list[v].name
       /\ \A s \in Runners \ {r} : run[r].applied \cap run[s].applied = {}

-------------------------------------------------------------------------------
(* What makes AppliedOnce inductive.                                           *)

Migration == [version : Int, name : STRING, sql : STRING]

\* What a caller passes, or a directory loads as, is a list of migrations.
ListsAreLists ==
  /\ NoOne \notin Runners
  /\ \A list \in Lists \cup BuiltIn : list = Refused \/ list \in Seq(Migration)
  /\ \A directory \in Directories :
       \/ load_migrations_from_directory(directory) = Refused
       \/ load_migrations_from_directory(directory) \in Seq(Migration)

InTransaction == {"check", "execute", "record", "commit", "skip"}

Database == [table : BOOLEAN, recorded : Seq(STRING), ran : Seq(STRING)]
Places == InTransaction \cup {"off", "create", "read", "next", "begin", "done", "refused", "failed"}
Progress == [pc : Places, list : Seq(Migration), next : Nat, previous : Nat, current : Nat, applied : SUBSET Nat]

MigrationsTypeOK ==
  /\ db \in Database
  /\ staged \in Database
  /\ lock \in Runners \cup {NoOne}
  /\ run \in [Runners -> Progress]

\* What the runner holding the lock has staged, by the statement it is at.
Staged(r) ==
  /\ run[r].pc \in {"check", "execute", "skip"} => staged = db
  /\ run[r].pc = "skip" => run[r].next \in DOMAIN db.ran /\ db.ran[run[r].next] = run[r].list[run[r].next].name
  /\ run[r].pc \in {"execute", "record", "commit"} => run[r].next = Len(db.ran) + 1
  /\ run[r].pc \in {"record", "commit"} => /\ run[r].next <= Len(run[r].list)
                                           /\ staged.ran = Append(db.ran, run[r].list[run[r].next].name)
  /\ run[r].pc = "record" => staged.recorded = db.recorded
  /\ run[r].pc = "commit" => staged.recorded = staged.ran

\* What a runner knows of the committed database: it holds its list up to current.
Known(r) ==
  /\ run[r].previous <= run[r].current
  /\ run[r].current <= Len(db.ran)
  /\ \A v \in run[r].previous + 1..run[r].current : db.ran[v] = run[r].list[v].name
  /\ \A v \in run[r].applied : v \in DOMAIN db.ran /\ db.ran[v] = run[r].list[v].name
  /\ run[r].pc \in InTransaction \cup {"begin"} =>
       run[r].next = run[r].current + 1 /\ run[r].next <= Len(run[r].list)
  /\ run[r].pc = "done" => run[r].current >= Len(run[r].list)

MigrationsInv ==
  /\ MigrationsTypeOK
  /\ db.recorded = db.ran
  /\ \A r \in Runners : run[r].pc \in InTransaction <=> lock = r
  /\ \A r \in Runners : lock = r => Staged(r)
  /\ \A r \in Runners : Known(r)
  /\ \A r, s \in Runners : r # s => run[r].applied \cap run[s].applied = {}

===============================================================================
