---------------------------- MODULE SessionImport ----------------------------
(* Import of one session from another database and the backup of a database    *)
(* (src/src/oran-storage/session_import.cpp, Connection::backup_to in           *)
(* sqlite.cpp) while the owner of the source and another writer of the          *)
(* destination go on working.                                                   *)
EXTENDS Integers, Sequences

CONSTANTS MaxWrites,        \* writes of the source's owner and of the other writer
          SchemaVersions,   \* the schema versions a source may have
          None

VARIABLES source, schema, dest, locked, job, backup, past, writes

importVars == <<source, schema, dest, locked, job, backup, past, writes>>

\* The rows of one session identity in the three tables.
Empty == [messages |-> <<>>, skills |-> <<>>, session |-> None]
NoJob == [pc |-> "idle", snapshot |-> Empty, staged |-> Empty, table |-> 1, row |-> 1]

\* append_messages: the insert, and the trigger that creates or touches the session.
Appended(db, m) ==
  [db EXCEPT !.messages = Append(@, m), !.session = [revision |-> IF @ = None THEN 0 ELSE @.revision, updated |-> m]]

ImportInit ==
  /\ source \in {Empty, [Appended(Empty, 1) EXCEPT !.skills = <<1>>]}
  /\ schema \in SchemaVersions
  /\ dest = Empty
  /\ locked = FALSE
  /\ job = NoJob
  /\ backup \in {[pc |-> "idle", file |-> None], [pc |-> "idle", file |-> <<>>]}
  /\ past = {source}
  /\ writes = 0

Write(new) ==
  /\ writes < MaxWrites
  /\ writes' = writes + 1
  /\ source' = new
  /\ past' = past \cup {new}
  /\ UNCHANGED <<schema, dest, locked, job, backup>>

SourceAppends == Write(Appended(source, writes + 2))
SourceCheckpoints == source.session # None /\ Write([source EXCEPT !.session.revision = @ + 1])
SourceActivates == Write([source EXCEPT !.skills = Append(@, writes + 2)])

DestAppends ==
  /\ ~locked
  /\ writes < MaxWrites
  /\ writes' = writes + 1
  /\ dest' = Appended(dest, writes + 10)
  /\ UNCHANGED <<source, schema, locked, job, backup, past>>

JobAt(pc) == job' = [job EXCEPT !.pc = pc]
others == <<source, schema, backup, past, writes>>

\* BEGIN is deferred: the first SELECT, of the schema version, pins the snapshot.
OpenSource == job.pc = "idle" /\ JobAt("version") /\ UNCHANGED <<dest, locked, others>>

CheckVersion ==
  /\ job.pc = "version"
  /\ job' = [job EXCEPT !.pc = IF schema = 2 THEN "begin" ELSE "failed", !.snapshot = source]
  /\ UNCHANGED <<dest, locked, others>>

\* The writer's lease, BEGIN IMMEDIATE and the search for an existing identity.
BeginCopy ==
  /\ job.pc = "begin"
  /\ ~locked
  /\ IF dest # Empty THEN JobAt("failed") /\ UNCHANGED locked
     ELSE job' = [job EXCEPT !.pc = "copy", !.staged = dest] /\ locked' = TRUE
  /\ UNCHANGED <<dest, others>>

Rows(db, table) ==
  CASE table = 1 -> db.messages
    [] table = 2 -> db.skills
    [] table = 3 -> IF db.session = None THEN <<>> ELSE <<db.session>>
Inserted(db, table, value) ==
  CASE table = 1 -> Appended(db, value)
    [] table = 2 -> [db EXCEPT !.skills = Append(@, value)]
    [] table = 3 -> [db EXCEPT !.session = value]

\* A mutant: without the read transaction every SELECT sees the latest rows.
ReadLive == source

ReadFrom == job.snapshot

CopyRow ==
  /\ job.pc = "copy"
  /\ job.table <= 3
  /\ LET rows == Rows(ReadFrom, job.table)
     IN job' = IF job.row <= Len(rows)
               THEN [job EXCEPT !.staged = Inserted(@, job.table, rows[job.row]), !.row = @ + 1]
               ELSE [job EXCEPT !.table = @ + 1, !.row = 1]
  /\ UNCHANGED <<dest, locked, others>>

\* Without a row of sessions the source identity does not exist.
CommitCopy ==
  /\ job.pc = "copy"
  /\ job.table = 4
  /\ IF ReadFrom.session = None THEN JobAt("failed") /\ UNCHANGED dest
     ELSE JobAt("done") /\ dest' = job.staged
  /\ locked' = FALSE
  /\ UNCHANGED others

\* Cancellation between two rows, or an error of SQLite: the transaction rolls back.
GiveUp ==
  /\ job.pc \in {"version", "begin", "copy"}
  /\ JobAt("failed")
  /\ locked' = IF job.pc = "copy" THEN FALSE ELSE locked
  /\ UNCHANGED <<dest, others>>

\* VACUUM INTO writes the committed database to a path that must not exist; a
\* failure leaves what was written. Success is reported after integrity_check.
BackupBegins ==
  /\ backup.pc = "idle"
  /\ backup' = [pc |-> IF backup.file = None THEN "write" ELSE "failed", file |-> backup.file]
  /\ UNCHANGED <<source, schema, dest, locked, job, past, writes>>
BackupWrites ==
  /\ backup.pc = "write"
  /\ \E whole \in BOOLEAN : backup' = [pc |-> IF whole THEN "verify" ELSE "failed",
                                       file |-> IF whole THEN <<source>> ELSE <<>>]
  /\ UNCHANGED <<source, schema, dest, locked, job, past, writes>>
BackupVerifies ==
  /\ backup.pc = "verify"
  /\ backup' = [backup EXCEPT !.pc = IF backup.file = <<>> THEN "failed" ELSE "done"]
  /\ UNCHANGED <<source, schema, dest, locked, job, past, writes>>

ImportNext ==
  \/ SourceAppends \/ SourceCheckpoints \/ SourceActivates \/ DestAppends
  \/ OpenSource \/ CheckVersion \/ BeginCopy \/ CopyRow \/ CommitCopy \/ GiveUp
  \/ BackupBegins \/ BackupWrites \/ BackupVerifies

ImportSpec == ImportInit /\ [][ImportNext]_importVars

-------------------------------------------------------------------------------
\* The destination identity changes only by whole turns of its own writers, or
\* from nothing to exactly the rows that the source had at one moment, whatever
\* the source's owner writes during the copy (session_import.cpp:29, 41, 120); a
\* backup that reports success is the source at one moment (sqlite.cpp:400).
ImportStep ==
  /\ dest' # dest => \/ dest' = Appended(dest, writes + 10)
                     \/ dest = Empty /\ dest' \in past /\ dest'.session # None
  /\ backup'.pc = "done" => \E db \in past : backup'.file = <<db>>
ImportWhole == [][ImportStep]_importVars
===============================================================================
