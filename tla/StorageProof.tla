----------------------------- MODULE StorageProof -----------------------------
(***************************************************************************)
(* The database: an import, the migrations and the connection pool.        *)
(*   - ImportInv is inductive: an imported session is the source's at one  *)
(*     moment, and so is a verified backup.                                *)
(*   - MigrationsInv is inductive: every migration runs and is recorded    *)
(*     once, for all runners, lists, directories, crashes and errors.  One *)
(*     lemma says what a step of one runner leaves of the others (Frame).  *)
(*   - PoolInv is inductive: every connection is in exactly one place,     *)
(*     whatever grants, cancellations and releases interleave.  The queues *)
(*     and the list of free readers enter the argument only through what   *)
(*     they have (Has), each thing once (Once).                            *)
(***************************************************************************)
EXTENDS Pool, Migrations, SessionImport, TLAPS

-----------------------------------------------------------------------------
\* Sequences.

LEMMA SeqTyped ==
  ASSUME NEW S, NEW s \in Seq(S)
  PROVE  Len(s) \in Nat /\ s \in [1 .. Len(s) -> S] /\ DOMAIN s = 1 .. Len(s)
  OBVIOUS

LEMMA SeqAt == ASSUME NEW S, NEW s \in Seq(S), NEW i \in 1 .. Len(s) PROVE s[i] \in S
  OBVIOUS

LEMMA SeqNone ==
  ASSUME NEW S
  PROVE  << >> \in Seq(S) /\ Len(<< >>) = 0 /\ \A s \in Seq(S) : s # << >> => Len(s) \in Nat \ {0}
  OBVIOUS

LEMMA SeqSame ==
  ASSUME NEW S, NEW s \in Seq(S), NEW t \in Seq(S), Len(s) = Len(t), \A i \in 1 .. Len(s) : s[i] = t[i]
  PROVE  s = t
  BY SeqTyped

LEMMA Join ==
  ASSUME NEW S, NEW s \in Seq(S), NEW t \in Seq(S)
  PROVE  /\ s \o t \in Seq(S) /\ Len(s \o t) = Len(s) + Len(t)
         /\ \A i \in 1 .. Len(s) + Len(t) : (s \o t)[i] = IF i <= Len(s) THEN s[i] ELSE t[i - Len(s)]
  OBVIOUS

LEMMA Add ==
  ASSUME NEW S, NEW s \in Seq(S), NEW x \in S
  PROVE  /\ Append(s, x) \in Seq(S) /\ Append(s, x) # << >> /\ Len(Append(s, x)) = Len(s) + 1
         /\ \A i \in 1 .. Len(s) : Append(s, x)[i] = s[i]
         /\ Append(s, x)[Len(s) + 1] = x
  OBVIOUS

LEMMA Rest ==
  ASSUME NEW S, NEW s \in Seq(S), s # << >>
  PROVE  /\ Head(s) \in S /\ Tail(s) \in Seq(S) /\ Len(Tail(s)) = Len(s) - 1
         /\ \A i \in 1 .. Len(Tail(s)) : Tail(s)[i] = s[i + 1]
  OBVIOUS

LEMMA RowsOf ==
  ASSUME NEW S, NEW s \in Seq(S)
  PROVE  /\ Len(s) \in Nat /\ DOMAIN s = 1 .. Len(s) /\ \A i \in 1 .. Len(s) : s[i] \in S
         /\ s = [i \in 1 .. Len(s) |-> s[i]]
  <1>1. Len(s) \in Nat /\ DOMAIN s = 1 .. Len(s)
    OBVIOUS
  <1>2. \A i \in 1 .. Len(s) : s[i] \in S
    OBVIOUS
  <1>3. s \in [1 .. Len(s) -> S]
    OBVIOUS
  <1> QED
    BY <1>1, <1>2, <1>3, Zenon

-----------------------------------------------------------------------------
\* The import of a session and the backup.

\* The rows of a database, and a prefix of one of its tables.
IsRows(base) ==
  /\ base = [messages |-> base.messages, skills |-> base.skills, session |-> base.session]
  /\ base.messages \in Seq(Nat) /\ base.skills \in Seq(Nat)

Prefix(p, q, n) == p \in Seq(Nat) /\ Len(p) = n /\ n <= Len(q) /\ \A i \in 1 .. n : p[i] = q[i]

\* How far the copy has come: the tables before the current one are whole.
Copied(j) ==
  /\ IsRows(j.snapshot) /\ IsRows(j.staged) /\ j.table \in 1 .. 4 /\ j.row \in Nat \ {0}
  /\ j.table = 1 => Prefix(j.staged.messages, j.snapshot.messages, j.row - 1) /\ j.staged.skills = << >>
  /\ j.table > 1 => j.staged.messages = j.snapshot.messages
  /\ j.table = 2 => Prefix(j.staged.skills, j.snapshot.skills, j.row - 1)
  /\ j.table > 2 => j.staged.skills = j.snapshot.skills
  /\ (j.table = 3 /\ j.row > 1) \/ (j.table = 4 /\ j.snapshot.session # None) =>
       j.staged.session = j.snapshot.session

IsJob(j) == j = [pc |-> j.pc, snapshot |-> j.snapshot, staged |-> j.staged, table |-> j.table, row |-> j.row]

JobSound ==
  /\ IsJob(job)
  /\ job.pc \in {"idle", "version", "begin"} => job.table = 1 /\ job.row = 1
  /\ job.pc \in {"begin", "copy"} => job.snapshot \in past
  /\ job.pc = "copy" => locked /\ dest = Empty /\ Copied(job)

BackupSound == 
  /\ backup = [pc |-> backup.pc, file |-> backup.file]
  /\ backup.pc \in {"verify", "done"} => \E base \in past : backup.file = <<base>>

\* What is on disk was there at one moment, what is being copied is a part of it,
\* and the transaction keeps every other writer out.
ImportInv ==
  /\ source \in past /\ \A base \in past : IsRows(base)
  /\ writes \in Nat
  /\ JobSound /\ BackupSound

\* Reading one more row of a table.
LEMMA PrefixGrows ==
  ASSUME NEW q \in Seq(Nat), NEW p, NEW n \in Nat, Prefix(p, q, n), n < Len(q)
  PROVE  Prefix(Append(p, q[n + 1]), q, n + 1)
  <1>1. p \in Seq(Nat) /\ Len(p) = n /\ \A i \in 1 .. n : p[i] = q[i]
    BY Zenon DEF Prefix
  <1>2. q[n + 1] \in Nat
    BY RowsOf
  <1>3. /\ Append(p, q[n + 1]) \in Seq(Nat) /\ Len(Append(p, q[n + 1])) = n + 1
        /\ \A i \in 1 .. n : Append(p, q[n + 1])[i] = p[i]
        /\ Append(p, q[n + 1])[n + 1] = q[n + 1]
    BY <1>1, <1>2, Add, SMTT(30)
  <1> QED
    BY <1>1, <1>3 DEF Prefix

LEMMA PrefixWhole ==
  ASSUME NEW q \in Seq(Nat), NEW p, NEW n \in Nat, Prefix(p, q, n), ~(n < Len(q))
  PROVE  p = q
  <1>1. p \in Seq(Nat) /\ Len(p) = Len(q) /\ \A i \in 1 .. Len(p) : p[i] = q[i]
    BY RowsOf DEF Prefix
  <1> QED
    BY <1>1, SeqSame, Zenon

LEMMA AppendedRows ==
  ASSUME NEW base, IsRows(base), NEW m \in Nat
  PROVE  /\ IsRows(Appended(base, m)) /\ Appended(base, m).messages = Append(base.messages, m)
         /\ Appended(base, m).skills = base.skills
  <1> DEFINE a == Appended(base, m)
             e == [revision |-> IF base.session = None THEN 0 ELSE base.session.revision, updated |-> m]
  <1>1. a = [messages |-> Append(base.messages, m), skills |-> base.skills, session |-> e]
    <2>1. base = [messages |-> base.messages, skills |-> base.skills, session |-> base.session]
      BY Zenon DEF IsRows
    <2>2. a = [base EXCEPT !.messages = Append(base.messages, m), !.session = e]
      BY Zenon DEF Appended
    <2> HIDE DEF a, e
    <2> QED
      BY <2>1, <2>2, Zenon
  <1>2. Append(base.messages, m) \in Seq(Nat)
    BY Add, Zenon DEF IsRows
  <1> HIDE DEF e
  <1> QED
    BY <1>1, <1>2 DEF IsRows

LEMMA RowsOfEmpty == IsRows(Empty) /\ Empty.messages = << >> /\ Empty.skills = << >> /\ Empty.session = None
  BY SeqNone, Zenon DEF Empty, IsRows

LEMMA ImportBegins == ImportInit => ImportInv
  <1> SUFFICES ASSUME ImportInit PROVE ImportInv  OBVIOUS
  <1> DEFINE a == Appended(Empty, 1)
             b == [a EXCEPT !.skills = <<1>>]
  <1>1. IsRows(a)
    BY RowsOfEmpty, AppendedRows, Zenon
  <1>2. IsRows(b)
    <2> HIDE DEF a
    <2>1. b = [messages |-> a.messages, skills |-> <<1>>, session |-> a.session]
      <3>1. a = [messages |-> a.messages, skills |-> a.skills, session |-> a.session]
        BY <1>1, Zenon DEF IsRows
      <3>2. b = [a EXCEPT !.skills = <<1>>]
        BY Zenon
      <3> HIDE DEF b
      <3> QED
        BY <3>1, <3>2, Zenon
    <2>2. <<1>> \in Seq(Nat) /\ a.messages \in Seq(Nat)
      BY <1>1 DEF IsRows
    <2> HIDE DEF b
    <2> QED
      BY <2>1, <2>2, Zenon DEF IsRows
  <1>3. source \in past /\ \A base \in past : IsRows(base)
    BY <1>2, RowsOfEmpty, Zenon DEF ImportInit
  <1>4. JobSound
    BY Zenon DEF ImportInit, NoJob, JobSound, IsJob
  <1>5. BackupSound
    BY DEF ImportInit, BackupSound
  <1> QED
    BY <1>3, <1>4, <1>5, Zenon DEF ImportInit, ImportInv

\* The owner of the source: the snapshot and the backup are of an earlier moment.
LEMMA WriteKeeps ==
  ASSUME ImportInv, NEW new, IsRows(new), Write(new)
  PROVE  ImportInv' /\ ImportStep
  <1>1. /\ source' = new /\ past' = past \cup {new} /\ writes' = writes + 1
        /\ job' = job /\ backup' = backup /\ dest' = dest /\ locked' = locked
    BY Zenon DEF Write
  <1>2. JobSound'
    BY <1>1, Zenon DEF ImportInv, JobSound, Empty, Copied, IsRows, Prefix
  <1>3. BackupSound'
    BY <1>1, Zenon DEF ImportInv, BackupSound
  <1>4. ImportStep
    BY <1>1, Zenon DEF ImportInv, BackupSound, ImportStep
  <1> QED
    BY <1>1, <1>2, <1>3, <1>4 DEF ImportInv

LEMMA WritersKeep ==
  ASSUME ImportInv, SourceAppends \/ SourceCheckpoints \/ SourceActivates
  PROVE  ImportInv' /\ ImportStep
  <1>1. /\ IsRows(source) /\ writes \in Nat
        /\ source = [messages |-> source.messages, skills |-> source.skills, session |-> source.session]
    BY Zenon DEF ImportInv, IsRows
  <1>2. CASE SourceAppends
    BY <1>1, <1>2, WriteKeeps, AppendedRows, SMTT(30) DEF SourceAppends
  <1>3. CASE SourceCheckpoints
    <2> DEFINE e == [source.session EXCEPT !.revision = @ + 1]
               n == [source EXCEPT !.session = e]
    <2>1. Write(n)
      BY <1>3, Zenon DEF SourceCheckpoints
    <2> HIDE DEF e
    <2>2. n = [source EXCEPT !.session = e]
      BY Zenon
    <2> HIDE DEF n
    <2>3. n = [messages |-> source.messages, skills |-> source.skills, session |-> e]
      BY <1>1, <2>2, Zenon
    <2>4. IsRows(n)
      BY <1>1, <2>3, Zenon DEF IsRows
    <2> QED
      BY <2>1, <2>4, WriteKeeps, Zenon
  <1>4. CASE SourceActivates
    <2> DEFINE k == Append(source.skills, writes + 2)
               n == [source EXCEPT !.skills = k]
    <2>1. k \in Seq(Nat)
      BY <1>1, Add DEF IsRows
    <2>2. Write(n)
      BY <1>4, Zenon DEF SourceActivates
    <2> HIDE DEF k
    <2>3. n = [source EXCEPT !.skills = k]
      BY Zenon
    <2> HIDE DEF n
    <2>4. n = [messages |-> source.messages, skills |-> k, session |-> source.session]
      BY <1>1, <2>3, Zenon
    <2>5. IsRows(n)
      BY <1>1, <2>1, <2>4, Zenon DEF IsRows
    <2> QED
      BY <2>2, <2>5, WriteKeeps, Zenon
  <1> QED
    BY <1>2, <1>3, <1>4, Zenon

LEMMA Tables ==
  ASSUME NEW base, NEW v
  PROVE  /\ Rows(base, 1) = base.messages /\ Rows(base, 2) = base.skills
         /\ Rows(base, 3) = IF base.session = None THEN << >> ELSE <<base.session>>
         /\ Inserted(base, 1, v) = Appended(base, v)
         /\ Inserted(base, 2, v) = [base EXCEPT !.skills = Append(base.skills, v)]
         /\ Inserted(base, 3, v) = [base EXCEPT !.session = v]
  <1>1. /\ Rows(base, 1) = base.messages /\ Rows(base, 2) = base.skills
        /\ Rows(base, 3) = IF base.session = None THEN << >> ELSE <<base.session>>
    BY DEF Rows
  <1>2. Inserted(base, 1, v) = Appended(base, v)
    BY DEF Inserted
  <1>3. Inserted(base, 2, v) = [base EXCEPT !.skills = Append(base.skills, v)]
    BY DEF Inserted
  <1>4. Inserted(base, 3, v) = [base EXCEPT !.session = v]
    BY DEF Inserted
  <1> QED
    BY <1>1, <1>2, <1>3, <1>4, Zenon

\* One row more, or the next table.
LEMMA CopyGoesOn ==
  ASSUME ImportInv, CopyRow
  PROVE  Copied(job') /\ IsJob(job') /\ job'.pc = "copy" /\ job'.snapshot = job.snapshot
  <1> DEFINE s == job.snapshot
             d == job.staged
             rows == Rows(s, job.table)
             k == job.row
             t == job.table
  <1>1. Copied(job) /\ IsJob(job) /\ job.pc = "copy" /\ t \in 1 .. 3 /\ k \in Nat \ {0} /\ IsRows(s) /\ IsRows(d)
    BY DEF ImportInv, JobSound, CopyRow, Copied
  <1>2. job' = IF k <= Len(rows)
               THEN [job EXCEPT !.staged = Inserted(d, t, rows[k]), !.row = k + 1]
               ELSE [job EXCEPT !.table = t + 1, !.row = 1]
    BY Zenon DEF CopyRow, ReadFrom
  <1>3. s.messages \in Seq(Nat) /\ s.skills \in Seq(Nat) /\ d.messages \in Seq(Nat) /\ d.skills \in Seq(Nat)
    BY <1>1, Zenon DEF IsRows
  <1>4. CASE k <= Len(rows)
    <2> DEFINE new == Inserted(d, t, rows[k])
    <2>1. /\ IsJob(job') /\ job'.pc = "copy" /\ job'.snapshot = s /\ job'.staged = new
          /\ job'.table = t /\ job'.row = k + 1
      BY <1>1, <1>2, <1>4, Zenon DEF IsJob
    <2>2. CASE t = 1
      <3>1. rows = s.messages /\ new = Appended(d, s.messages[k])
        <4>1. rows = Rows(s, 1) /\ new = Inserted(d, 1, rows[k])
          BY <2>2, Zenon
        <4> HIDE DEF rows, new
        <4> QED
          BY <4>1, Tables
      <3>2. Prefix(d.messages, s.messages, k - 1) /\ d.skills = << >> /\ k - 1 \in Nat /\ k - 1 < Len(s.messages)
        BY <1>1, <1>3, <1>4, <2>2, <3>1, RowsOf DEF Copied
      <3>3. s.messages[k] \in Nat
        BY <1>1, <1>3, <1>4, <3>1, RowsOf
      <3> HIDE DEF new
      <3>4. IsRows(new) /\ new.messages = Append(d.messages, s.messages[k]) /\ new.skills = << >>
        BY <1>1, <3>1, <3>2, <3>3, AppendedRows, Zenon
      <3>5. Prefix(new.messages, s.messages, k)
        <4>1. k - 1 + 1 = k
          BY <1>1
        <4> QED
          BY <1>3, <3>2, <3>4, <4>1, PrefixGrows, Zenon
      <3> QED
        BY <1>1, <2>1, <2>2, <3>4, <3>5 DEF Copied
    <2>3. CASE t = 2
      <3>1. rows = s.skills /\ new = [d EXCEPT !.skills = Append(d.skills, s.skills[k])]
        <4>1. rows = Rows(s, 2) /\ new = Inserted(d, 2, rows[k])
          BY <2>3, Zenon
        <4> HIDE DEF rows, new
        <4>2. rows = s.skills
          BY <4>1, Tables, Zenon
        <4>3. Inserted(d, 2, rows[k]) = [d EXCEPT !.skills = Append(d.skills, rows[k])]
          BY Tables, Zenon
        <4> QED
          BY <4>1, <4>2, <4>3, Zenon
      <3>2. /\ Prefix(d.skills, s.skills, k - 1) /\ d.messages = s.messages
            /\ k - 1 \in Nat /\ k - 1 < Len(s.skills)
        BY <1>1, <1>3, <1>4, <2>3, <3>1, RowsOf, SMTT(30) DEF Copied
      <3>3. s.skills[k] \in Nat
        BY <1>1, <1>3, <1>4, <3>1, RowsOf
      <3>4. new = [messages |-> d.messages, skills |-> Append(d.skills, s.skills[k]), session |-> d.session]
        BY <1>1, <3>1, Zenon DEF IsRows
      <3>5. Prefix(Append(d.skills, s.skills[k]), s.skills, k)
        <4>1. k - 1 + 1 = k
          BY <1>1
        <4> QED
          BY <1>3, <3>2, <4>1, PrefixGrows, Zenon
      <3>6. Append(d.skills, s.skills[k]) \in Seq(Nat)
        BY <3>5, Zenon DEF Prefix
      <3> HIDE DEF new
      <3>7. IsRows(new) /\ new.messages = s.messages /\ Prefix(new.skills, s.skills, k)
        BY <1>3, <3>2, <3>4, <3>5, <3>6, Zenon DEF IsRows
      <3> QED
        BY <1>1, <2>1, <2>3, <3>7 DEF Copied
    <2>4. CASE t = 3
      <3>1. rows = (IF s.session = None THEN << >> ELSE <<s.session>>) /\ new = [d EXCEPT !.session = rows[k]]
        <4>1. rows = Rows(s, 3) /\ new = Inserted(d, 3, rows[k])
          BY <2>4, Zenon
        <4> HIDE DEF rows, new
        <4> QED
          BY <4>1, Tables, Zenon
      <3>2. k = 1 /\ rows[k] = s.session
        BY <1>1, <1>4, <3>1
      <3>3. new = [messages |-> d.messages, skills |-> d.skills, session |-> s.session]
        BY <1>1, <3>1, <3>2, Zenon DEF IsRows
      <3>4. d.messages = s.messages /\ d.skills = s.skills
        BY <1>1, <2>4 DEF Copied
      <3> HIDE DEF new
      <3>5. IsRows(new) /\ new.messages = s.messages /\ new.skills = s.skills /\ new.session = s.session
        BY <1>3, <3>3, <3>4, Zenon DEF IsRows
      <3> QED
        BY <1>1, <2>1, <2>4, <3>5 DEF Copied
    <2> QED
      BY <1>1, <2>1, <2>2, <2>3, <2>4
  <1>5. CASE ~(k <= Len(rows))
    <2>1. /\ IsJob(job') /\ job'.pc = "copy" /\ job'.snapshot = s /\ job'.staged = d
          /\ job'.table = t + 1 /\ job'.row = 1
      BY <1>1, <1>2, <1>5, Zenon DEF IsJob
    <2>2. CASE t = 1
      <3>1. Prefix(d.messages, s.messages, k - 1) /\ d.skills = << >> /\ k - 1 \in Nat /\ ~(k - 1 < Len(s.messages))
        BY <1>1, <1>3, <1>5, <2>2, RowsOf DEF Copied, Rows
      <3>2. d.messages = s.messages
        BY <1>3, <3>1, PrefixWhole, Zenon
      <3>3. Prefix(d.skills, s.skills, 0)
        BY <1>3, <3>1, RowsOf DEF Prefix
      <3> QED
        BY <1>1, <2>1, <2>2, <3>2, <3>3 DEF Copied
    <2>3. CASE t = 2
      <3>1. /\ Prefix(d.skills, s.skills, k - 1) /\ d.messages = s.messages
            /\ k - 1 \in Nat /\ ~(k - 1 < Len(s.skills))
        BY <1>1, <1>3, <1>5, <2>3, RowsOf DEF Copied, Rows
      <3>2. d.skills = s.skills
        BY <1>3, <3>1, PrefixWhole, Zenon
      <3> QED
        BY <1>1, <2>1, <2>3, <3>1, <3>2 DEF Copied
    <2>4. CASE t = 3
      <3>1. rows = (IF s.session = None THEN << >> ELSE <<s.session>>)
        BY <2>4 DEF Rows
      <3>2. s.session # None => k > 1
        BY <1>1, <1>5, <3>1
      <3>3. d.messages = s.messages /\ d.skills = s.skills /\ (s.session # None => d.session = s.session)
        BY <1>1, <2>4, <3>2 DEF Copied
      <3> QED
        BY <1>1, <2>1, <2>4, <3>3 DEF Copied
    <2> QED
      BY <1>1, <2>2, <2>3, <2>4
  <1> QED
    BY <1>4, <1>5, Zenon

\* The steps of the import itself.
LEMMA CopyKeeps ==
  ASSUME ImportInv, OpenSource \/ CheckVersion \/ BeginCopy \/ CopyRow \/ CommitCopy \/ GiveUp
  PROVE  ImportInv' /\ ImportStep
  <1>1. /\ source' = source /\ past' = past /\ writes' = writes /\ backup' = backup
    BY Zenon DEF OpenSource, CheckVersion, BeginCopy, CopyRow, CommitCopy, GiveUp, others
  <1>2. IsJob(job) /\ source \in past /\ \A base \in past : IsRows(base)
    BY Zenon DEF ImportInv, JobSound
  <1>3. BackupSound' /\ (backup'.pc = "done" => \E base \in past : backup'.file = <<base>>)
    BY <1>1, Zenon DEF ImportInv, BackupSound
  <1>4. JobSound' /\ (dest' # dest => dest = Empty /\ dest' \in past /\ dest'.session # None)
    <2>1. CASE OpenSource
      <3>1. dest' = dest /\ job' = [job EXCEPT !.pc = "version"] /\ job.pc = "idle"
        BY <2>1, Zenon DEF OpenSource, JobAt
      <3>2. IsJob(job') /\ job'.pc = "version" /\ job'.table = job.table /\ job'.row = job.row
        BY <1>2, <3>1, Zenon DEF IsJob
      <3> QED
        BY <3>1, <3>2, Zenon DEF ImportInv, JobSound
    <2>2. CASE CheckVersion
      <3>1. /\ dest' = dest /\ job.pc = "version"
            /\ job' = [job EXCEPT !.pc = IF schema = 2 THEN "begin" ELSE "failed", !.snapshot = source]
        BY <2>2, Zenon DEF CheckVersion
      <3>2. /\ IsJob(job') /\ job'.pc \in {"begin", "failed"} /\ job'.snapshot = source
            /\ job'.table = job.table /\ job'.row = job.row
        BY <1>2, <3>1, Zenon DEF IsJob
      <3> QED
        BY <1>1, <1>2, <3>1, <3>2 DEF ImportInv, JobSound
    <2>3. CASE BeginCopy /\ dest # Empty
      <3>1. dest' = dest /\ job' = [job EXCEPT !.pc = "failed"]
        BY <2>3, Zenon DEF BeginCopy, JobAt
      <3>2. IsJob(job') /\ job'.pc = "failed"
        BY <1>2, <3>1, Zenon DEF IsJob
      <3> QED
        BY <3>1, <3>2, Zenon DEF JobSound
    <2>4. CASE BeginCopy /\ dest = Empty
      <3>1. dest' = dest /\ job' = [job EXCEPT !.pc = "copy", !.staged = Empty] /\ locked' = TRUE /\ job.pc = "begin"
        BY <2>4, Zenon DEF BeginCopy
      <3>2. /\ IsJob(job') /\ job'.pc = "copy" /\ job'.staged = Empty /\ job'.snapshot = job.snapshot
            /\ job'.table = 1 /\ job'.row = 1 /\ job.snapshot \in past
        BY <1>2, <3>1, Zenon DEF ImportInv, JobSound, IsJob
      <3>3. Prefix(<< >>, job.snapshot.messages, 0)
        BY <1>2, <3>2, RowsOf, SeqNone DEF IsRows, Prefix
      <3>4. Copied(job')
        BY <1>2, <3>2, <3>3, RowsOfEmpty DEF Copied
      <3> QED
        BY <1>1, <2>4, <3>1, <3>2, <3>4 DEF JobSound, Empty
    <2>5. CASE CopyRow
      <3>1. dest' = dest /\ locked' = locked /\ job.pc = "copy"
        BY <2>5, Zenon DEF CopyRow
      <3>2. Copied(job') /\ IsJob(job') /\ job'.pc = "copy" /\ job'.snapshot = job.snapshot
        BY <2>5, CopyGoesOn, Zenon
      <3>3. locked /\ dest = Empty /\ job.snapshot \in past
        BY <3>1, Zenon DEF ImportInv, JobSound
      <3> QED
        BY <1>1, <3>1, <3>2, <3>3, Zenon DEF JobSound, Empty
    <2>6. CASE CommitCopy
      <3>1. job.pc = "copy" /\ job.table = 4
        BY <2>6, Zenon DEF CommitCopy
      <3>2. IsJob(job') /\ job'.pc \in {"failed", "done"}
        BY <1>2, <2>6, Zenon DEF CommitCopy, JobAt, IsJob
      <3>3. dest = Empty /\ job.snapshot \in past /\ Copied(job)
        BY <3>1, Zenon DEF ImportInv, JobSound
      <3>4. CASE job.snapshot.session = None
        <4>1. dest' = dest
          BY <2>6, <3>4, Zenon DEF CommitCopy, ReadFrom
        <4> QED
          BY <3>2, <4>1, Zenon DEF JobSound
      <3>5. CASE job.snapshot.session # None
        <4>1. dest' = job.staged
          BY <2>6, <3>5, Zenon DEF CommitCopy, ReadFrom
        <4>2. job.staged = job.snapshot
          BY <3>1, <3>3, <3>5 DEF Copied, IsRows
        <4> QED
          BY <3>2, <3>3, <3>5, <4>1, <4>2, Zenon DEF JobSound
      <3> QED
        BY <3>4, <3>5, Zenon
    <2>7. CASE GiveUp
      <3>1. dest' = dest /\ job' = [job EXCEPT !.pc = "failed"]
        BY <2>7, Zenon DEF GiveUp, JobAt
      <3>2. IsJob(job') /\ job'.pc = "failed"
        BY <1>2, <3>1, Zenon DEF IsJob
      <3> QED
        BY <3>1, <3>2, Zenon DEF JobSound
    <2> QED
      BY <2>1, <2>2, <2>3, <2>4, <2>5, <2>6, <2>7, Zenon
  <1>5. ImportInv'
    BY <1>1, <1>2, <1>3, <1>4, Zenon DEF ImportInv
  <1> QED
    BY <1>3, <1>4, <1>5, Zenon DEF ImportStep

\* The other writer is kept out while the copy is under way.
LEMMA OthersKeep ==
  ASSUME ImportInv, DestAppends \/ BackupBegins \/ BackupWrites \/ BackupVerifies \/ UNCHANGED importVars
  PROVE  ImportInv' /\ ImportStep
  <1>1. source' = source /\ past' = past
    BY Zenon DEF DestAppends, BackupBegins, BackupWrites, BackupVerifies, importVars
  <1>2. source \in past /\ \A base \in past : IsRows(base)
    BY Zenon DEF ImportInv
  <1>3. JobSound' /\ writes' \in Nat /\ (dest' # dest => dest' = Appended(dest, writes + 10))
    <2>1. CASE DestAppends
      <3>1. /\ ~locked /\ job' = job /\ locked' = locked /\ writes' = writes + 1
            /\ dest' = Appended(dest, writes + 10)
        BY <2>1, Zenon DEF DestAppends
      <3>2. job.pc # "copy"
        BY <3>1, Zenon DEF ImportInv, JobSound
      <3> QED
        BY <1>1, <3>1, <3>2 DEF ImportInv, JobSound
    <2>2. CASE BackupBegins \/ BackupWrites \/ BackupVerifies \/ UNCHANGED importVars
      <3>1. job' = job /\ locked' = locked /\ writes' = writes /\ dest' = dest
        BY <2>2, Zenon DEF BackupBegins, BackupWrites, BackupVerifies, importVars
      <3> QED
        BY <1>1, <3>1, Zenon DEF ImportInv, JobSound, Empty, Copied, IsRows, Prefix
    <2> QED
      BY <2>1, <2>2, Zenon
  <1>4. BackupSound' /\ (backup'.pc = "done" => \E base \in past : backup'.file = <<base>>)
    <2>1. CASE DestAppends \/ UNCHANGED importVars
      <3>1. backup' = backup
        BY <2>1, Zenon DEF DestAppends, importVars
      <3> QED
        BY <1>1, <3>1, Zenon DEF ImportInv, BackupSound
    <2>2. CASE BackupBegins
      BY <2>2, Zenon DEF BackupBegins, BackupSound
    <2>3. CASE BackupWrites
      BY <1>1, <1>2, <2>3 DEF BackupWrites, BackupSound
    <2>4. CASE BackupVerifies
      <3>1. backup.pc = "verify" /\ backup' = [backup EXCEPT !.pc = IF backup.file = << >> THEN "failed" ELSE "done"]
        BY <2>4, Zenon DEF BackupVerifies
      <3>2. backup' = [pc |-> backup'.pc, file |-> backup'.file] /\ backup'.file = backup.file
        BY <3>1, Zenon DEF ImportInv, BackupSound
      <3> QED
        BY <1>1, <3>1, <3>2, Zenon DEF ImportInv, BackupSound
    <2> QED
      BY <2>1, <2>2, <2>3, <2>4, Zenon
  <1> QED
    BY <1>1, <1>2, <1>3, <1>4, Zenon DEF ImportInv, ImportStep

LEMMA ImportKeeps == ImportInv /\ [ImportNext]_importVars => ImportInv' /\ ImportStep
  BY WritersKeep, CopyKeeps, OthersKeep, Zenon DEF ImportNext

\* session_import.cpp: the snapshot that is being copied is of one moment and the
\* transaction excludes every other writer, from the first SELECT to the commit.
THEOREM ImportInvariant == ImportSpec => []ImportInv
  BY ImportBegins, ImportKeeps, PTL DEF ImportSpec

\* import_session, backup_to: whatever the owner of the source writes during the
\* copy, the session appears in the destination whole, as it was at one moment, and
\* so is a backup that reports success (session_import.cpp:29, 120; sqlite.cpp:400).
THEOREM SessionsImportedWhole == ImportSpec => ImportWhole
  BY ImportInvariant, ImportKeeps, PTL DEF ImportSpec, ImportWhole

-----------------------------------------------------------------------------
\* The migrations.

LEMMA Growth ==
  ASSUME NEW S, NEW old \in Seq(S), NEW new, new = old \/ \E name \in S : new = Append(old, name)
  PROVE  /\ new \in Seq(S)
         /\ Len(old) <= Len(new) /\ Len(old) \in Nat /\ Len(new) \in Nat
         /\ DOMAIN old = 1..Len(old) /\ DOMAIN new = 1..Len(new)
         /\ \A v \in DOMAIN old : v \in DOMAIN new /\ new[v] = old[v]
  <1>1. CASE new = old
    BY <1>1
  <1>2. CASE \E name \in S : new = Append(old, name)
    <2>1. PICK name \in S : new = Append(old, name)
      BY <1>2, Zenon
    <2>2. new \in Seq(S) /\ Len(new) = Len(old) + 1 /\ Len(old) \in Nat
      BY <2>1
    <2>3. DOMAIN old = 1..Len(old) /\ DOMAIN new = 1..Len(new)
      BY <2>2
    <2>4. \A v \in 1..Len(old) : new[v] = old[v]
      BY <2>1
    <2> QED
      BY <2>2, <2>3, <2>4
  <1> QED
    BY <1>1, <1>2, Zenon

\* The recorded versions are those up to the last: the check finds the last one.
LEMMA AppliedVersions ==
  ASSUME NEW names \in Seq(STRING), NEW count \in Nat
  PROVE  /\ validate_applied_versions(DOMAIN names, count) # -1 =>
              validate_applied_versions(DOMAIN names, count) = Len(names) /\ Len(names) <= count
         /\ validate_applied_versions(DOMAIN names, count) \in Int
  <1>1. DOMAIN names = 1..Len(names) /\ Len(names) \in Nat
    OBVIOUS
  <1> DEFINE last == Len(names)
  <1>2. \A n \in 0..count : DOMAIN names = 1..n => n = last
    <2> SUFFICES ASSUME NEW n \in 0..count, DOMAIN names = 1..n PROVE n = last
      BY Zenon
    <2>1. n \in Nat /\ last \in Nat /\ 1..last = 1..n
      BY <1>1
    <2> HIDE DEF last
    <2>2. n >= 1 => n \in 1..last
      BY <2>1
    <2>3. last >= 1 => last \in 1..n
      BY <2>1
    <2> QED
      BY <2>1, <2>2, <2>3
  <1> DEFINE found == \E n \in 0..count : DOMAIN names = 1..n
             which == CHOOSE n \in 0..count : DOMAIN names = 1..n
  <1>3. found => which \in 0..count /\ DOMAIN names = 1..which
    BY Zenon
  <1>4. validate_applied_versions(DOMAIN names, count) = IF found THEN which ELSE -1
    BY Zenon DEF validate_applied_versions
  <1>5. last \in Nat
    BY <1>1, Zenon
  <1> HIDE DEF found, which
  <1>6. found => which = last /\ which \in Nat /\ last <= count
    BY <1>2, <1>3, <1>5
  <1> QED
    BY <1>4, <1>5, <1>6

LEMMA ListNames ==
  ASSUME NEW list \in Seq(Migration), NEW i \in 1..Len(list)
  PROVE  list[i].name \in STRING
  <1>1. list[i] \in Migration
    BY RowsOf, Zenon
  <1> QED
    BY <1>1, Zenon DEF Migration

\* A step of one runner: the others keep their progress, the lock if they hold it
\* with what they staged, and what they know of a database that only grows.
LEMMA Frame ==
  ASSUME MigrationsInv, NEW r \in Runners, NEW p \in Progress, run' = [run EXCEPT ![r] = p],
         db' \in Database, staged' \in Database, lock' \in Runners \cup {NoOne},
         db'.recorded = db'.ran,
         db'.ran = db.ran \/ \E name \in STRING : db'.ran = Append(db.ran, name),
         p.pc \in InTransaction <=> lock' = r,
         \A s \in Runners \ {r} : (lock' = s <=> lock = s) /\ (lock = s => staged' = staged /\ db' = db),
         lock' = r => Staged(r)',
         Known(r)',
         \A v \in p.applied : v \in run[r].applied \/ v = Len(db.ran) + 1
  PROVE  MigrationsInv'
  <1>1. MigrationsTypeOK'
    BY Zenon DEF MigrationsInv, MigrationsTypeOK
  <1>2. \A s \in Runners : run'[s] = IF s = r THEN p ELSE run[s]
    BY Zenon DEF MigrationsInv, MigrationsTypeOK
  <1>3. \A s \in Runners : run'[s].pc \in InTransaction <=> lock' = s
    BY <1>2, Zenon DEF MigrationsInv
  <1>4. \A s \in Runners : lock' = s => Staged(s)'
    <2> SUFFICES ASSUME NEW s \in Runners \ {r}, lock' = s PROVE Staged(s)'
      BY Zenon
    <2>1. lock = s /\ staged' = staged /\ db' = db /\ run'[s] = run[s]
      BY <1>2, Zenon
    <2> QED
      BY <2>1, ZenonT(30) DEF MigrationsInv, Staged
  <1>5. /\ db.ran \in Seq(STRING)
        /\ Len(db.ran) <= Len(db'.ran) /\ Len(db.ran) \in Nat /\ Len(db'.ran) \in Nat
        /\ DOMAIN db.ran = 1..Len(db.ran) /\ DOMAIN db'.ran = 1..Len(db'.ran)
        /\ \A v \in DOMAIN db.ran : v \in DOMAIN db'.ran /\ db'.ran[v] = db.ran[v]
    <2>1. db.ran \in Seq(STRING)
      BY Zenon DEF MigrationsInv, MigrationsTypeOK, Database
    <2> DEFINE old == db.ran
               new == db'.ran
    <2>2. old \in Seq(STRING) /\ (new = old \/ \E name \in STRING : new = Append(old, name))
      BY <2>1, Zenon
    <2> HIDE DEF old, new
    <2>3. /\ Len(old) <= Len(new) /\ Len(old) \in Nat /\ Len(new) \in Nat
          /\ DOMAIN old = 1..Len(old) /\ DOMAIN new = 1..Len(new)
          /\ \A v \in DOMAIN old : v \in DOMAIN new /\ new[v] = old[v]
      BY <2>2, Growth, ZenonT(30)
    <2> QED
      BY <2>1, <2>3, Zenon DEF old, new
  <1>6. \A s \in Runners : Known(s)'
    <2> SUFFICES ASSUME NEW s \in Runners \ {r} PROVE Known(s)'
      BY Zenon
    <2>1. run'[s] = run[s] /\ run[s] \in Progress
      BY <1>2, Zenon DEF MigrationsInv, MigrationsTypeOK
    <2>2. Known(s)
      BY Zenon DEF MigrationsInv
    <2>3. \A v \in run[s].previous + 1..run[s].current : v \in DOMAIN db.ran
      BY <1>5, <2>1, <2>2 DEF Known, Progress
    <2>4. \A v \in run[s].previous + 1..run[s].current : db'.ran[v] = run[s].list[v].name
      BY <1>5, <2>2, <2>3, Zenon DEF Known
    <2>5. \A v \in run[s].applied : v \in DOMAIN db'.ran /\ db'.ran[v] = run[s].list[v].name
      BY <1>5, <2>2, Zenon DEF Known
    <2>6. run[s].current <= Len(db'.ran)
      BY <1>5, <2>1, <2>2, SMTT(30) DEF Known, Progress
    <2> QED
      BY <2>1, <2>2, <2>4, <2>5, <2>6, Zenon DEF Known
  <1>7. \A s, t \in Runners : s # t => run'[s].applied \cap run'[t].applied = {}
    <2>1. \A s \in Runners \ {r} : run[s].applied \cap run[r].applied = {} /\ Len(db.ran) + 1 \notin run[s].applied
      <3>1. Len(db.ran) + 1 \notin DOMAIN db.ran
        BY <1>5
      <3> QED
        BY <3>1, Zenon DEF MigrationsInv, Known
    <2>2. \A s \in Runners \ {r} : run[s].applied \cap p.applied = {}
      BY <2>1, Zenon
    <2> QED
      BY <1>2, <2>2 DEF MigrationsInv
  <1> QED
    BY <1>1, <1>3, <1>4, <1>6, <1>7, Zenon DEF MigrationsInv

LEMMA InitInv == ListsAreLists /\ MigrationsInit => MigrationsInv
  <1> SUFFICES ASSUME ListsAreLists, MigrationsInit PROVE MigrationsInv
    BY Zenon
  <1>1. Idle \in Progress /\ Fresh \in Database /\ Fresh.ran = <<>> /\ Len(<<>>) = 0 /\ Fresh.recorded = Fresh.ran
    <2>1. <<>> \in Seq(Migration) /\ <<>> \in Seq(STRING) /\ Len(<<>>) = 0 /\ {} \in SUBSET Nat
      OBVIOUS
    <2>2. Idle \in Progress
      BY <2>1, Zenon DEF Idle, Progress, Places
    <2>3. Fresh \in Database /\ Fresh.ran = <<>> /\ Fresh.recorded = Fresh.ran
      BY <2>1, Zenon DEF Fresh, Database
    <2> QED
      BY <2>1, <2>2, <2>3, Zenon
  <1>2. MigrationsTypeOK
    BY <1>1, Zenon DEF MigrationsInit, MigrationsTypeOK
  <1>3. \A r \in Runners : Known(r) /\ run[r].pc \notin InTransaction /\ lock # r /\ run[r].applied = {}
    BY <1>1 DEF MigrationsInit, Known, InTransaction, Idle, ListsAreLists
  <1> QED
    BY <1>1, <1>2, <1>3, Zenon DEF MigrationsInv, MigrationsInit

\* Leaving run_migrations: the lock is given back and what was staged is dropped.
LEMMA LeaveInv ==
  ASSUME ListsAreLists, MigrationsInv, NEW r \in Runners, NEW p \in Progress, run' = [run EXCEPT ![r] = p],
         lock' = IF lock = r THEN NoOne ELSE lock,
         staged' = IF lock = r THEN Fresh ELSE staged,
         db' = db,
         p.pc \notin InTransaction \cup {"begin", "done"},
         \/ p = Idle
         \/ /\ p.list = run[r].list /\ p.previous = run[r].previous /\ p.current = run[r].current
            /\ p.applied = run[r].applied
  PROVE  MigrationsInv'
  <1>1. Fresh \in Database
    BY DEF Fresh, Database
  <1>2. run'[r] = p /\ run[r] \in Progress /\ lock' # r /\ lock' \in Runners \cup {NoOne}
    BY Zenon DEF MigrationsInv, MigrationsTypeOK, ListsAreLists
  <1>3. db \in Database /\ db.ran \in Seq(STRING) /\ Len(db.ran) \in Nat
    BY DEF MigrationsInv, MigrationsTypeOK, Database
  <1>4. Known(r)'
    <2>1. CASE p = Idle
      BY <1>2, <1>3, <2>1 DEF Known, Idle, InTransaction
    <2>2. CASE p # Idle
      <3>1. Known(r) /\ p.pc \notin InTransaction \cup {"begin"} /\ p.pc # "done"
        BY Zenon DEF MigrationsInv
      <3> QED
        BY <1>2, <2>2, <3>1, ZenonT(30) DEF Known
    <2> QED
      BY <2>1, <2>2, Zenon
  <1>5. \A s \in Runners \ {r} : (lock' = s <=> lock = s) /\ (lock = s => staged' = staged /\ db' = db)
    BY Zenon DEF ListsAreLists
  <1>6. staged' \in Database /\ db'.recorded = db'.ran
    BY <1>1, Zenon DEF MigrationsInv, MigrationsTypeOK
  <1>7. \A v \in p.applied : v \in run[r].applied
    BY DEF Idle
  <1> QED
    BY <1>2, <1>3, <1>4, <1>5, <1>6, <1>7, Frame, Zenon

\* A step outside a transaction that only moves the runner's own progress.
LEMMA LocalInv ==
  ASSUME ListsAreLists, MigrationsInv, NEW r \in Runners, NEW p \in Progress, run' = [run EXCEPT ![r] = p],
         run[r].pc \notin InTransaction, p.pc \notin InTransaction,
         UNCHANGED <<lock, staged>>, db' \in Database, db'.recorded = db.recorded, db'.ran = db.ran,
         lock = NoOne \/ db' = db,
         p.applied \subseteq run[r].applied,
         Known(r)'
  PROVE  MigrationsInv'
  <1>1. lock # r /\ lock' = lock /\ staged' = staged /\ lock \in Runners \cup {NoOne} /\ staged \in Database
    BY Zenon DEF MigrationsInv, MigrationsTypeOK
  <1>2. \A s \in Runners \ {r} : (lock' = s <=> lock = s) /\ (lock = s => staged' = staged /\ db' = db)
    BY <1>1, Zenon DEF ListsAreLists
  <1>3. db'.recorded = db'.ran
    BY Zenon DEF MigrationsInv
  <1> QED
    BY <1>1, <1>2, <1>3, Frame, Zenon

LEMMA RunMigrationsInv ==
  ASSUME ListsAreLists, MigrationsInv, NEW r \in Runners, NEW list, list = Refused \/ list \in Seq(Migration),
         RunMigrations(r, list)
  PROVE  MigrationsInv'
  <1> DEFINE p == [Idle EXCEPT !.pc = IF list # Refused /\ validate_migration_list(list) THEN "create" ELSE "refused",
                               !.list = IF list # Refused THEN list ELSE <<>>]
  <1>1. run' = [run EXCEPT ![r] = p] /\ UNCHANGED <<db, lock, staged>> /\ run[r].pc = "off"
    BY Zenon DEF RunMigrations
  <1>2. /\ p \in Progress /\ p.pc \in {"create", "refused"} /\ p.previous = 0 /\ p.current = 0
        /\ p.applied = {}
    <2>1. <<>> \in Seq(Migration) /\ {} \in SUBSET Nat
      OBVIOUS
    <2> DEFINE place == IF list # Refused /\ validate_migration_list(list) THEN "create" ELSE "refused"
               kept == IF list # Refused THEN list ELSE <<>>
    <2>2. place \in {"create", "refused"} /\ kept \in Seq(Migration)
      BY <2>1, Zenon
    <2>3. p = [Idle EXCEPT !.pc = place, !.list = kept]
      BY Zenon
    <2> HIDE DEF place, kept, p
    <2> QED
      BY <2>1, <2>2, <2>3, Zenon DEF Idle, Progress, Places
  <1> HIDE DEF p
  <1>3. run'[r] = p
    BY <1>1, Zenon DEF MigrationsInv, MigrationsTypeOK
  <1>4. db \in Database /\ Len(db.ran) \in Nat /\ db' = db
    BY <1>1 DEF MigrationsInv, MigrationsTypeOK, Database
  <1>5. Known(r)'
    BY <1>2, <1>3, <1>4 DEF Known, InTransaction
  <1> QED
    BY <1>1, <1>2, <1>4, <1>5, LocalInv, Zenon DEF InTransaction

LEMMA CreateTableInv ==
  ASSUME ListsAreLists, MigrationsInv, NEW r \in Runners, CreateTable(r)
  PROVE  MigrationsInv'
  <1> DEFINE p == [run[r] EXCEPT !.pc = "read"]
  <1>1. run' = [run EXCEPT ![r] = p] /\ run[r] \in Progress /\ run[r].pc = "create" /\ db \in Database
    BY Zenon DEF CreateTable, Goto, MigrationsInv, MigrationsTypeOK
  <1>2. p \in Progress /\ p.pc = "read" /\ p.list = run[r].list /\ p.previous = run[r].previous
        /\ p.current = run[r].current /\ p.applied = run[r].applied
    BY <1>1, Zenon DEF Progress, Places
  <1>3. db' \in Database /\ db'.recorded = db.recorded /\ db'.ran = db.ran /\ lock = NoOne
    BY <1>1, Zenon DEF CreateTable, Database
  <1> HIDE DEF p
  <1>4. run'[r] = p /\ Known(r)
    BY <1>1, Zenon DEF MigrationsInv, MigrationsTypeOK
  <1>5. Known(r)'
    BY <1>2, <1>3, <1>4, Zenon DEF Known, InTransaction
  <1> QED
    BY <1>1, <1>2, <1>3, <1>5, LocalInv, Zenon DEF InTransaction, CreateTable

LEMMA ReadAppliedInv ==
  ASSUME ListsAreLists, MigrationsInv, NEW r \in Runners, ReadApplied(r)
  PROVE  MigrationsInv'
  <1> DEFINE current == validate_applied_versions(DOMAIN db.recorded, Len(run[r].list))
             p == IF current = -1 THEN [run[r] EXCEPT !.pc = "refused"]
                  ELSE [run[r] EXCEPT !.pc = "next", !.previous = current, !.current = current]
  <1>1. run' = [run EXCEPT ![r] = p] /\ UNCHANGED <<db, lock, staged>> /\ run[r].pc = "read"
    BY Zenon DEF ReadApplied
  <1>2. run[r] \in Progress /\ db \in Database /\ db.ran \in Seq(STRING) /\ Len(db.ran) \in Nat
        /\ run[r].list \in Seq(Migration) /\ Len(run[r].list) \in Nat /\ db.recorded = db.ran /\ Known(r)
    BY DEF MigrationsInv, MigrationsTypeOK, Database, Progress
  <1>3. current = -1 \/ current = Len(db.ran)
    BY <1>2, AppliedVersions, Zenon
  <1> HIDE DEF current
  <1>4. /\ p \in Progress /\ p.pc \in {"refused", "next"} /\ p.list = run[r].list /\ p.applied = run[r].applied
        /\ \/ p.previous = run[r].previous /\ p.current = run[r].current
           \/ p.previous = Len(db.ran) /\ p.current = Len(db.ran)
    BY <1>2, <1>3, Zenon DEF Progress, Places
  <1> HIDE DEF p
  <1>5. run'[r] = p
    BY <1>1, Zenon DEF MigrationsInv, MigrationsTypeOK
  <1>6. Known(r)'
    BY <1>1, <1>2, <1>4, <1>5 DEF Known, InTransaction
  <1> QED
    BY <1>1, <1>2, <1>4, <1>6, LocalInv, Zenon DEF InTransaction

LEMMA NextMigrationInv ==
  ASSUME ListsAreLists, MigrationsInv, NEW r \in Runners, NextMigration(r)
  PROVE  MigrationsInv'
  <1> DEFINE p == IF run[r].current >= Len(run[r].list) THEN [run[r] EXCEPT !.pc = "done"]
                  ELSE [run[r] EXCEPT !.pc = "begin", !.next = run[r].current + 1]
  <1>1. run' = [run EXCEPT ![r] = p] /\ UNCHANGED <<db, lock, staged>> /\ run[r].pc = "next"
    BY Zenon DEF NextMigration
  <1>2. run[r] \in Progress /\ db \in Database /\ run[r].current \in Nat /\ Len(run[r].list) \in Nat /\ Known(r)
    BY DEF MigrationsInv, MigrationsTypeOK, Progress
  <1>3. /\ p \in Progress /\ p.list = run[r].list /\ p.applied = run[r].applied
        /\ p.previous = run[r].previous /\ p.current = run[r].current
        /\ \/ p.pc = "done" /\ p.current >= Len(p.list)
           \/ p.pc = "begin" /\ p.next = p.current + 1 /\ p.next <= Len(p.list)
    <2>1. CASE run[r].current >= Len(run[r].list)
      <3>1. p = [run[r] EXCEPT !.pc = "done"]
        BY <2>1, Zenon
      <3> HIDE DEF p
      <3> QED
        BY <1>2, <2>1, <3>1, Zenon DEF Progress, Places
    <2>2. CASE ~(run[r].current >= Len(run[r].list))
      <3>1. p = [run[r] EXCEPT !.pc = "begin", !.next = run[r].current + 1]
        BY <2>2, Zenon
      <3>2. run[r].current + 1 <= Len(run[r].list) /\ run[r].current + 1 \in Nat
        BY <1>2, <2>2
      <3> HIDE DEF p
      <3> QED
        BY <1>2, <3>1, <3>2, Zenon DEF Progress, Places
    <2> QED
      BY <2>1, <2>2, Zenon
  <1> HIDE DEF p
  <1>4. run'[r] = p
    BY <1>1, Zenon DEF MigrationsInv, MigrationsTypeOK
  <1>5. Known(r)'
    BY <1>1, <1>2, <1>3, <1>4 DEF Known, InTransaction
  <1> QED
    BY <1>1, <1>2, <1>3, <1>5, LocalInv, Zenon DEF InTransaction

\* A step of the runner that holds the lock, or takes it, and commits nothing.
LEMMA StagingInv ==
  ASSUME ListsAreLists, MigrationsInv, NEW r \in Runners, lock \in {r, NoOne}, NEW p \in InTransaction,
         Goto(r, p), lock' = r, db' = db, staged' \in Database,
         run[r].pc \in InTransaction \cup {"begin"},
         Staged(r)'
  PROVE  MigrationsInv'
  <1> DEFINE q == [run[r] EXCEPT !.pc = p]
  <1>1. run' = [run EXCEPT ![r] = q] /\ run[r] \in Progress /\ db \in Database /\ db.recorded = db.ran /\ Known(r)
    BY Zenon DEF Goto, MigrationsInv, MigrationsTypeOK
  <1>2. /\ q \in Progress /\ q.pc = p /\ q.list = run[r].list /\ q.applied = run[r].applied
        /\ q.previous = run[r].previous /\ q.current = run[r].current /\ q.next = run[r].next
    BY <1>1, Zenon DEF Progress, Places
  <1> HIDE DEF q
  <1>3. run'[r] = q
    BY <1>1, Zenon DEF MigrationsInv, MigrationsTypeOK
  <1>4. Known(r)'
    <2>1. q.pc # "done"
      BY <1>2, Zenon DEF InTransaction
    <2>2. run[r].next = run[r].current + 1 /\ run[r].next <= Len(run[r].list)
      BY <1>1, Zenon DEF Known
    <2> QED
      BY <1>1, <1>2, <1>3, <2>1, <2>2, ZenonT(30) DEF Known
  <1>5. \A s \in Runners \ {r} : (lock' = s <=> lock = s) /\ (lock = s => staged' = staged /\ db' = db)
    BY Zenon DEF ListsAreLists
  <1> QED
    BY <1>1, <1>2, <1>4, <1>5, Frame, Zenon

LEMMA BeginInv ==
  ASSUME ListsAreLists, MigrationsInv, NEW r \in Runners, Begin(r)
  PROVE  MigrationsInv'
  <1>1. run'[r].pc = "check" /\ staged' = db /\ db' = db /\ db \in Database
    BY Zenon DEF Begin, Goto, MigrationsInv, MigrationsTypeOK, Progress
  <1>2. Staged(r)'
    BY <1>1, Zenon DEF Staged
  <1> QED
    BY <1>1, <1>2, StagingInv, Zenon DEF Begin, InTransaction

LEMMA CheckInv ==
  ASSUME ListsAreLists, MigrationsInv, NEW r \in Runners, Check(r)
  PROVE  MigrationsInv'
  <1>1. /\ run[r].pc = "check" /\ lock = r /\ staged = db /\ db.recorded = db.ran /\ db \in Database
        /\ db.ran \in Seq(STRING) /\ run[r] \in Progress /\ Known(r)
    BY Zenon DEF Check, MigrationsInv, MigrationsTypeOK, Staged, InTransaction, Database
  <1>2. ASSUME Leave(r, "refused") PROVE MigrationsInv'
    <2> DEFINE p == [run[r] EXCEPT !.pc = "refused"]
    <2>1. run' = [run EXCEPT ![r] = p]
      BY <1>2, Zenon DEF Leave, Goto
    <2>2. p \in Progress /\ p.pc = "refused" /\ p.list = run[r].list /\ p.previous = run[r].previous
          /\ p.current = run[r].current /\ p.applied = run[r].applied
      BY <1>1, Zenon DEF Progress, Places
    <2> HIDE DEF p
    <2> QED
      BY <1>2, <2>1, <2>2, LeaveInv, Zenon DEF Leave, InTransaction
  <1>3. ASSUME run[r].next \in DOMAIN db.ran, db.ran[run[r].next] = run[r].list[run[r].next].name,
               Goto(r, "skip"), UNCHANGED <<db, lock, staged>>
        PROVE  MigrationsInv'
    <2>1. run'[r].pc = "skip" /\ run'[r].next = run[r].next /\ run'[r].list = run[r].list /\ staged' = db'
      BY <1>1, <1>3, Zenon DEF Goto, MigrationsInv, MigrationsTypeOK, Progress
    <2>2. Staged(r)'
      BY <1>3, <2>1, Zenon DEF Staged
    <2> QED
      BY <1>1, <1>3, <2>2, StagingInv, Zenon DEF InTransaction
  <1>4. ASSUME run[r].next \notin DOMAIN db.ran, Goto(r, "execute"), UNCHANGED <<db, lock, staged>>
        PROVE  MigrationsInv'
    <2>1. run'[r].pc = "execute" /\ run'[r].next = run[r].next /\ run'[r].list = run[r].list /\ staged' = db'
      BY <1>1, <1>4, Zenon DEF Goto, MigrationsInv, MigrationsTypeOK, Progress
    <2>2. run[r].next = Len(db.ran) + 1
      <3>1. run[r].next = run[r].current + 1 /\ run[r].current \in Nat /\ run[r].current <= Len(db.ran)
        BY <1>1, Zenon DEF Known, Progress, InTransaction
      <3> QED
        BY <1>1, <1>4, <3>1
    <2>3. Staged(r)'
      BY <1>4, <2>1, <2>2, Zenon DEF Staged
    <2> QED
      BY <1>1, <1>4, <2>3, StagingInv, Zenon DEF InTransaction
  <1>5. \/ Leave(r, "refused")
        \/ /\ run[r].next \in DOMAIN db.ran /\ db.ran[run[r].next] = run[r].list[run[r].next].name
           /\ Goto(r, "skip") /\ UNCHANGED <<db, lock, staged>>
        \/ run[r].next \notin DOMAIN db.ran /\ Goto(r, "execute") /\ UNCHANGED <<db, lock, staged>>
    BY <1>1, Zenon DEF Check
  <1> QED
    BY <1>2, <1>3, <1>4, <1>5, Zenon

LEMMA ExecuteInv ==
  ASSUME ListsAreLists, MigrationsInv, NEW r \in Runners, Execute(r)
  PROVE  MigrationsInv'
  <1> DEFINE name == run[r].list[run[r].next].name
  <1>1. /\ run[r].pc = "execute" /\ lock = r /\ staged = db /\ db.recorded = db.ran /\ db \in Database
        /\ db.ran \in Seq(STRING) /\ run[r] \in Progress /\ Known(r) /\ run[r].next = Len(db.ran) + 1
    BY Zenon DEF Execute, MigrationsInv, MigrationsTypeOK, Staged, InTransaction, Database
  <1>2. run[r].next <= Len(run[r].list) /\ run[r].next \in 1..Len(run[r].list)
    BY <1>1 DEF Known, InTransaction, Progress
  <1>3. name \in STRING
    BY <1>1, <1>2, ListNames, Zenon DEF Progress
  <1> HIDE DEF name
  <1>4. staged' = [db EXCEPT !.ran = Append(db.ran, name)] /\ db' = db /\ lock' = r /\ Goto(r, "record")
    BY <1>1, Zenon DEF Execute, name
  <1>5. Append(db.ran, name) \in Seq(STRING)
    BY <1>1, <1>3, Growth, Zenon
  <1>6. staged' \in Database /\ staged'.ran = Append(db.ran, name) /\ staged'.recorded = db.recorded
    BY <1>1, <1>4, <1>5, Zenon DEF Database
  <1>7. run'[r].pc = "record" /\ run'[r].next = run[r].next /\ run'[r].list = run[r].list
    BY <1>1, <1>4, Zenon DEF Goto, MigrationsInv, MigrationsTypeOK, Progress
  <1>8. Staged(r)'
    BY <1>1, <1>2, <1>4, <1>6, <1>7, Zenon DEF Staged, name
  <1> QED
    BY <1>1, <1>4, <1>6, <1>8, StagingInv, Zenon DEF InTransaction

\* Recording the next version of a list is appending its name.
LEMMA RecordAppends ==
  ASSUME NEW S, NEW s \in Seq(S), NEW x \in S, NEW n, n = Len(s) + 1
  PROVE  /\ n \notin DOMAIN s
         /\ [v \in DOMAIN s \cup {n} |-> IF v = n THEN x ELSE s[v]] = Append(s, x)
  <1> DEFINE f == [v \in DOMAIN s \cup {n} |-> IF v = n THEN x ELSE s[v]]
  <1>1. DOMAIN s = 1..Len(s) /\ Len(s) \in Nat
    OBVIOUS
  <1>2. DOMAIN s \cup {n} = 1..n /\ n \notin DOMAIN s
    BY <1>1
  <1>3. f = [v \in 1..n |-> IF v = n THEN x ELSE s[v]]
    BY <1>2, Zenon
  <1>4. Append(s, x) \in Seq(S) /\ Len(Append(s, x)) = n /\ Append(s, x)[n] = x
    OBVIOUS
  <1>5. \A v \in 1..n : f[v] = Append(s, x)[v]
    BY <1>1, <1>3, <1>4
  <1>6. DOMAIN Append(s, x) = 1..n
    BY <1>4
  <1>7. Append(s, x) = [v \in 1..n |-> Append(s, x)[v]]
    BY <1>4, <1>6, RowsOf, Zenon
  <1> QED
    BY <1>2, <1>3, <1>5, <1>7, Zenon

LEMMA RecordInv ==
  ASSUME ListsAreLists, MigrationsInv, NEW r \in Runners, record_migration(r)
  PROVE  MigrationsInv'
  <1> DEFINE name == run[r].list[run[r].next].name
  <1>1. /\ run[r].pc = "record" /\ lock = r /\ staged.recorded = db.ran /\ db.recorded = db.ran /\ db \in Database
        /\ staged \in Database /\ db.ran \in Seq(STRING) /\ run[r] \in Progress /\ run[r].next = Len(db.ran) + 1
        /\ run[r].next <= Len(run[r].list) /\ staged.ran = Append(db.ran, name)
    BY Zenon DEF record_migration, MigrationsInv, MigrationsTypeOK, Staged, InTransaction, Database
  <1>2. run[r].next \in 1..Len(run[r].list)
    BY <1>1 DEF Progress
  <1>3. name \in STRING
    BY <1>1, <1>2, ListNames, Zenon DEF Progress
  <1> HIDE DEF name
  <1>4. /\ run[r].next \notin DOMAIN db.ran
        /\ [v \in DOMAIN db.ran \cup {run[r].next} |-> IF v = run[r].next THEN name ELSE db.ran[v]] = Append(db.ran, name)
    BY <1>1, <1>3, RecordAppends
  <1>5. staged' = [staged EXCEPT !.recorded = Append(db.ran, name)] /\ db' = db /\ lock' = r /\ Goto(r, "commit")
    BY <1>1, <1>4, Zenon DEF record_migration, name
  <1>6. Append(db.ran, name) \in Seq(STRING)
    BY <1>1, <1>3, Growth, Zenon
  <1>7. staged' \in Database /\ staged'.recorded = Append(db.ran, name) /\ staged'.ran = Append(db.ran, name)
    BY <1>1, <1>5, <1>6, Zenon DEF Database
  <1>8. run'[r].pc = "commit" /\ run'[r].next = run[r].next /\ run'[r].list = run[r].list
    BY <1>1, <1>5, Zenon DEF Goto, MigrationsInv, MigrationsTypeOK, Progress
  <1>9. Staged(r)'
    BY <1>1, <1>5, <1>7, <1>8, Zenon DEF Staged, name
  <1> QED
    BY <1>1, <1>5, <1>7, <1>9, StagingInv, Zenon DEF InTransaction

\* The database takes the staged version, which adds the runner's next migration,
\* or is the database it already was.
LEMMA CommitInv ==
  ASSUME ListsAreLists, MigrationsInv, NEW r \in Runners, Commit(r)
  PROVE  MigrationsInv'
  <1> DEFINE name == run[r].list[run[r].next].name
             applied == IF run[r].pc = "commit" THEN run[r].applied \cup {run[r].next} ELSE run[r].applied
             p == [run[r] EXCEPT !.pc = "next", !.current = run[r].next, !.applied = applied]
  <1>1. /\ run[r].pc \in {"commit", "skip"} /\ lock = r /\ db.recorded = db.ran /\ db \in Database
        /\ staged \in Database /\ db.ran \in Seq(STRING) /\ run[r] \in Progress /\ Known(r) /\ Staged(r)
    BY Zenon DEF Commit, MigrationsInv, MigrationsTypeOK, InTransaction, Database
  <1>2. run[r].next = run[r].current + 1 /\ run[r].next \in 1..Len(run[r].list) /\ run[r].next \in Nat
        /\ run[r].previous \in Nat /\ run[r].current \in Nat
    BY <1>1 DEF Known, InTransaction, Progress
  <1>3. name \in STRING
    BY <1>1, <1>2, ListNames, Zenon DEF Progress
  <1>4. db' = staged /\ lock' = NoOne /\ staged' = Fresh /\ run' = [run EXCEPT ![r] = p]
    BY Zenon DEF Commit
  <1>5. applied \in SUBSET Nat
    BY <1>1, <1>2, Zenon DEF Progress
  <1>6. /\ p \in Progress /\ p.pc = "next" /\ p.list = run[r].list /\ p.previous = run[r].previous
        /\ p.current = run[r].next /\ p.applied = applied
    <2> HIDE DEF applied
    <2> QED
      BY <1>1, <1>2, <1>5, Zenon DEF Progress, Places
  <1> HIDE DEF p, name
  <1>7. /\ db'.recorded = db'.ran
        /\ db'.ran = db.ran \/ (db'.ran = Append(db.ran, name) /\ run[r].next = Len(db.ran) + 1)
        /\ run[r].pc = "commit" => db'.ran = Append(db.ran, name) /\ run[r].next = Len(db.ran) + 1
        /\ run[r].pc = "skip" => db'.ran = db.ran /\ run[r].next \in DOMAIN db.ran /\ db.ran[run[r].next] = name
    BY <1>1, <1>4, Zenon DEF Staged, name
  <1>8. /\ Len(db.ran) <= Len(db'.ran) /\ Len(db.ran) \in Nat /\ Len(db'.ran) \in Nat
        /\ DOMAIN db.ran = 1..Len(db.ran) /\ DOMAIN db'.ran = 1..Len(db'.ran)
        /\ \A v \in DOMAIN db.ran : v \in DOMAIN db'.ran /\ db'.ran[v] = db.ran[v]
    BY <1>1, <1>3, <1>7, Growth, SMTT(30)
  <1>9. run[r].next \in DOMAIN db'.ran /\ db'.ran[run[r].next] = name
    <2>1. CASE run[r].pc = "commit"
      BY <1>1, <1>3, <1>7, <2>1, Add
    <2>2. CASE run[r].pc = "skip"
      BY <1>7, <1>8, <2>2, Zenon
    <2> QED
      BY <1>1, <2>1, <2>2, Zenon
  <1>10. run'[r] = p
    BY <1>4, Zenon DEF MigrationsInv, MigrationsTypeOK
  <1>11. Known(r)'
    <2>1. \A v \in run[r].previous + 1..run[r].next : db'.ran[v] = run[r].list[v].name
      <3> SUFFICES ASSUME NEW v \in run[r].previous + 1..run[r].next PROVE db'.ran[v] = run[r].list[v].name
        BY Zenon
      <3>1. CASE v = run[r].next
        BY <1>9, <3>1, Zenon DEF name
      <3>2. CASE v # run[r].next
        <4>1. v \in run[r].previous + 1..run[r].current /\ v \in DOMAIN db.ran
          BY <1>1, <1>2, <1>8, <3>2 DEF Known
        <4> QED
          BY <1>1, <1>8, <4>1, Zenon DEF Known
      <3> QED
        BY <3>1, <3>2, Zenon
    <2>2. \A v \in applied : v \in DOMAIN db'.ran /\ db'.ran[v] = run[r].list[v].name
      <3> SUFFICES ASSUME NEW v \in applied PROVE v \in DOMAIN db'.ran /\ db'.ran[v] = run[r].list[v].name
        BY Zenon
      <3>1. CASE v = run[r].next
        BY <1>9, <3>1, Zenon DEF name
      <3>2. CASE v \in run[r].applied
        BY <1>1, <1>8, <3>2, Zenon DEF Known
      <3> QED
        BY <3>1, <3>2, Zenon
    <2>3. run[r].previous <= run[r].next /\ run[r].next <= Len(db'.ran)
      BY <1>1, <1>2, <1>8, <1>9 DEF Known
    <2> HIDE DEF applied
    <2>4. "next" \notin InTransaction \cup {"begin"}
      BY Zenon DEF InTransaction
    <2> QED
      BY <1>6, <1>10, <2>1, <2>2, <2>3, <2>4, Zenon DEF Known
  <1>12. \A v \in p.applied : v \in run[r].applied \/ v = Len(db.ran) + 1
    BY <1>6, <1>7, Zenon
  <1>13. staged' \in Database
    BY <1>4 DEF Fresh, Database
  <1>14. \A s \in Runners \ {r} : (lock' = s <=> lock = s) /\ (lock = s => staged' = staged /\ db' = db)
    BY <1>1, <1>4, Zenon DEF ListsAreLists
  <1>15. p.pc \in InTransaction <=> lock' = r
    BY <1>4, <1>6, Zenon DEF InTransaction, ListsAreLists
  <1>16. db'.ran = db.ran \/ \E n \in STRING : db'.ran = Append(db.ran, n)
    BY <1>3, <1>7, Zenon
  <1>17. lock' # r /\ lock' \in Runners \cup {NoOne}
    BY <1>4, Zenon DEF ListsAreLists
  <1> HIDE DEF applied
  <1> QED
    BY <1>1, <1>4, <1>6, <1>7, <1>11, <1>12, <1>13, <1>14, <1>15, <1>16, <1>17, Frame, Zenon

LEMMA FaultInv ==
  ASSUME ListsAreLists, MigrationsInv, NEW r \in Runners, Fails(r) \/ Crash(r)
  PROVE  MigrationsInv'
  <1>1. run[r] \in Progress /\ Idle \in Progress
    BY SeqNone, Zenon DEF MigrationsInv, MigrationsTypeOK, Idle, Progress, Places
  <1>2. CASE Fails(r)
    <2> DEFINE p == [run[r] EXCEPT !.pc = "failed"]
    <2>1. run' = [run EXCEPT ![r] = p]
      BY <1>2, Zenon DEF Fails, Goto
    <2>2. p \in Progress /\ p.pc = "failed" /\ p.list = run[r].list /\ p.previous = run[r].previous
          /\ p.current = run[r].current /\ p.applied = run[r].applied
      BY <1>1, Zenon DEF Progress, Places
    <2> HIDE DEF p
    <2> QED
      BY <1>2, <2>1, <2>2, LeaveInv, Zenon DEF Fails, InTransaction
  <1>3. CASE Crash(r)
    <2>1. Idle.pc \notin InTransaction \cup {"begin", "done"}
      BY Zenon DEF Idle, InTransaction
    <2> QED
      BY <1>1, <1>3, <2>1, LeaveInv, Zenon DEF Crash
  <1> QED
    BY <1>2, <1>3, Zenon

LEMMA NextInv == ListsAreLists /\ MigrationsInv /\ [MigrationsNext]_migrationsVars => MigrationsInv'
  <1> SUFFICES ASSUME ListsAreLists, MigrationsInv, [MigrationsNext]_migrationsVars PROVE MigrationsInv'
    BY Zenon
  <1>1. CASE UNCHANGED migrationsVars
    BY <1>1, Zenon DEF migrationsVars, MigrationsInv, MigrationsTypeOK, Staged, Known
  <1>2. ASSUME NEW r \in Runners, migrate(r) PROVE MigrationsInv'
    BY <1>2, RunMigrationsInv, Zenon DEF migrate, RunFromDirectory, ListsAreLists
  <1>3. ASSUME NEW r \in Runners, Step(r) PROVE MigrationsInv'
    BY <1>3, CreateTableInv, ReadAppliedInv, NextMigrationInv, BeginInv, CheckInv, ExecuteInv, RecordInv, CommitInv
      , Zenon DEF Step
  <1> QED
    BY <1>1, <1>2, <1>3, FaultInv, Zenon DEF MigrationsNext

LEMMA InvApplied == MigrationsInv => AppliedOnce
  <1> SUFFICES ASSUME MigrationsInv PROVE AppliedOnce
    BY Zenon
  <1>1. db.recorded = db.ran /\ \A r \in Runners : Known(r) /\ run[r] \in Progress
    BY Zenon DEF MigrationsInv, MigrationsTypeOK
  <1>2. db.ran \in Seq(STRING) /\ DOMAIN db.ran = 1..Len(db.ran) /\ Len(db.ran) \in Nat
    BY DEF MigrationsInv, MigrationsTypeOK, Database
  <1>3. ASSUME NEW r \in Runners, run[r].pc = "done", NEW v \in run[r].previous + 1..Len(run[r].list)
        PROVE  v \in DOMAIN db.recorded /\ db.recorded[v] = run[r].list[v].name
    <2>1. v \in run[r].previous + 1..run[r].current /\ v \in DOMAIN db.ran
      BY <1>1, <1>2, <1>3 DEF Known, Progress
    <2> QED
      BY <1>1, <2>1, Zenon DEF Known
  <1>4. \A r \in Runners : \A v \in run[r].applied : v \in DOMAIN db.recorded /\ db.recorded[v] = run[r].list[v].name
    BY <1>1, Zenon DEF Known
  <1>5. \A r \in Runners : \A s \in Runners \ {r} : run[r].applied \cap run[s].applied = {}
    BY Zenon DEF MigrationsInv
  <1> QED
    BY <1>1, <1>3, <1>4, <1>5, Zenon DEF AppliedOnce

\* MigrationsInv holds in every reachable state: a transaction is staged by one
\* runner at a time and adds its next migration or nothing (migrations.cpp:283).
THEOREM MigrationsInvariant ==
  ASSUME ListsAreLists
  PROVE  MigrationsSpec => []MigrationsInv
  <1>1. MigrationsInit => MigrationsInv
    BY InitInv, Zenon
  <1>2. MigrationsInv /\ [MigrationsNext]_migrationsVars => MigrationsInv'
    BY NextInv, Zenon
  <1> QED
    BY <1>1, <1>2, PTL DEF MigrationsSpec

\* For any number of runners, any lists and directories and any number of errors
\* and crashes, the SQL that ran is that of the recorded migrations, each once and
\* in order, and what a runner reports of them is true (migrations.cpp:259, 309).
THEOREM EveryMigrationOnce ==
  ASSUME ListsAreLists
  PROVE  MigrationsSpec => []AppliedOnce
  BY MigrationsInvariant, InvApplied, PTL

-----------------------------------------------------------------------------
\* The connection pool: what its list operations do to Has and Once.

LEMMA HasTyped ==
  ASSUME NEW S, NEW q \in Seq(S)
  PROVE  /\ \A x : Has(q, x) => x \in S
         /\ q = << >> <=> \A x : ~Has(q, x)
  <1>1. \A x : Has(q, x) => x \in S
    BY SeqAt, Zenon DEF Has
  <1>2. q = << >> => \A x : ~Has(q, x)
    BY DEF Has
  <1>3. q # << >> => Has(q, q[1])
    <2>1. q # << >> => Len(q) \in Nat /\ Len(q) # 0
      BY SeqNone, SeqTyped, Zenon
    <2> QED
      BY <2>1 DEF Has
  <1> QED
    BY <1>1, <1>2, <1>3, Zenon

LEMMA HasTail ==
  ASSUME NEW S, NEW q \in Seq(S), q # << >>, Once(q)
  PROVE  /\ Tail(q) \in Seq(S) /\ Once(Tail(q)) /\ Head(q) \in S /\ Has(q, Head(q))
         /\ \A x : Has(Tail(q), x) <=> Has(q, x) /\ x # Head(q)
  <1>1. /\ Tail(q) \in Seq(S) /\ Head(q) = q[1] /\ Head(q) \in S /\ Len(q) \in Nat \ {0}
        /\ Len(Tail(q)) = Len(q) - 1 /\ \A i \in 1 .. Len(Tail(q)) : Tail(q)[i] = q[i + 1]
    BY Rest, SeqTyped, SeqNone
  <1>2. Once(Tail(q))
    BY <1>1 DEF Once
  <1>3. Has(q, Head(q))
    BY <1>1 DEF Has
  <1>4. ASSUME NEW x PROVE Has(Tail(q), x) <=> Has(q, x) /\ x # Head(q)
    <2>1. ASSUME Has(Tail(q), x) PROVE Has(q, x) /\ x # Head(q)
      <3>1. PICK i \in 1 .. Len(Tail(q)) : Tail(q)[i] = x
        BY <2>1, Zenon DEF Has
      <3>2. i + 1 \in 1 .. Len(q) /\ q[i + 1] = x /\ i + 1 # 1 /\ 1 \in 1 .. Len(q)
        BY <1>1, <3>1
      <3> QED
        BY <1>1, <3>2, Zenon DEF Has, Once
    <2>2. ASSUME Has(q, x), x # Head(q) PROVE Has(Tail(q), x)
      <3>1. PICK i \in 1 .. Len(q) : q[i] = x
        BY <2>2, Zenon DEF Has
      <3>2. i # 1 /\ i - 1 \in 1 .. Len(Tail(q)) /\ Tail(q)[i - 1] = q[(i - 1) + 1] /\ (i - 1) + 1 = i
        BY <1>1, <2>2, <3>1
      <3> QED
        BY <3>1, <3>2, Zenon DEF Has
    <2> QED
      BY <2>1, <2>2, Zenon
  <1> QED
    BY <1>1, <1>2, <1>3, <1>4, Zenon

LEMMA HasAppend ==
  ASSUME NEW S, NEW q \in Seq(S), NEW e \in S, Once(q), ~Has(q, e)
  PROVE  /\ Append(q, e) \in Seq(S) /\ Once(Append(q, e))
         /\ \A x : Has(Append(q, e), x) <=> Has(q, x) \/ x = e
  <1> DEFINE p == Append(q, e)
  <1>1. /\ p \in Seq(S) /\ Len(q) \in Nat /\ Len(p) = Len(q) + 1
        /\ p[Len(q) + 1] = e /\ \A i \in 1 .. Len(q) : p[i] = q[i]
    BY Add, SeqTyped
  <1> HIDE DEF p
  <1>2. \A i \in 1 .. Len(p) : i \in 1 .. Len(q) \/ i = Len(q) + 1
    BY <1>1
  <1>3. \A i \in 1 .. Len(q) : i \in 1 .. Len(p) /\ p[i] # e
    BY <1>1 DEF Has
  <1>4. Once(p)
    BY <1>1, <1>2, <1>3, Zenon DEF Once
  <1>5. \A x : Has(p, x) <=> Has(q, x) \/ x = e
    BY <1>1, <1>2, <1>3 DEF Has
  <1> QED
    BY <1>1, <1>4, <1>5, Zenon DEF p

LEMMA HasRemove ==
  ASSUME NEW S, NEW q \in Seq(S), NEW i \in 1 .. Len(q), Once(q)
  PROVE  LET p == SubSeq(q, 1, i - 1) \o SubSeq(q, i + 1, Len(q))
         IN /\ p \in Seq(S) /\ Once(p) /\ q # << >>
            /\ \A x : Has(p, x) <=> Has(q, x) /\ x # q[i]
  <1> DEFINE p == SubSeq(q, 1, i - 1) \o SubSeq(q, i + 1, Len(q))
             at(j) == IF j < i THEN j ELSE j + 1
  <1>1. Len(q) \in Nat /\ i \in Nat /\ 1 <= i /\ i <= Len(q)
    BY SeqTyped
  <1> DEFINE left == SubSeq(q, 1, i - 1)
             right == SubSeq(q, i + 1, Len(q))
  <1>2. left \in Seq(S) /\ Len(left) = i - 1 /\ \A j \in 1 .. i - 1 : left[j] = q[j]
    BY <1>1
  <1>3. right \in Seq(S) /\ Len(right) = Len(q) - i /\ \A j \in 1 .. Len(q) - i : right[j] = q[i + j]
    BY <1>1
  <1> HIDE DEF left, right
  <1>4. /\ p = left \o right /\ p \in Seq(S) /\ Len(p) = Len(left) + Len(right)
        /\ \A j \in 1 .. Len(left) + Len(right) : p[j] = IF j <= Len(left) THEN left[j] ELSE right[j - Len(left)]
    <2>1. p = left \o right
      BY Zenon DEF left, right
    <2> HIDE DEF p
    <2> QED
      BY <1>2, <1>3, <2>1, Join, Zenon
  <1> HIDE DEF p
  <1>5. Len(p) = Len(q) - 1 /\ \A j \in 1 .. Len(p) : p[j] = q[at(j)]
    <2>1. Len(p) = Len(q) - 1
      BY <1>1, <1>2, <1>3, <1>4
    <2> SUFFICES ASSUME NEW j \in 1 .. Len(p) PROVE p[j] = q[at(j)]
      BY <2>1, Zenon
    <2>2. CASE j < i
      BY <1>1, <1>2, <1>3, <1>4, <2>1, <2>2
    <2>3. CASE ~(j < i)
      <3>1. p[j] = right[j - (i - 1)]
        BY <1>1, <1>2, <1>3, <1>4, <2>1, <2>3
      <3>2. j - (i - 1) \in 1 .. Len(q) - i /\ i + (j - (i - 1)) = j + 1
        BY <1>1, <2>1, <2>3
      <3> QED
        BY <1>3, <2>3, <3>1, <3>2, Zenon
    <2> QED
      BY <2>2, <2>3, Zenon
  <1>6. \A j \in 1 .. Len(p) : at(j) \in 1 .. Len(q) /\ at(j) # i
    BY <1>1, <1>5
  <1>7. \A j, k \in 1 .. Len(p) : at(j) = at(k) => j = k
    BY <1>1, <1>5
  <1>8. Once(p)
    <2> HIDE DEF at
    <2> QED
      BY <1>5, <1>6, <1>7, Zenon DEF Once
  <1>9. ASSUME NEW x PROVE Has(p, x) <=> Has(q, x) /\ x # q[i]
    <2>1. ASSUME Has(p, x) PROVE Has(q, x) /\ x # q[i]
      <3> HIDE DEF at
      <3> QED
        BY <1>5, <1>6, <2>1, Zenon DEF Has, Once
    <2>2. ASSUME Has(q, x), x # q[i] PROVE Has(p, x)
      <3>1. PICK k \in 1 .. Len(q) : q[k] = x
        BY <2>2, Zenon DEF Has
      <3>2. k # i
        BY <2>2, <3>1, Zenon
      <3>3. \E j \in 1 .. Len(p) : at(j) = k
        <4>1. CASE k < i
          BY <1>1, <1>5, <4>1
        <4>2. CASE k > i
          <5>1. k - 1 \in 1 .. Len(p) /\ at(k - 1) = k
            BY <1>1, <1>5, <4>2
          <5> QED
            BY <5>1, Zenon
        <4> QED
          BY <1>1, <3>2, <4>1, <4>2
      <3> HIDE DEF at
      <3> QED
        BY <1>5, <3>1, <3>3, Zenon DEF Has
    <2> QED
      BY <2>1, <2>2, Zenon
  <1>10. q # << >>
    BY <1>1, SeqNone
  <1> QED
    BY <1>4, <1>8, <1>9, <1>10, Zenon DEF p

-----------------------------------------------------------------------------
\* Every step keeps the invariant.

LEMMA SlotFacts ==
  ASSUME ReaderCount \in Nat
  PROVE  /\ NoSlot \notin Slots /\ Writer \in Slots /\ Writer \notin Readers /\ Readers \subseteq Slots
         /\ \A s \in Slots : KindOf(s) \in Kinds /\ (s # Writer => s \in Readers)
         /\ \A s \in Slots : KindOf(s) = "writer" <=> s = Writer
         /\ \A k \in Kinds : k = "writer" \/ k = "reader"
  BY DEF NoSlot, Slots, Writer, Readers, KindOf, Kinds

LEMMA PoolInit == ReaderCount \in Nat /\ Init => PoolInv
  <1> SUFFICES ASSUME ReaderCount \in Nat, Init PROVE PoolInv
    BY Zenon
  <1>1. free_readers \in Seq(Readers) /\ Len(free_readers) = ReaderCount
        /\ \A i \in 1 .. ReaderCount : free_readers[i] = i
    <2>1. free_readers = [i \in 1 .. ReaderCount |-> i] /\ Readers = 1 .. ReaderCount
      BY Zenon DEF Init, Readers
    <2>2. free_readers \in Seq(Readers)
      BY <2>1
    <2> QED
      BY <2>1, <2>2, SeqTyped
  <1>2. << >> \in Seq(Requests) /\ \A x : ~Has(<< >>, x)
    BY DEF Has
  <1>3. Once(<< >>)
    BY DEF Once
  <1>4. TypeOK
    BY <1>1, <1>2, SlotFacts, Zenon DEF TypeOK, Init, Kinds, Statuses, Locations
  <1>5. \A s \in Slots : Free(s)
    BY <1>1, SlotFacts, Zenon DEF Free, Has, Init, Readers
  <1>6. Once(free_readers)
    BY <1>1, Zenon DEF Once
  <1>7. SlotsExact
    BY <1>5, <1>6, SlotFacts, Zenon DEF SlotsExact, Init, Reserved, Leased
  <1>8. QueuesExact
    BY <1>2, <1>3, Zenon DEF QueuesExact, Init, InQueue, Kinds
  <1>9. LeasesExact /\ NoIdleWait
    BY Zenon DEF LeasesExact, NoIdleWait, Init
  <1> QED
    BY <1>4, <1>7, <1>8, <1>9, Zenon DEF PoolInv

LEMMA AcquireCancelledInv ==
  ASSUME PoolInv, NEW r \in Requests, AcquireCancelled(r)
  PROVE  PoolInv'
  <1>1. TypeOK'
    BY Zenon DEF AcquireCancelled, PoolInv, TypeOK, Locations
  <1>2. SlotsExact' /\ NoIdleWait'
    BY Zenon DEF AcquireCancelled, PoolInv, SlotsExact, NoIdleWait, Free, Reserved, Leased, Available
  <1>3. QueuesExact' /\ LeasesExact'
    BY Zenon DEF AcquireCancelled, PoolInv, TypeOK, QueuesExact, LeasesExact, InQueue
  <1> QED
    BY <1>1, <1>2, <1>3, Zenon DEF PoolInv

LEMMA AcquireInv ==
  ASSUME PoolInv, NEW r \in Requests, NEW k \in Kinds, Acquire(r, k)
  PROVE  PoolInv'
  <1>1. TypeOK'
    BY Zenon DEF Acquire, PoolInv, TypeOK, Locations
  <1>2. SlotsExact' /\ NoIdleWait'
    BY Zenon DEF Acquire, PoolInv, SlotsExact, NoIdleWait, Free, Reserved, Leased, Available
  <1>3. /\ pc[r] = "new" /\ status[r] = "none" /\ lease[r] = NoSlot /\ kind[r] \in Kinds
        /\ \A s \in Slots : <<r, s>> \notin grants
    BY Zenon DEF Acquire, PoolInv, LeasesExact, QueuesExact, TypeOK
  <1>4. \A j \in Kinds : ~Has(waiters[j], r)
    BY <1>3, Zenon DEF PoolInv, QueuesExact, InQueue
  <1>5. /\ kind' = [kind EXCEPT ![r] = k] /\ pc' = [pc EXCEPT ![r] = "initiating"]
        /\ UNCHANGED <<waiters, status, lease, grants>>
    BY Zenon DEF Acquire
  <1>6. LeasesExact'
    BY <1>3, <1>5, Zenon DEF PoolInv, TypeOK, LeasesExact
  <1>7. QueuesExact'
    <2>1. \A q \in Requests : status'[q] = "pending" <=> pc'[q] = "waiting"
      BY <1>3, <1>5, Zenon DEF PoolInv, TypeOK, QueuesExact
    <2>2. \A q \in Requests : InQueue(q)' <=> InQueue(q)
      BY <1>3, <1>4, <1>5, Zenon DEF PoolInv, TypeOK, InQueue
    <2>3. \A j \in Kinds : Once(waiters'[j]) /\ \A q \in Requests : Has(waiters'[j], q) => kind'[q] = j
      BY <1>4, <1>5 DEF PoolInv, TypeOK, QueuesExact
    <2>4. \A q \in Requests, s \in Slots : <<q, s>> \in grants' => kind'[q] = KindOf(s)
      BY <1>3, <1>5, Zenon DEF PoolInv, TypeOK, QueuesExact
    <2> QED
      BY <1>5, <2>1, <2>2, <2>3, <2>4, Zenon DEF PoolInv, QueuesExact
  <1> QED
    BY <1>1, <1>2, <1>6, <1>7, Zenon DEF PoolInv

LEMMA CancelEarlyInv ==
  ASSUME PoolInv, NEW r \in Requests, CancelEarly(r)
  PROVE  PoolInv'
  <1>1. TypeOK'
    BY Zenon DEF CancelEarly, PoolInv, TypeOK
  <1>2. SlotsExact' /\ NoIdleWait'
    BY Zenon DEF CancelEarly, PoolInv, SlotsExact, NoIdleWait, Free, Reserved, Leased, Available
  <1>3. QueuesExact' /\ LeasesExact'
    BY Zenon DEF CancelEarly, PoolInv, QueuesExact, LeasesExact, InQueue
  <1> QED
    BY <1>1, <1>2, <1>3, Zenon DEF PoolInv

LEMMA ResumeInv ==
  ASSUME PoolInv, NEW r \in Requests, Resume(r)
  PROVE  PoolInv'
  <1>1. TypeOK'
    BY Zenon DEF Resume, PoolInv, TypeOK, Locations
  <1>2. SlotsExact' /\ NoIdleWait'
    BY Zenon DEF Resume, PoolInv, SlotsExact, NoIdleWait, Free, Reserved, Leased, Available
  <1>3. QueuesExact' /\ LeasesExact'
    BY ZenonT(30) DEF Resume, PoolInv, TypeOK, QueuesExact, LeasesExact, InQueue
  <1> QED
    BY <1>1, <1>2, <1>3, Zenon DEF PoolInv

\* A free connection is taken: it leaves the free list for the lease.
LEMMA TakeNowInv ==
  ASSUME ReaderCount \in Nat, PoolInv, NEW r \in Requests, TakeNow(r)
  PROVE  PoolInv'
  <1>1. /\ pc[r] = "initiating" /\ status[r] = "none" /\ lease[r] = NoSlot /\ kind[r] \in Kinds /\ Available(kind[r])
        /\ \A s \in Slots : <<r, s>> \notin grants
    BY Zenon DEF TakeNow, PoolInv, LeasesExact, QueuesExact, TypeOK
  <1>2. PICK s \in Slots :
          /\ Free(s) /\ lease' = [lease EXCEPT ![r] = s] /\ kind[r] = KindOf(s) /\ ~Free(s)'
          /\ \A t \in Slots \ {s} : Free(t)' <=> Free(t)
          /\ writer_busy' \in BOOLEAN /\ free_readers' \in Seq(Readers) /\ Once(free_readers')
          /\ \A k \in Kinds \ {kind[r]} : Available(k)' <=> Available(k)
    <2>1. CASE kind[r] = "writer"
      <3>1. ~writer_busy /\ writer_busy' = TRUE /\ free_readers' = free_readers /\ lease' = [lease EXCEPT ![r] = Writer]
        BY <1>1, <2>1, Zenon DEF TakeNow, Available
      <3> QED
        BY <2>1, <3>1, SlotFacts, Zenon DEF PoolInv, TypeOK, SlotsExact, Free, Available, KindOf
    <2>2. CASE kind[r] = "reader"
      <3>1. free_readers \in Seq(Readers) /\ Once(free_readers) /\ writer_busy \in BOOLEAN /\ free_readers # << >>
        BY <1>1, <2>2, Zenon DEF PoolInv, TypeOK, SlotsExact, Available
      <3>2. PICK h \in Readers : h = Head(free_readers)
        BY <3>1, HasTail, Zenon
      <3>3. writer_busy' = writer_busy /\ free_readers' = Tail(free_readers) /\ lease' = [lease EXCEPT ![r] = h]
        BY <2>2, <3>2, Zenon DEF TakeNow
      <3>4. /\ Tail(free_readers) \in Seq(Readers) /\ Once(Tail(free_readers)) /\ h \in Readers /\ Has(free_readers, h)
            /\ \A x : Has(Tail(free_readers), x) <=> Has(free_readers, x) /\ x # h
        BY <3>2, <3>1, HasTail, Zenon
      <3>5. h \in Slots /\ h # Writer /\ KindOf(h) = "reader"
        BY <3>4, SlotFacts, Zenon DEF KindOf
      <3>6. Free(h) /\ ~Free(h)'
        BY <3>3, <3>4, <3>5, Zenon DEF Free
      <3>7. \A t \in Slots \ {h} : Free(t)' <=> Free(t)
        BY <3>3, <3>4, Zenon DEF Free
      <3>8. \A k \in Kinds \ {kind[r]} : Available(k)' <=> Available(k)
        BY <2>2, <3>3, Zenon DEF Available, Kinds
      <3> QED
        BY <2>2, <3>3, <3>1, <3>4, <3>5, <3>6, <3>7, <3>8, Zenon
    <2> QED
      BY <1>1, <2>1, <2>2, SlotFacts, Zenon
  <1>3. pc' = [pc EXCEPT ![r] = "resuming"] /\ UNCHANGED <<waiters, status, kind, cancelled, grants, returns>>
    BY Zenon DEF TakeNow
  <1>4. TypeOK'
    BY <1>2, <1>3, Zenon DEF PoolInv, TypeOK, Locations
  <1>5. /\ \A q \in Requests \ {r} : lease'[q] = lease[q]
        /\ lease'[r] = s
    BY <1>2, Zenon DEF PoolInv, TypeOK
  <1>6. \A t \in Slots : Leased(t)' <=> Leased(t) \/ t = s
    BY <1>1, <1>5, SlotFacts, Zenon DEF Leased
  <1>7. \A t \in Slots : Reserved(t)' <=> Reserved(t)
    BY <1>3, Zenon DEF Reserved
  <1>8. SlotsExact'
    <2>1. ~Leased(s) /\ ~Reserved(s) /\ s \notin returns
      BY <1>2, Zenon DEF PoolInv, SlotsExact
    <2>2. ASSUME NEW t \in Slots
          PROVE  /\ Free(t)' \/ Reserved(t)' \/ t \in returns' \/ Leased(t)'
                 /\ Free(t)' => ~Reserved(t)' /\ t \notin returns' /\ ~Leased(t)'
                 /\ Reserved(t)' => t \notin returns' /\ ~Leased(t)'
                 /\ t \in returns' => ~Leased(t)'
      BY <1>2, <1>3, <1>6, <1>7, <2>1, Zenon DEF PoolInv, SlotsExact
    <2>3. \A t \in Slots : \A p, q \in Requests : lease'[p] = t /\ lease'[q] = t => p = q
      BY <1>5, <2>1 DEF PoolInv, SlotsExact, Leased
    <2> QED
      BY <1>2, <1>3, <2>2, <2>3, Zenon DEF PoolInv, SlotsExact
  <1>9. QueuesExact'
    BY <1>1, <1>3, Zenon DEF PoolInv, TypeOK, QueuesExact, InQueue
  <1>10. LeasesExact'
    BY <1>1, <1>2, <1>3, <1>5, SlotFacts, ZenonT(30) DEF PoolInv, TypeOK, LeasesExact
  <1>11. NoIdleWait'
    BY <1>1, <1>2, <1>3, Zenon DEF PoolInv, NoIdleWait
  <1> QED
    BY <1>4, <1>8, <1>9, <1>10, <1>11, Zenon DEF PoolInv

LEMMA EnqueueInv ==
  ASSUME PoolInv, NEW r \in Requests, Enqueue(r)
  PROVE  PoolInv'
  <1>1. /\ pc[r] = "initiating" /\ status[r] = "none" /\ lease[r] = NoSlot /\ kind[r] \in Kinds /\ ~Available(kind[r])
        /\ \A s \in Slots : <<r, s>> \notin grants
    BY Zenon DEF Enqueue, PoolInv, LeasesExact, QueuesExact, TypeOK
  <1>2. \A k \in Kinds : ~Has(waiters[k], r)
    BY <1>1, Zenon DEF PoolInv, QueuesExact, InQueue
  <1>3. UNCHANGED <<writer_busy, free_readers, kind, lease, cancelled, grants, returns>>
    BY Zenon DEF Enqueue
  <1>4. SlotsExact' /\ \A k \in Kinds : Available(k)' <=> Available(k)
    BY <1>3, Zenon DEF PoolInv, SlotsExact, Free, Reserved, Leased, Available
  <1>5. CASE cancelled[r]
    <2>1. status' = [status EXCEPT ![r] = "cancelled"] /\ pc' = [pc EXCEPT ![r] = "resuming"] /\ waiters' = waiters
      BY <1>5, Zenon DEF Enqueue
    <2>2. TypeOK'
      BY <1>3, <2>1, Zenon DEF PoolInv, TypeOK, Statuses, Locations
    <2>3. QueuesExact' /\ LeasesExact'
      BY <1>1, <1>3, <2>1 DEF PoolInv, TypeOK, QueuesExact, LeasesExact, InQueue
    <2> QED
      BY <1>4, <2>1, <2>2, <2>3, Zenon DEF PoolInv, NoIdleWait
  <1>6. CASE ~cancelled[r]
    <2> DEFINE k == kind[r]
               q == Append(waiters[k], r)
    <2>1. /\ status' = [status EXCEPT ![r] = "pending"] /\ pc' = [pc EXCEPT ![r] = "waiting"]
          /\ waiters' = [waiters EXCEPT ![k] = q]
      BY <1>6, Zenon DEF Enqueue
    <2>2. waiters[k] \in Seq(Requests) /\ Once(waiters[k]) /\ ~Has(waiters[k], r) /\ k \in Kinds
      BY <1>1, <1>2, Zenon DEF PoolInv, TypeOK, QueuesExact
    <2>3. q \in Seq(Requests) /\ Once(q) /\ \A x : Has(q, x) <=> Has(waiters[k], x) \/ x = r
      BY <2>2, HasAppend, Zenon
    <2> HIDE DEF q
    <2>4. TypeOK'
      BY <1>3, <2>1, <2>3, Zenon DEF PoolInv, TypeOK, Statuses, Locations
    <2>5. \A j \in Kinds : waiters'[j] = IF j = k THEN q ELSE waiters[j]
      BY <2>1, Zenon DEF PoolInv, TypeOK
    <2>6. \A p \in Requests : InQueue(p)' <=> InQueue(p) \/ p = r
      <3>1. \A p \in Requests : kind[p] \in Kinds
        BY Zenon DEF PoolInv, TypeOK
      <3> QED
        BY <1>3, <2>3, <2>5, <3>1, Zenon DEF InQueue
    <2>7. \A j \in Kinds : Once(waiters'[j]) /\ \A p \in Requests : Has(waiters'[j], p) => kind'[p] = j
      BY <1>3, <2>3, <2>5, ZenonT(30) DEF PoolInv, QueuesExact
    <2>8. QueuesExact'
      <3>1. /\ \A p \in Requests : status'[p] = "pending" <=> pc'[p] = "waiting"
            /\ \A p \in Requests \ {r} : status'[p] = status[p]
            /\ status'[r] = "pending"
        BY <2>1, Zenon DEF PoolInv, TypeOK, QueuesExact
      <3>2. \A p \in Requests : status'[p] = "pending" /\ (\A s \in Slots : <<p, s>> \notin grants') <=> InQueue(p)'
        BY <1>1, <1>3, <2>6, <3>1, ZenonT(30) DEF PoolInv, QueuesExact
      <3>3. \A p \in Requests, s \in Slots : <<p, s>> \in grants' =>
              /\ kind'[p] = KindOf(s)
              /\ status'[p] \in {"pending", "cancelled"}
              /\ \A t \in Slots : <<p, t>> \in grants' => t = s
        BY <1>1, <1>3, <3>1, Zenon DEF PoolInv, QueuesExact
      <3> QED
        BY <2>7, <3>1, <3>2, <3>3, Zenon DEF QueuesExact
    <2>9. LeasesExact'
      BY <1>1, <1>3, <2>1, Zenon DEF PoolInv, TypeOK, LeasesExact
    <2>10. NoIdleWait'
      BY <1>1, <1>4, <2>5, Zenon DEF PoolInv, NoIdleWait
    <2> QED
      BY <1>4, <2>4, <2>8, <2>9, <2>10, Zenon DEF PoolInv
  <1> QED
    BY <1>5, <1>6, Zenon

LEMMA CancelWaiterInv ==
  ASSUME PoolInv, NEW r \in Requests, CancelWaiter(r)
  PROVE  PoolInv'
  <1>1. /\ pc[r] = "waiting" /\ status[r] = "pending" /\ kind[r] \in Kinds /\ lease[r] = NoSlot
        /\ status' = [status EXCEPT ![r] = "cancelled"] /\ pc' = [pc EXCEPT ![r] = "resuming"]
        /\ UNCHANGED <<writer_busy, free_readers, kind, lease, cancelled, grants, returns>>
    BY Zenon DEF CancelWaiter, PoolInv, TypeOK, LeasesExact
  <1>2. /\ waiters' \in [Kinds -> Seq(Requests)]
        /\ \A k \in Kinds : Once(waiters'[k]) /\ (waiters'[k] # << >> => waiters[k] # << >>)
        /\ \A k \in Kinds : \A x : Has(waiters'[k], x) <=> Has(waiters[k], x) /\ ~(k = kind[r] /\ x = r)
    <2> DEFINE q == waiters[kind[r]]
    <2>1. q \in Seq(Requests) /\ Once(q) /\ waiters \in [Kinds -> Seq(Requests)] /\ \A k \in Kinds : Once(waiters[k])
      BY <1>1, Zenon DEF PoolInv, TypeOK, QueuesExact
    <2>2. CASE Has(q, r)
      <3>1. PICK i \in 1 .. Len(q) :
              /\ q[i] = r
              /\ waiters' = [waiters EXCEPT ![kind[r]] = SubSeq(q, 1, i - 1) \o SubSeq(q, i + 1, Len(q))]
        BY <2>2, Zenon DEF CancelWaiter, Has
      <3> DEFINE p == SubSeq(q, 1, i - 1) \o SubSeq(q, i + 1, Len(q))
      <3>2. p \in Seq(Requests) /\ Once(p) /\ q # << >> /\ \A x : Has(p, x) <=> Has(q, x) /\ x # q[i]
        BY <2>1, <3>1, HasRemove, Zenon
      <3>3. waiters' = [waiters EXCEPT ![kind[r]] = p]
        BY <3>1, Zenon
      <3> HIDE DEF p
      <3> QED
        BY <1>1, <2>1, <3>1, <3>2, <3>3, Zenon
    <2>3. CASE ~Has(q, r)
      <3>1. waiters' = waiters
        BY <2>3, Zenon DEF CancelWaiter, Has
      <3> QED
        BY <2>1, <2>3, <3>1, Zenon
    <2> QED
      BY <2>2, <2>3, Zenon
  <1>3. TypeOK'
    BY <1>1, <1>2, Zenon DEF PoolInv, TypeOK, Statuses, Locations
  <1>4. SlotsExact' /\ \A k \in Kinds : Available(k)' <=> Available(k)
    BY <1>1, Zenon DEF PoolInv, SlotsExact, Free, Reserved, Leased, Available
  <1>5. \A p \in Requests : InQueue(p)' <=> InQueue(p) /\ p # r
    <2>1. \A p \in Requests : kind[p] \in Kinds
      BY Zenon DEF PoolInv, TypeOK
    <2> QED
      BY <1>1, <1>2, <2>1, Zenon DEF InQueue
  <1>6. QueuesExact'
    <2>1. /\ \A p \in Requests : status'[p] = "pending" <=> pc'[p] = "waiting"
          /\ \A p \in Requests \ {r} : status'[p] = status[p]
          /\ status'[r] = "cancelled"
      BY <1>1, Zenon DEF PoolInv, TypeOK, QueuesExact
    <2>2. \A p \in Requests : status'[p] = "pending" /\ (\A s \in Slots : <<p, s>> \notin grants') <=> InQueue(p)'
      BY <1>1, <1>5, <2>1, SMTT(30) DEF PoolInv, QueuesExact
    <2>3. \A p \in Requests, s \in Slots : <<p, s>> \in grants' =>
            /\ kind'[p] = KindOf(s)
            /\ status'[p] \in {"pending", "cancelled"}
            /\ \A t \in Slots : <<p, t>> \in grants' => t = s
      BY <1>1, <2>1 DEF PoolInv, QueuesExact
    <2>4. \A k \in Kinds : Once(waiters'[k]) /\ \A p \in Requests : Has(waiters'[k], p) => kind'[p] = k
      BY <1>1, <1>2, Zenon DEF PoolInv, QueuesExact
    <2> QED
      BY <2>1, <2>2, <2>3, <2>4, Zenon DEF QueuesExact
  <1>7. LeasesExact'
    BY <1>1, Zenon DEF PoolInv, TypeOK, LeasesExact
  <1>8. NoIdleWait'
    BY <1>2, <1>4, Zenon DEF PoolInv, NoIdleWait
  <1> QED
    BY <1>3, <1>4, <1>6, <1>7, <1>8, Zenon DEF PoolInv

\* A posted grant: its slot becomes the lease of its waiter, or is to be returned.
LEMMA GrantInv ==
  ASSUME ReaderCount \in Nat, PoolInv, NEW r \in Requests, NEW s \in Slots, Grant(r, s)
  PROVE  PoolInv'
  <1>1. /\ <<r, s>> \in grants /\ grants' = grants \ {<<r, s>>} /\ kind[r] = KindOf(s)
        /\ UNCHANGED <<writer_busy, free_readers, waiters, kind, cancelled>>
        /\ \A t \in Slots : <<r, t>> \in grants => t = s
    BY Zenon DEF Grant, PoolInv, QueuesExact
  <1>2. Reserved(s) /\ ~Free(s) /\ s \notin returns /\ ~Leased(s)
    BY <1>1, Zenon DEF PoolInv, SlotsExact, Reserved
  <1>3. \A t \in Slots :
          /\ Free(t)' <=> Free(t)
          /\ Reserved(t)' <=> Reserved(t) /\ t # s
    <2>1. \A q \in Requests : <<q, s>> \in grants => q = r
      BY <1>1, Zenon DEF PoolInv, SlotsExact
    <2> QED
      BY <1>1, <2>1, Zenon DEF Free, Reserved
  <1>4. \A q \in Requests : InQueue(q)' <=> InQueue(q)
    BY <1>1, Zenon DEF InQueue
  <1>5. NoIdleWait'
    BY <1>1, Zenon DEF PoolInv, NoIdleWait, Available
  <1>6. CASE status[r] = "pending"
    <2>1. /\ status' = [status EXCEPT ![r] = "granted"] /\ lease' = [lease EXCEPT ![r] = s]
          /\ pc' = [pc EXCEPT ![r] = "resuming"] /\ returns' = returns
      BY <1>6, Zenon DEF Grant
    <2>2. pc[r] = "waiting" /\ lease[r] = NoSlot
      BY <1>6, Zenon DEF PoolInv, QueuesExact, LeasesExact
    <2>3. TypeOK'
      BY <1>1, <2>1, Zenon DEF PoolInv, TypeOK, Statuses, Locations
    <2>4. lease'[r] = s /\ \A q \in Requests \ {r} : lease'[q] = lease[q]
      BY <2>1, Zenon DEF PoolInv, TypeOK
    <2>5. \A t \in Slots : Leased(t)' <=> Leased(t) \/ t = s
      BY <2>2, <2>4, SlotFacts, ZenonT(30) DEF Leased
    <2>6. \A t \in Slots : \A p, q \in Requests : lease'[p] = t /\ lease'[q] = t => p = q
      BY <1>2, <2>4 DEF PoolInv, SlotsExact, Leased
    <2>7. SlotsExact'
      <3>1. ASSUME NEW t \in Slots
            PROVE  /\ Free(t)' \/ Reserved(t)' \/ t \in returns' \/ Leased(t)'
                   /\ Free(t)' => ~Reserved(t)' /\ t \notin returns' /\ ~Leased(t)'
                   /\ Reserved(t)' => t \notin returns' /\ ~Leased(t)'
                   /\ t \in returns' => ~Leased(t)'
        BY <1>2, <1>3, <2>1, <2>5, Zenon DEF PoolInv, SlotsExact
      <3> QED
        BY <1>1, <2>6, <3>1, Zenon DEF PoolInv, SlotsExact
    <2>8. QueuesExact'
      <3>1. /\ \A p \in Requests : status'[p] = "pending" <=> pc'[p] = "waiting"
            /\ \A p \in Requests \ {r} : status'[p] = status[p]
            /\ status'[r] = "granted"
        BY <2>1, Zenon DEF PoolInv, TypeOK, QueuesExact
      <3>2. \A t \in Slots : <<r, t>> \notin grants'
        BY <1>1, Zenon
      <3>3. \A p \in Requests \ {r}, t \in Slots : <<p, t>> \in grants' <=> <<p, t>> \in grants
        BY <1>1, Zenon
      <3>4. ~InQueue(r)
        BY <1>1, Zenon DEF PoolInv, QueuesExact
      <3>5. \A p \in Requests : status'[p] = "pending" /\ (\A t \in Slots : <<p, t>> \notin grants') <=> InQueue(p)'
        BY <1>4, <3>1, <3>3, <3>4, ZenonT(30) DEF PoolInv, QueuesExact
      <3>6. \A p \in Requests, u \in Slots : <<p, u>> \in grants' =>
              /\ kind'[p] = KindOf(u)
              /\ status'[p] \in {"pending", "cancelled"}
              /\ \A t \in Slots : <<p, t>> \in grants' => t = u
        BY <1>1, <3>1, <3>2, <3>3, Zenon DEF PoolInv, QueuesExact
      <3> QED
        BY <1>1, <3>1, <3>5, <3>6, Zenon DEF PoolInv, QueuesExact
    <2>9. LeasesExact'
      BY <1>1, <2>1, <2>4, SlotFacts DEF PoolInv, TypeOK, LeasesExact
    <2> QED
      BY <1>5, <2>3, <2>7, <2>8, <2>9, Zenon DEF PoolInv
  <1>7. CASE status[r] # "pending"
    <2>1. returns' = returns \cup {s} /\ UNCHANGED <<status, lease, pc>>
      BY <1>7, Zenon DEF Grant
    <2>2. TypeOK'
      BY <1>1, <2>1, Zenon DEF PoolInv, TypeOK
    <2>3. \A t \in Slots : Leased(t)' <=> Leased(t)
      BY <2>1, Zenon DEF Leased
    <2>4. SlotsExact'
      <3>1. ASSUME NEW t \in Slots
            PROVE  /\ Free(t)' \/ Reserved(t)' \/ t \in returns' \/ Leased(t)'
                   /\ Free(t)' => ~Reserved(t)' /\ t \notin returns' /\ ~Leased(t)'
                   /\ Reserved(t)' => t \notin returns' /\ ~Leased(t)'
                   /\ t \in returns' => ~Leased(t)'
        BY <1>2, <1>3, <2>1, <2>3, Zenon DEF PoolInv, SlotsExact
      <3> QED
        BY <1>1, <2>1, <3>1, Zenon DEF PoolInv, SlotsExact
    <2>5. QueuesExact'
      BY <1>1, <1>4, <1>7, <2>1, Zenon DEF PoolInv, QueuesExact
    <2>6. LeasesExact'
      BY <1>1, <2>1, Zenon DEF PoolInv, LeasesExact
    <2> QED
      BY <1>5, <2>2, <2>4, <2>5, <2>6, Zenon DEF PoolInv
  <1> QED
    BY <1>6, <1>7, Zenon

\* A slot given back: reserved for the first waiter of its kind, or free.
Promised(s, h) ==
  /\ h \in Requests /\ h = Head(waiters[KindOf(s)]) /\ waiters[KindOf(s)] # << >>
  /\ status[h] = "pending" /\ kind[h] = KindOf(s) /\ \A t \in Slots : <<h, t>> \notin grants
  /\ grants' = grants \cup {<<h, s>>}
  /\ waiters' \in [Kinds -> Seq(Requests)]
  /\ \A k \in Kinds : Once(waiters'[k]) /\ (waiters'[k] # << >> => waiters[k] # << >>)
  /\ \A k \in Kinds : \A x : Has(waiters'[k], x) <=> Has(waiters[k], x) /\ ~(k = KindOf(s) /\ x = h)
  /\ UNCHANGED <<writer_busy, free_readers>>

Freed(s) ==
  /\ waiters[KindOf(s)] = << >> /\ UNCHANGED <<grants, waiters>>
  /\ writer_busy' \in BOOLEAN /\ free_readers' \in Seq(Readers) /\ Once(free_readers')
  /\ Free(s)' /\ \A t \in Slots \ {s} : Free(t)' <=> Free(t)
  /\ \A k \in Kinds \ {KindOf(s)} : Available(k)' <=> Available(k)

LEMMA ReleaseFacts ==
  ASSUME ReaderCount \in Nat, PoolInv, NEW s \in Slots, ~Free(s), Release(s)
  PROVE  Freed(s) \/ \E h \in Requests : Promised(s, h)
  <1>1. KindOf(s) \in Kinds /\ \A k \in Kinds : waiters[k] \in Seq(Requests) /\ Once(waiters[k])
    BY SlotFacts, Zenon DEF PoolInv, TypeOK, QueuesExact
  <1>2. CASE waiters[KindOf(s)] # << >>
    <2>1. PICK h \in Requests : h = Head(waiters[KindOf(s)])
      BY <1>1, <1>2, HasTail, Zenon
    <2> DEFINE p == Tail(waiters[KindOf(s)])
    <2>2. /\ p \in Seq(Requests) /\ Once(p) /\ Has(waiters[KindOf(s)], h)
          /\ \A x : Has(p, x) <=> Has(waiters[KindOf(s)], x) /\ x # h
      BY <1>1, <1>2, <2>1, HasTail, Zenon
    <2>3. /\ grants' = grants \cup {<<h, s>>} /\ waiters' = [waiters EXCEPT ![KindOf(s)] = p]
          /\ UNCHANGED <<writer_busy, free_readers>>
      BY <1>2, <2>1, Zenon DEF Release
    <2> HIDE DEF p
    <2>4. kind[h] = KindOf(s) /\ InQueue(h)
      BY <1>1, <2>2, Zenon DEF PoolInv, QueuesExact, InQueue
    <2>5. status[h] = "pending" /\ \A t \in Slots : <<h, t>> \notin grants
      BY <2>4, Zenon DEF PoolInv, QueuesExact
    <2>6. /\ waiters' \in [Kinds -> Seq(Requests)]
          /\ \A k \in Kinds : waiters'[k] = IF k = KindOf(s) THEN p ELSE waiters[k]
      BY <2>2, <2>3, Zenon DEF PoolInv, TypeOK
    <2>7. \A k \in Kinds : Once(waiters'[k]) /\ (waiters'[k] # << >> => waiters[k] # << >>)
      BY <1>1, <1>2, <2>2, <2>6, Zenon
    <2>8. \A k \in Kinds : \A x : Has(waiters'[k], x) <=> Has(waiters[k], x) /\ ~(k = KindOf(s) /\ x = h)
      BY <2>2, <2>6, Zenon
    <2> QED
      BY <1>2, <2>1, <2>3, <2>4, <2>5, <2>6, <2>7, <2>8, Zenon DEF Promised
  <1>3. CASE waiters[KindOf(s)] = << >>
    <2>1. /\ writer_busy' = (writer_busy /\ s # Writer) /\ UNCHANGED <<grants, waiters>>
          /\ free_readers' = IF s = Writer THEN free_readers ELSE Append(free_readers, s)
      BY <1>3, Zenon DEF Release
    <2>2. free_readers \in Seq(Readers) /\ Once(free_readers) /\ writer_busy \in BOOLEAN
      BY Zenon DEF PoolInv, TypeOK, SlotsExact
    <2>3. CASE s = Writer
      BY <1>3, <2>1, <2>2, <2>3, SlotFacts, Zenon DEF Freed, Free, Available, KindOf
    <2>4. CASE s # Writer
      <3>1. s \in Readers /\ ~Has(free_readers, s) /\ KindOf(s) = "reader"
        BY <2>4, SlotFacts, Zenon DEF Free, KindOf
      <3>2. /\ free_readers' \in Seq(Readers) /\ Once(free_readers')
            /\ \A x : Has(free_readers', x) <=> Has(free_readers, x) \/ x = s
        BY <2>1, <2>2, <2>4, <3>1, HasAppend, Zenon
      <3>3. writer_busy' = writer_busy
        BY <2>1, <2>2, <2>4, Zenon
      <3>4. Free(s)' /\ \A t \in Slots \ {s} : Free(t)' <=> Free(t)
        BY <2>4, <3>2, <3>3, Zenon DEF Free
      <3>5. \A k \in Kinds \ {KindOf(s)} : Available(k)' <=> Available(k)
        BY <3>1, <3>3, Zenon DEF Available, Kinds
      <3> QED
        BY <1>3, <2>1, <2>2, <3>2, <3>3, <3>4, <3>5, Zenon DEF Freed
    <2> QED
      BY <2>3, <2>4, Zenon
  <1> QED
    BY <1>2, <1>3, Zenon

\* The slot s leaves the lease or the failed grant that had it.
LEMMA GivenBack ==
  ASSUME ReaderCount \in Nat, PoolInv, NEW s \in Slots, Release(s), ~Free(s), ~Reserved(s),
         UNCHANGED <<kind, status, cancelled>>,
         pc' \in [Requests -> Locations], lease' \in [Requests -> Slots \cup {NoSlot}], returns' \subseteq Slots,
         LeasesExact', \A q \in Requests : status'[q] = "pending" <=> pc'[q] = "waiting",
         s \notin returns', ~Leased(s)',
         \A t \in Slots \ {s} : (t \in returns' <=> t \in returns) /\ (Leased(t)' <=> Leased(t)),
         \A t \in Slots : \A p, q \in Requests : lease'[p] = t /\ lease'[q] = t => p = q
  PROVE  PoolInv'
  <1>1. KindOf(s) \in Kinds /\ \A q \in Requests : kind[q] \in Kinds
    BY SlotFacts, Zenon DEF PoolInv, TypeOK
  <1>2. CASE Freed(s)
    <2>1. TypeOK'
      BY <1>2, Zenon DEF PoolInv, TypeOK, Freed
    <2>2. \A t \in Slots : Reserved(t)' <=> Reserved(t)
      BY <1>2, ZenonT(30) DEF Freed, Reserved
    <2>3. SlotsExact'
      <3>1. ASSUME NEW t \in Slots
            PROVE  /\ Free(t)' \/ Reserved(t)' \/ t \in returns' \/ Leased(t)'
                   /\ Free(t)' => ~Reserved(t)' /\ t \notin returns' /\ ~Leased(t)'
                   /\ Reserved(t)' => t \notin returns' /\ ~Leased(t)'
                   /\ t \in returns' => ~Leased(t)'
        BY <1>2, <2>2, ZenonT(30) DEF PoolInv, SlotsExact, Freed
      <3> QED
        BY <1>2, <3>1, ZenonT(30) DEF PoolInv, SlotsExact, Freed
    <2>4. QueuesExact'
      BY <1>2, ZenonT(30) DEF PoolInv, QueuesExact, InQueue, Freed
    <2>5. NoIdleWait'
      BY <1>2, Zenon DEF PoolInv, NoIdleWait, Freed
    <2> QED
      BY <2>1, <2>3, <2>4, <2>5, Zenon DEF PoolInv
  <1>3. ASSUME NEW h \in Requests, Promised(s, h) PROVE PoolInv'
    <2>1. TypeOK'
      BY <1>3, SMTT(30) DEF PoolInv, TypeOK, Promised
    <2>2. \A t \in Slots : (Reserved(t)' <=> Reserved(t) \/ t = s) /\ (Free(t)' <=> Free(t))
      BY <1>3, Zenon DEF Promised, Reserved, Free
    <2>3. \A q \in Requests, t \in Slots : <<q, t>> \in grants' <=> <<q, t>> \in grants \/ (q = h /\ t = s)
      BY <1>3, Zenon DEF Promised
    <2>4. SlotsExact'
      <3>1. ASSUME NEW t \in Slots
            PROVE  /\ Free(t)' \/ Reserved(t)' \/ t \in returns' \/ Leased(t)'
                   /\ Free(t)' => ~Reserved(t)' /\ t \notin returns' /\ ~Leased(t)'
                   /\ Reserved(t)' => t \notin returns' /\ ~Leased(t)'
                   /\ t \in returns' => ~Leased(t)'
        BY <2>2, ZenonT(30) DEF PoolInv, SlotsExact
      <3>2. \A t \in Slots : \A p, q \in Requests : <<p, t>> \in grants' /\ <<q, t>> \in grants' => p = q
        <4>1. \A q \in Requests : <<q, s>> \notin grants
          BY ZenonT(30) DEF Reserved
        <4>2. \A t \in Slots : \A p, q \in Requests : <<p, t>> \in grants /\ <<q, t>> \in grants => p = q
          BY Zenon DEF PoolInv, SlotsExact
        <4> QED
          BY <2>3, <4>1, <4>2
      <3>3. Once(free_readers')
        BY <1>3, Zenon DEF PoolInv, SlotsExact, Promised
      <3> QED
        BY <3>1, <3>2, <3>3, Zenon DEF SlotsExact
    <2>5. \A q \in Requests : InQueue(q)' <=> InQueue(q) /\ q # h
      BY <1>1, <1>3, Zenon DEF InQueue, Promised
    <2>6. QueuesExact'
      <3>1. \A q \in Requests : status'[q] = "pending" /\ (\A t \in Slots : <<q, t>> \notin grants') <=> InQueue(q)'
        BY <2>3, <2>5, ZenonT(30) DEF PoolInv, QueuesExact
      <3>2. \A q \in Requests, u \in Slots : <<q, u>> \in grants' =>
              /\ kind'[q] = KindOf(u)
              /\ status'[q] \in {"pending", "cancelled"}
              /\ \A t \in Slots : <<q, t>> \in grants' => t = u
        BY <1>3, <2>3, ZenonT(30) DEF PoolInv, QueuesExact, Promised
      <3>3. \A k \in Kinds : Once(waiters'[k]) /\ \A q \in Requests : Has(waiters'[k], q) => kind'[q] = k
        BY <1>3, Zenon DEF PoolInv, QueuesExact, Promised
      <3> QED
        BY <3>1, <3>2, <3>3, ZenonT(30) DEF QueuesExact
    <2>7. NoIdleWait'
      BY <1>3, Zenon DEF PoolInv, NoIdleWait, Promised, Available
    <2> QED
      BY <2>1, <2>4, <2>6, <2>7, Zenon DEF PoolInv
  <1> QED
    BY <1>2, <1>3, ReleaseFacts, Zenon

LEMMA ReturnReservedInv ==
  ASSUME ReaderCount \in Nat, PoolInv, NEW s \in Slots, ReturnReserved(s)
  PROVE  PoolInv'
  <1>1. s \in returns /\ returns' = returns \ {s} /\ Release(s) /\ UNCHANGED <<status, pc, kind, lease, cancelled>>
    BY Zenon DEF ReturnReserved
  <1>2. ~Free(s) /\ ~Reserved(s) /\ ~Leased(s)
    BY <1>1, Zenon DEF PoolInv, SlotsExact
  <1>3. pc' \in [Requests -> Locations] /\ lease' \in [Requests -> Slots \cup {NoSlot}] /\ returns' \subseteq Slots
    BY <1>1, Zenon DEF PoolInv, TypeOK
  <1>4. LeasesExact' /\ \A q \in Requests : status'[q] = "pending" <=> pc'[q] = "waiting"
    BY <1>1, Zenon DEF PoolInv, LeasesExact, QueuesExact
  <1>5. \A t \in Slots : Leased(t)' <=> Leased(t)
    BY <1>1, Zenon DEF Leased
  <1>6. \A t \in Slots : \A p, q \in Requests : lease'[p] = t /\ lease'[q] = t => p = q
    BY <1>1, Zenon DEF PoolInv, SlotsExact
  <1> QED
    BY <1>1, <1>2, <1>3, <1>4, <1>5, <1>6, GivenBack, Zenon

LEMMA LeaseReleaseInv ==
  ASSUME ReaderCount \in Nat, PoolInv, NEW r \in Requests, LeaseRelease(r)
  PROVE  PoolInv'
  <1>1. /\ pc[r] = "holding" /\ pc' = [pc EXCEPT ![r] = "done"] /\ lease' = [lease EXCEPT ![r] = NoSlot]
        /\ Release(lease[r]) /\ UNCHANGED <<status, kind, cancelled, returns>>
    BY Zenon DEF LeaseRelease
  <1>2. PICK s \in Slots : s = lease[r]
    BY <1>1, Zenon DEF PoolInv, TypeOK, LeasesExact
  <1>3. Leased(s) /\ ~Free(s) /\ ~Reserved(s) /\ s \notin returns
    BY <1>2, Zenon DEF PoolInv, SlotsExact, Leased
  <1>4. pc' \in [Requests -> Locations] /\ lease' \in [Requests -> Slots \cup {NoSlot}] /\ returns' \subseteq Slots
    BY <1>1, Zenon DEF PoolInv, TypeOK, Locations
  <1>5. LeasesExact' /\ \A q \in Requests : status'[q] = "pending" <=> pc'[q] = "waiting"
    BY <1>1, Zenon DEF PoolInv, TypeOK, LeasesExact, QueuesExact
  <1>6. lease'[r] = NoSlot /\ \A q \in Requests \ {r} : lease'[q] = lease[q] /\ lease[q] # s
    BY <1>1, <1>2, Zenon DEF PoolInv, TypeOK, SlotsExact
  <1>7. \A t \in Slots : Leased(t)' <=> Leased(t) /\ t # s
    BY <1>2, <1>6, SlotFacts, Zenon DEF Leased
  <1>8. \A t \in Slots : \A p, q \in Requests : lease'[p] = t /\ lease'[q] = t => p = q
    BY <1>6, SlotFacts, Zenon DEF PoolInv, SlotsExact
  <1> QED
    BY <1>1, <1>2, <1>3, <1>4, <1>5, <1>7, <1>8, GivenBack, Zenon

LEMMA PoolNext == ReaderCount \in Nat /\ PoolInv /\ [Next]_vars => PoolInv'
  <1> SUFFICES ASSUME ReaderCount \in Nat, PoolInv, [Next]_vars PROVE PoolInv'
    BY Zenon
  <1>1. CASE UNCHANGED vars
    <2>1. TypeOK'
      BY <1>1, Zenon DEF vars, PoolInv, TypeOK
    <2>2. SlotsExact' /\ NoIdleWait'
      BY <1>1, Zenon DEF vars, PoolInv, SlotsExact, NoIdleWait, Free, Reserved, Leased, Available
    <2>3. QueuesExact' /\ LeasesExact'
      BY <1>1, Zenon DEF vars, PoolInv, QueuesExact, LeasesExact, InQueue
    <2> QED
      BY <2>1, <2>2, <2>3, Zenon DEF PoolInv
  <1>2. CASE Quiet
    BY <1>1, <1>2, Zenon DEF Quiet
  <1>3. ASSUME NEW r \in Requests,
               \/ AcquireCancelled(r) \/ \E k \in Kinds : Acquire(r, k)
               \/ TakeNow(r) \/ Enqueue(r) \/ CancelEarly(r) \/ CancelWaiter(r)
               \/ \E s \in Slots : Grant(r, s)
               \/ Resume(r) \/ LeaseRelease(r)
        PROVE  PoolInv'
    <2>1. CASE AcquireCancelled(r) \/ CancelEarly(r) \/ Resume(r)
      BY <2>1, AcquireCancelledInv, CancelEarlyInv, ResumeInv, Zenon
    <2>2. CASE \E k \in Kinds : Acquire(r, k)
      BY <2>2, AcquireInv, Zenon
    <2>3. CASE TakeNow(r) \/ Enqueue(r) \/ CancelWaiter(r)
      BY <2>3, TakeNowInv, EnqueueInv, CancelWaiterInv, Zenon
    <2>4. CASE \E s \in Slots : Grant(r, s)
      BY <2>4, GrantInv, Zenon
    <2>5. CASE LeaseRelease(r)
      BY <2>5, LeaseReleaseInv, Zenon
    <2> QED
      BY <1>3, <2>1, <2>2, <2>3, <2>4, <2>5, Zenon
  <1>4. ASSUME NEW s \in Slots, ReturnReserved(s) PROVE PoolInv'
    BY <1>4, ReturnReservedInv, Zenon
  <1> QED
    BY <1>1, <1>2, <1>3, <1>4, Zenon DEF Next

\* For any set of requests and any number of readers, every connection is in one
\* place, the queues hold exactly who waits, a lease is of the kind asked for and
\* nobody waits beside a free connection (pool.cpp:80-133, 204-267).
THEOREM PoolInvariant ==
  ASSUME ReaderCount \in Nat
  PROVE  Spec => []PoolInv
  <1>1. Init => PoolInv
    BY PoolInit, Zenon
  <1>2. PoolInv /\ [Next]_vars => PoolInv'
    BY PoolNext, Zenon
  <1> QED
    BY <1>1, <1>2, PTL DEF Spec

-----------------------------------------------------------------------------
\* The order of service.

\* What ServedInOrder says of one step.
Passed(q, r, s) ==
  /\ InQueue(q) /\ InQueue(q)' /\ kind[q] = KindOf(s)
  /\ \/ <<r, s>> \in grants' \ grants
     \/ lease'[r] = s /\ lease[r] # s /\ <<r, s>> \notin grants

Ahead(q, r) ==
  \E i, j \in 1 .. Len(waiters[kind[q]]) : i < j /\ waiters[kind[q]][i] = r /\ waiters[kind[q]][j] = q

\* A slot given back is promised to the head, and whoever stays is behind it.
LEMMA PromisedFirst ==
  ASSUME ReaderCount \in Nat, PoolInv, NEW s \in Slots, Release(s), ~Free(s), kind' = kind,
         NEW q \in Requests, NEW r \in Requests, NEW t \in Slots,
         <<r, t>> \in grants' \ grants, InQueue(q), InQueue(q)', kind[q] = KindOf(t)
  PROVE  Ahead(q, r)
  <1>1. PICK h \in Requests : Promised(s, h)
    BY ReleaseFacts, Zenon DEF Freed
  <1>2. r = h /\ t = s
    <2>1. grants' = grants \cup {<<h, s>>}
      BY <1>1, Zenon DEF Promised
    <2> QED
      BY <2>1, Zenon
  <1> DEFINE w == waiters[KindOf(s)]
  <1>3. w \in Seq(Requests) /\ w # << >> /\ h = Head(w) /\ KindOf(s) \in Kinds
    BY <1>1, SlotFacts, ZenonT(30) DEF Promised, PoolInv, TypeOK
  <1>4. q # h /\ Has(w, q)
    <2>1. Has(waiters'[KindOf(s)], q)
      BY <1>2, Zenon DEF InQueue
    <2> QED
      BY <1>1, <1>3, <2>1, Zenon DEF Promised
  <1>5. h = w[1] /\ Len(w) \in Nat /\ kind[q] = KindOf(s)
    BY <1>2, <1>3
  <1> HIDE DEF w
  <1>6. PICK j \in 1 .. Len(w) : w[j] = q
    BY <1>4, Zenon DEF Has
  <1>7. 1 \in 1 .. Len(w) /\ 1 < j
    BY <1>4, <1>5, <1>6
  <1> QED
    BY <1>2, <1>5, <1>6, <1>7, Zenon DEF Ahead, w

LEMMA StepInOrder ==
  ASSUME ReaderCount \in Nat, PoolInv, [Next]_vars, NEW q \in Requests, NEW r \in Requests, NEW s \in Slots,
         Passed(q, r, s)
  PROVE  Ahead(q, r)
  <1>1. CASE \E t \in Slots : ReturnReserved(t)
    <2>1. PICK t \in Slots : t \in returns /\ Release(t) /\ UNCHANGED <<kind, lease>>
      BY <1>1, Zenon DEF ReturnReserved
    <2>2. ~Free(t) /\ <<r, s>> \in grants' \ grants
      BY <2>1, Zenon DEF PoolInv, SlotsExact, Passed
    <2> QED
      BY <2>1, <2>2, PromisedFirst, Zenon DEF Passed
  <1>2. CASE \E p \in Requests : LeaseRelease(p)
    <2>1. PICK p \in Requests : pc[p] = "holding" /\ Release(lease[p]) /\ kind' = kind
                                /\ lease' = [lease EXCEPT ![p] = NoSlot]
      BY <1>2, Zenon DEF LeaseRelease
    <2>2. lease[p] \in Slots /\ Leased(lease[p])
      BY <2>1, Zenon DEF PoolInv, TypeOK, LeasesExact, Leased
    <2>3. ~Free(lease[p]) /\ <<r, s>> \in grants' \ grants
      BY <2>1, <2>2, SlotFacts, ZenonT(30) DEF PoolInv, TypeOK, SlotsExact, Passed
    <2> QED
      BY <2>1, <2>2, <2>3, PromisedFirst, Zenon DEF Passed
  <1>3. CASE \E p \in Requests : TakeNow(p)
    <2>1. PICK p \in Requests : TakeNow(p)
      BY <1>3, Zenon
    <2>2. grants' = grants /\ kind' = kind /\ Available(kind[p]) /\ kind[p] \in Kinds
      BY <2>1, Zenon DEF TakeNow, PoolInv, TypeOK
    <2>3. p = r /\ lease'[r] = s
      BY <2>1, <2>2, Zenon DEF Passed, TakeNow, PoolInv, TypeOK
    <2>4. kind[p] = KindOf(s)
      BY <2>1, <2>3, TakeNowInv, SlotFacts, ZenonT(30) DEF PoolInv, LeasesExact, TakeNow
    <2>5. waiters[kind[q]] = << >> /\ Has(waiters[kind[q]], q)
      BY <2>2, <2>4, Zenon DEF PoolInv, NoIdleWait, Passed, InQueue
    <2> QED
      BY <2>5 DEF Has
  <1>4. CASE \E p \in Requests, t \in Slots : Grant(p, t)
    BY <1>4, Zenon DEF Grant, Passed, PoolInv, TypeOK
  <1>5. CASE \/ \E p \in Requests : AcquireCancelled(p) \/ Enqueue(p) \/ CancelEarly(p) \/ CancelWaiter(p) \/ Resume(p)
             \/ \E p \in Requests, k \in Kinds : Acquire(p, k)
             \/ UNCHANGED vars
    BY <1>5, Zenon DEF AcquireCancelled, Enqueue, CancelEarly, CancelWaiter, Resume, Acquire, vars, Passed
  <1> QED
    BY <1>1, <1>2, <1>3, <1>4, <1>5, Zenon DEF Next, Quiet

\* A step that reserves a connection for a request, or leases one directly, leaves
\* nobody waiting who came before it, for any requests and readers (pool.cpp:80-116, 216).
THEOREM FirstComeFirstServed ==
  ASSUME ReaderCount \in Nat
  PROVE  Spec => ServedInOrder
  <1>1. PoolInv /\ [Next]_vars =>
          [\A q, r \in Requests, s \in Slots : Passed(q, r, s) => Ahead(q, r)]_vars
    BY StepInOrder, Zenon
  <1>2. ServedInOrder <=> [][\A q, r \in Requests, s \in Slots : Passed(q, r, s) => Ahead(q, r)]_vars
    BY Zenon DEF ServedInOrder, Passed, Ahead
  <1> QED
    BY <1>1, <1>2, PoolInvariant, PTL DEF Spec
=============================================================================
