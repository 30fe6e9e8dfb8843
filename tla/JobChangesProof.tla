--------------------------- MODULE JobChangesProof ---------------------------
(***************************************************************************)
(* The changes that the handlers of the background tasks are made of: to   *)
(* prune, to cancel, to stop the team, to settle a task, to enqueue, to    *)
(* admit and to start.  Each is shown once to keep SvcInv, for any tasks,  *)
(* members, turns and limits, and to relate the service before and after   *)
(* it by Kept or Silent, which compose.                                    *)
(***************************************************************************)
EXTENDS BackgroundTasks, FiniteSetTheorems, WellFoundedInduction, TLAPS

Fields == {"job", "next", "active", "team", "stopped", "members", "keys", "work",
           "pump", "changed", "closed"}

\* What the fields of the service hold.
Typed(s) ==
    /\ s = [x \in Fields |-> s[x]]
    /\ s.next \in Runs /\ s.active \in Nat /\ s.team \in 0 .. MaxTeams
    /\ s.stopped \in BOOLEAN /\ s.pump \in BOOLEAN /\ s.changed \in BOOLEAN /\ s.closed \in BOOLEAN
    /\ s.members \subseteq Members
    /\ s.keys \in Seq(Tasks) /\ IsInjective(s.keys) /\ DOMAIN s.work = Range(s.keys)
    /\ s.job = [j \in DOMAIN s.job |-> s.job[j]] /\ s.work = [k \in DOMAIN s.work |-> s.work[k]]
    /\ DOMAIN s.job \subseteq 1 .. s.next - 1
    /\ \A j \in DOMAIN s.job : s.job[j] \in Job
    /\ \A k \in DOMAIN s.work : s.work[k] \in Work

\* A task's run, while it is recorded, is the job of its present attempt; a task in
\* flight has one, in the same state; what started is based on accepted results.
TaskSound(s, k) ==
    LET w == s.work[k]
    IN  /\ w.member \in s.members /\ w.depends_on \subseteq DOMAIN s.work
        /\ w.run # None => w.run < s.next
        /\ w.state = "waiting" => w.run = None
        /\ w.run \in DOMAIN s.job =>
             s.job[w.run].task = k /\ s.job[w.run].team = s.team /\ s.job[w.run].attempt = w.attempt
        /\ w.state \in TeamTaskActive => w.run \in DOMAIN s.job /\ s.job[w.run].state = w.state
        /\ w.state \notin {"waiting", "cancelled"} =>
             \A d \in w.depends_on : s.work[d].state = "accepted"

\* An unfinished job of a task is the task's run, in flight.
JobSound(s, j) ==
    LET b == s.job[j]
    IN  b.task # None => /\ b.team = s.team /\ b.task \in DOMAIN s.work
                         /\ s.work[b.task].run = j
                         /\ s.work[b.task].state \in TeamTaskActive

Board(s) ==
    /\ \A k \in DOMAIN s.work : TaskSound(s, k)
    /\ \A j \in Unfinished(s) : JobSound(s, j)
    /\ \A k, l \in DOMAIN s.work :
         /\ k # l /\ s.work[k].state \in TeamTaskActive /\ s.work[l].state \in TeamTaskActive
         => s.work[k].member # s.work[l].member

\* The records, with those reserved, and the unfinished jobs are within bounds.
Room(s) ==
    /\ Cardinality(DOMAIN s.job) + Cardinality(Waiting(s)) <= MaxRecords
    /\ Cardinality(Unfinished(s)) <= MaxRunning + MaxQueued

Slots(s) == s.active = Cardinality(Busy(s)) /\ s.active <= MaxRunning

\* Only a finished job is claimed, and a stopped team has nothing to deliver.
Acked(s) ==
    \A j \in DOMAIN s.job :
      /\ s.job[j].claimed => s.job[j].state \in TaskTerminal
      /\ s.job[j].task # None /\ (s.job[j].team # s.team \/ s.stopped) => s.job[j].acknowledged

Core(s) == Typed(s) /\ Board(s) /\ Room(s)

SvcInv(s) == Core(s) /\ Slots(s) /\ Acked(s)

-----------------------------------------------------------------------------
\* Finite sets.

LEMMA FiniteParts ==
  ASSUME NEW s, Typed(s)
  PROVE  /\ IsFiniteSet(DOMAIN s.job) /\ IsFiniteSet(DOMAIN s.work)
         /\ IsFiniteSet(Unfinished(s)) /\ IsFiniteSet(Waiting(s)) /\ IsFiniteSet(Busy(s))
  <1>1. IsFiniteSet(1 .. s.next - 1)
    <2>1. s.next \in Nat
      BY Zenon DEF Typed, Runs
    <2>2. 1 \in Int /\ s.next - 1 \in Int
      BY <2>1
    <2> QED
      BY <2>2, FS_Interval, Zenon
  <1>2. IsFiniteSet(DOMAIN s.job)
    BY <1>1, FS_Subset, Zenon DEF Typed
  <1>3. DOMAIN s.work \in SUBSET Tasks
    <2>1. s.keys \in Seq(Tasks) /\ DOMAIN s.work = Range(s.keys)
      BY Zenon DEF Typed
    <2>2. \A i \in DOMAIN s.keys : s.keys[i] \in Tasks
      BY <2>1
    <2> QED
      BY <2>1, <2>2, Zenon DEF Range
  <1>4. IsFiniteSet(DOMAIN s.work)
    BY <1>3, FS_Subset, LimitsValid, Zenon
  <1>5. /\ Unfinished(s) \in SUBSET DOMAIN s.job /\ Busy(s) \in SUBSET DOMAIN s.job
        /\ Waiting(s) \in SUBSET DOMAIN s.work
    BY Zenon DEF Unfinished, Waiting, Busy
  <1> QED
    BY <1>2, <1>4, <1>5, FS_Subset, Zenon
-----------------------------------------------------------------------------
\* Changes of states and flags.  Jobs and tasks stay who they are; the board
\* follows the runs of the tasks in flight, the others may be accepted after their
\* review or cancelled.
Update(s, t) ==
    /\ t.next = s.next /\ t.team = s.team /\ t.members = s.members
    /\ DOMAIN t.job = DOMAIN s.job /\ DOMAIN t.work = DOMAIN s.work
    /\ \A j \in DOMAIN s.job :
         /\ t.job[j].task = s.job[j].task /\ t.job[j].team = s.job[j].team
         /\ t.job[j].attempt = s.job[j].attempt
         /\ s.job[j].state \in TaskTerminal => t.job[j].state \in TaskTerminal
    /\ \A k \in DOMAIN s.work :
         /\ t.work[k].member = s.work[k].member /\ t.work[k].depends_on = s.work[k].depends_on
         /\ t.work[k].attempt = s.work[k].attempt /\ t.work[k].run = s.work[k].run
         /\ s.work[k].state \in TeamTaskActive =>
              t.work[k].state = BoardState(t.job[s.work[k].run].state)
         /\ s.work[k].state \notin TeamTaskActive =>
              \/ t.work[k].state = s.work[k].state
              \/ s.work[k].state = "in_review" /\ t.work[k].state = "accepted"
              \/ s.work[k].state # "accepted" /\ t.work[k].state = "cancelled"

\* The states of a job and of the task it runs.
LEMMA StatesMatch ==
  ASSUME NEW x \in TaskState
  PROVE  /\ x \in TaskTerminal <=> x \notin TeamTaskActive
         /\ x \notin TaskTerminal => BoardState(x) = x
         /\ BoardState(x) \in TeamTaskActive => x \notin TaskTerminal
         /\ BoardState(x) \in TeamTaskState
         /\ BoardState(x) \notin {"waiting", "accepted"}
  BY Zenon DEF TaskState, TaskTerminal, TeamTaskActive, TeamTaskState, BoardState

LEMMA TypedJob ==
  ASSUME NEW s, Typed(s), NEW j \in DOMAIN s.job
  PROVE  /\ s.job[j].state \in TaskState /\ s.job[j].task \in Tasks \cup {None}
         /\ s.job[j].team \in 0 .. MaxTeams /\ s.job[j].attempt \in 0 .. MaxAttempts
         /\ s.job[j].acknowledged \in BOOLEAN /\ s.job[j].claimed \in BOOLEAN
         /\ s.job[j].turn \in Turns \cup {None} /\ j \in Nat /\ j < s.next /\ j # None
  <1>1. s.job[j] \in Job /\ j \in 1 .. s.next - 1 /\ s.next \in Nat
    BY Zenon DEF Typed, Runs
  <1> QED
    BY <1>1, LimitsValid DEF Job

LEMMA TypedWork ==
  ASSUME NEW s, Typed(s), NEW k \in DOMAIN s.work
  PROVE  /\ s.work[k].state \in TeamTaskState /\ s.work[k].member \in Members
         /\ s.work[k].run \in Runs \cup {None} /\ s.work[k].attempt \in 1 .. MaxAttempts
         /\ s.work[k].depends_on \subseteq Tasks /\ s.work[k].turn \in Turns
         /\ k \in Tasks /\ k # None
  <1>1. s.work[k] \in Work /\ s.keys \in Seq(Tasks) /\ DOMAIN s.work = Range(s.keys)
    BY Zenon DEF Typed
  <1>2. k \in Tasks
    BY <1>1 DEF Range
  <1>3. k # None
    BY <1>2, LimitsValid, Zenon
  <1> QED
    BY <1>1, <1>2, <1>3, Zenon DEF Work

LEMMA UpdateSound ==
  ASSUME NEW s, NEW t, Core(s), Typed(t), Update(s, t)
  PROVE  Core(t)
  <1>1. Typed(s) /\ Board(s) /\ Room(s)
    BY Zenon DEF Core
  <1>2. ASSUME NEW j \in DOMAIN t.job
        PROVE  j \in DOMAIN s.job /\ (t.job[j].state \notin TaskTerminal => s.job[j].state \notin TaskTerminal)
    BY <1>2, Zenon DEF Update
  <1>3. Unfinished(t) \subseteq Unfinished(s)
    BY <1>2, Zenon DEF Unfinished
  <1>4. ASSUME NEW k \in DOMAIN s.work, s.work[k].state \in TeamTaskActive
        PROVE  /\ s.work[k].run \in DOMAIN t.job
               /\ t.job[s.work[k].run].state \in TaskState
               /\ t.work[k].state = BoardState(t.job[s.work[k].run].state)
    <2>1. s.work[k].run \in DOMAIN t.job
      BY <1>1, <1>4, Zenon DEF Board, TaskSound, Update
    <2> QED
      BY <1>4, <2>1, TypedJob, Zenon DEF Update
  <1>5. ASSUME NEW k \in DOMAIN s.work, t.work[k].state \in TeamTaskActive
        PROVE  s.work[k].state \in TeamTaskActive
    BY <1>5, Zenon DEF Update, TeamTaskActive
  <1>6. ASSUME NEW k \in DOMAIN s.work, s.work[k].state = "accepted"
        PROVE  t.work[k].state = "accepted"
    BY <1>6, Zenon DEF Update, TeamTaskActive
  <1>7. ASSUME NEW k \in DOMAIN s.work, t.work[k].state \notin {"waiting", "cancelled"}
        PROVE  s.work[k].state \notin {"waiting", "cancelled"}
    BY <1>7, Zenon DEF Update, TeamTaskActive
  <1>8. ASSUME NEW k \in DOMAIN s.work, t.work[k].state = "waiting"
        PROVE  s.work[k].state = "waiting"
    <2>1. CASE s.work[k].state \in TeamTaskActive
      BY <1>4, <1>8, <2>1, StatesMatch, Zenon
    <2>2. CASE s.work[k].state \notin TeamTaskActive
      BY <1>8, <2>2, Zenon DEF Update
    <2> QED
      BY <2>1, <2>2, Zenon
  <1>9. ASSUME NEW k \in DOMAIN t.work PROVE TaskSound(t, k)
    <2>1. k \in DOMAIN s.work /\ TaskSound(s, k)
      BY <1>1, <1>9, Zenon DEF Update, Board
    <2>2. /\ t.work[k].member = s.work[k].member /\ t.work[k].depends_on = s.work[k].depends_on
          /\ t.work[k].attempt = s.work[k].attempt /\ t.work[k].run = s.work[k].run
          /\ t.next = s.next /\ t.team = s.team /\ t.members = s.members
          /\ DOMAIN t.job = DOMAIN s.job /\ DOMAIN t.work = DOMAIN s.work
      BY <2>1, Zenon DEF Update
    <2>3. /\ t.work[k].member \in t.members /\ t.work[k].depends_on \subseteq DOMAIN t.work
          /\ t.work[k].run # None => t.work[k].run < t.next
          /\ t.work[k].state = "waiting" => t.work[k].run = None
      BY <1>8, <2>1, <2>2, ZenonT(30), SMTT(30) DEF TaskSound
    <2>4. t.work[k].run \in DOMAIN t.job =>
             t.job[t.work[k].run].task = k /\ t.job[t.work[k].run].team = t.team
             /\ t.job[t.work[k].run].attempt = t.work[k].attempt
      BY <2>1, <2>2 DEF TaskSound, Update
    <2>5. t.work[k].state \in TeamTaskActive =>
            t.work[k].run \in DOMAIN t.job /\ t.job[t.work[k].run].state = t.work[k].state
      BY <1>4, <1>5, <2>1, <2>2, StatesMatch
    <2>6. t.work[k].state \notin {"waiting", "cancelled"} =>
            \A d \in t.work[k].depends_on : t.work[d].state = "accepted"
      BY <1>6, <1>7, <2>1, <2>2, Zenon DEF TaskSound
    <2> QED
      BY <2>3, <2>4, <2>5, <2>6, Zenon DEF TaskSound
  <1>10. ASSUME NEW j \in Unfinished(t) PROVE JobSound(t, j)
    <2>1. j \in DOMAIN t.job /\ j \in Unfinished(s) /\ j \in DOMAIN s.job /\ JobSound(s, j)
      BY <1>1, <1>3, <1>10, Zenon DEF Unfinished, Board
    <2>2. t.job[j].task = s.job[j].task /\ t.job[j].team = s.job[j].team /\ t.team = s.team
      BY <2>1, Zenon DEF Update
    <2> SUFFICES ASSUME t.job[j].task # None
                 PROVE  /\ t.job[j].team = t.team /\ t.job[j].task \in DOMAIN t.work
                        /\ t.work[t.job[j].task].run = j
                        /\ t.work[t.job[j].task].state \in TeamTaskActive
      BY Zenon DEF JobSound
    <2>3. /\ t.job[j].team = t.team /\ t.job[j].task \in DOMAIN s.work
          /\ s.work[t.job[j].task].run = j /\ s.work[t.job[j].task].state \in TeamTaskActive
      BY <2>1, <2>2, Zenon DEF JobSound
    <2>4. t.work[t.job[j].task].state = BoardState(t.job[j].state) /\ t.job[j].state \in TaskState
      BY <1>4, <2>3, Zenon
    <2>5. t.job[j].state \notin TaskTerminal
      BY <1>10, Zenon DEF Unfinished
    <2>6. t.work[t.job[j].task].state \in TeamTaskActive
      BY <2>4, <2>5, StatesMatch, Zenon
    <2> QED
      BY <2>3, <2>6, Zenon DEF Update
  <1>11. Board(t)
    <2>1. ASSUME NEW k \in DOMAIN t.work, NEW l \in DOMAIN t.work, k # l,
                 t.work[k].state \in TeamTaskActive, t.work[l].state \in TeamTaskActive
          PROVE  t.work[k].member # t.work[l].member
      BY <1>1, <1>5, <2>1 DEF Board, Update
    <2> QED
      BY <1>9, <1>10, <2>1, Zenon DEF Board
  <1>12. Room(t)
    <2>1. Waiting(t) \in SUBSET Waiting(s) /\ Unfinished(t) \in SUBSET Unfinished(s)
      BY <1>3, <1>8, Zenon DEF Waiting, Update
    <2>2. /\ IsFiniteSet(Waiting(s)) /\ IsFiniteSet(Unfinished(s)) /\ IsFiniteSet(DOMAIN s.job)
          /\ IsFiniteSet(Waiting(t)) /\ IsFiniteSet(Unfinished(t))
      BY <1>1, FiniteParts, Zenon
    <2>3. /\ Cardinality(Waiting(t)) <= Cardinality(Waiting(s))
          /\ Cardinality(Unfinished(t)) <= Cardinality(Unfinished(s))
      BY <2>1, <2>2, FS_Subset, Zenon
    <2>4. /\ Cardinality(Waiting(t)) \in Nat /\ Cardinality(Unfinished(t)) \in Nat
          /\ Cardinality(Waiting(s)) \in Nat /\ Cardinality(Unfinished(s)) \in Nat
          /\ Cardinality(DOMAIN s.job) \in Nat /\ DOMAIN t.job = DOMAIN s.job
      BY <2>2, FS_CardinalityType, Zenon DEF Update
    <2> QED
      BY <1>1, <2>3, <2>4, LimitsValid DEF Room
  <1> QED
    BY <1>11, <1>12, Zenon DEF Core

-----------------------------------------------------------------------------
\* What a change keeps of the jobs: records only grow, children go on running,
\* outcomes and acknowledgements stay, and a claimed record is not removed.
Kept(s, t) ==
    /\ s.next <= t.next /\ Busy(s) \subseteq Busy(t)
    /\ \A j \in DOMAIN t.job : j \in DOMAIN s.job \/ s.next <= j
    /\ \A j \in DOMAIN s.job :
         IF j \in DOMAIN t.job
         THEN /\ t.job[j].task = s.job[j].task /\ t.job[j].team = s.job[j].team
              /\ t.job[j].claimed = s.job[j].claimed
              /\ s.job[j].acknowledged => t.job[j].acknowledged
              /\ s.job[j].state \in TaskTerminal => t.job[j].state = s.job[j].state
         ELSE ~s.job[j].claimed

\* A change that acknowledges nothing and removes no record still owed to the leader.
Silent(s, t) ==
    /\ Kept(s, t)
    /\ \A j \in DOMAIN s.job :
         IF j \in DOMAIN t.job THEN t.job[j].acknowledged = s.job[j].acknowledged
         ELSE ~Unread(s.job[j])

LEMMA KeptOn ==
  ASSUME NEW s, NEW t, NEW u, Typed(s), Typed(t), Typed(u), Kept(s, t), Kept(t, u)
  PROVE  Kept(s, u)
  <1>1. s.next \in Nat /\ t.next \in Nat /\ u.next \in Nat
    BY Zenon DEF Typed, Runs
  <1>2. \A j \in DOMAIN s.job : j \in Nat /\ j < s.next
    BY TypedJob, Zenon
  <1>3. s.next <= u.next /\ Busy(s) \subseteq Busy(u)
    BY <1>1 DEF Kept
  <1>4. ASSUME NEW j \in DOMAIN u.job PROVE j \in DOMAIN s.job \/ s.next <= j
    <2>1. j \in Nat
      BY TypedJob, Zenon
    <2> QED
      BY <1>1, <2>1 DEF Kept
  <1>5. ASSUME NEW j \in DOMAIN s.job, j \notin DOMAIN t.job PROVE j \notin DOMAIN u.job /\ ~s.job[j].claimed
    <2>1. j \in Nat /\ j < s.next /\ s.next <= t.next
      BY <1>2, Zenon DEF Kept
    <2>2. j \in DOMAIN u.job => t.next <= j
      BY <1>5, Zenon DEF Kept
    <2>3. ~s.job[j].claimed
      BY <1>5, Zenon DEF Kept
    <2> QED
      BY <1>1, <2>1, <2>2, <2>3
  <1>6. ASSUME NEW j \in DOMAIN s.job, j \in DOMAIN t.job
        PROVE  IF j \in DOMAIN u.job
               THEN /\ u.job[j].task = s.job[j].task /\ u.job[j].team = s.job[j].team
                    /\ u.job[j].claimed = s.job[j].claimed
                    /\ s.job[j].acknowledged => u.job[j].acknowledged
                    /\ s.job[j].state \in TaskTerminal => u.job[j].state = s.job[j].state
               ELSE ~s.job[j].claimed
    <2>1. /\ t.job[j].task = s.job[j].task /\ t.job[j].team = s.job[j].team
          /\ t.job[j].claimed = s.job[j].claimed
          /\ s.job[j].acknowledged => t.job[j].acknowledged
          /\ s.job[j].state \in TaskTerminal => t.job[j].state = s.job[j].state
      BY <1>6, Zenon DEF Kept
    <2>2. IF j \in DOMAIN u.job
          THEN /\ u.job[j].task = t.job[j].task /\ u.job[j].team = t.job[j].team
               /\ u.job[j].claimed = t.job[j].claimed
               /\ t.job[j].acknowledged => u.job[j].acknowledged
               /\ t.job[j].state \in TaskTerminal => u.job[j].state = t.job[j].state
          ELSE ~t.job[j].claimed
      BY <1>6, Zenon DEF Kept
    <2> QED
      BY <2>1, <2>2, Zenon
  <1> QED
    BY <1>3, <1>4, <1>5, <1>6, Zenon DEF Kept

LEMMA SilentOn ==
  ASSUME NEW s, NEW t, NEW u, Typed(s), Typed(t), Typed(u), Silent(s, t), Silent(t, u)
  PROVE  Silent(s, u)
  <1>1. Kept(s, u)
    BY KeptOn, Zenon DEF Silent
  <1>2. ASSUME NEW j \in DOMAIN s.job
        PROVE  IF j \in DOMAIN u.job THEN u.job[j].acknowledged = s.job[j].acknowledged
               ELSE ~Unread(s.job[j])
    <2>1. CASE j \in DOMAIN t.job
      BY <2>1, Zenon DEF Silent, Unread
    <2>2. CASE j \notin DOMAIN t.job
      <3>1. j \in Nat /\ j < s.next /\ s.next <= t.next /\ s.next \in Nat /\ t.next \in Nat
        BY TypedJob, Zenon DEF Silent, Kept, Typed, Runs
      <3>2. j \in DOMAIN u.job => t.next <= j
        BY <2>2, Zenon DEF Silent, Kept
      <3>3. j \notin DOMAIN u.job
        BY <3>1, <3>2
      <3> QED
        BY <2>2, <3>3, ZenonT(30), SMTT(30) DEF Silent
    <2> QED
      BY <2>1, <2>2, Zenon
  <1> QED
    BY <1>1, <1>2, Zenon DEF Silent

\* Claims and deliveries of a team that is neither replaced nor stopped.
LEMMA AckedOn ==
  ASSUME NEW s, NEW t, Typed(s), Typed(t), Acked(s), Kept(s, t), t.team = s.team,
         t.stopped = s.stopped \/ ~t.stopped,
         \A j \in DOMAIN t.job \ DOMAIN s.job :
           ~t.job[j].claimed /\ (t.job[j].task # None => t.job[j].team = t.team /\ ~t.stopped)
  PROVE  Acked(t)
  <1>1. ASSUME NEW j \in DOMAIN t.job, j \in DOMAIN s.job
        PROVE  /\ t.job[j].claimed => t.job[j].state \in TaskTerminal
               /\ t.job[j].task # None /\ (t.job[j].team # t.team \/ t.stopped) => t.job[j].acknowledged
    <2>1. /\ t.job[j].task = s.job[j].task /\ t.job[j].team = s.job[j].team
          /\ t.job[j].claimed = s.job[j].claimed
          /\ s.job[j].acknowledged => t.job[j].acknowledged
          /\ s.job[j].state \in TaskTerminal => t.job[j].state = s.job[j].state
      BY <1>1, Zenon DEF Kept
    <2>2. /\ s.job[j].claimed => s.job[j].state \in TaskTerminal
          /\ s.job[j].task # None /\ (s.job[j].team # s.team \/ s.stopped) => s.job[j].acknowledged
      BY <1>1, Zenon DEF Acked
    <2> QED
      BY <2>1, <2>2, Zenon
  <1> QED
    BY <1>1, Zenon DEF Acked

\* The fields a change of the service does not name.
LEMMA FieldSet ==
  ASSUME NEW s, s = [x \in Fields |-> s[x]], NEW f \in Fields, NEW v
  PROVE  LET t == [s EXCEPT ![f] = v]
         IN  t = [x \in Fields |-> t[x]] /\ t[f] = v /\ \A x \in Fields \ {f} : t[x] = s[x]
  BY Zenon

\* prune removes records nobody waits for, and nothing else.
LEMMA PruneFacts ==
  ASSUME NEW s, s = [x \in Fields |-> s[x]]
  PROVE  /\ Prune(s) = [x \in Fields |-> Prune(s)[x]]
         /\ \A x \in Fields \ {"job"} : Prune(s)[x] = s[x]
         /\ Prune(s).job = [j \in {i \in DOMAIN s.job : ~Prunable(s.job[i])} |-> s.job[j]]
  BY FieldSet, Zenon DEF Prune, Fields

LEMMA PruneSound ==
  ASSUME NEW s, SvcInv(s)
  PROVE  SvcInv(Prune(s)) /\ Silent(s, Prune(s))
  <1> DEFINE p == Prune(s)
  <1>1. Typed(s) /\ Board(s) /\ Room(s) /\ Slots(s) /\ Acked(s)
    BY Zenon DEF SvcInv, Core
  <1>2. /\ p = [x \in Fields |-> p[x]] /\ \A x \in Fields \ {"job"} : p[x] = s[x]
        /\ p.job = [j \in {i \in DOMAIN s.job : ~Prunable(s.job[i])} |-> s.job[j]]
    BY <1>1, PruneFacts, Zenon DEF Typed
  <1> HIDE DEF p
  <1>3. /\ p.next = s.next /\ p.active = s.active /\ p.team = s.team /\ p.stopped = s.stopped
        /\ p.members = s.members /\ p.keys = s.keys /\ p.work = s.work /\ p.pump = s.pump
        /\ p.changed = s.changed /\ p.closed = s.closed
    BY <1>2, Zenon DEF Fields
  <1>4. /\ DOMAIN p.job = {i \in DOMAIN s.job : ~Prunable(s.job[i])}
        /\ \A j \in DOMAIN p.job : j \in DOMAIN s.job /\ p.job[j] = s.job[j]
    BY <1>2, Zenon
  <1>5. \A j \in DOMAIN s.job : s.job[j].state \notin TaskTerminal => j \in DOMAIN p.job
    BY <1>4, Zenon DEF Prunable
  <1>6. \A j \in DOMAIN s.job : j \notin DOMAIN p.job => ~Unread(s.job[j]) /\ ~s.job[j].claimed
    BY <1>4, Zenon DEF Prunable
  <1>7. Typed(p)
    <2>1. p.job = [j \in DOMAIN p.job |-> p.job[j]] /\ DOMAIN p.job \subseteq DOMAIN s.job
      BY <1>2, Zenon
    <2>2. \A j \in DOMAIN p.job : p.job[j] \in Job
      BY <1>1, <1>4, Zenon DEF Typed
    <2> QED
      BY <1>1, <1>2, <1>3, <2>1, <2>2, Zenon DEF Typed
  <1>8. Unfinished(p) = Unfinished(s)
    BY <1>4, <1>5, Zenon DEF Unfinished
  <1>9. Busy(p) = Busy(s)
    BY <1>4, <1>5, Zenon DEF Busy, TaskTerminal
  <1>10. Board(p)
    <2>1. ASSUME NEW k \in DOMAIN p.work PROVE TaskSound(p, k)
      <3>1. TaskSound(s, k) /\ k \in DOMAIN s.work
        BY <1>1, <1>3, <2>1, Zenon DEF Board
      <3>2. s.work[k].state \in TeamTaskActive => s.work[k].run \in DOMAIN p.job
        BY <1>5, <3>1, Zenon DEF TaskSound, TeamTaskActive, TaskTerminal
      <3> QED
        BY <1>3, <1>4, <3>1, <3>2, Zenon DEF TaskSound
    <2>2. ASSUME NEW j \in Unfinished(p) PROVE JobSound(p, j)
      <3>1. JobSound(s, j) /\ j \in DOMAIN p.job
        BY <1>1, <1>8, <2>2, Zenon DEF Board, Unfinished
      <3> QED
        BY <1>3, <1>4, <3>1, Zenon DEF JobSound
    <2> QED
      BY <1>1, <1>3, <2>1, <2>2, Zenon DEF Board
  <1>11. Room(p)
    <2>1. DOMAIN p.job \in SUBSET DOMAIN s.job /\ Waiting(p) = Waiting(s)
      BY <1>3, <1>4, Zenon DEF Waiting
    <2>2. /\ IsFiniteSet(DOMAIN s.job) /\ IsFiniteSet(DOMAIN p.job) /\ IsFiniteSet(Waiting(s))
      BY <1>1, <1>7, FiniteParts, Zenon
    <2>3. Cardinality(DOMAIN p.job) <= Cardinality(DOMAIN s.job)
      BY <2>1, <2>2, FS_Subset, Zenon
    <2>4. /\ Cardinality(DOMAIN p.job) \in Nat /\ Cardinality(DOMAIN s.job) \in Nat
          /\ Cardinality(Waiting(s)) \in Nat
      BY <2>2, FS_CardinalityType, Zenon
    <2> QED
      BY <1>1, <1>8, <2>1, <2>3, <2>4, LimitsValid DEF Room
  <1>12. Slots(p)
    BY <1>1, <1>3, <1>9, Zenon DEF Slots
  <1>13. Silent(s, p)
    <2>1. s.next <= p.next
      BY <1>1, <1>3 DEF Typed, Runs
    <2> QED
      BY <1>4, <1>6, <1>9, <2>1, Zenon DEF Silent, Kept
  <1>14. Acked(p)
    BY <1>1, <1>3, <1>4, <1>7, <1>13, AckedOn, Zenon DEF Silent
  <1> QED
    BY <1>7, <1>10, <1>11, <1>12, <1>13, <1>14, Zenon DEF SvcInv, Core, p

\* A change of states and flags that keeps the slots: it ends no child.
LEMMA UpdateKeeps ==
  ASSUME NEW s, NEW t, SvcInv(s), Typed(t), Update(s, t), Kept(s, t), Slots(t),
         t.stopped = s.stopped \/ ~t.stopped
  PROVE  SvcInv(t)
  <1>1. Core(t)
    BY UpdateSound, Zenon DEF SvcInv
  <1>2. Acked(t)
    BY AckedOn, Zenon DEF SvcInv, Core, Update
  <1> QED
    BY <1>1, <1>2, Zenon DEF SvcInv

-----------------------------------------------------------------------------
\* Jobs change their states and the board follows.

LEMMA JobTo ==
  ASSUME NEW b \in Job, NEW x \in TaskState
  PROVE  LET c == [b EXCEPT !.state = x]
         IN  /\ c \in Job /\ c.state = x /\ c.task = b.task /\ c.team = b.team /\ c.attempt = b.attempt
             /\ c.turn = b.turn /\ c.timed_out = b.timed_out /\ c.acknowledged = b.acknowledged
             /\ c.claimed = b.claimed /\ c.aged = b.aged
  BY Zenon DEF Job

LEMMA WorkTo ==
  ASSUME NEW w \in Work, NEW x \in TeamTaskState
  PROVE  LET v == [w EXCEPT !.state = x]
         IN  /\ v \in Work /\ v.state = x /\ v.member = w.member /\ v.depends_on = w.depends_on
             /\ v.attempt = w.attempt /\ v.run = w.run /\ v.turn = w.turn
  BY Zenon DEF Work

\* The tasks of jobs that move are in flight, so that the board is an update.
LEMMA MoveUpdates ==
  ASSUME NEW s, Typed(s), Board(s), NEW to, DOMAIN to \subseteq Unfinished(s),
         \A j \in DOMAIN to : to[j] \in TaskState
  PROVE  LET m == Move(s, to)
         IN  /\ Typed(m) /\ Update(s, m) /\ \A x \in Fields \ {"job", "work"} : m[x] = s[x]
             /\ \A j \in DOMAIN s.job :
                  /\ m.job[j].state = IF j \in DOMAIN to THEN to[j] ELSE s.job[j].state
                  /\ m.job[j].acknowledged = s.job[j].acknowledged
                  /\ m.job[j].claimed = s.job[j].claimed /\ m.job[j].aged = s.job[j].aged
                  /\ m.job[j].task = s.job[j].task /\ m.job[j].team = s.job[j].team
             /\ DOMAIN to = {} => m.work = s.work
             /\ \A k \in DOMAIN s.work : s.work[k].state \notin TeamTaskActive => m.work[k] = s.work[k]
  <1> DEFINE m == Move(s, to)
  <1>1. /\ m = [x \in Fields |-> m[x]] /\ \A x \in Fields \ {"job", "work"} : m[x] = s[x]
        /\ m.job = [j \in DOMAIN s.job |->
                      IF j \in DOMAIN to THEN [s.job[j] EXCEPT !.state = to[j]] ELSE s.job[j]]
        /\ m.work = [k \in DOMAIN s.work |->
                       IF s.work[k].run \in DOMAIN to /\ IsCurrentRun(s, s.work[k].run)
                       THEN [s.work[k] EXCEPT !.state = BoardState(to[s.work[k].run])]
                       ELSE s.work[k]]
    <2>1. s = [x \in Fields |-> s[x]]
      BY Zenon DEF Typed
    <2> QED
      BY <2>1, Zenon DEF Move, Fields
  <1> HIDE DEF m
  <1>2. /\ m.next = s.next /\ m.active = s.active /\ m.team = s.team /\ m.stopped = s.stopped
        /\ m.members = s.members /\ m.keys = s.keys /\ m.pump = s.pump
        /\ m.changed = s.changed /\ m.closed = s.closed
    BY <1>1, ZenonT(30), SMTT(30) DEF Fields
  <1>3. ASSUME NEW j \in DOMAIN s.job
        PROVE  /\ m.job[j] \in Job
               /\ m.job[j].state = IF j \in DOMAIN to THEN to[j] ELSE s.job[j].state
               /\ m.job[j].acknowledged = s.job[j].acknowledged
               /\ m.job[j].claimed = s.job[j].claimed /\ m.job[j].aged = s.job[j].aged
               /\ m.job[j].task = s.job[j].task /\ m.job[j].team = s.job[j].team
               /\ m.job[j].attempt = s.job[j].attempt
    <2>1. s.job[j] \in Job
      BY Zenon DEF Typed
    <2>2. CASE j \in DOMAIN to
      <3>1. m.job[j] = [s.job[j] EXCEPT !.state = to[j]] /\ to[j] \in TaskState
        BY <1>1, <2>2, Zenon
      <3> QED
        BY <2>1, <2>2, <3>1, JobTo
    <2>3. CASE j \notin DOMAIN to
      BY <1>1, <2>1, <2>3, Zenon
    <2> QED
      BY <2>2, <2>3, Zenon
  <1>4. ASSUME NEW k \in DOMAIN s.work, s.work[k].run \in DOMAIN to
        PROVE  /\ s.work[k].state \in TeamTaskActive /\ to[s.work[k].run] \in TaskState
               /\ IsCurrentRun(s, s.work[k].run)
    <2>1. TaskSound(s, k) /\ s.work[k].run \in Unfinished(s) /\ s.work[k].run \in DOMAIN s.job
      BY <1>4, Zenon DEF Board, Unfinished
    <2>2. s.job[s.work[k].run].task = k /\ k # None
      BY <2>1, TypedWork, Zenon DEF TaskSound
    <2>3. JobSound(s, s.work[k].run)
      BY <2>1, Zenon DEF Board
    <2> QED
      BY <1>4, <2>1, <2>2, <2>3, Zenon DEF JobSound, TaskSound, IsCurrentRun
  <1>5. ASSUME NEW k \in DOMAIN s.work
        PROVE  /\ m.work[k] \in Work
               /\ m.work[k].member = s.work[k].member /\ m.work[k].depends_on = s.work[k].depends_on
               /\ m.work[k].attempt = s.work[k].attempt /\ m.work[k].run = s.work[k].run
               /\ m.work[k].state = IF s.work[k].run \in DOMAIN to THEN BoardState(to[s.work[k].run])
                                    ELSE s.work[k].state
               /\ s.work[k].run \notin DOMAIN to => m.work[k] = s.work[k]
    <2>1. s.work[k] \in Work
      BY Zenon DEF Typed
    <2>2. CASE s.work[k].run \in DOMAIN to
      <3>1. m.work[k] = [s.work[k] EXCEPT !.state = BoardState(to[s.work[k].run])]
        BY <1>1, <1>4, <2>2, Zenon
      <3>2. BoardState(to[s.work[k].run]) \in TeamTaskState
        BY <1>4, <2>2, StatesMatch, Zenon
      <3> QED
        BY <2>1, <2>2, <3>1, <3>2, WorkTo
    <2>3. CASE s.work[k].run \notin DOMAIN to
      BY <1>1, <2>1, <2>3, Zenon
    <2> QED
      BY <2>2, <2>3, Zenon
  <1>6. DOMAIN m.job = DOMAIN s.job /\ DOMAIN m.work = DOMAIN s.work
    BY <1>1, ZenonT(30), SMTT(30)
  <1>7. Typed(m)
    <2>1. m.job = [j \in DOMAIN m.job |-> m.job[j]] /\ m.work = [k \in DOMAIN m.work |-> m.work[k]]
      BY <1>1, Zenon
    <2> QED
      BY <1>1, <1>2, <1>3, <1>5, <1>6, <2>1, Zenon DEF Typed
  <1>8. \A j \in DOMAIN to : s.job[j].state \notin TaskTerminal
    BY Zenon DEF Unfinished
  <1>9. ASSUME NEW k \in DOMAIN s.work, s.work[k].state \in TeamTaskActive
        PROVE  m.work[k].state = BoardState(m.job[s.work[k].run].state)
    <2>1. s.work[k].run \in DOMAIN s.job /\ s.job[s.work[k].run].state = s.work[k].state
      BY <1>9, Zenon DEF Board, TaskSound
    <2>2. s.job[s.work[k].run].state \in TaskState
      BY <2>1, TypedJob, Zenon
    <2>3. BoardState(s.work[k].state) = s.work[k].state
      BY <1>9, <2>1, <2>2, StatesMatch, Zenon
    <2> QED
      BY <1>3, <1>5, <2>1, <2>3
  <1>10. ASSUME NEW k \in DOMAIN s.work, s.work[k].state \notin TeamTaskActive PROVE m.work[k] = s.work[k]
    BY <1>4, <1>5, <1>10, Zenon
  <1>11. Update(s, m)
    BY <1>2, <1>3, <1>5, <1>6, <1>8, <1>9, <1>10, Zenon DEF Update
  <1>12. DOMAIN to = {} => m.work = s.work
    <2>1. ASSUME DOMAIN to = {} PROVE \A k \in DOMAIN s.work : m.work[k] = s.work[k]
      BY <1>5, <2>1, Zenon
    <2> QED
      BY <1>1, <2>1, Zenon DEF Typed
  <1> QED
    BY <1>1, <1>3, <1>7, <1>10, <1>11, <1>12, Zenon DEF m

\* cancel_job: queued jobs end, running children are asked to end, and the owner's
\* own cancellation acknowledges what it cancels.
LEMMA CancelFacts ==
  ASSUME NEW s, Typed(s), Board(s), NEW J, J \subseteq DOMAIN s.job, NEW by \in {"owner", "deadline"},
         NEW c, c = CancelJobs(s, J, by)
  PROVE      /\ Typed(c) /\ Update(s, c) /\ Kept(s, c) /\ Busy(c) = Busy(s)
             /\ \A x \in Fields \ {"job", "work", "changed"} : c[x] = s[x]
             /\ \A j \in DOMAIN s.job :
                  c.job[j].acknowledged <=> (s.job[j].acknowledged \/ (j \in J /\ by = "owner"))
             /\ \A k \in DOMAIN s.work : s.work[k].state \notin TeamTaskActive => c.work[k] = s.work[k]
  <1> DEFINE hit == {j \in J : s.job[j].state \in {"queued", "running"}}
             state(j) == IF s.job[j].state = "running" THEN "cancelling"
                         ELSE IF by = "deadline" THEN "failed" ELSE "cancelled"
             to == [j \in hit |-> state(j)]
             m == Move(s, to)
             jobs == [j \in DOMAIN s.job |->
                        [m.job[j] EXCEPT !.acknowledged = @ \/ (j \in J /\ by = "owner"),
                                         !.timed_out = @ \/ (j \in hit /\ by = "deadline")]]
             changed == m.changed \/ hit # {}
  <1>1. hit \subseteq Unfinished(s) /\ DOMAIN to = hit
    BY Zenon DEF Unfinished, TaskTerminal
  <1>2. \A j \in hit : to[j] \in TaskState /\ to[j] \in TaskTerminal \cup {"cancelling"}
                       /\ (to[j] = "cancelling" <=> s.job[j].state = "running")
    BY ZenonT(30), SMTT(30) DEF TaskState, TaskTerminal
  <1>3. c = [m EXCEPT !.job = jobs, !.changed = changed]
    BY Zenon DEF CancelJobs
  <1> HIDE DEF hit, to
  <1>4. /\ Typed(m) /\ Update(s, m) /\ \A x \in Fields \ {"job", "work"} : m[x] = s[x]
        /\ \A j \in DOMAIN s.job :
             /\ m.job[j].state = IF j \in DOMAIN to THEN to[j] ELSE s.job[j].state
             /\ m.job[j].acknowledged = s.job[j].acknowledged
             /\ m.job[j].claimed = s.job[j].claimed /\ m.job[j].aged = s.job[j].aged
             /\ m.job[j].task = s.job[j].task /\ m.job[j].team = s.job[j].team
        /\ \A k \in DOMAIN s.work : s.work[k].state \notin TeamTaskActive => m.work[k] = s.work[k]
    BY <1>1, <1>2, MoveUpdates, SMTT(30), ZenonT(30)
  <1> HIDE DEF m, jobs, changed
  <1>5. /\ c = [x \in Fields |-> c[x]] /\ \A x \in Fields \ {"job", "changed"} : c[x] = m[x]
        /\ c.job = jobs /\ c.changed = changed
    <2>1. m = [x \in Fields |-> m[x]]
      BY <1>4, Zenon DEF Typed
    <2> QED
      BY <1>3, <2>1, Zenon DEF Fields
  <1>6. /\ c.next = m.next /\ c.active = m.active /\ c.team = m.team /\ c.stopped = m.stopped
        /\ c.members = m.members /\ c.keys = m.keys /\ c.work = m.work /\ c.pump = m.pump
        /\ c.closed = m.closed
    BY <1>5, Zenon DEF Fields
  <1>7. /\ m.next = s.next /\ m.active = s.active /\ m.team = s.team /\ m.stopped = s.stopped
        /\ m.members = s.members /\ m.keys = s.keys /\ DOMAIN m.job = DOMAIN s.job
    BY <1>4, Zenon DEF Fields, Update
  <1>8. ASSUME NEW j \in DOMAIN s.job
        PROVE  /\ c.job[j] \in Job /\ c.job[j].state = m.job[j].state
               /\ c.job[j].task = m.job[j].task /\ c.job[j].team = m.job[j].team
               /\ c.job[j].attempt = m.job[j].attempt /\ c.job[j].claimed = s.job[j].claimed
               /\ c.job[j].acknowledged <=> (s.job[j].acknowledged \/ (j \in J /\ by = "owner"))
    <2> DEFINE b == m.job[j]
               a == m.job[j].acknowledged \/ (j \in J /\ by = "owner")
               x == m.job[j].timed_out \/ (j \in hit /\ by = "deadline")
    <2>1. b \in Job /\ c.job[j] = [b EXCEPT !.acknowledged = a, !.timed_out = x]
      BY <1>4, <1>5, <1>7, <1>8, Zenon DEF Typed, jobs
    <2>2. a \in BOOLEAN /\ x \in BOOLEAN /\ (a <=> (s.job[j].acknowledged \/ (j \in J /\ by = "owner")))
      BY <1>4, <1>8, Zenon
    <2> HIDE DEF a, x, b
    <2>3. /\ c.job[j] \in Job /\ c.job[j].state = b.state /\ c.job[j].task = b.task
          /\ c.job[j].team = b.team /\ c.job[j].attempt = b.attempt
          /\ c.job[j].claimed = b.claimed /\ c.job[j].acknowledged = a
      BY <2>1, <2>2, ZenonT(30), SMTT(30) DEF Job
    <2> QED
      BY <1>4, <1>8, <2>2, <2>3, ZenonT(30), SMTT(30) DEF b
  <1>9. DOMAIN c.job = DOMAIN s.job /\ c.job = [j \in DOMAIN c.job |-> c.job[j]]
    BY <1>5, <1>7, Zenon DEF jobs
  <1>10. Typed(c)
    <2>1. c.changed \in BOOLEAN
      BY <1>5, Zenon DEF changed
    <2> QED
      BY <1>4, <1>5, <1>6, <1>7, <1>8, <1>9, <2>1, Zenon DEF Typed
  <1>11. Update(s, c)
    <2>1. ASSUME NEW j \in DOMAIN s.job
          PROVE  /\ c.job[j].task = s.job[j].task /\ c.job[j].team = s.job[j].team
                 /\ c.job[j].attempt = s.job[j].attempt
                 /\ s.job[j].state \in TaskTerminal => c.job[j].state \in TaskTerminal
      <3>1. /\ m.job[j].task = s.job[j].task /\ m.job[j].team = s.job[j].team
            /\ m.job[j].attempt = s.job[j].attempt
            /\ s.job[j].state \in TaskTerminal => m.job[j].state \in TaskTerminal
        BY <1>4, Zenon DEF Update
      <3> QED
        BY <1>8, <3>1, Zenon
    <2>2. ASSUME NEW k \in DOMAIN s.work, s.work[k].state \in TeamTaskActive
          PROVE  c.job[s.work[k].run].state = m.job[s.work[k].run].state
      <3>1. s.work[k].run \in DOMAIN s.job
        BY <2>2, Zenon DEF Board, TaskSound
      <3> QED
        BY <1>8, <3>1, Zenon
    <2>3. /\ c.next = s.next /\ c.team = s.team /\ c.members = s.members
          /\ DOMAIN c.job = DOMAIN s.job /\ c.work = m.work
      BY <1>6, <1>7, <1>9, Zenon
    <2>4. ASSUME NEW k \in DOMAIN s.work
          PROVE  /\ c.work[k].member = s.work[k].member /\ c.work[k].depends_on = s.work[k].depends_on
                 /\ c.work[k].attempt = s.work[k].attempt /\ c.work[k].run = s.work[k].run
                 /\ s.work[k].state \in TeamTaskActive =>
                      c.work[k].state = BoardState(c.job[s.work[k].run].state)
                 /\ s.work[k].state \notin TeamTaskActive =>
                      \/ c.work[k].state = s.work[k].state
                      \/ s.work[k].state = "in_review" /\ c.work[k].state = "accepted"
                      \/ s.work[k].state # "accepted" /\ c.work[k].state = "cancelled"
      <3>1. Update(s, m) /\ c.work[k] = m.work[k]
        BY <1>4, <2>3, Zenon
      <3> QED
        BY <2>2, <3>1, ZenonT(30) DEF Update
    <2>5. DOMAIN c.work = DOMAIN s.work
      BY <1>4, <2>3, Zenon DEF Update
    <2> QED
      BY <2>1, <2>3, <2>4, <2>5, Zenon DEF Update
  <1>12. \A j \in DOMAIN s.job : c.job[j].state = IF j \in hit THEN to[j] ELSE s.job[j].state
    BY <1>1, <1>4, <1>8
  <1>13. Busy(c) = Busy(s)
    <2>1. ASSUME NEW j \in DOMAIN s.job
          PROVE  c.job[j].state \in {"running", "cancelling"} <=> s.job[j].state \in {"running", "cancelling"}
      <3>1. CASE j \in hit
        BY <1>2, <1>12, <2>1, <3>1, Zenon DEF hit, TaskTerminal
      <3>2. CASE j \notin hit
        BY <1>12, <2>1, <3>2, Zenon
      <3> QED
        BY <3>1, <3>2, Zenon
    <2> QED
      BY <1>9, <2>1, Zenon DEF Busy
  <1>14. Kept(s, c)
    <2>1. s.next <= c.next
      BY <1>6, <1>7 DEF Typed, Runs
    <2>2. \A j \in DOMAIN s.job : s.job[j].state \in TaskTerminal => c.job[j].state = s.job[j].state
      BY <1>12, Zenon DEF hit, TaskTerminal
    <2> QED
      BY <1>4, <1>8, <1>9, <1>13, <2>1, <2>2 DEF Kept
  <1>16. \A x \in Fields \ {"job", "work", "changed"} : c[x] = s[x]
    BY <1>4, <1>5, Zenon
  <1> QED
    BY <1>4, <1>6, <1>8, <1>10, <1>11, <1>13, <1>14, <1>16, ZenonT(30)

\* A deadline acknowledges nothing.
LEMMA DeadlineSilent ==
  ASSUME NEW s, SvcInv(s), NEW J, J \subseteq DOMAIN s.job, NEW c, c = CancelJobs(s, J, "deadline")
  PROVE  Silent(s, c)
  <1>1. Typed(s) /\ Board(s)
    BY Zenon DEF SvcInv, Core
  <1>2. /\ Typed(c) /\ Update(s, c) /\ Kept(s, c)
        /\ \A j \in DOMAIN s.job : c.job[j].acknowledged <=> s.job[j].acknowledged
    BY <1>1, CancelFacts, Zenon
  <1>3. ASSUME NEW j \in DOMAIN s.job PROVE c.job[j].acknowledged = s.job[j].acknowledged
    <2>1. j \in DOMAIN c.job
      BY <1>2, Zenon DEF Update
    <2>2. c.job[j].acknowledged \in BOOLEAN /\ s.job[j].acknowledged \in BOOLEAN
      BY <1>1, <1>2, <2>1, TypedJob, Zenon
    <2> QED
      BY <1>2, <2>2, Zenon
  <1> QED
    BY <1>2, <1>3, Zenon DEF Silent, Update

LEMMA CancelSound ==
  ASSUME NEW s, SvcInv(s), NEW J, J \subseteq DOMAIN s.job, NEW by \in {"owner", "deadline"},
         NEW c, c = CancelJobs(s, J, by)
  PROVE  SvcInv(c) /\ Kept(s, c)
  <1>1. Typed(s) /\ Board(s) /\ Slots(s)
    BY Zenon DEF SvcInv, Core
  <1>2. /\ Typed(c) /\ Update(s, c) /\ Kept(s, c) /\ Busy(c) = Busy(s)
        /\ \A x \in Fields \ {"job", "work", "changed"} : c[x] = s[x]
    BY <1>1, CancelFacts
  <1>3. c.active = s.active /\ c.stopped = s.stopped
    BY <1>2, Zenon DEF Fields
  <1>4. Slots(c)
    BY <1>1, <1>2, <1>3, Zenon DEF Slots
  <1>5. SvcInv(c)
    BY <1>2, <1>3, <1>4, UpdateKeeps, Zenon
  <1> QED
    BY <1>2, <1>5, Zenon

-----------------------------------------------------------------------------
\* The other fields, and a stopped team.

LEMMA SameJobs ==
  ASSUME NEW s, NEW t, Typed(s), t.job = s.job, t.next = s.next
  PROVE  Silent(s, t) /\ Busy(t) = Busy(s)
  <1>1. s.next <= t.next
    BY DEF Typed, Runs
  <1>2. Busy(t) = Busy(s)
    BY Zenon DEF Busy
  <1> QED
    BY <1>1, <1>2, Zenon DEF Silent, Kept

\* Flags and a longer roster.
LEMMA FlagsSound ==
  ASSUME NEW s, NEW t, SvcInv(s), t = [x \in Fields |-> t[x]],
         t.job = s.job, t.next = s.next, t.active = s.active, t.team = s.team,
         t.stopped = s.stopped, t.keys = s.keys, t.work = s.work,
         s.members \subseteq t.members, t.members \subseteq Members,
         t.pump \in BOOLEAN, t.changed \in BOOLEAN, t.closed \in BOOLEAN
  PROVE  SvcInv(t) /\ Silent(s, t)
  <1>1. Typed(s) /\ Board(s) /\ Room(s) /\ Slots(s) /\ Acked(s)
    BY Zenon DEF SvcInv, Core
  <1>2. Typed(t)
    BY <1>1, Zenon DEF Typed
  <1>3. Unfinished(t) = Unfinished(s) /\ Waiting(t) = Waiting(s) /\ Busy(t) = Busy(s)
    BY Zenon DEF Unfinished, Waiting, Busy
  <1>4. Board(t)
    <2>1. ASSUME NEW k \in DOMAIN t.work PROVE TaskSound(t, k)
      <3>1. TaskSound(s, k)
        BY <1>1, <2>1, Zenon DEF Board
      <3> QED
        BY <3>1, Zenon DEF TaskSound
    <2>2. ASSUME NEW j \in Unfinished(t) PROVE JobSound(t, j)
      <3>1. JobSound(s, j)
        BY <1>1, <1>3, <2>2, Zenon DEF Board
      <3> QED
        BY <3>1, Zenon DEF JobSound
    <2> QED
      BY <1>1, <2>1, <2>2, Zenon DEF Board
  <1>5. Room(t) /\ Slots(t) /\ Acked(t)
    BY <1>1, <1>3, Zenon DEF Room, Slots, Acked
  <1> QED
    BY <1>1, <1>2, <1>4, <1>5, SameJobs, Zenon DEF SvcInv, Core

\* The board alone changes: tasks that are not in flight are accepted after their
\* review, or cancelled.
Settles(s, t) ==
    /\ t = [x \in Fields |-> t[x]] /\ t.stopped \in BOOLEAN
    /\ \A x \in Fields \ {"work", "stopped"} : t[x] = s[x]
    /\ t.work = [k \in DOMAIN s.work |-> t.work[k]]
    /\ \A k \in DOMAIN s.work :
         \/ t.work[k] = s.work[k]
         \/ \E x \in {"accepted", "cancelled"} :
              /\ t.work[k] = [s.work[k] EXCEPT !.state = x]
              /\ s.work[k].state \notin TeamTaskActive \cup {"accepted"}
              /\ x = "accepted" => s.work[k].state = "in_review"

LEMMA WorkUpdates ==
  ASSUME NEW s, NEW t, Typed(s), Board(s), Settles(s, t)
  PROVE  Typed(t) /\ Update(s, t) /\ Silent(s, t) /\ Busy(t) = Busy(s)
  <1>1. /\ t.next = s.next /\ t.active = s.active /\ t.team = s.team /\ t.job = s.job
        /\ t.members = s.members /\ t.keys = s.keys /\ t.pump = s.pump
        /\ t.changed = s.changed /\ t.closed = s.closed
    BY Zenon DEF Fields, Settles
  <1>2. ASSUME NEW k \in DOMAIN s.work
        PROVE  /\ t.work[k] \in Work
               /\ t.work[k].member = s.work[k].member /\ t.work[k].depends_on = s.work[k].depends_on
               /\ t.work[k].attempt = s.work[k].attempt /\ t.work[k].run = s.work[k].run
               /\ \/ t.work[k].state = s.work[k].state
                  \/ /\ s.work[k].state \notin TeamTaskActive
                     /\ \/ s.work[k].state = "in_review" /\ t.work[k].state = "accepted"
                        \/ s.work[k].state # "accepted" /\ t.work[k].state = "cancelled"
    <2>1. s.work[k] \in Work
      BY Zenon DEF Typed
    <2>2. CASE t.work[k] = s.work[k]
      BY <2>1, <2>2, Zenon
    <2>3. CASE \E x \in {"accepted", "cancelled"} :
                /\ t.work[k] = [s.work[k] EXCEPT !.state = x]
                /\ s.work[k].state \notin TeamTaskActive \cup {"accepted"}
                /\ x = "accepted" => s.work[k].state = "in_review"
      <3>1. PICK x \in {"accepted", "cancelled"} :
                /\ t.work[k] = [s.work[k] EXCEPT !.state = x]
                /\ s.work[k].state \notin TeamTaskActive \cup {"accepted"}
                /\ x = "accepted" => s.work[k].state = "in_review"
        BY <2>3, Zenon
      <3>2. x \in TeamTaskState
        BY Zenon DEF TeamTaskState
      <3> QED
        BY <2>1, <3>1, <3>2, Zenon DEF Work
    <2> QED
      BY <2>2, <2>3, Zenon DEF Settles
  <1>3. DOMAIN t.work = DOMAIN s.work /\ t.work = [k \in DOMAIN t.work |-> t.work[k]]
    BY Zenon DEF Settles
  <1>4. Typed(t)
    BY <1>1, <1>2, <1>3, Zenon DEF Typed, Settles
  <1>5. \A k \in DOMAIN s.work : s.work[k].state \in TeamTaskActive =>
          s.work[k].state = BoardState(s.job[s.work[k].run].state)
    BY TypedJob, StatesMatch, ZenonT(30) DEF Board, TaskSound
  <1>6. Update(s, t)
    BY <1>1, <1>2, <1>3, <1>5 DEF Update
  <1> QED
    BY <1>1, <1>4, <1>6, SameJobs, Zenon

\* stop_team.
LEMMA StopSound ==
  ASSUME NEW s, SvcInv(s), NEW t, t = StopTeam(s)
  PROVE  SvcInv(t) /\ Kept(s, t) /\ DOMAIN t.job = DOMAIN s.job /\ t.closed = s.closed /\ t.stopped
  <1> DEFINE s1 == [s EXCEPT !.stopped = TRUE]
             c == CancelJobs(s1, TeamRuns(s), "owner")
  <1>1. Typed(s) /\ Board(s) /\ Core(s) /\ Slots(s) /\ Acked(s) /\ s = [x \in Fields |-> s[x]]
    BY Zenon DEF SvcInv, Core, Typed
  <1>2. /\ s1 = [x \in Fields |-> s1[x]] /\ \A x \in Fields \ {"stopped"} : s1[x] = s[x]
        /\ s1.stopped = TRUE
    BY <1>1, Zenon DEF Fields
  <1>3. t = [c EXCEPT !.work = [k \in DOMAIN @ |-> Abandon(@[k])]]
    BY Zenon DEF StopTeam
  <1> HIDE DEF s1
  <1>4. s1.job = s.job /\ s1.next = s.next /\ s1.work = s.work /\ s1.active = s.active /\ s1.team = s.team
        /\ s1.closed = s.closed
    BY <1>2, Zenon DEF Fields
  <1>5. s1.work = [k \in DOMAIN s.work |-> s1.work[k]]
    BY <1>1, <1>4, Zenon DEF Typed
  <1>6. Typed(s1) /\ Update(s, s1) /\ Busy(s1) = Busy(s) /\ Silent(s, s1)
    <2>1. Settles(s, s1)
      BY <1>2, <1>4, <1>5, Zenon DEF Settles, Fields
    <2> QED
      BY <1>1, <2>1, WorkUpdates, Zenon
  <1>7. Core(s1) /\ Board(s1)
    BY <1>1, <1>6, UpdateSound, Zenon DEF Core
  <1>8. TeamRuns(s) \subseteq DOMAIN s1.job
    BY <1>4, Zenon DEF TeamRuns
  <1>9. /\ Typed(c) /\ Update(s1, c) /\ Kept(s1, c) /\ Busy(c) = Busy(s1)
        /\ \A x \in Fields \ {"job", "work", "changed"} : c[x] = s1[x]
        /\ \A j \in DOMAIN s1.job :
             c.job[j].acknowledged <=> (s1.job[j].acknowledged \/ j \in TeamRuns(s))
    <2>1. c = CancelJobs(s1, TeamRuns(s), "owner")
      BY Zenon
    <2> HIDE DEF c
    <2> QED
      BY <1>6, <1>7, <1>8, <2>1, CancelFacts
  <1> HIDE DEF c
  <1>10. Core(c) /\ Board(c) /\ c = [x \in Fields |-> c[x]] /\ c.work = [k \in DOMAIN c.work |-> c.work[k]]
    BY <1>7, <1>9, UpdateSound, Zenon DEF Core, Typed
  <1>11. /\ t = [x \in Fields |-> t[x]] /\ \A x \in Fields \ {"work"} : t[x] = c[x]
         /\ t.work = [k \in DOMAIN c.work |-> Abandon(c.work[k])]
    BY <1>3, <1>10, Zenon DEF Fields
  <1>12. c.stopped = TRUE /\ c.team = s.team /\ c.active = s.active /\ c.next = s.next /\ c.closed = s.closed
    BY <1>2, <1>4, <1>9, Zenon DEF Fields
  <1>13. t.job = c.job /\ t.team = s.team /\ t.active = s.active /\ t.stopped = TRUE /\ t.next = s.next
         /\ t.closed = s.closed
    BY <1>11, <1>12, Zenon DEF Fields
  <1>14. Typed(t) /\ Update(c, t) /\ Silent(c, t) /\ Busy(t) = Busy(c)
    <2>1. ASSUME NEW k \in DOMAIN c.work
          PROVE  \/ t.work[k] = c.work[k]
                 \/ \E x \in {"accepted", "cancelled"} :
                      /\ t.work[k] = [c.work[k] EXCEPT !.state = x]
                      /\ c.work[k].state \notin TeamTaskActive \cup {"accepted"}
                      /\ x = "accepted" => c.work[k].state = "in_review"
      BY <1>11, <2>1, Zenon DEF Abandon
    <2>2. t.work = [k \in DOMAIN c.work |-> t.work[k]]
      BY <1>11, Zenon
    <2>3. t.stopped \in BOOLEAN /\ \A x \in Fields \ {"work", "stopped"} : t[x] = c[x]
      BY <1>11, <1>13, Zenon
    <2>4. Settles(c, t)
      BY <1>11, <2>1, <2>2, <2>3, Zenon DEF Settles
    <2> QED
      BY <1>9, <1>10, <2>4, WorkUpdates, Zenon
  <1>15. Core(t)
    BY <1>10, <1>14, UpdateSound, Zenon
  <1>16. Slots(t)
    BY <1>1, <1>6, <1>9, <1>13, <1>14, Zenon DEF Slots
  <1>17. Kept(s, t)
    <2>1. Kept(s, c)
      BY <1>1, <1>6, <1>9, KeptOn, ZenonT(30), SMTT(30) DEF Silent
    <2> QED
      BY <1>1, <1>9, <1>14, <2>1, KeptOn, Zenon DEF Silent
  <1>18. DOMAIN t.job = DOMAIN s.job
    BY <1>4, <1>9, <1>13, Zenon DEF Update
  <1>19. ASSUME NEW j \in DOMAIN t.job
         PROVE  /\ t.job[j].claimed => t.job[j].state \in TaskTerminal
                /\ t.job[j].task # None => t.job[j].acknowledged
    <2>1. /\ t.job[j].task = s.job[j].task /\ t.job[j].team = s.job[j].team
          /\ t.job[j].claimed = s.job[j].claimed
          /\ s.job[j].state \in TaskTerminal => t.job[j].state = s.job[j].state
          /\ s.job[j].acknowledged => t.job[j].acknowledged
      BY <1>17, <1>18, <1>19, Zenon DEF Kept
    <2>2. /\ s.job[j].claimed => s.job[j].state \in TaskTerminal
          /\ s.job[j].task # None /\ s.job[j].team # s.team => s.job[j].acknowledged
      BY <1>1, <1>18, <1>19, ZenonT(30), SMTT(30) DEF Acked
    <2>3. s.job[j].task # None /\ s.job[j].team = s.team => t.job[j].acknowledged
      BY <1>4, <1>9, <1>13, <1>18, <1>19, Zenon DEF TeamRuns
    <2> QED
      BY <2>1, <2>2, <2>3, Zenon
  <1>20. Acked(t)
    BY <1>19, Zenon DEF Acked
  <1> QED
    BY <1>13, <1>15, <1>16, <1>17, <1>18, <1>20, Zenon DEF SvcInv

-----------------------------------------------------------------------------
\* Queued jobs start.

LEMMA LeastNat ==
  ASSUME NEW T \in SUBSET Nat, T # {}
  PROVE  \E n \in T : \A m \in T : n <= m
  <1> DEFINE R == OpToRel(<, Nat)
  <1>1. IsWellFoundedOn(R, Nat)
    BY NatLessThanWellFounded, Zenon
  <1> HIDE DEF R
  <1>2. PICK n \in T : \A m \in T : ~(<<m, n>> \in R)
    BY <1>1, WFMin, Zenon
  <1>3. \A m \in T : ~(m < n)
    BY <1>2, Zenon DEF R, OpToRel
  <1> QED
    BY <1>3

\* The first n jobs are at most n.
LEMMA FirstSize ==
  ASSUME NEW top \in Nat, NEW J, IsFiniteSet(J), J \subseteq 0 .. top, NEW n \in Nat
  PROVE  First(J, n) \in SUBSET J /\ IsFiniteSet(First(J, n)) /\ Cardinality(First(J, n)) <= n
  <1> DEFINE F == First(J, n)
  <1>1. F \in SUBSET J /\ F = {j \in J : Cardinality({i \in J : i < j}) < n}
    BY Zenon DEF First
  <1> HIDE DEF F
  <1>2. IsFiniteSet(F)
    BY <1>1, FS_Subset, Zenon
  <1>3. CASE F = {}
    <2>1. Cardinality(F) = 0
      BY <1>3, FS_EmptySet, Zenon
    <2> QED
      BY <1>1, <1>2, <2>1 DEF F
  <1>4. CASE F # {}
    <2> DEFINE T == {x \in Nat : top - x \in F}
    <2>1. PICK e \in F : TRUE
      BY <1>4, Zenon
    <2>2. e \in 0 .. top
      BY <1>1, Zenon
    <2>3. top - e \in Nat /\ top - (top - e) = e
      BY <2>2
    <2>4. top - e \in T
      BY <2>1, <2>3, Zenon
    <2>5. PICK x \in T : \A y \in T : x <= y
      BY <2>4, LeastNat, Zenon
    <2> DEFINE m == top - x
    <2>6. m \in F /\ m \in Nat
      BY <1>1, <2>5
    <2>7. ASSUME NEW f \in F PROVE f \in Nat /\ f <= m
      <3>1. f \in 0 .. top
        BY <1>1, Zenon
      <3>2. top - f \in Nat /\ top - (top - f) = f
        BY <3>1
      <3>3. top - f \in T
        BY <2>7, <3>2, Zenon
      <3>4. x <= top - f /\ x \in Nat
        BY <2>5, <3>3, Zenon
      <3> QED
        BY <3>1, <3>4
    <2> HIDE DEF m
    <2> DEFINE B == {i \in J : i < m}
    <2>8. F \ {m} \in SUBSET B
      <3>1. ASSUME NEW f \in F, f # m PROVE f < m
        BY <2>6, <2>7, <3>1
      <3> QED
        BY <1>1, <3>1, Zenon
    <2>9. Cardinality(B) < n
      BY <1>1, <2>6, Zenon
    <2>10. IsFiniteSet(B) /\ B \in SUBSET J
      <3>1. B \in SUBSET J
        BY Zenon
      <3> QED
        BY <3>1, FS_Subset, Zenon
    <2> HIDE DEF B
    <2>11. Cardinality(F \ {m}) <= Cardinality(B) /\ Cardinality(F \ {m}) = Cardinality(F) - 1
      BY <1>2, <2>6, <2>8, <2>10, FS_Subset, FS_RemoveElement, Zenon
    <2>12. Cardinality(B) \in Nat /\ Cardinality(F) \in Nat
      BY <1>2, <2>10, FS_CardinalityType, Zenon
    <2>13. Cardinality(F) <= n
      BY <2>9, <2>11, <2>12
    <2> QED
      BY <1>1, <1>2, <2>13, Zenon DEF F
  <1> QED
    BY <1>3, <1>4, Zenon

LEMMA StartSound ==
  ASSUME NEW s, SvcInv(s), NEW t, t = StartJobs(s)
  PROVE  /\ SvcInv(t) /\ Silent(s, t) /\ DOMAIN t.work = DOMAIN s.work
         /\ \A k \in DOMAIN s.work : s.work[k].state \notin TeamTaskActive => t.work[k] = s.work[k]
         /\ t.stopped = s.stopped /\ t.team = s.team /\ t.closed = s.closed
         /\ DOMAIN t.job = DOMAIN s.job
  <1> DEFINE queued == {j \in DOMAIN s.job : s.job[j].state = "queued"}
             started == IF s.active >= MaxRunning THEN {} ELSE First(queued, MaxRunning - s.active)
             to == [j \in started |-> "running"]
             m == Move(s, to)
  <1>1. Typed(s) /\ Board(s) /\ Slots(s) /\ Acked(s) /\ s.active \in Nat /\ MaxRunning \in Nat
    BY LimitsValid, Zenon DEF SvcInv, Core, Typed
  <1>2. t = [m EXCEPT !.active = @ + Cardinality(started)]
    BY Zenon DEF StartJobs
  <1>3. /\ started \in SUBSET queued /\ IsFiniteSet(started)
        /\ Cardinality(started) \in Nat /\ s.active + Cardinality(started) <= MaxRunning
    <2>1. IsFiniteSet(queued) /\ queued \subseteq 0 .. s.next /\ s.next \in Nat
      <3>1. queued \in SUBSET DOMAIN s.job
        BY Zenon
      <3>2. IsFiniteSet(DOMAIN s.job)
        BY <1>1, FiniteParts, Zenon
      <3>3. DOMAIN s.job \subseteq 0 .. s.next /\ s.next \in Nat
        BY <1>1, SMTT(30) DEF Typed, Runs
      <3> QED
        BY <3>1, <3>2, <3>3, FS_Subset, Zenon
    <2> HIDE DEF queued
    <2>2. CASE s.active >= MaxRunning
      <3>1. started = {}
        BY <2>2, Zenon
      <3> HIDE DEF started
      <3>2. IsFiniteSet(started) /\ Cardinality(started) = 0
        BY <3>1, FS_EmptySet, Zenon
      <3> QED
        BY <1>1, <3>1, <3>2 DEF Slots
    <2>3. CASE ~(s.active >= MaxRunning)
      <3> DEFINE n == MaxRunning - s.active
      <3>1. started = First(queued, n) /\ n \in Nat
        BY <1>1, <2>3
      <3> HIDE DEF started, n
      <3>2. started \in SUBSET queued /\ IsFiniteSet(started) /\ Cardinality(started) <= n
        BY <2>1, <3>1, FirstSize, Zenon
      <3>3. Cardinality(started) \in Nat
        BY <3>2, FS_CardinalityType, Zenon
      <3> QED
        BY <1>1, <3>1, <3>2, <3>3 DEF n
    <2> QED
      BY <2>2, <2>3, Zenon
  <1> HIDE DEF started
  <1>4. started \subseteq Unfinished(s) /\ \A j \in started : s.job[j].state = "queued" /\ j \in DOMAIN s.job
    BY <1>3, Zenon DEF Unfinished, TaskTerminal
  <1>5. DOMAIN to = started /\ \A j \in started : to[j] = "running" /\ to[j] \in TaskState
    BY Zenon DEF TaskState
  <1> HIDE DEF to
  <1>6. /\ Typed(m) /\ Update(s, m) /\ \A x \in Fields \ {"job", "work"} : m[x] = s[x]
        /\ \A j \in DOMAIN s.job :
             /\ m.job[j].state = IF j \in DOMAIN to THEN to[j] ELSE s.job[j].state
             /\ m.job[j].acknowledged = s.job[j].acknowledged
             /\ m.job[j].claimed = s.job[j].claimed /\ m.job[j].aged = s.job[j].aged
             /\ m.job[j].task = s.job[j].task /\ m.job[j].team = s.job[j].team
        /\ \A k \in DOMAIN s.work : s.work[k].state \notin TeamTaskActive => m.work[k] = s.work[k]
    <2>1. DOMAIN to \subseteq Unfinished(s) /\ \A j \in DOMAIN to : to[j] \in TaskState
      BY <1>4, <1>5, Zenon
    <2>2. Typed(s) /\ Board(s)
      BY <1>1, Zenon
    <2> QED
      BY <2>1, <2>2, MoveUpdates, SMTT(30), ZenonT(30)
  <1> HIDE DEF m
  <1>7. /\ t = [x \in Fields |-> t[x]] /\ \A x \in Fields \ {"active"} : t[x] = m[x]
        /\ t.active = m.active + Cardinality(started)
    <2>1. m = [x \in Fields |-> m[x]]
      BY <1>6, Zenon DEF Typed
    <2> QED
      BY <1>2, <2>1, Zenon DEF Fields
  <1>8. /\ t.job = m.job /\ t.next = m.next /\ t.team = m.team /\ t.stopped = m.stopped
        /\ t.members = m.members /\ t.keys = m.keys /\ t.work = m.work /\ t.pump = m.pump
        /\ t.changed = m.changed /\ t.closed = m.closed
    BY <1>7, ZenonT(30), SMTT(30) DEF Fields
  <1>9. /\ m.active = s.active /\ m.next = s.next /\ m.stopped = s.stopped /\ m.team = s.team
        /\ m.closed = s.closed
        /\ DOMAIN m.job = DOMAIN s.job /\ DOMAIN m.work = DOMAIN s.work
    BY <1>6, Zenon DEF Fields, Update
  <1>10. t.active = s.active + Cardinality(started) /\ t.active \in Nat
    BY <1>1, <1>3, <1>7, <1>9, SMTT(30), ZenonT(30)
  <1>11. Typed(t)
    BY <1>6, <1>7, <1>8, <1>10, Zenon DEF Typed
  <1>12. Update(s, t)
    <2>1. Update(s, m)
      BY <1>6, Zenon
    <2>2. /\ t.job = m.job /\ t.next = m.next /\ t.team = m.team
          /\ t.members = m.members /\ t.work = m.work
      BY <1>8, Zenon
    <2> QED
      BY <2>1, <2>2, ZenonT(30) DEF Update
  <1>13. ASSUME NEW j \in DOMAIN s.job
         PROVE  /\ t.job[j].state = IF j \in started THEN "running" ELSE s.job[j].state
                /\ t.job[j].acknowledged = s.job[j].acknowledged /\ t.job[j].claimed = s.job[j].claimed
                /\ t.job[j].task = s.job[j].task /\ t.job[j].team = s.job[j].team
    BY <1>5, <1>6, <1>8, <1>13, ZenonT(30), SMTT(30)
  <1>14. Busy(t) = Busy(s) \cup started /\ Busy(s) \cap started = {}
    BY <1>4, <1>8, <1>9, <1>13, Zenon DEF Busy
  <1>15. Slots(t)
    <2>1. IsFiniteSet(Busy(s)) /\ Cardinality({}) = 0
      BY <1>1, FiniteParts, FS_EmptySet, Zenon
    <2>2. Cardinality(Busy(t)) = Cardinality(Busy(s)) + Cardinality(started) - 0
      BY <1>3, <1>14, <2>1, FS_Union
    <2>3. Cardinality(Busy(s)) = s.active
      BY <1>1, Zenon DEF Slots
    <2> QED
      BY <1>1, <1>3, <1>10, <2>2, <2>3, SMTT(30), ZenonT(30) DEF Slots
  <1>16. Silent(s, t)
    <2>1. s.next <= t.next
      BY <1>1, <1>8, <1>9 DEF Typed, Runs
    <2>2. \A j \in DOMAIN s.job : s.job[j].state \in TaskTerminal => t.job[j].state = s.job[j].state
      BY <1>4, <1>13, ZenonT(30), SMTT(30) DEF TaskTerminal
    <2> QED
      BY <1>8, <1>9, <1>13, <1>14, <2>1, <2>2, Zenon DEF Silent, Kept
  <1>17. SvcInv(t)
    BY <1>8, <1>9, <1>11, <1>12, <1>15, <1>16, UpdateKeeps, ZenonT(30), SMTT(30) DEF Silent
  <1> QED
    BY <1>6, <1>8, <1>9, <1>16, <1>17, Zenon

-----------------------------------------------------------------------------
\* A job is recorded.

Added(p, b, t) ==
    /\ p.next \notin DOMAIN p.job /\ p.next \in Nat /\ t.next \in Runs
    /\ DOMAIN t.job = DOMAIN p.job \cup {p.next} /\ DOMAIN t.job \subseteq 1 .. t.next - 1
    /\ t.job = [j \in DOMAIN t.job |-> t.job[j]]
    /\ t.job[p.next] = b /\ \A j \in DOMAIN p.job : t.job[j] = p.job[j]
    /\ \A j \in DOMAIN t.job : t.job[j] \in Job
    /\ Silent(p, t) /\ Busy(t) = Busy(p) /\ Unfinished(t) = Unfinished(p) \cup {p.next}
    /\ Cardinality(DOMAIN t.job) = Cardinality(DOMAIN p.job) + 1
    /\ Cardinality(Unfinished(t)) = Cardinality(Unfinished(p)) + 1

LEMMA AddJob ==
  ASSUME NEW p, Typed(p), NEW b \in Job, b.state = "queued", NEW t,
         t.job = [j \in DOMAIN p.job \cup {p.next} |-> IF j = p.next THEN b ELSE p.job[j]],
         t.next = p.next + 1
  PROVE  Added(p, b, t)
  <1>1. p.next \in Nat /\ p.next # 0 /\ DOMAIN p.job \subseteq 1 .. p.next - 1
    BY Zenon DEF Typed, Runs
  <1>2. p.next \notin DOMAIN p.job
    BY <1>1
  <1>3. DOMAIN t.job = DOMAIN p.job \cup {p.next} /\ t.job = [j \in DOMAIN t.job |-> t.job[j]]
    BY Zenon
  <1>4. t.job[p.next] = b /\ \A j \in DOMAIN p.job : t.job[j] = p.job[j]
    BY <1>2, Zenon
  <1>5. t.next \in Runs /\ DOMAIN t.job \subseteq 1 .. t.next - 1
    BY <1>1, <1>3 DEF Runs
  <1>6. \A j \in DOMAIN t.job : t.job[j] \in Job
    BY <1>3, <1>4, Zenon DEF Typed
  <1>7. Busy(t) = Busy(p)
    BY <1>3, <1>4, Zenon DEF Busy
  <1>8. Unfinished(t) = Unfinished(p) \cup {p.next}
    BY <1>3, <1>4, Zenon DEF Unfinished, TaskTerminal
  <1>9. Silent(p, t)
    <2>1. p.next <= t.next /\ \A j \in DOMAIN t.job : j \in DOMAIN p.job \/ p.next <= j
      BY <1>1, <1>3
    <2> QED
      BY <1>3, <1>4, <1>7, <2>1, Zenon DEF Silent, Kept
  <1>10. IsFiniteSet(DOMAIN p.job) /\ IsFiniteSet(Unfinished(p)) /\ p.next \notin Unfinished(p)
    BY <1>2, FiniteParts, Zenon DEF Unfinished
  <1>11. Cardinality(DOMAIN t.job) = Cardinality(DOMAIN p.job) + 1
    BY <1>2, <1>3, <1>10, FS_AddElement, Zenon
  <1>12. Cardinality(Unfinished(t)) = Cardinality(Unfinished(p)) + 1
    BY <1>8, <1>10, FS_AddElement, ZenonT(30), SMTT(30)
  <1> QED
    BY <1>1, <1>2, <1>3, <1>4, <1>5, <1>6, <1>7, <1>8, <1>9, <1>11, <1>12, ZenonT(30) DEF Added

\* start.
LEMMA EnqueueSound ==
  ASSUME NEW p, SvcInv(p), HasCapacity(p, FALSE), NEW turn \in Turns,
         NEW t, t = Enqueue(p, NewJob(None, 0, 0, turn))
  PROVE  SvcInv(t) /\ Silent(p, t)
  <1> DEFINE b == NewJob(None, 0, 0, turn)
  <1>1. Typed(p) /\ Board(p) /\ Room(p) /\ Slots(p) /\ Acked(p) /\ p = [x \in Fields |-> p[x]]
    BY Zenon DEF SvcInv, Core, Typed
  <1>2. b \in Job /\ b.state = "queued" /\ b.task = None /\ ~b.claimed
    BY LimitsValid, SMTT(30), ZenonT(30) DEF NewJob, Job, TaskState
  <1>3. t = Enqueue(p, b)
    BY Zenon
  <1> HIDE DEF b
  <1>4. /\ t = [x \in Fields |-> t[x]] /\ \A x \in Fields \ {"job", "next", "pump"} : t[x] = p[x]
        /\ t.job = [j \in DOMAIN p.job \cup {p.next} |-> IF j = p.next THEN b ELSE p.job[j]]
        /\ t.next = p.next + 1 /\ t.pump = TRUE
    BY <1>1, <1>3, Zenon DEF Enqueue, Fields
  <1>5. /\ t.active = p.active /\ t.team = p.team /\ t.stopped = p.stopped /\ t.members = p.members
        /\ t.keys = p.keys /\ t.work = p.work /\ t.changed = p.changed /\ t.closed = p.closed
    BY <1>4, ZenonT(30), SMTT(30) DEF Fields
  <1>6. /\ p.next \notin DOMAIN p.job /\ p.next \in Nat /\ t.next \in Runs
        /\ DOMAIN t.job = DOMAIN p.job \cup {p.next} /\ DOMAIN t.job \subseteq 1 .. t.next - 1
        /\ t.job = [j \in DOMAIN t.job |-> t.job[j]]
        /\ t.job[p.next] = b /\ \A j \in DOMAIN p.job : t.job[j] = p.job[j]
        /\ \A j \in DOMAIN t.job : t.job[j] \in Job
        /\ Silent(p, t) /\ Busy(t) = Busy(p) /\ Unfinished(t) = Unfinished(p) \cup {p.next}
        /\ Cardinality(DOMAIN t.job) = Cardinality(DOMAIN p.job) + 1
        /\ Cardinality(Unfinished(t)) = Cardinality(Unfinished(p)) + 1
    <2>1. Added(p, b, t)
      BY <1>1, <1>2, <1>4, AddJob, Zenon
    <2> QED
      BY <2>1, Zenon DEF Added
  <1>7. Typed(t)
    <2>1. t.pump \in BOOLEAN
      BY <1>4, ZenonT(30), SMTT(30)
    <2> QED
      BY <1>1, <1>4, <1>5, <1>6, <2>1, Zenon DEF Typed
  <1>8. Board(t)
    <2>1. ASSUME NEW k \in DOMAIN t.work PROVE TaskSound(t, k)
      <3>1. TaskSound(p, k) /\ k \in DOMAIN p.work /\ t.work[k] = p.work[k]
        BY <1>1, <1>5, <2>1, Zenon DEF Board
      <3>2. p.work[k].run # p.next /\ (p.work[k].run # None => p.work[k].run < t.next)
        <4>1. p.work[k].run \in Runs \cup {None}
          BY <1>1, <3>1, TypedWork, ZenonT(30), SMTT(30)
        <4> QED
          <5>1. p.work[k].run # None => p.work[k].run < p.next
            BY <3>1, Zenon DEF TaskSound
          <5>2. p.next \in Nat /\ t.next = p.next + 1 /\ None \notin Nat
            BY <1>4, <1>6, LimitsValid, Zenon
          <5> QED
            BY <4>1, <5>1, <5>2 DEF Runs
      <3>3. p.work[k].run \in DOMAIN t.job =>
              p.work[k].run \in DOMAIN p.job /\ t.job[p.work[k].run] = p.job[p.work[k].run]
        BY <1>6, <3>2, ZenonT(30), SMTT(30)
      <3>4. p.work[k].run \in DOMAIN p.job =>
              p.work[k].run \in DOMAIN t.job /\ t.job[p.work[k].run] = p.job[p.work[k].run]
        BY <1>6, Zenon
      <3> QED
        BY <1>5, <3>1, <3>2, <3>3, <3>4, ZenonT(30) DEF TaskSound
    <2>2. ASSUME NEW j \in Unfinished(t) PROVE JobSound(t, j)
      <3>1. CASE j = p.next
        BY <1>2, <1>6, <3>1, ZenonT(30), SMTT(30) DEF JobSound
      <3>2. CASE j # p.next
        <4>1. j \in Unfinished(p) /\ j \in DOMAIN p.job
          BY <1>6, <2>2, <3>2, Zenon DEF Unfinished
        <4>2. JobSound(p, j) /\ t.job[j] = p.job[j]
          BY <1>1, <1>6, <4>1, ZenonT(30), SMTT(30) DEF Board
        <4> QED
          BY <1>5, <4>2, ZenonT(30), SMTT(30) DEF JobSound
      <3> QED
        BY <3>1, <3>2, ZenonT(30), SMTT(30)
    <2> QED
      BY <1>1, <1>5, <2>1, <2>2 DEF Board
  <1>9. Room(t)
    <2>1. Waiting(t) = Waiting(p)
      BY <1>5, Zenon DEF Waiting
    <2>2. /\ Cardinality(DOMAIN p.job) \in Nat /\ Cardinality(Waiting(p)) \in Nat
          /\ Cardinality(Unfinished(p)) \in Nat
      BY <1>1, FiniteParts, FS_CardinalityType, Zenon
    <2>3. /\ Cardinality(DOMAIN p.job) + Cardinality(Waiting(p)) < MaxRecords
          /\ Cardinality(Unfinished(p)) < MaxRunning + MaxQueued
      BY Zenon DEF HasCapacity, HasRecordCapacity
    <2> QED
      BY <1>6, <2>1, <2>2, <2>3, LimitsValid DEF Room
  <1>10. Slots(t)
    BY <1>1, <1>5, <1>6, ZenonT(30) DEF Slots
  <1>11. Acked(t)
    BY <1>1, <1>2, <1>5, <1>6, <1>7, AckedOn, SMTT(30), ZenonT(30) DEF Silent
  <1> QED
    BY <1>6, <1>7, <1>8, <1>9, <1>10, <1>11, Zenon DEF SvcInv, Core

\* A ready task becomes a job.
Admitted(s, t) ==
    /\ t.stopped = s.stopped /\ t.closed = s.closed /\ t.team = s.team /\ t.keys = s.keys
    /\ DOMAIN t.work = DOMAIN s.work
    /\ \A k \in DOMAIN s.work : s.work[k].state # "waiting" => t.work[k] = s.work[k]

Queued(p, k) ==
    [Enqueue(p, NewJob(k, p.team, p.work[k].attempt, p.work[k].turn))
       EXCEPT !.work[k].state = "queued", !.work[k].run = p.next]

LEMMA AdmitJob ==
  ASSUME NEW p, SvcInv(p), ~p.stopped, NEW k \in DOMAIN p.work, Ready(p, k), Idle(p, p.work[k].member),
         HasCapacity(p, TRUE), NEW t, t = Queued(p, k)
  PROVE  SvcInv(t) /\ Silent(p, t) /\ Admitted(p, t)
  <1> DEFINE b == NewJob(k, p.team, p.work[k].attempt, p.work[k].turn)
             w == [p.work[k] EXCEPT !.state = "queued", !.run = p.next]
             work == [p.work EXCEPT ![k] = w]
             e == Enqueue(p, b)
  <1>1. Typed(p) /\ Board(p) /\ Room(p) /\ Slots(p) /\ Acked(p) /\ p = [x \in Fields |-> p[x]]
    BY Zenon DEF SvcInv, Core, Typed
  <1>2. k \in Tasks /\ k # None /\ p.work[k].attempt \in 1 .. MaxAttempts /\ p.work[k].turn \in Turns
        /\ p.team \in 0 .. MaxTeams /\ p.next \in Runs /\ p.work[k] \in Work
    BY <1>1, TypedWork, Zenon DEF Typed
  <1>3. b \in Job /\ b.state = "queued" /\ b.task = k /\ b.team = p.team /\ b.attempt = p.work[k].attempt
        /\ ~b.claimed
    <2>1. 1 .. MaxAttempts \subseteq 0 .. MaxAttempts
      OBVIOUS
    <2> QED
      BY <1>2, <2>1, ZenonT(30), SMTT(30) DEF NewJob, Job, TaskState
  <1>4. /\ w \in Work /\ w.state = "queued" /\ w.run = p.next /\ w.member = p.work[k].member
        /\ w.depends_on = p.work[k].depends_on /\ w.attempt = p.work[k].attempt
    BY <1>2, Zenon DEF Work, TeamTaskState, TeamTaskActive
  <1> HIDE DEF b
  <1>5. /\ e = [x \in Fields |-> e[x]] /\ \A x \in Fields \ {"job", "next", "pump"} : e[x] = p[x]
        /\ e.job = [j \in DOMAIN p.job \cup {p.next} |-> IF j = p.next THEN b ELSE p.job[j]]
        /\ e.next = p.next + 1 /\ e.pump = TRUE
    BY <1>1, Zenon DEF Enqueue, Fields
  <1>6. t = [e EXCEPT !.work[k].state = "queued", !.work[k].run = p.next]
    BY Zenon DEF b, Queued
  <1> HIDE DEF e
  <1>7. e.work = p.work /\ p.work = [l \in DOMAIN p.work |-> p.work[l]]
    BY <1>1, <1>5, Zenon DEF Fields, Typed
  <1>8. /\ t = [x \in Fields |-> t[x]] /\ \A x \in Fields \ {"work"} : t[x] = e[x]
        /\ t.work = work
    <2> DEFINE v == [e.work[k] EXCEPT !.state = "queued"]
               f == [e EXCEPT !.work = [e.work EXCEPT ![k] = v]]
    <2>1. t = [f EXCEPT !.work[k].run = p.next]
      BY <1>6, Zenon
    <2>2. f = [x \in Fields |-> f[x]] /\ \A x \in Fields \ {"work"} : f[x] = e[x]
      BY <1>5, Zenon DEF Fields
    <2>3. f.work = [e.work EXCEPT ![k] = v]
      BY <1>5, Zenon DEF Fields
    <2> HIDE DEF f
    <2>4. t = [f EXCEPT !.work = [f.work EXCEPT ![k] = [f.work[k] EXCEPT !.run = p.next]]]
      BY <2>1, Zenon
    <2>5. /\ t = [x \in Fields |-> t[x]] /\ \A x \in Fields \ {"work"} : t[x] = f[x]
          /\ t.work = [f.work EXCEPT ![k] = [f.work[k] EXCEPT !.run = p.next]]
      BY <2>2, <2>4, Zenon DEF Fields
    <2>6. [f.work[k] EXCEPT !.run = p.next] = w
      BY <1>2, <1>7, <2>3, Zenon DEF Work
    <2>7. t.work = work
      BY <1>7, <2>3, <2>5, <2>6
    <2> QED
      BY <2>2, <2>5, <2>7, Zenon
  <1>9. work = [l \in DOMAIN p.work |-> IF l = k THEN w ELSE p.work[l]]
    BY <1>7, Zenon
  <1> HIDE DEF w, work
  <1>10. /\ t.active = p.active /\ t.team = p.team /\ t.stopped = p.stopped /\ t.members = p.members
         /\ t.keys = p.keys /\ t.changed = p.changed /\ t.closed = p.closed
         /\ t.job = e.job /\ t.next = p.next + 1 /\ t.pump = TRUE
    BY <1>5, <1>8 DEF Fields
  <1>11. /\ DOMAIN t.work = DOMAIN p.work /\ t.work[k] = w
         /\ \A l \in DOMAIN p.work : l # k => t.work[l] = p.work[l]
         /\ t.work = [l \in DOMAIN t.work |-> t.work[l]]
    BY <1>8, <1>9, ZenonT(30), SMTT(30)
  <1>12. /\ p.next \notin DOMAIN p.job /\ p.next \in Nat /\ t.next \in Runs
         /\ DOMAIN t.job = DOMAIN p.job \cup {p.next} /\ DOMAIN t.job \subseteq 1 .. t.next - 1
         /\ t.job = [j \in DOMAIN t.job |-> t.job[j]]
         /\ t.job[p.next] = b /\ \A j \in DOMAIN p.job : t.job[j] = p.job[j]
         /\ \A j \in DOMAIN t.job : t.job[j] \in Job
         /\ Silent(p, t) /\ Busy(t) = Busy(p) /\ Unfinished(t) = Unfinished(p) \cup {p.next}
         /\ Cardinality(DOMAIN t.job) = Cardinality(DOMAIN p.job) + 1
         /\ Cardinality(Unfinished(t)) = Cardinality(Unfinished(p)) + 1
    <2>1. t.job = [j \in DOMAIN p.job \cup {p.next} |-> IF j = p.next THEN b ELSE p.job[j]]
      BY <1>5, <1>10, Zenon
    <2>2. Added(p, b, t)
      BY <1>1, <1>3, <1>10, <2>1, AddJob, ZenonT(30), SMTT(30)
    <2> QED
      BY <2>2, Zenon DEF Added
  <1>13. p.work[k].state = "waiting" /\ \A d \in p.work[k].depends_on : p.work[d].state = "accepted"
    BY Zenon DEF Ready
  <1>14. Typed(t)
    <2>1. \A l \in DOMAIN t.work : t.work[l] \in Work
      BY <1>1, <1>4, <1>11, ZenonT(30), SMTT(30) DEF Typed
    <2>2. t.pump \in BOOLEAN
      BY <1>10, Zenon
    <2> QED
      BY <1>1, <1>8, <1>10, <1>11, <1>12, <2>1, <2>2, ZenonT(30), SMTT(30) DEF Typed
  <1>15. ASSUME NEW l \in DOMAIN t.work PROVE TaskSound(t, l)
    <2>1. TaskSound(p, l) /\ l \in DOMAIN p.work
      BY <1>1, <1>11, <1>15, Zenon DEF Board
    <2>2. \A d \in DOMAIN p.work : p.work[d].state = "accepted" => t.work[d].state = "accepted"
      BY <1>11, <1>13, ZenonT(30), SMTT(30)
    <2>3. CASE l = k
      <3>1. TaskSound(p, k) /\ t.work[k] = w
        BY <1>11, <2>1, <2>3, Zenon
      <3>2. w.member \in t.members /\ w.depends_on \subseteq DOMAIN t.work
        <4>1. p.work[k].member \in p.members /\ p.work[k].depends_on \subseteq DOMAIN p.work
          BY <3>1, Zenon DEF TaskSound
        <4> QED
          BY <1>4, <1>10, <1>11, <4>1, Zenon
      <3>3. w.run < t.next /\ w.run \in DOMAIN t.job /\ t.job[w.run] = b
        <4>1. w.run = p.next /\ t.next = p.next + 1 /\ p.next \in Nat
          BY <1>4, <1>10, <1>12, Zenon
        <4>2. p.next \in DOMAIN t.job /\ t.job[p.next] = b
          BY <1>12, Zenon
        <4>3. w.run < t.next
          BY <4>1
        <4> QED
          BY <4>1, <4>2, <4>3, Zenon
      <3>4. \A d \in w.depends_on : t.work[d].state = "accepted"
        BY <1>4, <1>13, <2>2, <3>1, ZenonT(30), SMTT(30) DEF TaskSound
      <3> QED
        BY <1>3, <1>4, <1>10, <2>3, <3>1, <3>2, <3>3, <3>4, ZenonT(30), SMTT(30) DEF TaskSound, TeamTaskActive
    <2>4. CASE l # k
      <3>1. t.work[l] = p.work[l]
        BY <1>11, <2>1, <2>4, ZenonT(30), SMTT(30)
      <3>2. p.work[l].run # p.next /\ (p.work[l].run # None => p.work[l].run < t.next)
        <4>1. p.work[l].run \in Runs \cup {None}
          BY <1>1, <2>1, TypedWork, Zenon
        <4> QED
          <5>1. p.work[l].run # None => p.work[l].run < p.next
            BY <2>1, Zenon DEF TaskSound
          <5>2. p.next \in Nat /\ t.next = p.next + 1 /\ None \notin Nat
            BY <1>10, <1>12, LimitsValid, Zenon
          <5> QED
            BY <4>1, <5>1, <5>2 DEF Runs
      <3>3. p.work[l].run \in DOMAIN t.job =>
              p.work[l].run \in DOMAIN p.job /\ t.job[p.work[l].run] = p.job[p.work[l].run]
        BY <1>12, <3>2, Zenon
      <3>4. p.work[l].run \in DOMAIN p.job =>
              p.work[l].run \in DOMAIN t.job /\ t.job[p.work[l].run] = p.job[p.work[l].run]
        BY <1>12, Zenon
      <3> QED
        <4>1. t.members = p.members /\ t.team = p.team /\ DOMAIN t.work = DOMAIN p.work
          BY <1>10, <1>11, Zenon
        <4> QED
          BY <2>1, <2>2, <3>1, <3>2, <3>3, <3>4, <4>1, ZenonT(30), SMTT(30) DEF TaskSound
    <2> QED
      BY <2>3, <2>4, Zenon
  <1>16. ASSUME NEW j \in Unfinished(t) PROVE JobSound(t, j)
    <2>1. CASE j = p.next
      BY <1>3, <1>4, <1>10, <1>11, <1>12, <2>1, ZenonT(30), SMTT(30) DEF JobSound, TeamTaskActive
    <2>2. CASE j # p.next
      <3>1. j \in Unfinished(p) /\ j \in DOMAIN p.job
        BY <1>12, <1>16, <2>2, Zenon DEF Unfinished
      <3>2. JobSound(p, j) /\ t.job[j] = p.job[j]
        BY <1>1, <1>12, <3>1, ZenonT(30), SMTT(30) DEF Board
      <3>3. p.job[j].task # None => p.job[j].task # k
        BY <1>13, <3>2, Zenon DEF JobSound, TeamTaskActive
      <3> QED
        BY <1>10, <1>11, <3>2, <3>3, ZenonT(30), SMTT(30) DEF JobSound
    <2> QED
      BY <2>1, <2>2, ZenonT(30), SMTT(30)
  <1>17. Board(t)
    <2>1. ASSUME NEW l \in DOMAIN p.work, l # k, p.work[l].state \in TeamTaskActive
          PROVE  p.work[l].member # p.work[k].member
      BY <2>1, Zenon DEF Idle, HasActiveWork
    <2>2. ASSUME NEW i \in DOMAIN t.work, NEW l \in DOMAIN t.work, i # l,
                 t.work[i].state \in TeamTaskActive, t.work[l].state \in TeamTaskActive
          PROVE  t.work[i].member # t.work[l].member
      <3>1. CASE i = k
        BY <1>4, <1>11, <2>1, <2>2, <3>1, ZenonT(30), SMTT(30)
      <3>2. CASE l = k
        BY <1>4, <1>11, <2>1, <2>2, <3>2, ZenonT(30), SMTT(30)
      <3>3. CASE i # k /\ l # k
        BY <1>1, <1>11, <2>2, <3>3, SMTT(30), ZenonT(30) DEF Board
      <3> QED
        BY <3>1, <3>2, <3>3, Zenon
    <2> QED
      BY <1>15, <1>16, <2>2, Zenon DEF Board
  <1>18. Room(t)
    <2>1. Waiting(t) = Waiting(p) \ {k} /\ k \in Waiting(p)
      BY <1>4, <1>11, <1>13 DEF Waiting
    <2>2. /\ Cardinality(DOMAIN p.job) \in Nat /\ Cardinality(Waiting(p)) \in Nat
          /\ Cardinality(Unfinished(p)) \in Nat /\ Cardinality(Waiting(t)) \in Nat
          /\ IsFiniteSet(Waiting(p))
      BY <1>1, <1>14, FiniteParts, FS_CardinalityType, Zenon
    <2>3. Cardinality(Waiting(t)) = Cardinality(Waiting(p)) - 1
      BY <2>1, <2>2, FS_RemoveElement, ZenonT(30), SMTT(30)
    <2>4. Cardinality(Waiting(p)) > 0
      BY <2>2, <2>3
    <2>5. /\ Cardinality(DOMAIN p.job) + (Cardinality(Waiting(p)) - 1) < MaxRecords
          /\ Cardinality(Unfinished(p)) < MaxRunning + MaxQueued
      BY <2>4, Zenon DEF HasCapacity, HasRecordCapacity
    <2> QED
      <3>1. /\ Cardinality(DOMAIN t.job) = Cardinality(DOMAIN p.job) + 1
            /\ Cardinality(Unfinished(t)) = Cardinality(Unfinished(p)) + 1
        BY <1>12, Zenon
      <3>2. MaxRunning \in Nat /\ MaxQueued \in Nat /\ MaxRecords \in Nat
        BY LimitsValid, Zenon
      <3>3. Cardinality(DOMAIN t.job) + Cardinality(Waiting(t)) <= MaxRecords
        BY <2>2, <2>3, <2>5, <3>1, <3>2
      <3>4. Cardinality(Unfinished(t)) <= MaxRunning + MaxQueued
        BY <2>2, <2>5, <3>1, <3>2, SMTT(30)
      <3> QED
        BY <3>3, <3>4, Zenon DEF Room
  <1>19. Slots(t)
    BY <1>1, <1>10, <1>12, ZenonT(30) DEF Slots
  <1>20. Acked(t)
    BY <1>1, <1>3, <1>10, <1>12, <1>14, AckedOn, SMTT(30), ZenonT(30) DEF Silent
  <1>21. Admitted(p, t)
    BY <1>10, <1>11, <1>13, Zenon DEF Admitted
  <1> QED
    BY <1>12, <1>14, <1>17, <1>18, <1>19, <1>20, <1>21, Zenon DEF SvcInv, Core

-----------------------------------------------------------------------------
\* The tasks of a team are looked at in turn.

LEMMA AdmittedSelf ==
  ASSUME NEW s, Typed(s)
  PROVE  Silent(s, s) /\ Admitted(s, s)
  BY SameJobs, Zenon DEF Admitted

LEMMA AdmitSound ==
  ASSUME NEW s, SvcInv(s), ~s.stopped, NEW k \in DOMAIN s.work, NEW t, t = AdmitTask(s, k)
  PROVE  SvcInv(t) /\ Silent(s, t) /\ Admitted(s, t)
  <1> DEFINE p == Prune(s)
  <1>1. Typed(s) /\ s = [x \in Fields |-> s[x]]
    BY Zenon DEF SvcInv, Core, Typed
  <1>2. SvcInv(p) /\ Silent(s, p)
    BY PruneSound, Zenon
  <1>3. \A x \in Fields \ {"job"} : p[x] = s[x]
    BY <1>1, PruneFacts, Zenon
  <1>4. t = IF ~(Ready(s, k) /\ Idle(s, s.work[k].member)) THEN s
            ELSE IF ~HasCapacity(p, TRUE) THEN p
            ELSE [Enqueue(p, NewJob(k, p.team, s.work[k].attempt, s.work[k].turn))
                    EXCEPT !.work[k].state = "queued", !.work[k].run = p.next]
    BY Zenon DEF AdmitTask
  <1> HIDE DEF p
  <1>5. /\ p.work = s.work /\ p.stopped = s.stopped /\ p.closed = s.closed /\ p.team = s.team
        /\ p.keys = s.keys
    BY <1>3, Zenon DEF Fields
  <1>6. Admitted(s, p)
    BY <1>5, Zenon DEF Admitted
  <1>7. t = IF ~(Ready(s, k) /\ Idle(s, s.work[k].member)) THEN s
            ELSE IF ~HasCapacity(p, TRUE) THEN p ELSE Queued(p, k)
    BY <1>4, <1>5, Zenon DEF Queued
  <1>8. CASE ~(Ready(s, k) /\ Idle(s, s.work[k].member))
    BY <1>1, <1>7, <1>8, AdmittedSelf, Zenon
  <1>9. CASE Ready(s, k) /\ Idle(s, s.work[k].member) /\ ~HasCapacity(p, TRUE)
    BY <1>2, <1>6, <1>7, <1>9, Zenon
  <1>10. CASE Ready(s, k) /\ Idle(s, s.work[k].member) /\ HasCapacity(p, TRUE)
    <2>1. t = Queued(p, k) /\ ~p.stopped /\ k \in DOMAIN p.work
      BY <1>5, <1>7, <1>10, Zenon
    <2>2. Ready(p, k) /\ Idle(p, p.work[k].member)
      BY <1>5, <1>10, Zenon DEF Ready, Idle, HasActiveWork
    <2>3. SvcInv(t) /\ Silent(p, t) /\ Admitted(p, t)
      BY <1>2, <1>10, <2>1, <2>2, AdmitJob, Zenon
    <2>4. Silent(s, t)
      BY <1>1, <1>2, <2>3, SilentOn, Zenon DEF SvcInv, Core
    <2>5. Admitted(s, t)
      BY <1>5, <2>3, Zenon DEF Admitted
    <2> QED
      BY <2>3, <2>4, <2>5, Zenon
  <1> QED
    BY <1>8, <1>9, <1>10, Zenon

LEMMA TypedKeys ==
  ASSUME NEW s, Typed(s)
  PROVE  Len(s.keys) \in Nat /\ DOMAIN s.keys = 1 .. Len(s.keys) /\ DOMAIN s.work = Range(s.keys)
  <1>1. s.keys \in Seq(Tasks) /\ DOMAIN s.work = Range(s.keys)
    BY Zenon DEF Typed
  <1> QED
    BY <1>1

\* g has the service after each number of tasks, up to m.
Passes(s, g, m) == g = [n \in 0 .. m |-> IF n = 0 THEN s ELSE AdmitTask(g[n - 1], s.keys[n])]

LEMMA PassesExist ==
  ASSUME NEW s, NEW N \in Nat
  PROVE  \E g : Passes(s, g, N)
  <1> DEFINE T == {m \in 0 .. N : ~\E g : Passes(s, g, m)}
  <1> SUFFICES ASSUME T # {} PROVE FALSE
    <2>1. N \in 0 .. N
      OBVIOUS
    <2> QED
      BY <2>1, Zenon
  <1>1. PICK m \in T : \A l \in T : m <= l
    <2>1. T \in SUBSET Nat
      OBVIOUS
    <2> HIDE DEF T
    <2> QED
      BY <2>1, LeastNat, Zenon
  <1>2. m \in 0 .. N /\ ~\E g : Passes(s, g, m)
    BY Zenon
  <1>3. m # 0
    <2> DEFINE g == [n \in 0 .. 0 |-> s]
    <2>1. g = [n \in 0 .. 0 |-> IF n = 0 THEN s ELSE AdmitTask(g[n - 1], s.keys[n])]
      OBVIOUS
    <2> HIDE DEF g
    <2>2. Passes(s, g, 0)
      BY <2>1, Zenon DEF Passes
    <2> QED
      BY <1>2, <2>2, Zenon
  <1>4. \E g : Passes(s, g, m - 1)
    <2>1. m - 1 \in 0 .. N /\ ~(m <= m - 1)
      BY <1>2, <1>3
    <2>2. m - 1 \notin T
      BY <1>1, <2>1, Zenon
    <2> QED
      BY <2>1, <2>2, Zenon
  <1>5. PICK g : Passes(s, g, m - 1)
    BY <1>4, Zenon
  <1> DEFINE h == [n \in 0 .. m |-> IF n = m THEN AdmitTask(g[m - 1], s.keys[m]) ELSE g[n]]
  <1>6. ASSUME NEW n \in 0 .. m PROVE h[n] = IF n = 0 THEN s ELSE AdmitTask(h[n - 1], s.keys[n])
    BY <1>2, <1>3, <1>5 DEF Passes
  <1>7. h = [n \in 0 .. m |-> h[n]]
    BY Zenon
  <1> HIDE DEF h
  <1>8. Passes(s, h, m)
    BY <1>6, <1>7, Zenon DEF Passes
  <1> QED
    BY <1>2, <1>8, Zenon

LEMMA PassSound ==
  ASSUME NEW s, SvcInv(s), ~s.stopped, NEW g, Passes(s, g, Len(s.keys)), NEW m \in 0 .. Len(s.keys)
  PROVE  SvcInv(g[m]) /\ Silent(s, g[m]) /\ Admitted(s, g[m])
  <1> DEFINE Sound(n) == SvcInv(g[n]) /\ Silent(s, g[n]) /\ Admitted(s, g[n])
             T == {n \in 0 .. Len(s.keys) : ~Sound(n)}
  <1>1. Typed(s) /\ Len(s.keys) \in Nat /\ DOMAIN s.keys = 1 .. Len(s.keys) /\ DOMAIN s.work = Range(s.keys)
    BY TypedKeys, Zenon DEF SvcInv, Core
  <1>2. /\ g[0] = s
        /\ \A n \in 1 .. Len(s.keys) : g[n] = AdmitTask(g[n - 1], s.keys[n])
    BY <1>1, SMTT(30), ZenonT(30) DEF Passes
  <1> SUFFICES ASSUME T # {} PROVE FALSE
    BY Zenon
  <1>3. PICK n \in T : \A l \in T : n <= l
    <2>1. T \in SUBSET Nat
      BY <1>1
    <2> HIDE DEF T
    <2> QED
      BY <2>1, LeastNat, Zenon
  <1>4. n \in 0 .. Len(s.keys) /\ ~Sound(n)
    BY Zenon
  <1>5. n # 0
    BY <1>1, <1>2, <1>4, AdmittedSelf, Zenon
  <1>6. Sound(n - 1)
    <2>1. n - 1 \in 0 .. Len(s.keys) /\ ~(n <= n - 1)
      BY <1>1, <1>4, <1>5
    <2> HIDE DEF Sound
    <2> QED
      BY <1>3, <2>1, Zenon
  <1> DEFINE a == g[n - 1]
             t == g[n]
             k == s.keys[n]
  <1>7. t = AdmitTask(a, k) /\ k \in DOMAIN s.work
    <2>1. n \in 1 .. Len(s.keys)
      BY <1>1, <1>4, <1>5
    <2> QED
      BY <1>1, <1>2, <2>1, ZenonT(30), SMTT(30) DEF Range
  <1>8. SvcInv(a) /\ Silent(s, a) /\ Admitted(s, a) /\ ~(SvcInv(t) /\ Silent(s, t) /\ Admitted(s, t))
    BY <1>4, <1>6, Zenon
  <1> HIDE DEF a, t, k, T
  <1>9. SvcInv(t) /\ Silent(a, t) /\ Admitted(a, t)
    BY <1>7, <1>8, AdmitSound, SMTT(30), ZenonT(30) DEF Admitted
  <1>10. Silent(s, t)
    BY <1>1, <1>8, <1>9, SilentOn, ZenonT(30), SMTT(30) DEF SvcInv, Core
  <1>11. Admitted(s, t)
    BY <1>8, <1>9, Zenon DEF Admitted
  <1> QED
    BY <1>8, <1>9, <1>10, <1>11, Zenon

LEMMA PumpTeamsSound ==
  ASSUME NEW s, SvcInv(s), NEW t, t = PumpTeams(s)
  PROVE  SvcInv(t) /\ Silent(s, t) /\ Admitted(s, t)
  <1> DEFINE N == Len(s.keys)
             g == CHOOSE f : f = [n \in 0 .. N |-> IF n = 0 THEN s ELSE AdmitTask(f[n - 1], s.keys[n])]
  <1>1. Typed(s) /\ N \in Nat
    BY TypedKeys, Zenon DEF SvcInv, Core
  <1>2. t = IF s.stopped THEN s ELSE g[N]
    BY Zenon DEF PumpTeams
  <1>3. Passes(s, g, N)
    BY <1>1, PassesExist, Zenon DEF Passes
  <1>4. CASE s.stopped
    BY <1>1, <1>2, <1>4, AdmittedSelf, Zenon
  <1>5. CASE ~s.stopped
    <2>1. N \in 0 .. Len(s.keys) /\ Passes(s, g, Len(s.keys)) /\ t = g[N]
      BY <1>1, <1>2, <1>3, <1>5
    <2> HIDE DEF g, N
    <2> QED
      BY <1>5, <2>1, PassSound, Zenon
  <1> QED
    BY <1>4, <1>5, Zenon

\* pump.
LEMMA PumpSound ==
  ASSUME NEW s, SvcInv(s), NEW t, t = Pump(s)
  PROVE  /\ SvcInv(t) /\ Silent(s, t)
         /\ \A k \in DOMAIN s.work : s.work[k].state = "cancelled" =>
              k \in DOMAIN t.work /\ t.work[k].state = "cancelled"
         /\ s.stopped => DOMAIN t.job = DOMAIN s.job
  <1> DEFINE a == PumpTeams(s)
  <1>1. Typed(s)
    BY Zenon DEF SvcInv, Core
  <1>2. CASE s.closed
    BY <1>1, <1>2, AdmittedSelf, Zenon DEF Pump
  <1>3. CASE ~s.closed
    <2>1. SvcInv(a) /\ Silent(s, a) /\ Admitted(s, a)
      BY PumpTeamsSound, Zenon
    <2>2. t = StartJobs(a) /\ (s.stopped => a = s)
      BY <1>3, Zenon DEF Pump, PumpTeams
    <2> HIDE DEF a
    <2>3. /\ SvcInv(t) /\ Silent(a, t) /\ DOMAIN t.work = DOMAIN a.work /\ DOMAIN t.job = DOMAIN a.job
          /\ \A k \in DOMAIN a.work : a.work[k].state \notin TeamTaskActive => t.work[k] = a.work[k]
      BY <2>1, <2>2, StartSound
    <2>4. Silent(s, t)
      BY <1>1, <2>1, <2>3, SilentOn, Zenon DEF SvcInv, Core
    <2> QED
      BY <2>1, <2>2, <2>3, <2>4, Zenon DEF Admitted, TeamTaskActive
  <1> QED
    BY <1>2, <1>3, Zenon
=============================================================================
