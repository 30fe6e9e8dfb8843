--------------------------- MODULE BackgroundTasks ---------------------------
(***************************************************************************)
(* Background jobs and the agent team that shares their limits             *)
(* (src/src/oran-bootstrap/background_tasks.cpp, agent-team.cpp,           *)
(* team-scheduling.cpp).  Everything runs on one executor, so a handler is *)
(* atomic up to its suspension; what interleaves are the leader's calls,   *)
(* posted pumps, deadlines, the ends of children, and the monitors that    *)
(* retire their jobs.  The service is one record, the Impl of the source,  *)
(* and a handler maps it to the next one.  One owner and its current team  *)
(* are modelled; `start` stands for the jobs of any owner.  Jobs are       *)
(* numbered as they are recorded, so that the order of the vector `jobs`   *)
(* is the order of their numbers.                                          *)
(***************************************************************************)
EXTENDS Naturals, Sequences, FiniteSets, Functions

CONSTANTS
    Tasks,          \* keys of team tasks
    Members,        \* specialists of the team
    Turns,          \* leader turns that assign work
    MaxRunning, MaxQueued, MaxRecords,   \* BackgroundTaskOptions
    AutomaticDelivery,   \* the host runs a turn for each completion; the code's default is FALSE
    MaxAttempts,    \* executions of one task; the code has 3
    MaxStarts,      \* bound: ordinary jobs
    MaxTeams,       \* bound: teams the owner creates
    MaxClaims,      \* bound: completions claimed for leader turns
    MaxAged,        \* bound: records whose retention passes
    None

ASSUME LimitsValid ==
    /\ {MaxRunning, MaxQueued, MaxRecords, MaxAttempts, MaxStarts, MaxTeams,
     MaxClaims, MaxAged} \subseteq Nat
    /\ AutomaticDelivery \in BOOLEAN
    /\ 0 < MaxRunning /\ MaxRunning <= MaxRecords /\ 0 < MaxAttempts
    /\ IsFiniteSet(Tasks) /\ None \notin Tasks \cup Turns /\ None \notin Nat

VARIABLES
    svc,            \* BackgroundTasks::Impl
    ended,          \* how children ended whose monitors have not resumed yet
    shutdown,       \* where shutdown() is
    used,           \* how much of the bounds has been used
    delivered       \* history: the jobs whose completions were delivered, in order

vars == <<svc, ended, shutdown, used, delivered>>

Runs == Nat \ {0}

TaskTerminal == {"succeeded", "failed", "cancelled"}
TaskState == {"queued", "running", "cancelling"} \cup TaskTerminal
TeamTaskActive == {"queued", "running", "cancelling"}
TeamTaskState == {"waiting", "in_review", "accepted", "failed", "cancelled"} \cup TeamTaskActive

Job == [task : Tasks \cup {None}, team : 0 .. MaxTeams, attempt : 0 .. MaxAttempts,
        turn : Turns \cup {None}, state : TaskState, timed_out : BOOLEAN,
        acknowledged : BOOLEAN, claimed : BOOLEAN, aged : BOOLEAN]

Work == [member : Members, depends_on : SUBSET Tasks, attempt : 1 .. MaxAttempts,
         state : TeamTaskState, run : Runs \cup {None}, turn : Turns]

\* The service as it is created; u is how much of the bounds is taken already.
Created(u) ==
    /\ svc = [job |-> << >>, next |-> 1, active |-> 0,
              team |-> 0, stopped |-> TRUE, members |-> {}, keys |-> << >>, work |-> << >>,
              pump |-> FALSE, changed |-> FALSE, closed |-> FALSE]
    /\ ended = << >>
    /\ shutdown = "no"
    /\ used = u
    /\ delivered = << >>

Init == Created([starts |-> 0, claims |-> 0, aged |-> 0])

-----------------------------------------------------------------------------
\* Capacity.  `job` and `work` are functions on the numbers of the recorded jobs
\* and the keys of the tasks; `keys` has the tasks as they were submitted.

Unfinished(s) == {j \in DOMAIN s.job : s.job[j].state \notin TaskTerminal}
Waiting(s) == {k \in DOMAIN s.work : s.work[k].state = "waiting"}

\* The host still owes the leader this completion; one that only answers queries
\* owes nothing.
Unread(b) == AutomaticDelivery /\ ~b.acknowledged

\* Mutant of Prunable: every host's completions expire as a query-only host's do.
PrunableUnread(b) == b.state \in TaskTerminal /\ ~b.claimed /\ b.aged

\* A finished record past its retention, with no delivery owed or under way.
Prunable(b) == b.state \in TaskTerminal /\ ~b.claimed /\ ~Unread(b) /\ b.aged

Prune(s) ==
    [s EXCEPT !.job = [j \in {i \in DOMAIN @ : ~Prunable(@[i])} |-> @[j]]]

\* Every waiting task has a record reserved; its own one does not count against
\* it.
HasRecordCapacity(s, reserved) ==
    LET waiting == Cardinality(Waiting(s))
        others == IF reserved /\ waiting > 0 THEN waiting - 1 ELSE waiting
    IN  ~s.closed /\ Cardinality(DOMAIN s.job) + others < MaxRecords

HasCapacity(s, reserved) ==
    /\ HasRecordCapacity(s, reserved)
    /\ Cardinality(Unfinished(s)) < MaxRunning + MaxQueued

\* enqueue: the job is recorded, its deadline set and a pump posted.  Pumps that
\* wait together are one.
Enqueue(s, b) ==
    [s EXCEPT !.job = [j \in DOMAIN @ \cup {s.next} |-> IF j = s.next THEN b ELSE @[j]],
              !.next = @ + 1,
              !.pump = TRUE]

NewJob(task, team, attempt, turn) ==
    [task |-> task, team |-> team, attempt |-> attempt, turn |-> turn,
     state |-> "queued", timed_out |-> FALSE, acknowledged |-> FALSE,
     claimed |-> FALSE, aged |-> FALSE]

-----------------------------------------------------------------------------
\* The board follows the job that is the current run of a task.

IsCurrentRun(s, j) ==
    LET b == s.job[j]
    IN  /\ b.team = s.team
        /\ b.task \in DOMAIN s.work
        /\ s.work[b.task].run = j
        /\ s.work[b.task].attempt = b.attempt

BoardState(state) == IF state = "succeeded" THEN "in_review" ELSE state

\* The jobs change to the states that `to` gives them, and update_team_job writes
\* each change to the board.
Move(s, to) ==
    [s EXCEPT !.job = [j \in DOMAIN @ |->
                         IF j \in DOMAIN to THEN [@[j] EXCEPT !.state = to[j]] ELSE @[j]],
              !.work = [k \in DOMAIN @ |->
                         IF @[k].run \in DOMAIN to /\ IsCurrentRun(s, @[k].run)
                         THEN [@[k] EXCEPT !.state = BoardState(to[s.work[k].run])]
                         ELSE @[k]]]

\* cancel_job, for the jobs in J.  A deadline leaves the completion to be
\* delivered; the owner's own cancellation acknowledges it.  A queued job ends at
\* once, a running one when its child has been joined.
CancelJobs(s, J, by) ==
    LET hit == {j \in J : s.job[j].state \in {"queued", "running"}}
        state(j) == IF s.job[j].state = "running" THEN "cancelling"
                    ELSE IF by = "deadline" THEN "failed" ELSE "cancelled"
        m == Move(s, [j \in hit |-> state(j)])
    IN  [m EXCEPT !.job = [j \in DOMAIN s.job |->
                             [m.job[j] EXCEPT !.acknowledged = @ \/ (j \in J /\ by = "owner"),
                                              !.timed_out = @ \/ (j \in hit /\ by = "deadline")]],
                  !.changed = @ \/ hit # {}]

TeamRuns(s) == {j \in DOMAIN s.job : s.job[j].team = s.team /\ s.job[j].task # None}

Abandon(w) ==
    IF w.state \in TeamTaskActive \cup {"accepted"} THEN w ELSE [w EXCEPT !.state = "cancelled"]

\* stop_team: every run of this team is cancelled, then every task that is
\* neither in flight nor accepted.
StopTeam(s) ==
    LET c == CancelJobs([s EXCEPT !.stopped = TRUE], TeamRuns(s), "owner")
    IN  [c EXCEPT !.work = [k \in DOMAIN @ |-> Abandon(@[k])]]

-----------------------------------------------------------------------------
\* pump: team tasks that are ready become jobs, queued jobs start.

\* Mutant of Ready: a reported task unlocks its dependents before its review.
ReadyOnReport(s, k) ==
    /\ s.work[k].state = "waiting"
    /\ \A d \in s.work[k].depends_on : s.work[d].state \in {"accepted", "in_review"}

Ready(s, k) ==
    /\ s.work[k].state = "waiting"
    /\ \A d \in s.work[k].depends_on : s.work[d].state = "accepted"

HasActiveWork(s, m) == \E k \in DOMAIN s.work :
    s.work[k].member = m /\ s.work[k].state \in TeamTaskActive

Idle(s, m) == ~HasActiveWork(s, m)

AdmitTask(s, k) ==
    LET w == s.work[k]
        p == Prune(s)
    IN  IF ~(Ready(s, k) /\ Idle(s, w.member)) THEN s
        ELSE IF ~HasCapacity(p, TRUE) THEN p
        ELSE [Enqueue(p, NewJob(k, p.team, w.attempt, w.turn))
                EXCEPT !.work[k].state = "queued", !.work[k].run = p.next]

\* The service after the first n tasks were looked at.
PumpTeams(s) ==
    LET admit[n \in 0 .. Len(s.keys)] ==
          IF n = 0 THEN s ELSE AdmitTask(admit[n - 1], s.keys[n])
    IN  IF s.stopped THEN s ELSE admit[Len(s.keys)]

\* The first n of the jobs in J.
First(J, n) == {j \in J : Cardinality({i \in J : i < j}) < n}

\* Queued jobs start in order while a slot is free.
StartJobs(s) ==
    LET queued == {j \in DOMAIN s.job : s.job[j].state = "queued"}
        started == IF s.active >= MaxRunning THEN {} ELSE First(queued, MaxRunning - s.active)
    IN  [Move(s, [j \in started |-> "running"]) EXCEPT !.active = @ + Cardinality(started)]

Pump(s) == IF s.closed THEN s ELSE StartJobs(PumpTeams(s))

-----------------------------------------------------------------------------
\* Calls of the leader.  A refused call changes nothing but what prune removed.

Keep == UNCHANGED <<ended, shutdown, used, delivered>>

\* get, list, and the calls that fail after looking a job up.
PruneOnly ==
    /\ svc' = Prune(svc)
    /\ Keep

\* start: an ordinary job.
Start(turn) ==
    LET p == Prune(svc)
    IN  /\ used.starts < MaxStarts
        /\ HasCapacity(p, FALSE)
        /\ svc' = Enqueue(p, NewJob(None, 0, 0, turn))
        /\ used' = [used EXCEPT !.starts = @ + 1]
        /\ UNCHANGED <<ended, shutdown, delivered>>

\* cancel of one job.  No pump follows.
Cancel(j) ==
    LET p == Prune(svc)
    IN  /\ j \in DOMAIN p.job
        /\ svc' = CancelJobs(p, {j}, "owner")
        /\ Keep

\* cancel_owner for one turn: its waiting tasks and its jobs.  No pump follows.
CancelTurn(turn) ==
    LET w == [svc EXCEPT !.work = [k \in DOMAIN @ |->
                IF @[k].turn = turn /\ @[k].state = "waiting"
                THEN [@[k] EXCEPT !.state = "cancelled"] ELSE @[k]]]
    IN  /\ svc' = CancelJobs(w, {j \in DOMAIN svc.job : svc.job[j].turn = turn}, "owner")
        /\ Keep

\* cancel_owner without a turn.
CancelOwner ==
    /\ svc' = CancelJobs(IF svc.team = 0 THEN svc ELSE StopTeam(svc), DOMAIN svc.job, "owner")
    /\ Keep

\* A completion is claimed for a leader turn, and released when the turn has
\* committed or not.
ClaimCompletion(j) ==
    LET p == Prune(svc)
    IN  /\ j \in DOMAIN p.job
        /\ p.job[j].state \in TaskTerminal
        /\ ~p.job[j].acknowledged /\ ~p.job[j].claimed
        /\ svc' = [p EXCEPT !.job[j].claimed = TRUE]
        /\ used.claims < MaxClaims
        /\ used' = [used EXCEPT !.claims = @ + 1]
        /\ UNCHANGED <<ended, shutdown, delivered>>

FinishCompletion(j, committed) ==
    /\ j \in DOMAIN svc.job /\ svc.job[j].claimed
    /\ svc' = [Prune(svc) EXCEPT !.job[j].claimed = FALSE,
                                 !.job[j].acknowledged = @ \/ committed]
    /\ delivered' = IF committed THEN Append(delivered, j) ELSE delivered
    /\ UNCHANGED <<ended, shutdown, used>>

-----------------------------------------------------------------------------
\* Team commands.  One that succeeds ends with a pump.

\* create_team: the first one, or the replacement of a stopped team without work
\* in flight.
CreateTeam(roster) ==
    /\ ~svc.closed
    /\ svc.stopped /\ ~\E m \in svc.members : HasActiveWork(svc, m)
    /\ svc.team < MaxTeams
    /\ svc' = Pump([svc EXCEPT !.team = @ + 1, !.stopped = FALSE, !.members = roster,
                               !.keys = << >>, !.work = << >>])
    /\ Keep

AddTeamMember(m) ==
    /\ ~svc.closed /\ ~svc.stopped
    /\ m \notin svc.members
    /\ svc' = Pump([svc EXCEPT !.members = @ \cup {m}])
    /\ Keep

\* submit_team_task: a new key, an existing member, existing dependencies, and a
\* record to reserve.
SubmitTeamTask(k, m, deps, turn) ==
    LET p == Prune(svc)
        w == [member |-> m, depends_on |-> deps, attempt |-> 1,
              state |-> "waiting", run |-> None, turn |-> turn]
    IN  /\ ~svc.closed /\ ~svc.stopped
        /\ k \notin DOMAIN svc.work
        /\ m \in svc.members
        /\ HasRecordCapacity(p, FALSE)
        /\ svc' = Pump([p EXCEPT !.keys = Append(@, k),
                                 !.work = [x \in DOMAIN @ \cup {k} |-> IF x = k THEN w ELSE @[x]]])
        /\ Keep

\* update_team_task.  A request that names another team or attempt is refused.
AcceptTask(k) ==
    /\ ~svc.closed /\ ~svc.stopped
    /\ svc.work[k].state = "in_review"
    /\ svc' = Pump([svc EXCEPT !.work[k].state = "accepted"])
    /\ Keep

ReviseTask(k, turn) ==
    LET p == Prune(svc)
    IN  /\ ~svc.closed /\ ~svc.stopped
        /\ svc.work[k].state \in {"in_review", "failed"}
        /\ svc.work[k].attempt < MaxAttempts
        /\ HasRecordCapacity(p, FALSE)
        /\ svc' = Pump([p EXCEPT !.work[k].attempt = @ + 1, !.work[k].state = "waiting",
                                 !.work[k].run = None, !.work[k].turn = turn])
        /\ Keep

\* Mutant of CancelTask: a task in flight is marked cancelled before its child
\* has been joined.
CancelTaskAtOnce(k) ==
    LET p == Prune(svc)
        run == svc.work[k].run
        c == IF run \in DOMAIN p.job THEN CancelJobs(p, {run}, "owner") ELSE p
    IN  /\ ~svc.closed
        /\ svc.work[k].state # "accepted"
        /\ svc' = Pump([c EXCEPT !.work[k].state = "cancelled"])
        /\ Keep

\* The run is cancelled; a task that is not in flight after that is cancelled.
CancelTask(k) ==
    LET p == Prune(svc)
        run == svc.work[k].run
        c == IF run \in DOMAIN p.job THEN CancelJobs(p, {run}, "owner") ELSE p
    IN  /\ ~svc.closed
        /\ svc.work[k].state # "accepted"
        /\ svc' = Pump([c EXCEPT !.work[k].state = IF @ \in TeamTaskActive THEN @ ELSE "cancelled"])
        /\ Keep

TeamStop ==
    /\ svc.team # 0
    /\ svc' = Pump(StopTeam(svc))
    /\ Keep

-----------------------------------------------------------------------------
\* What the executor runs.

\* A pump posted by enqueue or by the end of a monitor.
PostedPump ==
    /\ svc.pump
    /\ svc' = Pump([svc EXCEPT !.pump = FALSE])
    /\ Keep

\* The deadline timer of a job that has not finished.
Deadline(j) ==
    /\ j \in Unfinished(svc)
    /\ svc' = Pump(CancelJobs(svc, {j}, "deadline"))
    /\ Keep

\* execute returns, or the child ends by its cancellation.
ChildEnds(j, how) ==
    /\ j \in Unfinished(svc)
    /\ svc.job[j].state \in {"running", "cancelling"}
    /\ j \notin DOMAIN ended
    /\ svc.job[j].state = "cancelling" => how = "cancelled"
    /\ ended' = [i \in DOMAIN ended \cup {j} |-> IF i = j THEN how ELSE ended[i]]
    /\ UNCHANGED <<svc, shutdown, used, delivered>>

Outcome(b, how) ==
    IF b.state = "cancelling"
    THEN IF b.timed_out THEN "failed" ELSE "cancelled"
    ELSE how

\* The monitor resumes from its join: it settles the job and the board, frees the
\* slot, tells shutdown, and pumps when it is gone.
MonitorEnds(j) ==
    /\ j \in DOMAIN ended
    /\ ended' = Restrict(ended, DOMAIN ended \ {j})
    /\ svc' = [Move(svc, [i \in {j} |-> Outcome(svc.job[i], ended[i])])
                 EXCEPT !.active = @ - 1, !.changed = TRUE, !.pump = TRUE]
    /\ UNCHANGED <<shutdown, used, delivered>>

\* The retention of a finished record passes.
Age(j) ==
    /\ j \in DOMAIN svc.job
    /\ svc.job[j].state \in TaskTerminal /\ ~svc.job[j].aged
    /\ svc' = [svc EXCEPT !.job[j].aged = TRUE]
    /\ used.aged < MaxAged
    /\ used' = [used EXCEPT !.aged = @ + 1]
    /\ UNCHANGED <<ended, shutdown, delivered>>

\* shutdown: close, stop the team, cancel the jobs, then wait until none is
\* active.
Shutdown ==
    /\ shutdown = "no"
    /\ shutdown' = "check"
    /\ LET c == [svc EXCEPT !.closed = TRUE]
       IN  svc' = CancelJobs(IF c.team = 0 THEN c ELSE StopTeam(c), DOMAIN c.job, "owner")
    /\ UNCHANGED <<ended, used, delivered>>

ShutdownCheck ==
    /\ shutdown = "check"
    /\ shutdown' = IF svc.active = 0 THEN "done" ELSE IF svc.changed THEN "check" ELSE "wait"
    /\ svc' = IF svc.active = 0 THEN svc ELSE [svc EXCEPT !.changed = FALSE]
    /\ UNCHANGED <<ended, used, delivered>>

ShutdownWakes ==
    /\ shutdown = "wait" /\ svc.changed
    /\ shutdown' = "check"
    /\ svc' = [svc EXCEPT !.changed = FALSE]
    /\ UNCHANGED <<ended, used, delivered>>

Next ==
    \/ PruneOnly \/ CancelOwner \/ TeamStop \/ PostedPump
    \/ Shutdown \/ ShutdownCheck \/ ShutdownWakes
    \/ \E turn \in Turns : Start(turn) \/ CancelTurn(turn)
    \/ \E j \in DOMAIN svc.job :
         \/ Cancel(j) \/ ClaimCompletion(j) \/ Deadline(j) \/ MonitorEnds(j) \/ Age(j)
         \/ \E committed \in BOOLEAN : FinishCompletion(j, committed)
         \/ \E how \in TaskTerminal : ChildEnds(j, how)
    \/ \E m \in Members : CreateTeam({m}) \/ AddTeamMember(m)
    \/ \E k \in Tasks, m \in Members, turn \in Turns, deps \in SUBSET DOMAIN svc.work :
         SubmitTeamTask(k, m, deps, turn)
    \/ \E k \in DOMAIN svc.work :
         AcceptTask(k) \/ CancelTask(k) \/ \E turn \in Turns : ReviseTask(k, turn)

\* What the executor and its timers do by themselves: posted work runs, a deadline
\* passes, a cancelled child ends, and its monitor resumes.  A child that is not
\* cancelled may run for ever; its deadline ends it.
Executor ==
    \/ PostedPump \/ ShutdownCheck \/ ShutdownWakes
    \/ \E j \in DOMAIN svc.job :
         \/ svc.job[j].state # "cancelling" /\ Deadline(j)
         \/ svc.job[j].state = "cancelling" /\ ChildEnds(j, "cancelled")
         \/ MonitorEnds(j)

\* Each of these steps happens a bounded number of times between two calls, so
\* that fairness of their union is fairness of each.
Fairness == WF_vars(Executor)

Spec == Init /\ [][Next]_vars /\ Fairness

-----------------------------------------------------------------------------
\* Properties.

TypeOK ==
    /\ DOMAIN svc.job \subseteq 1 .. svc.next - 1 /\ \A j \in DOMAIN svc.job : svc.job[j] \in Job
    /\ svc.next \in Runs /\ svc.active \in Nat /\ svc.team \in 0 .. MaxTeams
    /\ {svc.stopped, svc.pump, svc.changed, svc.closed} \subseteq BOOLEAN
    /\ svc.members \subseteq Members
    /\ svc.keys \in Seq(Tasks) /\ IsInjective(svc.keys)
    /\ DOMAIN svc.work = Range(svc.keys) /\ \A k \in DOMAIN svc.work : svc.work[k] \in Work
    /\ DOMAIN ended \subseteq Runs /\ Range(ended) \subseteq TaskTerminal
    /\ shutdown \in {"no", "check", "wait", "done"}
    /\ delivered \in Seq(Runs)

\* The jobs whose children run.
Busy(s) == {j \in DOMAIN s.job : s.job[j].state \in {"running", "cancelling"}}

\* The limits hold, and every waiting task has the record it will need: other
\* jobs cannot take it.
WithinLimits ==
    /\ TypeOK
    /\ Cardinality(DOMAIN svc.job) + Cardinality(Waiting(svc)) <= MaxRecords
    /\ Cardinality(Unfinished(svc)) <= MaxRunning + MaxQueued
    /\ svc.active <= MaxRunning
    /\ svc.active = Cardinality(Busy(svc))

\* A specialist's session serves one turn at a time.
OneTurnPerMember ==
    \A i, j \in Unfinished(svc) :
      /\ i # j
      /\ {svc.job[i].task, svc.job[j].task} \subseteq DOMAIN svc.work
      => svc.work[svc.job[i].task].member # svc.work[svc.job[j].task].member

\* The board tells the truth about the jobs: a task in flight has one unfinished
\* run, in the same state, and every unfinished run of the team belongs to such a
\* task; so no superseded attempt ever runs beside, or writes over, a later one.
BoardMatchesJobs ==
    /\ OneTurnPerMember
    /\ \A k \in DOMAIN svc.work : svc.work[k].state \in TeamTaskActive =>
         /\ svc.work[k].run \in Unfinished(svc)
         /\ svc.job[svc.work[k].run].state = svc.work[k].state
    /\ \A j \in Unfinished(svc) : svc.job[j].task # None =>
         /\ IsCurrentRun(svc, j)
         /\ svc.work[svc.job[j].task].state \in TeamTaskActive

\* Work is based on accepted results only, and they stay accepted.
BuiltOnAccepted ==
    \A k \in DOMAIN svc.work :
      svc.work[k].state \notin {"waiting", "cancelled"} =>
        \A d \in svc.work[k].depends_on : svc.work[d].state = "accepted"

\* A completion reaches the leader in at most one committed turn, and in none
\* after its team was stopped unless the turn was already under way.
DeliveredOnce ==
    /\ IsInjective(delivered)
    /\ \A j \in DOMAIN svc.job :
         svc.stopped /\ svc.job[j].task # None => svc.job[j].acknowledged

\* A finished job never changes its outcome, and its record stays while a turn
\* delivers it.  A host with automatic delivery keeps the record until it was
\* acknowledged, by a delivery or by the step that cancels its task.
CompletionsKept ==
    []DeliveredOnce /\
    [][\A j \in DOMAIN svc.job : svc.job[j].state \in TaskTerminal =>
         IF j \in DOMAIN svc'.job THEN svc'.job[j].state = svc.job[j].state
         ELSE /\ ~svc.job[j].claimed
              /\ \/ ~Unread(svc.job[j])
                 \/ \E k \in DOMAIN svc'.work :
                      k = svc.job[j].task /\ svc'.work[k].state = "cancelled"]_vars

\* A task whose dependencies are accepted does not wait for ever, although a
\* cancellation that frees its member posts no pump.
ReadyTasksRun ==
    \A k \in Tasks :
      LET open == k \in DOMAIN svc.work /\ ~svc.closed /\ ~svc.stopped
      IN  []<>~(open /\ Ready(svc, k))

\* A shutdown that began, which nothing takes back, returns with every job finished.
ShutdownEnds ==
    []<>(shutdown # "no" => shutdown = "done" /\ Unfinished(svc) = {})
=============================================================================
