-------------------------------- MODULE MCJobs --------------------------------
(* What outlives a call: a behaviour is one of the background jobs with their  *)
(* team, or one of a group of child coroutines, the structure the jobs run in; *)
(* the other stays as it was created.  Two tasks of one member with a          *)
(* correction, an ordinary job and a record that expires unread, the host      *)
(* answering queries only.  Three spawns in a group of two that keeps one      *)
(* outcome: the limits, the eviction and the coalescing of wake-ups happen.    *)
EXTENDS BackgroundTasks

CONSTANTS Children, MaxTasks, MaxCompleted    \* of the group

ASSUME GroupLimits == MaxTasks \in Nat \ {0} /\ MaxCompleted \in Nat \ {0}

VARIABLES
    part,        \* which of the two this behaviour is of
    active, completed, dropped, closed, stop_requested, join_started, pc, signalled, emits, token,
    join, timed, cancellable, reported, lagging, evicted, told

G == INSTANCE TaskGroup

group == <<active, completed, dropped, closed, stop_requested, join_started, pc, signalled, emits, token,
           join, timed, cancellable, reported, lagging, evicted, told>>

JobsInit == part \in {"team", "group"} /\ Init /\ G!Init

JobsNext ==
    /\ UNCHANGED part
    /\ \/ part = "team" /\ Next /\ UNCHANGED group
       \/ part = "group" /\ G!Next /\ UNCHANGED vars

(* The fairness of each module, where it is the one that runs.                 *)
GroupFair ==
    /\ \A c \in Children :
         /\ WF_group(part = "group" /\ G!CoSpawn(c))
         /\ WF_group(part = "group" /\ G!ChildEnds(c))
         /\ WF_group(part = "group" /\ G!Notify(c))
         /\ WF_group(part = "group" /\ G!Emit(c))
    /\ WF_group(part = "group" /\ G!JoinCheck)
    /\ WF_group(part = "group" /\ G!JoinReceive)
    /\ WF_group(part = "group" /\ G!JoinReports)

JobsSpec ==
    JobsInit /\ [][JobsNext]_<<part, vars, group>> /\ WF_vars(part = "team" /\ Executor) /\ GroupFair

-------------------------------------------------------------------------------
\* Jobs, teams and reservations stay within their limits (background_tasks.cpp);
\* every outcome of a child is in one place, and a join that has returned leaves
\* only the children it named (task_group.cpp).
OutcomesKept == WithinLimits /\ G!GroupInv /\ G!JoinIsFinal

\* Ready tasks run and a shutdown returns, although cancellations post no pump
\* (background_tasks.cpp, team-scheduling.cpp); a join returns (task_group.cpp).
JobsProceed == ReadyTasksRun /\ ShutdownEnds /\ G!JoinEnds
===============================================================================
