------------------------------ MODULE PathLocks ------------------------------
(***************************************************************************)
(* The FIFO read/write locks that tool dispatches take on workspace paths  *)
(* (src/src/oran-tool/path-locks.cpp).  Everything runs on one strand, so  *)
(* a step of the model is the code between two suspension points: an       *)
(* acquire up to its co_await, the resumption after it, the destructor of  *)
(* a guard.  Cancellation and the wake-up that `advance` posts are events  *)
(* the strand interleaves with those steps.                                *)
(***************************************************************************)
EXTENDS Naturals, Sequences, FiniteSets, SequencesExt

CONSTANTS
    Calls,      \* dispatches; each holds or awaits at most one path lock
    Paths       \* lock keys

ASSUME CallsFinite == IsFiniteSet(Calls)
ASSUME PathsNonempty == Paths # {}

VARIABLES
    present,    \* the paths that have an entry in entries_
    readers,    \* entries_[p].readers
    writer,     \* entries_[p].writer
    waiters,    \* entries_[p].waiters: the calls in queue order
    req,        \* the path and mode a call asked for
    pc,         \* where the call is
    woken,      \* a permit was sent on the call's wake channel
    cancelled   \* the cancellation state of the call's coroutine

table == <<present, readers, writer, waiters>>
vars == <<present, readers, writer, waiters, req, pc, woken, cancelled>>

Modes == {"shared", "exclusive"}

\* idle: outside acquire.  waiting: suspended on the wake channel.  holding:
\* owns a PathLockGuard.  vanished: the internal error of an absent entry.
Locations == {"idle", "waiting", "holding", "vanished"}

NoRequest == [path |-> CHOOSE p \in Paths : TRUE, mode |-> "shared"]

TypeOK ==
    /\ present \subseteq Paths
    /\ readers \in [Paths -> Nat]
    /\ writer \in [Paths -> BOOLEAN]
    /\ waiters \in [Paths -> Seq(Calls)]
    /\ req \in [Calls -> [path : Paths, mode : Modes]]
    /\ pc \in [Calls -> Locations]
    /\ woken \in [Calls -> BOOLEAN]
    /\ cancelled \in [Calls -> BOOLEAN]

Init ==
    /\ present = {}
    /\ readers = [p \in Paths |-> 0]
    /\ writer = [p \in Paths |-> FALSE]
    /\ waiters = [p \in Paths |-> << >>]
    /\ req = [c \in Calls |-> NoRequest]
    /\ pc = [c \in Calls |-> "idle"]
    /\ woken = [c \in Calls |-> FALSE]
    /\ cancelled = [c \in Calls |-> FALSE]

-----------------------------------------------------------------------------
\* advance and release.

Shared(c) == req[c].mode = "shared"

\* Mutant of Wakes: a writer at the front does not wait for the readers.
WakesOverReaders(r, w, q, n) ==
    \/ /\ n = 0
       /\ q = << >> \/ w
    \/ /\ n = 1
       /\ q # << >> /\ ~w /\ ~Shared(q[1])
    \/ /\ n \in 1 .. Len(q)
       /\ ~w
       /\ \A i \in 1 .. n : Shared(q[i])
       /\ n < Len(q) => ~Shared(q[n + 1])

\* `advance` on an entry with r readers, writer flag w and queue q wakes
\* exactly the first n calls: one writer on a free path, or the readers up to
\* the first writer.
Wakes(r, w, q, n) ==
    \/ /\ n = 0
       /\ q = << >> \/ w \/ (q # << >> /\ ~Shared(q[1]) /\ r # 0)
    \/ /\ n = 1
       /\ q # << >> /\ ~w /\ ~Shared(q[1]) /\ r = 0
    \/ /\ n \in 1 .. Len(q)
       /\ ~w
       /\ \A i \in 1 .. n : Shared(q[i])
       /\ n < Len(q) => ~Shared(q[n + 1])

\* `advance` on path p, whose fields were just set to r, w and q: pop the calls
\* to wake, reserve their permits, send on their channels, and reclaim the
\* entry when nothing uses it.  The channel of the call c that runs it is gone.
Advance(c, p, r, w, q) ==
    \E n \in 0 .. Len(q) :
      /\ Wakes(r, w, q, n)
      /\ LET toReaders == n > 0 /\ Shared(q[1])
             toWriter == n > 0 /\ ~Shared(q[1])
         IN /\ readers' = [readers EXCEPT ![p] = IF toReaders THEN r + n ELSE r]
            /\ writer' = [writer EXCEPT ![p] = w \/ toWriter]
            /\ waiters' = [waiters EXCEPT ![p] = SubSeq(q, n + 1, Len(q))]
            /\ woken' = [d \in Calls |-> \/ \E i \in 1 .. n : q[i] = d
                                         \/ woken[d] /\ d # c]
            /\ present' = IF readers'[p] = 0 /\ ~writer'[p] /\ waiters'[p] = << >>
                          THEN present \ {p} ELSE present

\* `release`: give back the permit of call c and advance.  The code returns
\* without effect when the path has no entry.
Release(c) ==
    LET p == req[c].path
    IN IF p \notin present
       THEN /\ woken' = [woken EXCEPT ![c] = FALSE]
            /\ UNCHANGED table
       ELSE IF Shared(c)
            THEN Advance(c, p, IF readers[p] > 0 THEN readers[p] - 1 ELSE 0,
                         writer[p], waiters[p])
            ELSE Advance(c, p, readers[p], FALSE, waiters[p])

-----------------------------------------------------------------------------
\* The steps of a call.

\* Mutant of CanTakeNow: an acquire looks at the permits only, not at the queue.
CanTakeNowBarging(p, m) ==
    /\ ~writer[p]
    /\ m = "shared" \/ readers[p] = 0

\* Whether acquire takes the path at once: nobody waits, nobody conflicts.
CanTakeNow(p, m) ==
    /\ waiters[p] = << >>
    /\ ~writer[p]
    /\ m = "shared" \/ readers[p] = 0

\* acquire on a coroutine that was cancelled before it started.
AcquireCancelled(c) ==
    /\ pc[c] = "idle" /\ cancelled[c]
    /\ cancelled' = [cancelled EXCEPT ![c] = FALSE]
    /\ UNCHANGED <<table, req, pc, woken>>

\* acquire that takes the path in place.
AcquireNow(c, p, m) ==
    /\ pc[c] = "idle" /\ ~cancelled[c]
    /\ CanTakeNow(p, m)
    /\ present' = present \cup {p}
    /\ readers' = [readers EXCEPT ![p] = IF m = "shared" THEN @ + 1 ELSE @]
    /\ writer' = [writer EXCEPT ![p] = @ \/ m = "exclusive"]
    /\ req' = [req EXCEPT ![c] = [path |-> p, mode |-> m]]
    /\ pc' = [pc EXCEPT ![c] = "holding"]
    /\ UNCHANGED <<waiters, woken, cancelled>>

\* acquire that queues behind every other waiter and suspends.
AcquireWait(c, p, m) ==
    /\ pc[c] = "idle" /\ ~cancelled[c]
    /\ ~CanTakeNow(p, m)
    /\ present' = present \cup {p}
    /\ waiters' = [waiters EXCEPT ![p] = Append(@, c)]
    /\ req' = [req EXCEPT ![c] = [path |-> p, mode |-> m]]
    /\ pc' = [pc EXCEPT ![c] = "waiting"]
    /\ UNCHANGED <<readers, writer, woken, cancelled>>

\* The coroutine of a call is cancelled: its own receive is aborted, but what
\* the table did for it in the meantime stands.
Cancel(c) ==
    /\ ~cancelled[c]
    /\ cancelled' = [cancelled EXCEPT ![c] = TRUE]
    /\ UNCHANGED <<table, req, pc, woken>>

\* acquire resumes with its permit: the reservation becomes a guard.
ResumeGranted(c) ==
    /\ pc[c] = "waiting" /\ woken[c] /\ ~cancelled[c]
    /\ pc' = [pc EXCEPT ![c] = IF req[c].path \in present THEN "holding" ELSE "vanished"]
    /\ woken' = [woken EXCEPT ![c] = FALSE]
    /\ UNCHANGED <<table, req, cancelled>>

\* The end of a call that leaves the locks, and the internal error instead
\* when its path has no entry.
Finish(c) ==
    /\ pc' = [pc EXCEPT ![c] = IF req[c].path \in present THEN "idle" ELSE "vanished"]
    /\ req' = [req EXCEPT ![c] = NoRequest]
    /\ cancelled' = [cancelled EXCEPT ![c] = FALSE]

\* A cancelled call that is still queued leaves the queue and advances it.
ResumeWithdraw(c) ==
    LET p == req[c].path
        q == waiters[p]
    IN /\ pc[c] = "waiting" /\ cancelled[c]
       /\ \E i \in 1 .. Len(q) :
            /\ q[i] = c
            /\ Advance(c, p, readers[p], writer[p], RemoveAt(q, i))
       /\ Finish(c)

\* Mutant of ResumeReturn: the reservation is returned, the queue not advanced.
ResumeReturnSilently(c) ==
    LET p == req[c].path
    IN /\ pc[c] = "waiting" /\ cancelled[c]
       /\ \A i \in 1 .. Len(waiters[p]) : waiters[p][i] # c
       /\ readers' = [readers EXCEPT ![p] = IF Shared(c) THEN @ - 1 ELSE @]
       /\ writer' = [writer EXCEPT ![p] = @ /\ Shared(c)]
       /\ woken' = [woken EXCEPT ![c] = FALSE]
       /\ Finish(c)
       /\ UNCHANGED <<present, waiters>>

\* A cancelled call that `advance` already popped gives its permit back.
ResumeReturn(c) ==
    LET p == req[c].path
    IN /\ pc[c] = "waiting" /\ cancelled[c]
       /\ \A i \in 1 .. Len(waiters[p]) : waiters[p][i] # c
       /\ Release(c)
       /\ Finish(c)

\* The guard of a finished dispatch is destroyed.
GuardReset(c) ==
    /\ pc[c] = "holding"
    /\ Release(c)
    /\ Finish(c)

Resume(c) ==
    ResumeGranted(c) \/ ResumeWithdraw(c) \/ ResumeReturn(c)

Next ==
    \E c \in Calls :
      \/ AcquireCancelled(c)
      \/ \E p \in Paths, m \in Modes : AcquireNow(c, p, m) \/ AcquireWait(c, p, m)
      \/ Cancel(c)
      \/ Resume(c)
      \/ GuardReset(c)

\* The strand runs every posted resumption, and a dispatch that holds a guard
\* ends (the scheduler bounds it by a timeout).  Nobody has to acquire or cancel.
Fairness == \A c \in Calls : WF_vars(Resume(c)) /\ WF_vars(GuardReset(c))

Spec == Init /\ [][Next]_vars /\ Fairness

-----------------------------------------------------------------------------
\* Properties.

\* The call has a permit on p: a guard, or the reservation made when it was
\* woken and not yet turned into a guard.
Permit(c, p) ==
    req[c].path = p /\ (pc[c] = "holding" \/ (pc[c] = "waiting" /\ woken[c]))

Queued(c, p) == pc[c] = "waiting" /\ ~woken[c] /\ req[c].path = p

SharedPermits(p) == {c \in Calls : Permit(c, p) /\ Shared(c)}

\* A dispatch that holds a path exclusively is the only one holding it: file
\* writes and edits never run beside another access to the same path.
Exclusion ==
    \A c, d \in Calls :
      /\ c # d
      /\ pc[c] = "holding" /\ pc[d] = "holding"
      /\ req[c].path = req[d].path
      => Shared(c) /\ Shared(d)

\* The counters of an entry are the permits that calls own, reservations in
\* flight included, so that no permit is lost or given twice.
PermitsCounted ==
    \A p \in Paths :
      /\ readers[p] = Cardinality(SharedPermits(p))
      /\ writer[p] <=> \E c \in Calls : Permit(c, p) /\ ~Shared(c)
      /\ \A c, d \in Calls : Permit(c, p) /\ ~Shared(c) /\ Permit(d, p) => c = d

\* The queue of a path holds exactly the calls that wait there for a permit.
QueuesExact ==
    \A p \in Paths :
      /\ \A c \in Calls : Queued(c, p) <=> \E i \in 1 .. Len(waiters[p]) : waiters[p][i] = c
      /\ \A i, j \in 1 .. Len(waiters[p]) : waiters[p][i] = waiters[p][j] => i = j

\* A path has an entry exactly while a permit or a waiter needs it: the table
\* does not grow with the paths ever used, and no waiter finds its entry gone.
EntriesLive ==
    /\ \A p \in Paths :
         p \in present <=> readers[p] # 0 \/ writer[p] \/ waiters[p] # << >>
    /\ \A c \in Calls : pc[c] # "vanished"
    /\ \A c \in Calls : woken[c] => pc[c] = "waiting"

\* The inductive invariant: what the table and the coroutines know of each
\* other at every suspension point.
LockInv == TypeOK /\ PermitsCounted /\ QueuesExact /\ EntriesLive

\* First come, first served: a step that gives d a permit on p leaves nobody in
\* the queue of p who was there before d.
GrantsInOrder ==
    \A p \in Paths, c, d \in Calls :
      /\ Queued(c, p) /\ Queued(c, p)'
      /\ ~Permit(d, p) /\ Permit(d, p)'
      => \E i, j \in 1 .. Len(waiters[p]) :
           i < j /\ waiters[p][i] = d /\ waiters[p][j] = c

\* Every step of the lock table grants in that order.
NoOvertaking == [][GrantsInOrder]_vars

\* Every wait ends, with a guard or with the cancellation, whatever the others
\* do: no wake-up is lost between a release, a cancellation and a resumption.
WaitsEnd == \A c \in Calls : pc[c] = "waiting" ~> pc[c] # "waiting"
=============================================================================
