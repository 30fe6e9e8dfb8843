-------------------------------- MODULE Pool --------------------------------
(***************************************************************************)
(* The SQLite connection pool (src/src/oran-storage/pool.cpp): one writer  *)
(* connection and a fixed number of readers, leased to coroutines.  The    *)
(* coroutines run on several threads; a step is one critical section of    *)
(* the pool's mutex, and what the code posts to the executor in between is *)
(* pending work that runs later, in any order.                             *)
(***************************************************************************)
EXTENDS Naturals, Sequences

CONSTANTS
    Requests,       \* acquire calls; each makes at most one waiter object
    ReaderCount     \* PoolOptions::reader_count

\* Connections: slot 0 is the writer, the others are the readers.
Writer == 0
Readers == 1 .. ReaderCount
Slots == {Writer} \cup Readers
NoSlot == ReaderCount + 1
Kinds == {"writer", "reader"}

VARIABLES
    writer_busy,
    free_readers,
    waiters,        \* waiters[k]: writer_waiters and reader_waiters
    status,         \* the WaiterStatus of a request that waited
    pc,             \* where the acquiring coroutine is
    kind,           \* what the request asked for
    lease,          \* the connection a request was given and not yet released
    cancelled,      \* the cancellation state of a coroutine that is starting
    grants,         \* posted grant_*_waiter calls: who gets which slot
    returns         \* slots that a failed grant is about to release

vars == <<writer_busy, free_readers, waiters, status, pc, kind, lease,
          cancelled, grants, returns>>

\* new: not started.  initiating: past the first cancellation check.  waiting:
\* in a queue or in a posted grant.  resuming: the result is posted.  holding:
\* owns a lease.  done: released, or told that it was cancelled.
Locations == {"new", "initiating", "waiting", "resuming", "holding", "done"}
Statuses == {"none", "pending", "cancelled", "granted"}

TypeOK ==
    /\ writer_busy \in BOOLEAN
    /\ free_readers \in Seq(Readers)
    /\ waiters \in [Kinds -> Seq(Requests)]
    /\ status \in [Requests -> Statuses]
    /\ pc \in [Requests -> Locations]
    /\ kind \in [Requests -> Kinds]
    /\ lease \in [Requests -> Slots \cup {NoSlot}]
    /\ cancelled \in [Requests -> BOOLEAN]
    /\ grants \subseteq (Requests \X Slots)
    /\ returns \subseteq Slots

\* Pool::open: every connection is free.
Init ==
    /\ writer_busy = FALSE
    /\ free_readers = [i \in Readers |-> i]
    /\ waiters = [k \in Kinds |-> << >>]
    /\ status = [r \in Requests |-> "none"]
    /\ pc = [r \in Requests |-> "new"]
    /\ kind = [r \in Requests |-> "reader"]
    /\ lease = [r \in Requests |-> NoSlot]
    /\ cancelled = [r \in Requests |-> FALSE]
    /\ grants = {}
    /\ returns = {}

-----------------------------------------------------------------------------
\* Critical sections of the pool.

KindOf(s) == IF s = Writer THEN "writer" ELSE "reader"

\* release_writer and release_reader: the slot goes to the first waiter, by a
\* posted grant, or becomes free.
Release(s) ==
    LET k == KindOf(s)
    IN IF waiters[k] # << >>
       THEN /\ grants' = grants \cup {<<Head(waiters[k]), s>>}
            /\ waiters' = [waiters EXCEPT ![k] = Tail(@)]
            /\ UNCHANGED <<writer_busy, free_readers>>
       ELSE /\ writer_busy' = (writer_busy /\ s # Writer)
            /\ free_readers' = IF s = Writer THEN free_readers ELSE Append(free_readers, s)
            /\ UNCHANGED <<grants, waiters>>

\* acquire_writer and acquire_reader on a coroutine already cancelled.
AcquireCancelled(r) ==
    /\ pc[r] = "new"
    /\ pc' = [pc EXCEPT ![r] = "done"]
    /\ UNCHANGED <<writer_busy, free_readers, waiters, status, kind, lease,
                   cancelled, grants, returns>>

\* acquire_writer and acquire_reader up to the initiation.
Acquire(r, k) ==
    /\ pc[r] = "new"
    /\ pc' = [pc EXCEPT ![r] = "initiating"]
    /\ kind' = [kind EXCEPT ![r] = k]
    /\ UNCHANGED <<writer_busy, free_readers, waiters, status, lease,
                   cancelled, grants, returns>>

Available(k) == IF k = "writer" THEN ~writer_busy ELSE free_readers # << >>

\* async_acquire_* with a connection at hand: the lease is posted, whatever the
\* cancellation state.
TakeNow(r) ==
    /\ pc[r] = "initiating"
    /\ Available(kind[r])
    /\ IF kind[r] = "writer"
       THEN /\ writer_busy' = TRUE
            /\ lease' = [lease EXCEPT ![r] = Writer]
            /\ UNCHANGED free_readers
       ELSE /\ lease' = [lease EXCEPT ![r] = Head(free_readers)]
            /\ free_readers' = Tail(free_readers)
            /\ UNCHANGED writer_busy
    /\ pc' = [pc EXCEPT ![r] = "resuming"]
    /\ UNCHANGED <<waiters, status, kind, cancelled, grants, returns>>

\* Mutant of Enqueue: a request cancelled meanwhile leaves its waiter queued.
EnqueueLeaving(r) ==
    /\ pc[r] = "initiating"
    /\ ~Available(kind[r])
    /\ waiters' = [waiters EXCEPT ![kind[r]] = Append(@, r)]
    /\ status' = [status EXCEPT ![r] = IF cancelled[r] THEN "cancelled" ELSE "pending"]
    /\ pc' = [pc EXCEPT ![r] = IF cancelled[r] THEN "resuming" ELSE "waiting"]
    /\ UNCHANGED <<writer_busy, free_readers, kind, lease, cancelled, grants, returns>>

\* async_acquire_* without: the waiter is queued and its cancel handler
\* installed, in one critical section.  One that was cancelled meanwhile takes
\* itself off the end of the queue again.
Enqueue(r) ==
    /\ pc[r] = "initiating"
    /\ ~Available(kind[r])
    /\ IF cancelled[r]
       THEN /\ status' = [status EXCEPT ![r] = "cancelled"]
            /\ pc' = [pc EXCEPT ![r] = "resuming"]
            /\ UNCHANGED waiters
       ELSE /\ status' = [status EXCEPT ![r] = "pending"]
            /\ waiters' = [waiters EXCEPT ![kind[r]] = Append(@, r)]
            /\ pc' = [pc EXCEPT ![r] = "waiting"]
    /\ UNCHANGED <<writer_busy, free_readers, kind, lease, cancelled, grants, returns>>

\* Cancellation before the handler is installed.
CancelEarly(r) ==
    /\ pc[r] = "initiating" /\ ~cancelled[r]
    /\ cancelled' = [cancelled EXCEPT ![r] = TRUE]
    /\ UNCHANGED <<writer_busy, free_readers, waiters, status, pc, kind, lease,
                   grants, returns>>

\* cancel_*_waiter: a pending waiter leaves the queue, if it is still there, and
\* its coroutine is told.  A grant already posted for it stays posted.
CancelWaiter(r) ==
    LET k == kind[r]
        q == waiters[k]
    IN /\ pc[r] = "waiting" /\ status[r] = "pending"
       /\ status' = [status EXCEPT ![r] = "cancelled"]
       /\ pc' = [pc EXCEPT ![r] = "resuming"]
       /\ IF \E i \in 1 .. Len(q) : q[i] = r
          THEN \E i \in 1 .. Len(q) :
                 /\ q[i] = r
                 /\ waiters' = [waiters EXCEPT
                                  ![k] = SubSeq(q, 1, i - 1) \o SubSeq(q, i + 1, Len(q))]
          ELSE UNCHANGED waiters
       /\ UNCHANGED <<writer_busy, free_readers, kind, lease, cancelled, grants, returns>>

\* grant_*_waiter: the posted grant meets its waiter, or finds it cancelled and
\* keeps the slot to return it.
Grant(r, s) ==
    /\ <<r, s>> \in grants
    /\ grants' = grants \ {<<r, s>>}
    /\ IF status[r] = "pending"
       THEN /\ status' = [status EXCEPT ![r] = "granted"]
            /\ lease' = [lease EXCEPT ![r] = s]
            /\ pc' = [pc EXCEPT ![r] = "resuming"]
            /\ UNCHANGED returns
       ELSE /\ returns' = returns \cup {s}
            /\ UNCHANGED <<status, lease, pc>>
    /\ UNCHANGED <<writer_busy, free_readers, waiters, kind, cancelled>>

\* The second critical section of a grant that found its waiter cancelled.
ReturnReserved(s) ==
    /\ s \in returns
    /\ returns' = returns \ {s}
    /\ Release(s)
    /\ UNCHANGED <<status, pc, kind, lease, cancelled>>

\* The coroutine runs on with its result.
Resume(r) ==
    /\ pc[r] = "resuming"
    /\ pc' = [pc EXCEPT ![r] = IF lease[r] = NoSlot THEN "done" ELSE "holding"]
    /\ UNCHANGED <<writer_busy, free_readers, waiters, status, kind, lease,
                   cancelled, grants, returns>>

\* WriterLease::release and ReaderLease::release, explicit or by destructor.
LeaseRelease(r) ==
    /\ pc[r] = "holding"
    /\ pc' = [pc EXCEPT ![r] = "done"]
    /\ lease' = [lease EXCEPT ![r] = NoSlot]
    /\ Release(lease[r])
    /\ UNCHANGED <<status, kind, cancelled, returns>>

\* Every request was served and everything posted has run.
Quiet ==
    /\ \A r \in Requests : pc[r] = "done"
    /\ grants = {} /\ returns = {}
    /\ UNCHANGED vars

Next ==
    \/ \E r \in Requests :
         \/ AcquireCancelled(r)
         \/ \E k \in Kinds : Acquire(r, k)
         \/ TakeNow(r) \/ Enqueue(r)
         \/ CancelEarly(r) \/ CancelWaiter(r)
         \/ \E s \in Slots : Grant(r, s)
         \/ Resume(r) \/ LeaseRelease(r)
    \/ \E s \in Slots : ReturnReserved(s)
    \/ Quiet

\* Posted work runs, a coroutine that is scheduled proceeds, and a lease ends:
\* it lives in the scope of one repository operation.
Fairness ==
    /\ \A r \in Requests :
         /\ WF_vars(TakeNow(r) \/ Enqueue(r))
         /\ WF_vars(Resume(r))
         /\ WF_vars(LeaseRelease(r))
         /\ \A s \in Slots : WF_vars(Grant(r, s))
    /\ \A s \in Slots : WF_vars(ReturnReserved(s))

Spec == Init /\ [][Next]_vars /\ Fairness

-----------------------------------------------------------------------------
\* Properties.

Has(q, x) == \E i \in 1 .. Len(q) : q[i] = x
Once(q) == \A i, j \in 1 .. Len(q) : q[i] = q[j] => i = j

Free(s) == IF s = Writer THEN ~writer_busy ELSE Has(free_readers, s)

Reserved(s) == \E r \in Requests : <<r, s>> \in grants

Leased(s) == \E r \in Requests : lease[r] = s

InQueue(r) == Has(waiters[kind[r]], r)

\* Every connection is in exactly one place: free, reserved by one posted grant,
\* on its way back from a cancelled waiter, or leased to one request.  None is
\* lost and none is handed out twice.
SlotsExact ==
    /\ \A s \in Slots :
         /\ Free(s) \/ Reserved(s) \/ s \in returns \/ Leased(s)
         /\ Free(s) => ~Reserved(s) /\ s \notin returns /\ ~Leased(s)
         /\ Reserved(s) => s \notin returns /\ ~Leased(s)
         /\ s \in returns => ~Leased(s)
         /\ \A q, r \in Requests : <<q, s>> \in grants /\ <<r, s>> \in grants => q = r
         /\ \A q, r \in Requests : lease[q] = s /\ lease[r] = s => q = r
    /\ Once(free_readers)

\* A queue holds exactly the pending requests of its kind that no grant was
\* posted for, once each.
QueuesExact ==
    /\ \A r \in Requests : status[r] = "pending" <=> pc[r] = "waiting"
    /\ \A r \in Requests :
         status[r] = "pending" /\ (\A s \in Slots : <<r, s>> \notin grants) <=> InQueue(r)
    /\ \A k \in Kinds : Once(waiters[k]) /\ \A r \in Requests : Has(waiters[k], r) => kind[r] = k
    /\ \A r \in Requests, s \in Slots : <<r, s>> \in grants =>
         /\ kind[r] = KindOf(s)
         /\ status[r] \in {"pending", "cancelled"}
         /\ \A t \in Slots : <<r, t>> \in grants => t = s

\* A request holds a connection of the kind it asked for exactly between the
\* grant and the release; a cancelled waiter never does.
LeasesExact ==
    \A r \in Requests :
      /\ lease[r] # NoSlot => pc[r] \in {"resuming", "holding"} /\ kind[r] = KindOf(lease[r])
      /\ pc[r] = "holding" => lease[r] # NoSlot
      /\ status[r] = "cancelled" => lease[r] = NoSlot
      /\ status[r] = "granted" => pc[r] \in {"resuming", "holding", "done"}
      /\ pc[r] \in {"new", "initiating"} => status[r] = "none"

\* Nobody waits for a connection that is free, so no newcomer can overtake.
NoIdleWait == \A k \in Kinds : waiters[k] # << >> => ~Available(k)

\* The inductive invariant of the pool.
PoolInv == TypeOK /\ SlotsExact /\ QueuesExact /\ LeasesExact /\ NoIdleWait

\* Requests are served in the order of their queue: a step that reserves a
\* connection for r leaves nobody waiting who came before r.
ServedInOrder ==
    [][\A q, r \in Requests, s \in Slots :
         /\ InQueue(q) /\ InQueue(q)' /\ kind[q] = KindOf(s)
         /\ \/ <<r, s>> \in grants' \ grants
            \/ lease'[r] = s /\ lease[r] # s /\ <<r, s>> \notin grants
         => \E i, j \in 1 .. Len(waiters[kind[q]]) :
              i < j /\ waiters[kind[q]][i] = r /\ waiters[kind[q]][j] = q]_vars

\* Every wait ends, with a lease or with the cancellation.
WaitsEnd == \A r \in Requests : pc[r] = "waiting" ~> pc[r] \in {"holding", "done"}
=============================================================================
