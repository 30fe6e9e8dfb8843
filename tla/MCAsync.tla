------------------------------- MODULE MCAsync --------------------------------
(* The structures coroutines wait on, each on its own: a behaviour is one of   *)
(* the path locks, of a channel, of the connection pool, of the QQ token's     *)
(* gate or of the QQ logins, and the others stay as they were created.  Four   *)
(* dispatches on one path: a holder, a queue with a reader behind a writer, a  *)
(* cancellation racing a wake-up.  Three sends and three receives, blocking or *)
(* not, on channels of three capacities.  Three acquires of either kind on a   *)
(* pool of one writer and two readers.  Three token requests of which two are  *)
(* admitted, over two lifetimes.  Three login processes on one directory.      *)
EXTENDS PathLocks, ChannelMailbox, Integers

CONSTANTS
    Sends, Receives, Capacities, NoValue,      \* of the channel
    Requests, ReaderCount,                     \* of the pool
    Gets, MaxCallers, Lifetimes, MaxTime,      \* of the token
    Logins, Unset, MaxCodes                    \* of the logins

ASSUME CapacitiesNat == Capacities \subseteq Nat
ASSUME DistinctCalls == Sends \cap Receives = {} /\ NoValue \notin Sends
ASSUME ReaderCountPositive == ReaderCount \in Nat \ {0}

VARIABLES
    part,        \* which of the five this behaviour is of
    values, senders, receivers, result,
    writer_busy, free_readers, queues, status, at, kind, lease, early, grants, returns,
    clock, gate, callers, token, get,
    file, holders, login

C == INSTANCE Channel
P == INSTANCE Pool WITH waiters <- queues, pc <- at, cancelled <- early
T == INSTANCE QQToken
L == INSTANCE QQLogin

channel == <<capacity, closed, values, senders, receivers, result, got, accepted, delivered>>
pool == <<writer_busy, free_readers, queues, status, at, kind, lease, early, grants, returns>>
tokens == <<clock, gate, callers, token, get>>
logins == <<file, holders, login>>
all == <<part, vars, channel, pool, tokens, logins>>

AsyncInit ==
    /\ part \in {"locks", "channel", "pool", "token", "login"}
    /\ Init /\ C!ChannelInit /\ P!Init /\ T!Init /\ L!Init
    /\ part # "channel" => capacity = 0

\* Nothing obliges anybody to use a channel, a token or a binding again.
Rest ==
    /\ part \in {"channel", "token", "login"}
    /\ UNCHANGED <<vars, channel, pool, tokens, logins>>

AsyncNext ==
    /\ UNCHANGED part
    /\ \/ part = "locks" /\ Next /\ UNCHANGED <<channel, pool, tokens, logins>>
       \/ part = "channel" /\ C!ChannelNext /\ UNCHANGED <<vars, pool, tokens, logins>>
       \/ part = "pool" /\ P!Next /\ UNCHANGED <<vars, channel, tokens, logins>>
       \/ part = "token" /\ T!Next /\ UNCHANGED <<vars, channel, pool, logins>>
       \/ part = "login" /\ L!Next /\ UNCHANGED <<vars, channel, pool, tokens>>
       \/ Rest

(* The fairness of each module, where it is the one that runs.                 *)
LocksFair ==
    \A c \in Calls :
        /\ WF_vars(part = "locks" /\ Resume(c))
        /\ WF_vars(part = "locks" /\ GuardReset(c))

PoolFair ==
    /\ \A r \in Requests :
         /\ WF_pool(part = "pool" /\ (P!TakeNow(r) \/ P!Enqueue(r)))
         /\ WF_pool(part = "pool" /\ P!Resume(r))
         /\ WF_pool(part = "pool" /\ P!LeaseRelease(r))
         /\ \A s \in P!Slots : WF_pool(part = "pool" /\ P!Grant(r, s))
    /\ \A s \in P!Slots : WF_pool(part = "pool" /\ P!ReturnReserved(s))

TokenFair ==
    \A g \in Gets :
        /\ WF_tokens(part = "token" /\ T!Receive(g))
        /\ WF_tokens(part = "token" /\ (T!Cached(g) \/ \E allowed \in BOOLEAN : T!Refresh(g, allowed)))
        /\ WF_tokens(part = "token" /\ T!RefreshFails(g))

LoginFair ==
    \A l \in Logins :
        /\ WF_logins(part = "login" /\ L!Deadline(l))
        /\ WF_logins(part = "login" /\ L!Resumed(l))

AsyncSpec ==
    AsyncInit /\ [][AsyncNext]_all /\ LocksFair /\ PoolFair /\ TokenFair /\ LoginFair

-------------------------------------------------------------------------------
\* No dispatch waiting for a path, pending send or receive, or request for a
\* connection is overtaken by a later one of its kind.
NoneOvertaken == NoOvertaking /\ C!ServedInOrder /\ P!ServedInOrder

\* What is lent is in exactly one place: a path's permits with its holders, its
\* queue or on the way, a connection free, leased or on the way, a value with
\* its sender, in the buffer or received, and nobody waits beside a free one.
PermitsExact == LockInv /\ P!PoolInv /\ C!ChannelInv

\* The token's one permit is in the gate or with one call, which alone may ask
\* the platform, and a call returns only a token that is still honoured; a saved
\* QQ binding is never replaced, whatever crashes and whoever else logs in.
AccountKept == [](T!TypeOK /\ T!OnePermit /\ L!TypeOK) /\ [][T!ReturnsLive]_tokens /\ [][L!BindingKept]_logins

\* Everybody who waits goes on: a dispatch for a path, a request for a
\* connection, a call for the token, a login for its user.
WaitsOver == WaitsEnd /\ P!WaitsEnd /\ T!GetsEnd /\ L!LoginsEnd
===============================================================================
