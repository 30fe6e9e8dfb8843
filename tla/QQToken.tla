------------------------------- MODULE QQToken --------------------------------
(* The access token of a QQ bot (src/oran-bootstrap/qq_token.cpp).  Every      *)
(* outbound QQ request asks the one QQTokenSource of its account for the       *)
(* token.  A channel of capacity one holds a single permit, the gate: whoever  *)
(* receives it may refresh the token, and its scope gives it back however the  *)
(* call ends.  The time between asking the platform and storing the answer is  *)
(* charged to the token's life.                                                *)
EXTENDS Integers, FiniteSets, FiniteSetsExt

CONSTANTS
    Gets,        \* the calls of get
    MaxCallers,  \* callers admitted at once (32 in the code)
    Lifetimes,   \* the values of expires_in the platform answers with
    MaxTime      \* bound: the last second of the clock

VARIABLES
    clock,       \* options.now(), in seconds
    gate,        \* TRUE while the permit is in the channel
    callers,     \* callers
    token,       \* token and valid_until, with the second the platform ends it
    get          \* for each call where it stands and what it returned

vars == <<clock, gate, callers, token, get>>

None == [until |-> 0, ends |-> 0]
Failed == [until |-> 0, ends |-> -1]

Init ==
    /\ clock = 0
    /\ gate = TRUE
    /\ callers = 0
    /\ token = None
    /\ get = [g \in Gets |-> [at |-> "new", started |-> 0, result |-> None]]

At(g, at) == get[g].at = at
Goes(g, at) == get' = [get EXCEPT ![g].at = at]

\* A call ends: its result, and the frame's other fields as at the start.
Returns(g, result) ==
    get' = [get EXCEPT ![g] = [at |-> "done", started |-> 0, result |-> result]]

Tick ==
    /\ clock < MaxTime
    /\ clock' = clock + 1
    /\ UNCHANGED <<gate, callers, token, get>>

-------------------------------------------------------------------------------
(* get.                                                                        *)

\* The account is another's, or 32 callers are inside: the call is refused.
Refused(g, other) ==
    /\ At(g, "new")
    /\ other \/ callers >= MaxCallers
    /\ Returns(g, Failed)
    /\ UNCHANGED <<clock, gate, callers, token>>

Enter(g) ==
    /\ At(g, "new")
    /\ callers < MaxCallers
    /\ callers' = callers + 1
    /\ Goes(g, "gate")
    /\ UNCHANGED <<clock, gate, token>>

\* The destructors of Admission and, where the permit was taken, of Release.
Leave(g, result) ==
    /\ callers' = callers - 1
    /\ gate' = (gate \/ ~At(g, "gate"))
    /\ Returns(g, result)

\* Cancelled while it waits: receive returns the error and no permit is held.
GateCancelled(g) ==
    /\ At(g, "gate")
    /\ Leave(g, Failed)
    /\ UNCHANGED <<clock, token>>

Receive(g) ==
    /\ At(g, "gate")
    /\ gate
    /\ gate' = FALSE
    /\ Goes(g, "locked")
    /\ UNCHANGED <<clock, callers, token>>

Cached(g) ==
    /\ At(g, "locked")
    /\ token # None /\ clock < token.until
    /\ Leave(g, token)
    /\ UNCHANGED <<clock, token>>

\* The rules deny the refresh, or the platform is asked.
Refresh(g, allowed) ==
    /\ At(g, "locked")
    /\ token = None \/ clock >= token.until
    /\ IF allowed
       THEN /\ get' = [get EXCEPT ![g].at = "sent", ![g].started = clock]
            /\ UNCHANGED <<gate, callers>>
       ELSE Leave(g, Failed)
    /\ UNCHANGED <<clock, token>>

\* The early renewal: a tenth of the life, thirty seconds at most.
Margin(seconds) == Min({30, seconds \div 10})

Until(g, seconds) == get[g].started + seconds - Margin(seconds)

\* No answer, a rejected or malformed one, an exception, or a cancellation.
RefreshFails(g) ==
    /\ At(g, "sent")
    /\ Leave(g, Failed)
    /\ UNCHANGED <<clock, token>>

\* The platform may have counted from the moment the request was sent.
Refreshed(g, seconds) ==
    LET value == [until |-> Until(g, seconds), ends |-> get[g].started + seconds]
    IN /\ At(g, "sent")
       /\ IF clock >= value.until
          THEN Leave(g, Failed) /\ UNCHANGED token
          ELSE Leave(g, value) /\ token' = value
       /\ UNCHANGED clock

-------------------------------------------------------------------------------
Step(g) ==
    \/ \E other \in BOOLEAN : Refused(g, other)
    \/ Enter(g)
    \/ GateCancelled(g)
    \/ Receive(g)
    \/ Cached(g)
    \/ \E allowed \in BOOLEAN : Refresh(g, allowed)
    \/ RefreshFails(g)
    \/ \E seconds \in Lifetimes : Refreshed(g, seconds)

Next == Tick \/ \E g \in Gets : Step(g)

(* The strand resumes a call that holds the permit or finds it in the channel, *)
(* and the request has a timeout of its own.                                   *)
Fairness ==
    \A g \in Gets :
        /\ WF_vars(Receive(g))
        /\ WF_vars(Cached(g) \/ \E allowed \in BOOLEAN : Refresh(g, allowed))
        /\ WF_vars(RefreshFails(g))

Spec == Init /\ [][Next]_vars /\ Fairness

-------------------------------------------------------------------------------
Holding(g) == get[g].at \in {"locked", "sent"}

\* The permit is in the channel or with exactly one call, which alone may ask
\* the platform, and the admission count is the number of calls inside.
OnePermit ==
    /\ Cardinality({g \in Gets : Holding(g)}) = IF gate THEN 0 ELSE 1
    /\ callers = Cardinality({g \in Gets : get[g].at \in {"gate", "locked", "sent"}})
    /\ callers <= MaxCallers

\* A call returns only a token the platform still honours at that moment.
ReturnsLive ==
    \A g \in Gets :
        At(g, "done") \/ get'[g].at # "done" \/ get'[g].result = Failed
            \/ clock < get'[g].result.ends

TypeOK ==
    /\ clock \in 0..MaxTime
    /\ gate \in BOOLEAN
    /\ callers \in 0..Cardinality(Gets)
    /\ token \in [until : Int, ends : Int]
    /\ get \in [Gets -> [at : {"new", "gate", "locked", "sent", "done"},
                         started : 0..MaxTime, result : [until : Int, ends : Int]]]

\* Every call that entered returns.
GetsEnd == \A g \in Gets : (get[g].at = "gate") ~> (get[g].at = "done")

===============================================================================
