------------------------------- MODULE QQLogin --------------------------------
(* Binding a QQ bot: apps/qq/main.cpp and login.cpp over                       *)
(* src/oran-bootstrap/qq_connect.cpp.  A login process takes the lock of its   *)
(* private directory, refuses to go on when a binding is saved, shows at most  *)
(* three QR codes, polls each until it is scanned, refreshed or the deadline   *)
(* passes, reads the file once more and writes it.  A probe verifies the saved *)
(* binding and writes nothing.  Several processes use one directory and any of *)
(* them may crash; the lock of a process that ended is free.                   *)
EXTENDS Naturals, FiniteSets

CONSTANTS
    Logins,      \* the processes, each run once
    Unset,       \* no file qq-credentials.json
    MaxCodes     \* QR codes shown before the login gives up (3 in the code)

VARIABLES
    file,        \* the login whose credentials are saved, or Unset
    holders,     \* the processes that hold login.lock
    login        \* for each process where it stands

vars == <<file, holders, login>>

\* "code" is the secret of the attempt a scan answers; "late" the passed deadline.
Fresh == [at |-> "new", probe |-> FALSE, code |-> 0, late |-> FALSE]

Init ==
    /\ file = Unset
    /\ holders = {}
    /\ login = [l \in Logins |-> Fresh]

At(l, at) == login[l].at = at
Goes(l, at) == login' = [login EXCEPT ![l].at = at]

\* The process ends, with a result, an error or a crash: the lock is released.
Ends(l, at) ==
    /\ login' = [login EXCEPT ![l] = [Fresh EXCEPT !.at = at]]
    /\ holders' = holders \ {l}

Fails(l) == Ends(l, "failed") /\ UNCHANGED file

-------------------------------------------------------------------------------
(* main and run_impl before the binding.                                       *)

\* Mutant: every process gets the lock.
FreeAlways == TRUE

Free == holders = {}

Start(l, probe) ==
    /\ At(l, "new")
    /\ IF Free
       THEN /\ holders' = holders \union {l}
            /\ login' = [login EXCEPT ![l].at = "read", ![l].probe = probe]
       ELSE /\ login' = [login EXCEPT ![l].at = "failed"]
            /\ UNCHANGED holders
    /\ UNCHANGED file

\* The read is allowed: a saved binding is a conflict unless this is a probe, a
\* probe without one finds nothing, and the write is authorised before the user
\* is asked for anything.
Read(l) ==
    /\ At(l, "read")
    /\ CASE file # Unset /\ login[l].probe -> Goes(l, "verify") /\ UNCHANGED <<file, holders>>
         [] file # Unset /\ ~login[l].probe -> Fails(l)
         [] file = Unset /\ login[l].probe -> Fails(l)
         [] file = Unset /\ ~login[l].probe ->
                /\ login' = [login EXCEPT ![l].at = "create", ![l].code = 1]
                /\ UNCHANGED <<file, holders>>

\* QQTokenSource answers for the saved credentials.
Verify(l) == At(l, "verify") /\ Ends(l, "verified") /\ UNCHANGED file

-------------------------------------------------------------------------------
(* connect_impl.                                                               *)

\* connect_impl's deadline passes while it waits for the user.
Deadline(l) ==
    /\ login[l].at \in {"create", "poll"}
    /\ ~login[l].late
    /\ login' = [login EXCEPT ![l].late = TRUE]
    /\ UNCHANGED <<file, holders>>

InTime(l) == ~login[l].late

\* request: a deadline already passed is a timeout and nothing is sent.
TimesOut(l) ==
    /\ login[l].at \in {"create", "poll"}
    /\ ~InTime(l)
    /\ Fails(l)

\* The task is created for this attempt's key and its code displayed.
Display(l) ==
    /\ At(l, "create")
    /\ InTime(l)
    /\ Goes(l, "poll")
    /\ UNCHANGED <<file, holders>>

\* Status 0 or 1: nothing yet, the poll sleeps and asks again.
Waits(l) ==
    /\ At(l, "poll")
    /\ InTime(l)
    /\ UNCHANGED vars

\* Status 3: the code expired; a new one with a new key, three in all.
Expired(l) ==
    /\ At(l, "poll")
    /\ InTime(l)
    /\ IF login[l].code < MaxCodes
       THEN /\ login' = [login EXCEPT ![l].at = "create", ![l].code = @ + 1]
            /\ UNCHANGED <<file, holders>>
       ELSE Fails(l)

\* Status 2: the credentials, decrypted with the key of this attempt.
Bound(l) ==
    /\ At(l, "poll")
    /\ InTime(l)
    /\ Goes(l, "persist")
    /\ UNCHANGED <<file, holders>>

-------------------------------------------------------------------------------
(* run_impl after the binding: persist reads, then writes.                     *)

PersistRead(l) ==
    /\ At(l, "persist")
    /\ IF file = Unset
       THEN Goes(l, "write") /\ UNCHANGED <<file, holders>>
       ELSE Fails(l)

PersistWrite(l) ==
    /\ At(l, "write")
    /\ file' = l
    /\ Ends(l, "saved")

Running(l) == login[l].at \in {"read", "verify", "create", "poll", "persist", "write"}

\* PrivateDirectory.write renames a finished file into place and then syncs the
\* directory: cut short, or reported as failed, it left the old state or the new one.
Interrupted(l) == file' \in (IF At(l, "write") THEN {file, l} ELSE {file})

\* A denied rule, a failed request, read or write, a cancellation or an exception
\* ends the login at any await.
Errs(l) == Running(l) /\ Ends(l, "failed") /\ Interrupted(l)
Crash(l) == Running(l) /\ Ends(l, "crashed") /\ Interrupted(l)

-------------------------------------------------------------------------------
Step(l) ==
    \/ \E probe \in BOOLEAN : Start(l, probe)
    \/ Read(l)
    \/ Verify(l)
    \/ TimesOut(l)
    \/ Display(l)
    \/ Waits(l)
    \/ Expired(l)
    \/ Bound(l)
    \/ PersistRead(l)
    \/ PersistWrite(l)
    \/ Errs(l)
    \/ Crash(l)

Next == \E l \in Logins : Step(l) \/ Deadline(l)

Resumed(l) ==
    Read(l) \/ Verify(l) \/ Display(l) \/ TimesOut(l) \/ PersistRead(l) \/ PersistWrite(l)

(* The coroutine is resumed when its request, its timer or its file operation  *)
(* completes, each of which has a bound, and the clock reaches the deadline.   *)
(* Nothing is assumed about the user: a poll may answer 0 for ever.            *)
Fairness ==
    \A l \in Logins :
        /\ WF_vars(Deadline(l))
        /\ WF_vars(Resumed(l))

Spec == Init /\ [][Next]_vars /\ Fairness

-------------------------------------------------------------------------------
TypeOK ==
    /\ file \in Logins \union {Unset}
    /\ holders \subseteq Logins
    /\ login \in [Logins -> [at : {"new", "read", "verify", "create", "poll", "persist",
                                   "write", "saved", "verified", "failed", "crashed"},
                             probe : BOOLEAN, code : 0..MaxCodes, late : BOOLEAN]]

\* A saved binding is never replaced, and whoever reports "saved" is bound.
BindingKept ==
    /\ file # Unset => file' = file
    /\ \A l \in Logins : login'[l].at = "saved" => file' = l

\* A login that started ends, whether or not the user ever scans a code.
LoginsEnd == \A l \in Logins : Running(l) ~> ~Running(l)
===============================================================================
