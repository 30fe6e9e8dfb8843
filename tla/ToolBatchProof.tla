---------------------------- MODULE ToolBatchProof ----------------------------
(***************************************************************************)
(* EffectsAuthorized, EffectsExcluded and ContextOutlivesCalls hold for    *)
(* any number of batches, calls and paths, any limit on parallel tools and *)
(* any grant.  The inductive invariant Sound says of a batch what its      *)
(* phase promises (BatchSound) and of a call what its place in the         *)
(* dispatch promises (CallSound); a step of a dispatch keeps the first     *)
(* because the scheduler sees only whether a frame exists, a step of the   *)
(* scheduler the second because it touches only calls not yet started.     *)
(***************************************************************************)
EXTENDS ToolBatch, FiniteSetTheorems, TLAPS

-----------------------------------------------------------------------------
\* The inductive invariant.

Typed ==
    /\ phase \in [Batches -> Phases]
    /\ outcome \in [Batches -> {"none", "results", "cancelled"}]
    /\ parentCancel \in [Batches -> BOOLEAN]
    /\ admitted \in [Batches -> Nat]
    /\ reported \in [Batches -> SUBSET Calls]
    /\ completion \in [Batches -> SUBSET Calls]
    /\ lag \in [Batches -> SUBSET Calls]
    /\ active \in [Batches -> Nat]
    /\ pc \in [Calls -> Locations]
    /\ cut \in [Calls -> BOOLEAN]
    /\ plan \in [Calls -> Plans]
    /\ hook \in [Calls -> {"none", "proceed", "veto", "require_approval"}]
    /\ recorded \in [Calls -> BOOLEAN]
    /\ held \subseteq Calls
    /\ uses \in Nat /\ issued \in Nat

Flying(b) == {c \in CallSet(b) : InFlight(c)}
Ended(b) == {c \in CallSet(b) : pc[c] \in {"done", "dropped"}}

\* What the phase of a batch promises.  The room a drained completion makes is
\* counted: frames and unread completions together stay within the limit.
BatchSound(b) ==
    /\ active[b] = Cardinality(Flying(b)) /\ active[b] <= MaxParallel
    /\ phase[b] = "draining" => active[b] + Cardinality(completion[b]) <= MaxParallel
    /\ completion[b] \cap reported[b] = {}
    /\ completion[b] \cup reported[b] = Ended(b)
    /\ admitted[b] <= Len(CallsOf[b])
    /\ \A i \in 1 .. Len(CallsOf[b]) : pc[CallsOf[b][i]] \in {"queued", "dropped"} <=> i > admitted[b]
    /\ phase[b] = "new" => admitted[b] = 0
    /\ phase[b] \in {"new", "draining"} => \A c \in CallSet(b) : pc[c] # "dropped"
    /\ phase[b] # "lagging" => lag[b] = {}
    /\ phase[b] = "freed" => active[b] = 0
    /\ outcome[b] = "results" => \A c \in CallSet(b) : pc[c] = "done"

\* What the place of a call in its dispatch promises.
CallSound(c) ==
    /\ pc[c] \in {"queued", "start", "before", "lock", "ask"} => plan[c] = "none"
    /\ pc[c] \in {"lock", "ask"} => hook[c] # "veto"
    /\ pc[c] \in {"audit", "run"} =>
         /\ hook[c] = "veto" => plan[c] = "refused"
         /\ hook[c] = "require_approval" => plan[c] # "allow"
    /\ pc[c] = "ask" => c \in held
    /\ pc[c] = "audit" /\ plan[c] \in {"allow", "approved"} => c \in held
    /\ pc[c] = "run" => recorded[c] /\ plan[c] \in {"allow", "approved"} /\ c \in held
    /\ c \in held => pc[c] \in {"ask", "audit", "run", "after"}

LocksApart ==
    \A c, d \in held : c # d /\ PathOf[c] = PathOf[d] => c \notin Writers /\ d \notin Writers

Sound ==
    /\ Typed
    /\ \A b \in Batches : BatchSound(b)
    /\ \A c \in Calls : CallSound(c)
    /\ LocksApart
    /\ ApprovalsCharged

-----------------------------------------------------------------------------
\* The calls and their places.

LEMMA Places ==
  ASSUME NEW b \in Batches
  PROVE  /\ Len(CallsOf[b]) \in Nat /\ DOMAIN CallsOf[b] = 1 .. Len(CallsOf[b])
         /\ CallSet(b) = {CallsOf[b][i] : i \in 1 .. Len(CallsOf[b])}
         /\ CallSet(b) \subseteq Calls
         /\ IsFiniteSet(CallSet(b))
         /\ \A i, j \in 1 .. Len(CallsOf[b]) : CallsOf[b][i] = CallsOf[b][j] => i = j
  <1>1. CallsOf[b] \in Seq(CallSet(b))
    BY CallsDistinct, Zenon DEF CallSet
  <1>2. Len(CallsOf[b]) \in Nat /\ DOMAIN CallsOf[b] = 1 .. Len(CallsOf[b])
    BY <1>1
  <1>3. CallSet(b) = {CallsOf[b][i] : i \in 1 .. Len(CallsOf[b])}
    BY <1>2, Zenon DEF CallSet, Range
  <1>4. CallsOf[b] \in Surjection(1 .. Len(CallsOf[b]), CallSet(b))
    BY <1>1, <1>2, <1>3 DEF Surjection
  <1>5. IsFiniteSet(CallSet(b))
    BY <1>2, <1>4, FS_Interval, FS_Surjection
  <1>6. CallSet(b) \subseteq Calls
    BY Zenon DEF CallSet, Calls
  <1>7. \A i, j \in 1 .. Len(CallsOf[b]) : CallsOf[b][i] = CallsOf[b][j] => i = j
    BY <1>2, CallsDistinct, Zenon
  <1> QED
    BY <1>2, <1>3, <1>5, <1>6, <1>7, Zenon

\* The call at a place of a batch is a call of that batch.
LEMMA Placed ==
  ASSUME NEW b \in Batches, NEW i \in 1 .. Len(CallsOf[b])
  PROVE  CallsOf[b][i] \in CallSet(b) /\ CallsOf[b][i] \in Calls
  BY Places, Zenon

LEMMA OwnBatch ==
  ASSUME NEW c \in Calls
  PROVE  /\ BatchOf(c) \in Batches /\ c \in CallSet(BatchOf(c))
         /\ \A b \in Batches : c \in CallSet(b) => b = BatchOf(c)
  <1>1. \E b \in Batches : c \in Range(CallsOf[b])
    BY Zenon DEF Calls
  <1>2. BatchOf(c) \in Batches /\ c \in Range(CallsOf[BatchOf(c)])
    BY <1>1, Zenon DEF BatchOf
  <1>3. ASSUME NEW b \in Batches, c \in CallSet(b) PROVE b = BatchOf(c)
    <2>1. PICK i \in DOMAIN CallsOf[b] : CallsOf[b][i] = c
      BY <1>3, Zenon DEF CallSet, Range
    <2>2. PICK j \in DOMAIN CallsOf[BatchOf(c)] : CallsOf[BatchOf(c)][j] = c
      BY <1>2, Zenon DEF Range
    <2> QED
      BY <1>2, <2>1, <2>2, CallsDistinct, Zenon
  <1> QED
    BY <1>2, <1>3, Zenon DEF CallSet

LEMMA FinitelyMany == IsFiniteSet(Calls)
  <1> DEFINE f == [b \in Batches |-> CallSet(b)]
             R == {CallSet(b) : b \in Batches}
  <1>1. f \in Surjection(Batches, R)
    BY Zenon DEF Surjection
  <1>2. IsFiniteSet(R)
    BY <1>1, CallsDistinct, FS_Surjection, Zenon
  <1>3. \A T \in R : IsFiniteSet(T)
    BY Places, Zenon
  <1>4. IsFiniteSet(UNION R)
    BY <1>2, <1>3, FS_UNION, Zenon
  <1>5. Calls = UNION R
    BY Zenon DEF Calls, CallSet
  <1> QED
    BY <1>4, <1>5, Zenon

LEMMA Counted ==
  ASSUME NEW b \in Batches, Typed
  PROVE  /\ IsFiniteSet(Flying(b)) /\ Cardinality(Flying(b)) \in Nat
         /\ IsFiniteSet(completion[b]) /\ Cardinality(completion[b]) \in Nat
  <1>1. Flying(b) \in SUBSET CallSet(b) /\ completion[b] \in SUBSET Calls
    BY Zenon DEF Flying, Typed
  <1>2. IsFiniteSet(Flying(b)) /\ IsFiniteSet(completion[b])
    BY <1>1, Places, FinitelyMany, FS_Subset, Zenon
  <1> QED
    BY <1>2, FS_CardinalityType, Zenon

-----------------------------------------------------------------------------
LEMMA SoundInit == Init => Sound
  <1> SUFFICES ASSUME Init PROVE Sound
    BY Zenon
  <1>1. Typed
    BY Bounds, Zenon DEF Init, Typed, Phases, Locations, Plans
  <1>2. ASSUME NEW b \in Batches PROVE BatchSound(b)
    <2>1. Flying(b) = {} /\ Ended(b) = {}
      BY Places, Zenon DEF Init, Flying, Ended, InFlight
    <2>2. Cardinality(Flying(b)) = 0 /\ Cardinality(completion[b]) = 0
      BY <2>1, FS_EmptySet, Zenon DEF Init
    <2>3. \A i \in 1 .. Len(CallsOf[b]) : CallsOf[b][i] \in Calls
      BY Places, Zenon
    <2>4. \A c \in CallSet(b) : pc[c] = "queued"
      BY Places, Zenon DEF Init
    <2> QED
      BY <2>1, <2>2, <2>3, <2>4, Places, Bounds DEF Init, BatchSound
  <1>3. \A c \in Calls : CallSound(c)
    BY Zenon DEF Init, CallSound
  <1>4. LocksApart
    BY Zenon DEF Init, LocksApart
  <1>5. ApprovalsCharged
    <2>1. {c \in Calls : plan[c] = "approved"} = {}
      BY Zenon DEF Init
    <2>2. Cardinality({c \in Calls : plan[c] = "approved"}) = 0
      BY <2>1, FS_EmptySet, Zenon
    <2> QED
      BY <2>2, Bounds DEF Init, ApprovalsCharged
  <1> QED
    BY <1>1, <1>2, <1>3, <1>4, <1>5, Zenon DEF Sound

-----------------------------------------------------------------------------
\* Steps inside a dispatch.

\* The frame of c goes on from one place of the dispatch to another.
Proceeds(c) ==
    /\ UNCHANGED batchVars
    /\ InFlight(c)
    /\ pc' = [pc EXCEPT ![c] = pc'[c]]
    /\ pc'[c] \in Locations \ {"queued", "done", "dropped"}

\* To the scheduler such a step is none.
LEMMA BatchesUnaware ==
  ASSUME Sound, NEW c \in Calls, Proceeds(c)
  PROVE  \A b \in Batches : BatchSound(b)'
  <1> SUFFICES ASSUME NEW b \in Batches PROVE BatchSound(b)'
    BY Zenon
  <1>1. BatchSound(b) /\ pc \in [Calls -> Locations]
    BY Zenon DEF Sound, Typed
  <1>2. \A d \in Calls : d # c => pc'[d] = pc[d]
    BY <1>1, Zenon DEF Proceeds
  <1>3. pc[c] \notin {"queued", "done", "dropped"} /\ pc'[c] \notin {"queued", "done", "dropped"}
    BY Zenon DEF Proceeds, InFlight
  <1>4. \A d \in Calls : /\ InFlight(d)' <=> InFlight(d)
                         /\ \A l \in {"queued", "done", "dropped"} : pc'[d] = l <=> pc[d] = l
    BY <1>2, <1>3, Zenon DEF InFlight
  <1>5. Flying(b)' = Flying(b) /\ Ended(b)' = Ended(b)
    BY <1>4, Places, Zenon DEF Flying, Ended, CallSet
  <1>6. \A d \in CallSet(b) : d \in Calls
    BY Places, Zenon
  <1>7. \A i \in 1 .. Len(CallsOf[b]) : CallsOf[b][i] \in Calls
    BY Places, Zenon
  <1>8. CallSet(b)' = CallSet(b)
    BY Zenon DEF CallSet
  <1>9. UNCHANGED <<phase, outcome, admitted, reported, completion, lag, active>>
    BY Zenon DEF Proceeds, batchVars
  <1> QED
    BY <1>1, <1>4, <1>5, <1>6, <1>7, <1>8, <1>9, Zenon DEF BatchSound

\* The calls a grant was charged for, when only the plan of c may change.
LEMMA ChargedCalls ==
  ASSUME Typed, NEW c \in Calls, plan' \in [Calls -> Plans], \A d \in Calls \ {c} : plan'[d] = plan[d]
  PROVE  LET A == {d \in Calls : plan[d] = "approved"}
         IN /\ Cardinality(A) \in Nat
            /\ (plan'[c] = "approved" <=> plan[c] = "approved") => A' = A
            /\ (plan'[c] = "approved" /\ plan[c] # "approved") => Cardinality(A') = Cardinality(A) + 1
  <1> DEFINE A == {d \in Calls : plan[d] = "approved"}
  <1>1. IsFiniteSet(A)
    BY FinitelyMany, FS_Subset, Zenon
  <1>2. Cardinality(A) \in Nat
    BY <1>1, FS_CardinalityType, Zenon
  <1>3. (plan'[c] = "approved" <=> plan[c] = "approved") => A' = A
    BY Zenon
  <1>4. ASSUME plan'[c] = "approved", plan[c] # "approved" PROVE Cardinality(A') = Cardinality(A) + 1
    <2>1. A' = A \cup {c} /\ c \notin A
      BY <1>4
    <2> HIDE DEF A
    <2> QED
      BY <1>1, <2>1, FS_AddElement, Zenon
  <1> QED
    BY <1>2, <1>3, <1>4, Zenon

\* What is left to show of a step of the dispatch of c is about c.
LEMMA DispatchKeeps ==
  ASSUME Sound, NEW c \in Calls, Proceeds(c), Typed',
         \A d \in Calls \ {c} : /\ plan'[d] = plan[d] /\ hook'[d] = hook[d] /\ recorded'[d] = recorded[d]
                                /\ d \in held' <=> d \in held,
         CallSound(c)', LocksApart', ApprovalsCharged'
  PROVE  Sound'
  <1>1. \A b \in Batches : BatchSound(b)'
    BY BatchesUnaware, Zenon
  <1>2. ASSUME NEW d \in Calls, d # c PROVE CallSound(d)'
    <2>1. pc'[d] = pc[d] /\ CallSound(d)
      BY <1>2, Zenon DEF Proceeds, Sound, Typed
    <2> QED
      BY <1>2, <2>1, Zenon DEF CallSound
  <1>3. (\A d \in Calls : CallSound(d))'
    BY <1>2, Zenon
  <1>4. (\A b \in Batches : BatchSound(b))'
    BY <1>1, Zenon
  <1> QED
    BY <1>3, <1>4, Zenon DEF Sound

\* A step that changes no lock, no plan and no use of the grant.
LEMMA MovesOn ==
  ASSUME Sound, NEW c \in Calls, Proceeds(c), UNCHANGED <<plan, held, uses, issued>>, Typed', CallSound(c)',
         \A d \in Calls \ {c} : hook'[d] = hook[d] /\ recorded'[d] = recorded[d]
  PROVE  Sound'
  <1>1. LocksApart' /\ ApprovalsCharged'
    BY Zenon DEF Sound, LocksApart, ApprovalsCharged
  <1> QED
    BY <1>1, DispatchKeeps, Zenon

LEMMA TimeoutKeeps ==
  ASSUME Sound, NEW c \in Calls, TimeoutFires(c)
  PROVE  Sound'
  <1>1. Typed' /\ Typed
    BY Zenon DEF Sound, Typed, TimeoutFires, batchVars, grantVars
  <1>2. Proceeds(c)
    BY <1>1, Zenon DEF Typed, TimeoutFires, Proceeds, InFlight
  <1>3. CallSound(c)'
    BY Zenon DEF Sound, CallSound, TimeoutFires
  <1>4. UNCHANGED <<plan, held, uses, issued, hook, recorded>>
    BY Zenon DEF TimeoutFires, grantVars
  <1> QED
    BY <1>1, <1>2, <1>3, <1>4, MovesOn, Zenon

LEMMA StartKeeps ==
  ASSUME Sound, NEW c \in Calls, Start(c)
  PROVE  Sound'
  <1>1. Typed' /\ Typed
    BY Zenon DEF Sound, Typed, Start, batchVars, grantVars, Locations
  <1>2. Proceeds(c)
    BY <1>1 DEF Typed, Start, Proceeds, InFlight, Locations
  <1>3. CallSound(c)'
    BY <1>1, Zenon DEF Sound, CallSound, Start, Typed
  <1>4. UNCHANGED <<plan, held, uses, issued, hook, recorded>>
    BY Zenon DEF Start, grantVars
  <1> QED
    BY <1>1, <1>2, <1>3, <1>4, MovesOn, Zenon

LEMMA UnwindKeeps ==
  ASSUME Sound, NEW c \in Calls, Unwind(c)
  PROVE  Sound'
  <1>1. Typed' /\ Typed
    BY Zenon DEF Sound, Typed, Unwind, batchVars, grantVars, Locations
  <1>2. Proceeds(c)
    BY <1>1 DEF Typed, Unwind, Proceeds, InFlight, Locations
  <1>3. CallSound(c)'
    BY <1>1 DEF Sound, CallSound, Unwind, Typed
  <1>4. UNCHANGED <<plan, held, uses, issued, hook, recorded>>
    BY Zenon DEF Unwind, grantVars
  <1> QED
    BY <1>1, <1>2, <1>3, <1>4, MovesOn, Zenon

LEMMA HandlerEndsKeeps ==
  ASSUME Sound, NEW c \in Calls, HandlerEnds(c)
  PROVE  Sound'
  <1>1. Typed' /\ Typed
    BY Zenon DEF Sound, Typed, HandlerEnds, batchVars, grantVars, Locations
  <1>2. Proceeds(c)
    BY <1>1 DEF Typed, HandlerEnds, Proceeds, InFlight, Locations
  <1>3. CallSound(c)'
    BY <1>1 DEF Sound, CallSound, HandlerEnds, Typed
  <1>4. UNCHANGED <<plan, held, uses, issued, hook, recorded>>
    BY Zenon DEF HandlerEnds, grantVars
  <1> QED
    BY <1>1, <1>2, <1>3, <1>4, MovesOn, Zenon

LEMMA RecordKeeps ==
  ASSUME Sound, NEW c \in Calls, Record(c)
  PROVE  Sound'
  <1> PICK ok \in BOOLEAN :
         /\ recorded' = [recorded EXCEPT ![c] = ok]
         /\ pc' = [pc EXCEPT ![c] = IF ok /\ ~cut[c] /\ plan[c] \in {"allow", "approved"}
                                    THEN "run" ELSE "after"]
    BY Zenon DEF Record
  <1>1. Typed' /\ Typed
    BY Zenon DEF Sound, Typed, Record, batchVars, grantVars, Locations
  <1>2. Proceeds(c)
    BY <1>1 DEF Typed, Record, Proceeds, InFlight, Locations
  <1>3. CallSound(c)'
    BY <1>1 DEF Sound, CallSound, Record, Typed
  <1>4. UNCHANGED <<plan, held, uses, issued, hook>> /\ \A d \in Calls \ {c} : recorded'[d] = recorded[d]
    BY <1>1 DEF Record, grantVars, Typed
  <1> QED
    BY <1>1, <1>2, <1>3, <1>4, MovesOn, Zenon

LEMMA BeforeKeeps ==
  ASSUME Sound, NEW c \in Calls, Before(c)
  PROVE  Sound'
  <1> PICK decision \in {"proceed", "veto", "require_approval"}, prepared \in BOOLEAN :
         /\ hook' = [hook EXCEPT ![c] = decision]
         /\ plan' = [plan EXCEPT ![c] = IF decision = "veto" \/ ~prepared THEN "refused" ELSE @]
         /\ pc' = [pc EXCEPT ![c] = IF decision # "veto" /\ prepared THEN "lock" ELSE "audit"]
    BY Zenon DEF Before
  <1>1. Typed' /\ Typed
    BY Zenon DEF Sound, Typed, Before, batchVars, grantVars, Locations, Plans
  <1>2. Proceeds(c)
    BY <1>1 DEF Typed, Before, Proceeds, InFlight, Locations
  <1>3. CallSound(c)'
    <2>1. /\ hook'[c] = decision
          /\ plan'[c] = IF decision = "veto" \/ ~prepared THEN "refused" ELSE plan[c]
          /\ pc'[c] = IF decision # "veto" /\ prepared THEN "lock" ELSE "audit"
          /\ held' = held /\ pc[c] = "before"
      BY <1>1 DEF Typed, Before
    <2>2. plan[c] = "none" /\ c \notin held
      BY <2>1, Zenon DEF Sound, CallSound
    <2> QED
      BY <2>1, <2>2 DEF CallSound
  <1>4. \A d \in Calls \ {c} : plan'[d] = plan[d] /\ hook'[d] = hook[d]
    BY <1>1 DEF Typed
  <1>5. UNCHANGED <<held, uses, issued, recorded>>
    BY Zenon DEF Before, grantVars
  <1>6. LocksApart'
    BY <1>5, Zenon DEF Sound, LocksApart
  <1>7. plan[c] # "approved" /\ plan'[c] # "approved"
    BY <1>1, SMTT(30) DEF Sound, CallSound, Before, Typed
  <1>8. ApprovalsCharged'
    BY <1>1, <1>4, <1>5, <1>7, ChargedCalls, Zenon DEF Sound, ApprovalsCharged, Typed
  <1> QED
    BY <1>1, <1>2, <1>3, <1>4, <1>5, <1>6, <1>8, DispatchKeeps, Zenon

\* ApprovalBroker::check charges the use it approves.
LEMMA CheckKeeps ==
  ASSUME Typed, NEW c \in Calls, plan[c] # "approved", NEW n \in Nat, NEW valid \in BOOLEAN,
         Check(c, n, valid), issued' \in Nat,
         n + Cardinality({d \in Calls : plan[d] = "approved"}) <= issued'
  PROVE  /\ uses' \in Nat /\ plan' \in [Calls -> Plans] /\ plan'[c] \in {"approved", "refused"}
         /\ \A d \in Calls \ {c} : plan'[d] = plan[d]
         /\ ApprovalsCharged'
  <1>1. /\ uses' \in Nat /\ plan' \in [Calls -> Plans] /\ plan'[c] \in {"approved", "refused"}
        /\ \A d \in Calls \ {c} : plan'[d] = plan[d]
    BY DEF Check, Typed, Plans
  <1> DEFINE A == {d \in Calls : plan[d] = "approved"}
  <1>2. /\ Cardinality(A) \in Nat
        /\ plan'[c] # "approved" => A' = A
        /\ plan'[c] = "approved" => Cardinality(A') = Cardinality(A) + 1
    BY <1>1, ChargedCalls, Zenon
  <1>3. n + Cardinality(A) <= issued'
    BY Zenon
  <1>4. CASE valid /\ n > 0
    <2>1. uses' = n - 1 /\ plan'[c] = "approved"
      BY <1>4, Zenon DEF Check, Typed
    <2>2. uses' + Cardinality(A') <= issued'
      <3> HIDE DEF A
      <3> QED
        BY <1>2, <1>3, <2>1
    <2> QED
      BY <1>1, <2>2, Zenon DEF ApprovalsCharged
  <1>5. CASE ~(valid /\ n > 0)
    <2>1. uses' = n /\ plan'[c] = "refused"
      BY <1>5, Zenon DEF Check, Typed
    <2>2. uses' + Cardinality(A') <= issued'
      <3> HIDE DEF A
      <3> QED
        BY <1>2, <1>3, <2>1, Zenon
    <2> QED
      BY <1>1, <2>2, Zenon DEF ApprovalsCharged
  <1> QED
    BY <1>1, <1>4, <1>5, Zenon

LEMMA AnswerKeeps ==
  ASSUME Sound, NEW c \in Calls, Answer(c)
  PROVE  Sound'
  <1>1. Typed /\ CallSound(c) /\ ApprovalsCharged /\ LocksApart
    BY Zenon DEF Sound
  <1>2. plan[c] = "none" /\ pc[c] = "ask" /\ hook[c] # "veto" /\ c \in held
    BY <1>1, Zenon DEF CallSound, Answer
  <1>3. UNCHANGED <<batchVars, cut, hook, recorded, held>>
    BY Zenon DEF Answer
  <1>4. /\ pc' = [pc EXCEPT ![c] = IF ~cut[c] THEN "audit" ELSE "after"]
        /\ pc' \in [Calls -> Locations] /\ pc'[c] \in {"audit", "after"}
    BY <1>1, Zenon DEF Answer, Typed, Locations
  <1>5. /\ uses' \in Nat /\ issued' \in Nat /\ plan' \in [Calls -> Plans] /\ plan'[c] \in {"approved", "refused"}
        /\ \A d \in Calls \ {c} : plan'[d] = plan[d]
        /\ ApprovalsCharged'
    <2>1. CASE Check(c, ReplayMax, TRUE) /\ issued' = issued + ReplayMax
      <3>1. Cardinality({d \in Calls : plan[d] = "approved"}) \in Nat
        <4>1. IsFiniteSet({d \in Calls : plan[d] = "approved"})
          BY FinitelyMany, FS_Subset, Zenon
        <4> QED
          BY <4>1, FS_CardinalityType, Zenon
      <3>2. ReplayMax + Cardinality({d \in Calls : plan[d] = "approved"}) <= issued'
        BY <1>1, <2>1, <3>1, Bounds DEF ApprovalsCharged, Typed
      <3>3. issued' \in Nat /\ ReplayMax \in Nat
        BY <1>1, <2>1, Bounds DEF Typed
      <3> QED
        BY <1>1, <1>2, <2>1, <3>2, <3>3, CheckKeeps, Zenon
    <2>2. CASE plan' = [plan EXCEPT ![c] = "refused"] /\ UNCHANGED <<uses, issued>>
      <3>1. plan' \in [Calls -> Plans] /\ plan'[c] = "refused" /\ \A d \in Calls \ {c} : plan'[d] = plan[d]
        BY <1>1, <2>2, Zenon DEF Typed, Plans
      <3>2. {d \in Calls : plan[d] = "approved"}' = {d \in Calls : plan[d] = "approved"}
        BY <1>2, <3>1, Zenon
      <3> QED
        BY <1>1, <2>2, <3>1, <3>2, Zenon DEF ApprovalsCharged, Typed
    <2> QED
      BY <2>1, <2>2, Zenon DEF Answer
  <1>6. Typed'
    BY <1>1, <1>3, <1>4, <1>5, Zenon DEF Typed, batchVars
  <1>7. Proceeds(c)
    BY <1>1, <1>2, <1>3, <1>4, Zenon DEF Typed, Proceeds, InFlight, Locations
  <1>8. CallSound(c)'
    BY <1>2, <1>3, <1>4, <1>5, Zenon DEF CallSound
  <1>9. LocksApart'
    BY <1>1, <1>3, Zenon DEF LocksApart
  <1> QED
    BY <1>3, <1>5, <1>6, <1>7, <1>8, <1>9, DispatchKeeps, Zenon

LEMMA LockAndDecideKeeps ==
  ASSUME Sound, NEW c \in Calls, LockAndDecide(c)
  PROVE  Sound'
  <1>1. Typed /\ CallSound(c) /\ ApprovalsCharged /\ LocksApart
    BY Zenon DEF Sound
  <1>2. plan[c] = "none" /\ pc[c] = "lock" /\ hook[c] # "veto" /\ CanLock(c) /\ held' = held \cup {c}
    BY <1>1, Zenon DEF CallSound, LockAndDecide
  <1>3. UNCHANGED <<batchVars, cut, hook, recorded, issued>>
    BY Zenon DEF LockAndDecide
  <1>4. PICK rules \in {"allow", "ask", "deny"}, resolved \in BOOLEAN :
          LET asks == resolved /\ Verdict(c, rules) = "ask"
              withToken == BatchOf(c) \in Tokened
          IN /\ pc' = [pc EXCEPT ![c] = IF asks /\ ~withToken THEN "ask" ELSE "audit"]
             /\ IF asks /\ withToken
                THEN \E valid \in BOOLEAN : Check(c, uses, valid)
                ELSE /\ plan' = [plan EXCEPT ![c] = IF asks THEN @
                                                    ELSE IF resolved /\ rules = "allow" THEN "allow"
                                                    ELSE "refused"]
                     /\ UNCHANGED uses
    BY Zenon DEF LockAndDecide
  <1> DEFINE asks == resolved /\ Verdict(c, rules) = "ask"
             withToken == BatchOf(c) \in Tokened
  <1>5. /\ pc' \in [Calls -> Locations] /\ pc' = [pc EXCEPT ![c] = pc'[c]]
        /\ pc'[c] = IF asks /\ ~withToken THEN "ask" ELSE "audit"
    BY <1>1, <1>4, Zenon DEF Typed, Locations
  <1>6. /\ uses' \in Nat /\ plan' \in [Calls -> Plans]
        /\ \A d \in Calls \ {c} : plan'[d] = plan[d]
        /\ ApprovalsCharged'
        /\ pc'[c] = "ask" => plan'[c] = "none"
        /\ hook[c] = "require_approval" => plan'[c] # "allow"
    <2>1. CASE asks /\ withToken
      <3>1. PICK valid \in BOOLEAN : Check(c, uses, valid)
        BY <1>4, <2>1, Zenon
      <3>2. uses \in Nat /\ issued' \in Nat /\ uses + Cardinality({d \in Calls : plan[d] = "approved"}) <= issued'
        BY <1>1, <1>3, Zenon DEF Typed, ApprovalsCharged
      <3>3. /\ uses' \in Nat /\ plan' \in [Calls -> Plans] /\ plan'[c] \in {"approved", "refused"}
            /\ \A d \in Calls \ {c} : plan'[d] = plan[d]
            /\ ApprovalsCharged'
        BY <1>1, <1>2, <3>1, <3>2, CheckKeeps, Zenon
      <3> QED
        BY <1>5, <2>1, <3>3, Zenon
    <2>2. CASE ~(asks /\ withToken)
      <3>1. /\ plan' = [plan EXCEPT ![c] = IF asks THEN @
                                           ELSE IF resolved /\ rules = "allow" THEN "allow" ELSE "refused"]
            /\ uses' = uses
        BY <1>4, <2>2, Zenon
      <3>2. plan' \in [Calls -> Plans] /\ plan'[c] # "approved" /\ \A d \in Calls \ {c} : plan'[d] = plan[d]
        BY <1>1, <1>2, <3>1, Zenon DEF Typed, Plans
      <3>3. {d \in Calls : plan[d] = "approved"}' = {d \in Calls : plan[d] = "approved"}
        BY <1>2, <3>2, Zenon
      <3>4. ApprovalsCharged' /\ uses' \in Nat
        BY <1>1, <1>3, <3>1, <3>3, Zenon DEF ApprovalsCharged, Typed
      <3>5. pc'[c] = "ask" => plan'[c] = "none"
        BY <1>1, <1>2, <1>5, <3>1, Zenon DEF Typed
      <3>6. hook[c] = "require_approval" => plan'[c] # "allow"
        BY <1>1, <1>2, <3>1, Zenon DEF Typed, Verdict
      <3> QED
        BY <3>2, <3>4, <3>5, <3>6, Zenon
    <2> QED
      BY <2>1, <2>2, Zenon
  <1>7. Typed'
    BY <1>1, <1>2, <1>3, <1>5, <1>6, Zenon DEF Typed, batchVars
  <1>8. Proceeds(c)
    BY <1>1, <1>2, <1>3, <1>5, Zenon DEF Typed, Proceeds, InFlight, Locations
  <1>9. CallSound(c)'
    BY <1>2, <1>3, <1>5, <1>6, Zenon DEF CallSound
  <1>10. LocksApart'
    BY <1>1, <1>2, Zenon DEF LocksApart, CanLock
  <1>11. \A d \in Calls \ {c} : d \in held' <=> d \in held
    BY <1>2, Zenon
  <1> QED
    BY <1>3, <1>6, <1>7, <1>8, <1>9, <1>10, <1>11, DispatchKeeps, Zenon

-----------------------------------------------------------------------------
\* The end of a dispatch.

LEMMA CompleteKeeps ==
  ASSUME Sound, NEW c \in Calls, InFlight(c), Complete(c),
         UNCHANGED <<outcome, parentCancel, admitted, reported, lag, grantVars>>
  PROVE  Sound'
  <1> DEFINE b == BatchOf(c)
  <1>1. Typed /\ LocksApart /\ ApprovalsCharged
    BY Zenon DEF Sound
  <1>2. b \in Batches /\ c \in CallSet(b) /\ \A a \in Batches \ {b} : c \notin CallSet(a)
    BY OwnBatch, Zenon
  <1>3. BatchSound(b) /\ CallSet(b) \subseteq Calls /\ pc[c] \notin {"queued", "done", "dropped"}
    BY <1>2, Places, Zenon DEF Sound, InFlight
  <1>4. /\ pc' \in [Calls -> Locations] /\ pc'[c] = "done" /\ \A d \in Calls \ {c} : pc'[d] = pc[d]
        /\ held' = held \ {c}
        /\ plan' \in [Calls -> Plans] /\ \A d \in Calls \ {c} : plan'[d] = plan[d]
        /\ plan'[c] = "approved" <=> plan[c] = "approved"
        /\ hook' \in [Calls -> {"none", "proceed", "veto", "require_approval"}]
        /\ \A d \in Calls \ {c} : hook'[d] = hook[d] /\ recorded'[d] = recorded[d]
        /\ cut' \in [Calls -> BOOLEAN] /\ recorded' \in [Calls -> BOOLEAN]
    BY <1>1, Zenon DEF Complete, Typed, Locations, Plans
  <1>5. /\ active' = [active EXCEPT ![b] = @ - 1] /\ completion' = [completion EXCEPT ![b] = @ \cup {c}]
        /\ phase' = [a \in Batches |-> IF phase[a] = "parked" THEN "returned" ELSE phase[a]]
    BY Zenon DEF Complete, Woken
  <1>6. c \in Flying(b) /\ c \notin Ended(b) /\ c \notin completion[b]
    BY <1>2, <1>3, Zenon DEF Flying, Ended, InFlight, BatchSound
  <1>7. Flying(b)' = Flying(b) \ {c} /\ Ended(b)' = Ended(b) \cup {c}
    BY <1>2, <1>3, <1>4 DEF Flying, Ended, InFlight, CallSet
  <1>8. Cardinality(Flying(b)') = Cardinality(Flying(b)) - 1 /\ Cardinality(Flying(b)) \in Nat \ {0}
    <2>1. IsFiniteSet(Flying(b)) /\ Cardinality(Flying(b)) \in Nat /\ Flying(b) # {}
      BY <1>1, <1>2, <1>6, Counted, Zenon
    <2>2. Cardinality(Flying(b)) # 0
      BY <2>1, FS_EmptySet, Zenon
    <2>3. Cardinality(Flying(b) \ {c}) = Cardinality(Flying(b)) - 1
      BY <1>6, <2>1, FS_RemoveElement, Zenon
    <2> QED
      BY <1>7, <2>1, <2>2, <2>3, Zenon
  <1>9. Cardinality(completion[b] \cup {c}) = Cardinality(completion[b]) + 1 /\ Cardinality(completion[b]) \in Nat
    BY <1>1, <1>2, <1>6, Counted, FS_AddElement, ZenonT(30)
  <1>10. /\ active'[b] = active[b] - 1 /\ completion'[b] = completion[b] \cup {c}
         /\ phase'[b] = IF phase[b] = "parked" THEN "returned" ELSE phase[b]
         /\ UNCHANGED <<outcome, admitted, reported, lag>>
    BY <1>1, <1>2, <1>5, Zenon DEF Typed
  <1>11. active[b] = Cardinality(Flying(b)) /\ active[b] \in Nat
    <2>1. active[b] = Cardinality(Flying(b))
      BY <1>3, Zenon DEF BatchSound
    <2>2. active[b] \in Nat
      BY <1>1, <1>2, Zenon DEF Typed
    <2> QED
      BY <2>1, <2>2, Zenon
  <1>12. BatchSound(b)'
    <2>1. active'[b] = Cardinality(Flying(b)') /\ active'[b] <= MaxParallel
      <3>1. active[b] <= MaxParallel
        BY <1>3, Zenon DEF BatchSound
      <3> QED
        BY <1>8, <1>10, <1>11, <3>1, Bounds
    <2>2. phase'[b] = "draining" => active'[b] + Cardinality(completion'[b]) <= MaxParallel
      <3>1. phase[b] = "draining" => active[b] + Cardinality(completion[b]) <= MaxParallel
        BY <1>3, Zenon DEF BatchSound
      <3>2. phase'[b] = "draining" => phase[b] = "draining"
        BY <1>10, Zenon
      <3>3. active'[b] + Cardinality(completion'[b]) = active[b] + Cardinality(completion[b])
        BY <1>9, <1>10, <1>11
      <3> QED
        BY <3>1, <3>2, <3>3, Zenon
    <2>3. completion'[b] \cap reported'[b] = {} /\ completion'[b] \cup reported'[b] = Ended(b)'
      <3>1. completion[b] \cap reported[b] = {} /\ completion[b] \cup reported[b] = Ended(b)
        BY <1>3, Zenon DEF BatchSound
      <3> QED
        BY <1>6, <1>7, <1>10, <3>1, Zenon
    <2>4. \A i \in 1 .. Len(CallsOf[b]) : pc'[CallsOf[b][i]] \in {"queued", "dropped"} <=> i > admitted'[b]
      <3>1. \A i \in 1 .. Len(CallsOf[b]) : CallsOf[b][i] \in Calls
        BY <1>2, Places, Zenon
      <3>2. \A i \in 1 .. Len(CallsOf[b]) : pc[CallsOf[b][i]] \in {"queued", "dropped"} <=> i > admitted[b]
        BY <1>3, Zenon DEF BatchSound
      <3> QED
        BY <1>3, <1>4, <1>10, <3>1, <3>2, ZenonT(30)
    <2>5. \A d \in CallSet(b) : (pc[d] # "dropped" => pc'[d] # "dropped") /\ (pc[d] = "done" => pc'[d] = "done")
      BY <1>3, <1>4, Zenon
    <2>6. phase'[b] # "freed"
      <3>1. phase[b] = "freed" => active[b] = 0
        BY <1>3, Zenon DEF BatchSound
      <3>2. active[b] # 0
        BY <1>8, <1>11, Zenon
      <3> QED
        BY <1>10, <3>1, <3>2, Zenon
    <2>7. CallSet(b)' = CallSet(b)
      BY Zenon DEF CallSet
    <2> HIDE DEF b
    <2>8. /\ admitted'[b] <= Len(CallsOf[b])
          /\ phase'[b] = "new" => admitted'[b] = 0
          /\ phase'[b] \in {"new", "draining"} => \A d \in CallSet(b) : pc'[d] # "dropped"
          /\ phase'[b] # "lagging" => lag'[b] = {}
          /\ outcome'[b] = "results" => \A d \in CallSet(b) : pc'[d] = "done"
      BY <1>3, <1>10, <2>5, ZenonT(30) DEF BatchSound
    <2> QED
      BY <2>1, <2>2, <2>3, <2>4, <2>6, <2>7, <2>8, Zenon DEF BatchSound
  <1>13. ASSUME NEW a \in Batches, a # b PROVE BatchSound(a)'
    <2>1. \A d \in CallSet(a) : d \in Calls /\ d # c
      <3>1. CallSet(a) \subseteq Calls
        BY Places, Zenon
      <3> QED
        BY <1>2, <1>13, <3>1, Zenon
    <2>2. \A d \in CallSet(a) : pc'[d] = pc[d]
      BY <1>4, <2>1, Zenon
    <2>3. Flying(a)' = Flying(a) /\ Ended(a)' = Ended(a) /\ CallSet(a)' = CallSet(a)
      BY <2>2, Zenon DEF Flying, Ended, InFlight, CallSet
    <2>4. \A i \in 1 .. Len(CallsOf[a]) : CallsOf[a][i] \in CallSet(a)
      BY Places
    <2>5. /\ active'[a] = active[a] /\ completion'[a] = completion[a]
          /\ phase'[a] = IF phase[a] = "parked" THEN "returned" ELSE phase[a]
          /\ outcome'[a] = outcome[a] /\ admitted'[a] = admitted[a] /\ reported'[a] = reported[a] /\ lag'[a] = lag[a]
      BY <1>1, <1>5, <1>10, <1>13, Zenon DEF Typed
    <2>6. BatchSound(a)
      BY Zenon DEF Sound
    <2> QED
      BY <2>2, <2>3, <2>4, <2>5, <2>6, Zenon DEF BatchSound
  <1>14. Typed'
    <2>1. active' \in [Batches -> Nat]
      BY <1>1, <1>2, <1>5, <1>8, <1>11, SMTT(30) DEF Typed
    <2>2. completion' \in [Batches -> SUBSET Calls] /\ phase' \in [Batches -> Phases]
      BY <1>1, <1>2, <1>5, Zenon DEF Typed, Phases
    <2>3. UNCHANGED <<outcome, parentCancel, admitted, reported, lag, uses, issued>> /\ held' \subseteq Calls
      BY <1>1, <1>4, Zenon DEF grantVars, Typed
    <2> QED
      BY <1>1, <1>4, <2>1, <2>2, <2>3, Zenon DEF Typed
  <1>15. ASSUME NEW d \in Calls PROVE CallSound(d)'
    <2>1. CASE d = c
      BY <1>4, <2>1, Zenon DEF CallSound
    <2>2. CASE d # c
      <3>1. CallSound(d)
        BY Zenon DEF Sound
      <3> QED
        BY <1>4, <2>2, <3>1, Zenon DEF CallSound
    <2> QED
      BY <2>1, <2>2, Zenon
  <1>16. LocksApart'
    BY <1>1, <1>4, Zenon DEF LocksApart
  <1>17. ApprovalsCharged'
    <2>1. {d \in Calls : plan[d] = "approved"}' = {d \in Calls : plan[d] = "approved"}
      BY <1>4, Zenon
    <2> QED
      BY <1>1, <2>1, Zenon DEF ApprovalsCharged, grantVars
  <1> QED
    BY <1>12, <1>13, <1>14, <1>15, <1>16, <1>17, Zenon DEF Sound

-----------------------------------------------------------------------------
\* Steps of the scheduler.

\* What is left to show of a step of run_batch or wait_idle for b is about b.
LEMMA SchedulerKeeps ==
  ASSUME Sound, NEW b \in Batches, Typed', BatchSound(b)', UNCHANGED <<plan, hook, recorded, held, grantVars>>,
         \A d \in Calls : \/ pc'[d] = pc[d]
                          \/ d \in CallSet(b) /\ pc[d] = "queued" /\ pc'[d] \in {"start", "dropped"},
         \A a \in Batches \ {b} :
           /\ phase'[a] = phase[a] /\ outcome'[a] = outcome[a] /\ admitted'[a] = admitted[a]
           /\ reported'[a] = reported[a] /\ completion'[a] = completion[a]
           /\ lag'[a] = lag[a] /\ active'[a] = active[a]
  PROVE  Sound'
  <1>1. ASSUME NEW a \in Batches, a # b PROVE BatchSound(a)'
    <2>1. \A d \in CallSet(a) : d \in Calls /\ d \notin CallSet(b)
      BY <1>1, Places, OwnBatch, Zenon
    <2>2. \A d \in CallSet(a) : pc'[d] = pc[d]
      BY <2>1, Zenon
    <2>3. Flying(a)' = Flying(a) /\ Ended(a)' = Ended(a) /\ CallSet(a)' = CallSet(a)
      BY <2>2, Zenon DEF Flying, Ended, InFlight, CallSet
    <2>4. \A i \in 1 .. Len(CallsOf[a]) : CallsOf[a][i] \in CallSet(a)
      BY Places, ZenonT(30)
    <2>5. BatchSound(a)
      BY Zenon DEF Sound
    <2>6. /\ phase'[a] = phase[a] /\ outcome'[a] = outcome[a] /\ admitted'[a] = admitted[a]
          /\ reported'[a] = reported[a] /\ completion'[a] = completion[a]
          /\ lag'[a] = lag[a] /\ active'[a] = active[a]
      BY <1>1, Zenon
    <2>7. \A i \in 1 .. Len(CallsOf[a]) : pc'[CallsOf[a][i]] = pc[CallsOf[a][i]]
      BY <2>2, <2>4, Zenon
    <2>8. /\ active[a] = Cardinality(Flying(a)) /\ active[a] <= MaxParallel
          /\ phase[a] = "draining" => active[a] + Cardinality(completion[a]) <= MaxParallel
          /\ completion[a] \cap reported[a] = {} /\ completion[a] \cup reported[a] = Ended(a)
          /\ admitted[a] <= Len(CallsOf[a]) /\ (phase[a] = "new" => admitted[a] = 0)
          /\ phase[a] # "lagging" => lag[a] = {}
          /\ phase[a] = "freed" => active[a] = 0
      BY <2>5, Zenon DEF BatchSound
    <2>9. /\ \A i \in 1 .. Len(CallsOf[a]) : pc'[CallsOf[a][i]] \in {"queued", "dropped"} <=> i > admitted'[a]
          /\ phase'[a] \in {"new", "draining"} => \A d \in CallSet(a) : pc'[d] # "dropped"
          /\ outcome'[a] = "results" => \A d \in CallSet(a) : pc'[d] = "done"
      <3>1. /\ \A i \in 1 .. Len(CallsOf[a]) : pc[CallsOf[a][i]] \in {"queued", "dropped"} <=> i > admitted[a]
            /\ phase[a] \in {"new", "draining"} => \A d \in CallSet(a) : pc[d] # "dropped"
            /\ outcome[a] = "results" => \A d \in CallSet(a) : pc[d] = "done"
        BY <2>5, Zenon DEF BatchSound
      <3>2. \A i \in 1 .. Len(CallsOf[a]) : pc'[CallsOf[a][i]] \in {"queued", "dropped"} <=> i > admitted'[a]
        BY <2>6, <2>7, <3>1, Zenon
      <3>3. phase'[a] \in {"new", "draining"} => \A d \in CallSet(a) : pc'[d] # "dropped"
        BY <2>2, <2>6, <3>1, Zenon
      <3>4. outcome'[a] = "results" => \A d \in CallSet(a) : pc'[d] = "done"
        BY <2>2, <2>6, <3>1, ZenonT(30)
      <3> QED
        BY <3>2, <3>3, <3>4, Zenon
    <2> QED
      BY <2>3, <2>6, <2>8, <2>9, Zenon DEF BatchSound
  <1>2. ASSUME NEW d \in Calls PROVE CallSound(d)'
    <2>1. CallSound(d)
      BY Zenon DEF Sound
    <2> QED
      BY <2>1, Zenon DEF CallSound
  <1>3. LocksApart' /\ ApprovalsCharged'
    BY Zenon DEF Sound, LocksApart, ApprovalsCharged, grantVars
  <1> QED
    BY <1>1, <1>2, <1>3, Zenon DEF Sound

\* start_call for the next calls of b, up to the one at `to`.
LEMMA StartedCalls ==
  ASSUME Sound, NEW b \in Batches, NEW to \in admitted[b] .. Len(CallsOf[b]),
         \A c \in CallSet(b) : pc[c] # "dropped", StartCalls(b, admitted[b], to)
  PROVE  /\ pc' \in [Calls -> Locations] /\ admitted' \in [Batches -> Nat] /\ active' \in [Batches -> Nat]
         /\ \A d \in Calls : pc'[d] = pc[d] \/ (d \in CallSet(b) /\ pc[d] = "queued" /\ pc'[d] = "start")
         /\ \A a \in Batches \ {b} : admitted'[a] = admitted[a] /\ active'[a] = active[a]
         /\ admitted'[b] = to /\ active'[b] = active[b] + (to - admitted[b])
         /\ active'[b] = Cardinality(Flying(b)') /\ Ended(b)' = Ended(b)
         /\ \A i \in 1 .. Len(CallsOf[b]) : pc'[CallsOf[b][i]] \in {"queued", "dropped"} <=> i > to
  <1>1. Typed /\ BatchSound(b) /\ admitted[b] \in Nat /\ Len(CallsOf[b]) \in Nat /\ active[b] \in Nat
    BY Places, Zenon DEF Sound, Typed
  <1>2. to \in Nat /\ admitted[b] <= to /\ to <= Len(CallsOf[b])
    BY <1>1
  <1> DEFINE from == admitted[b]
             I == from + 1 .. to
             N == {CallsOf[b][i] : i \in I}
  <1>3. I \subseteq 1 .. Len(CallsOf[b])
    BY <1>1, <1>2, SMTT(30)
  <1>4. N \subseteq CallSet(b) /\ CallSet(b) \subseteq Calls
    <2>1. N \subseteq CallSet(b)
      BY <1>3, Placed, Zenon
    <2>2. CallSet(b) \subseteq Calls
      BY Places, Zenon
    <2> QED
      BY <2>1, <2>2, Zenon
  <1>5. \A c \in Calls : pc'[c] = IF c \in N THEN "start" ELSE pc[c]
    BY Zenon DEF StartCalls
  <1>6. \A i \in 1 .. Len(CallsOf[b]) : CallsOf[b][i] \in N <=> i > from /\ i <= to
    <2>1. \A i, j \in 1 .. Len(CallsOf[b]) : CallsOf[b][i] = CallsOf[b][j] => i = j
      BY Places, Zenon
    <2>2. ASSUME NEW i \in 1 .. Len(CallsOf[b]), CallsOf[b][i] \in N PROVE i > from /\ i <= to
      <3>1. PICK j \in I : CallsOf[b][j] = CallsOf[b][i]
        BY <2>2, Zenon
      <3>2. j = i
        BY <1>3, <2>1, <3>1, Zenon
      <3> QED
        BY <1>1, <1>2, <3>1, <3>2
    <2>3. ASSUME NEW i \in 1 .. Len(CallsOf[b]), i > from, i <= to PROVE CallsOf[b][i] \in N
      <3>1. i \in I
        BY <1>1, <1>2, <2>3
      <3> QED
        BY <3>1, Zenon
    <2> QED
      BY <2>2, <2>3, Zenon
  <1>7. \A c \in N : pc[c] = "queued"
    <2>1. /\ \A i \in 1 .. Len(CallsOf[b]) : pc[CallsOf[b][i]] \in {"queued", "dropped"} <=> i > from
          /\ \A c \in CallSet(b) : pc[c] # "dropped"
      BY <1>1, Zenon DEF BatchSound
    <2>2. ASSUME NEW i \in I PROVE pc[CallsOf[b][i]] = "queued"
      <3>1. i \in 1 .. Len(CallsOf[b]) /\ i > from
        BY <1>1, <1>2
      <3>2. CallsOf[b][i] \in CallSet(b)
        BY <3>1, Placed, Zenon
      <3> QED
        BY <2>1, <3>1, <3>2, Zenon
    <2> QED
      BY <2>2, Zenon
  <1>8. pc' \in [Calls -> Locations]
    <2>1. pc' = [c \in Calls |-> IF c \in N THEN "start" ELSE pc[c]]
      BY Zenon DEF StartCalls
    <2> QED
      BY <1>1, <2>1, Zenon DEF Typed, Locations
  <1>9. admitted' \in [Batches -> Nat] /\ admitted'[b] = to /\ \A a \in Batches \ {b} : admitted'[a] = admitted[a]
    BY <1>1, <1>2, Zenon DEF StartCalls, Typed
  <1>10. /\ active' \in [Batches -> Nat] /\ active'[b] = active[b] + (to - admitted[b])
         /\ \A a \in Batches \ {b} : active'[a] = active[a]
    <2>1. active' = [active EXCEPT ![b] = active[b] + (to - admitted[b])] /\ active \in [Batches -> Nat]
      BY <1>1, Zenon DEF StartCalls, Typed
    <2>2. active[b] + (to - admitted[b]) \in Nat
      BY <1>1, <1>2
    <2> QED
      BY <2>1, <2>2, Zenon
  <1>11. Flying(b)' = Flying(b) \cup N /\ Flying(b) \cap N = {} /\ Ended(b)' = Ended(b)
    BY <1>4, <1>5, <1>7, Zenon DEF Flying, Ended, InFlight, CallSet
  <1>12. IsFiniteSet(N) /\ Cardinality(N) = to - from
    <2> DEFINE f == [i \in I |-> CallsOf[b][i]]
    <2>1. f \in Bijection(I, N)
      <3>1. \A i, j \in I : CallsOf[b][i] = CallsOf[b][j] => i = j
        BY <1>3, Places, Zenon
      <3> QED
        BY <3>1, Zenon DEF Bijection, Injection, Surjection, IsInjective
    <2>2. ExistsBijection(I, N)
      BY <2>1, Zenon DEF ExistsBijection
    <2>3. IsFiniteSet(I) /\ Cardinality(I) = to - from
      <3>1. from + 1 \in Int /\ to \in Int
        BY <1>1, <1>2
      <3>2. IsFiniteSet(I) /\ Cardinality(I) = IF from + 1 > to THEN 0 ELSE to - (from + 1) + 1
        BY <3>1, FS_Interval, Zenon
      <3> QED
        BY <1>1, <1>2, <3>2, SMTT(30)
    <2> QED
      BY <2>2, <2>3, FS_Bijection, Zenon
  <1>13. Cardinality(Flying(b)') = active[b] + (to - from)
    <2>1. IsFiniteSet(Flying(b)) /\ Cardinality(Flying(b)) = active[b]
      BY <1>1, Counted, ZenonT(30) DEF BatchSound
    <2>2. Cardinality(Flying(b) \cap N) = 0
      BY <1>11, FS_EmptySet, Zenon
    <2>3. Cardinality(Flying(b) \cup N) = Cardinality(Flying(b)) + Cardinality(N) - Cardinality(Flying(b) \cap N)
      <3> HIDE DEF N
      <3> QED
        BY <1>12, <2>1, FS_Union, Zenon
    <2>4. Cardinality(Flying(b)') = active[b] + (to - from) - 0
      BY <1>11, <1>12, <2>1, <2>2, <2>3, Zenon
    <2> QED
      BY <1>1, <1>2, <2>4
  <1>14. \A i \in 1 .. Len(CallsOf[b]) : pc'[CallsOf[b][i]] \in {"queued", "dropped"} <=> i > to
    <2>1. \A i \in 1 .. Len(CallsOf[b]) : CallsOf[b][i] \in Calls
      BY Placed, Zenon
    <2>2. \A i \in 1 .. Len(CallsOf[b]) : pc[CallsOf[b][i]] \in {"queued", "dropped"} <=> i > from
      BY <1>1, Zenon DEF BatchSound
    <2>3. ASSUME NEW i \in 1 .. Len(CallsOf[b])
          PROVE  pc'[CallsOf[b][i]] \in {"queued", "dropped"} <=> i > to
      <3>1. pc'[CallsOf[b][i]] = IF i > from /\ i <= to THEN "start" ELSE pc[CallsOf[b][i]]
        BY <1>5, <1>6, <2>1, Zenon
      <3>2. pc[CallsOf[b][i]] \in {"queued", "dropped"} <=> i > from
        BY <2>2, Zenon
      <3> QED
        BY <1>1, <1>2, <3>1, <3>2
    <2> QED
      BY <2>3, Zenon
  <1>15. \A d \in Calls : pc'[d] = pc[d] \/ (d \in CallSet(b) /\ pc[d] = "queued" /\ pc'[d] = "start")
    BY <1>4, <1>5, <1>7, Zenon
  <1> QED
    BY <1>8, <1>9, <1>10, <1>11, <1>13, <1>14, <1>15, Zenon

LEMMA RunBatchKeeps ==
  ASSUME Sound, NEW b \in Batches, RunBatch(b)
  PROVE  Sound'
  <1> DEFINE n == Len(CallsOf[b])
             to == IF n < MaxParallel THEN n ELSE MaxParallel
  <1>1. Typed /\ BatchSound(b) /\ phase[b] = "new" /\ n \in Nat
    BY Places, ZenonT(30) DEF Sound, RunBatch
  <1>2. /\ admitted[b] = 0 /\ to \in Nat /\ to \in admitted[b] .. Len(CallsOf[b]) /\ to <= MaxParallel
        /\ \A c \in CallSet(b) : pc[c] # "dropped"
    <2>1. admitted[b] = 0 /\ \A c \in CallSet(b) : pc[c] # "dropped"
      BY <1>1, Zenon DEF BatchSound
    <2>2. to \in Nat /\ to \in 0 .. Len(CallsOf[b]) /\ to <= MaxParallel
      BY <1>1, Bounds
    <2> QED
      BY <2>1, <2>2, Zenon
  <1>3. StartCalls(b, admitted[b], to)
    BY <1>2, Zenon DEF RunBatch
  <1>4. UNCHANGED <<outcome, parentCancel, reported, completion, lag, cut, plan, hook, recorded, held, grantVars>>
    BY Zenon DEF RunBatch
  <1>5. /\ phase' \in [Batches -> Phases] /\ phase'[b] = "draining"
        /\ \A a \in Batches \ {b} : phase'[a] = phase[a]
    BY <1>1, Zenon DEF RunBatch, Typed, Phases
  <1>6. \A c \in CallSet(b) : pc[c] = "queued"
    <2>1. \A i \in 1 .. n : i > admitted[b]
      BY <1>1, <1>2
    <2>2. \A i \in 1 .. n : pc[CallsOf[b][i]] \in {"queued", "dropped"}
      BY <1>1, <2>1, Zenon DEF BatchSound
    <2> QED
      BY <1>2, <2>2, Places
  <1>7. Flying(b) = {} /\ Ended(b) = {}
    BY <1>6, Zenon DEF Flying, Ended, InFlight
  <1>8. active[b] = 0 /\ completion[b] = {} /\ Cardinality(completion[b]) = 0
    <2>1. completion[b] = {} /\ active[b] = Cardinality(Flying(b))
      BY <1>1, <1>7, Zenon DEF BatchSound
    <2> QED
      BY <1>7, <2>1, FS_EmptySet, Zenon
  <1> HIDE DEF to
  <1>9. /\ pc' \in [Calls -> Locations] /\ admitted' \in [Batches -> Nat] /\ active' \in [Batches -> Nat]
        /\ \A d \in Calls : pc'[d] = pc[d] \/ (d \in CallSet(b) /\ pc[d] = "queued" /\ pc'[d] = "start")
        /\ \A a \in Batches \ {b} : admitted'[a] = admitted[a] /\ active'[a] = active[a]
        /\ admitted'[b] = to /\ active'[b] = active[b] + (to - admitted[b])
    BY <1>2, <1>3, StartedCalls, SMTT(30)
  <1>10. /\ active'[b] = Cardinality(Flying(b)') /\ Ended(b)' = Ended(b)
         /\ \A i \in 1 .. Len(CallsOf[b]) : pc'[CallsOf[b][i]] \in {"queued", "dropped"} <=> i > to
    BY <1>2, <1>3, StartedCalls, Zenon
  <1>11. Typed'
    BY <1>1, <1>4, <1>5, <1>9, Zenon DEF Typed, grantVars
  <1>12. BatchSound(b)'
    <2>1. active'[b] <= MaxParallel /\ active'[b] + Cardinality(completion'[b]) <= MaxParallel
      BY <1>2, <1>4, <1>8, <1>9, Bounds, SMTT(30)
    <2>2. \A c \in CallSet(b) : pc'[c] # "dropped"
      BY <1>6, <1>9, Places, Zenon
    <2>3. CallSet(b)' = CallSet(b)
      BY Zenon DEF CallSet
    <2>4. outcome'[b] = "results" => \A c \in CallSet(b) : pc'[c] = "done"
      <3>1. outcome[b] = "results" => CallSet(b) = {}
        BY <1>1, <1>6, ZenonT(30) DEF BatchSound
      <3> QED
        BY <1>4, <3>1, Zenon
    <2>5. /\ completion'[b] \cap reported'[b] = {} /\ completion'[b] \cup reported'[b] = Ended(b)'
          /\ lag'[b] = {} /\ admitted'[b] <= Len(CallsOf[b])
      <3>1. /\ completion[b] \cap reported[b] = {} /\ completion[b] \cup reported[b] = Ended(b)
            /\ lag[b] = {}
        BY <1>1, Zenon DEF BatchSound
      <3>2. to <= Len(CallsOf[b])
        BY <1>1, <1>2
      <3> QED
        BY <1>4, <1>9, <1>10, <3>1, <3>2, Zenon
    <2> QED
      BY <1>5, <1>9, <1>10, <2>1, <2>2, <2>3, <2>4, <2>5, ZenonT(30) DEF BatchSound
  <1> QED
    BY <1>4, <1>5, <1>9, <1>11, <1>12, SchedulerKeeps, Zenon

\* A step of b that starts and ends no call.
LEMMA NoCallMoves ==
  ASSUME Sound, NEW b \in Batches, Typed', UNCHANGED <<admitted, active, callVars, grantVars>>,
         \A a \in Batches \ {b} :
           /\ phase'[a] = phase[a] /\ outcome'[a] = outcome[a] /\ reported'[a] = reported[a]
           /\ completion'[a] = completion[a] /\ lag'[a] = lag[a],
         completion'[b] \cap reported'[b] = {},
         completion'[b] \cup reported'[b] = completion[b] \cup reported[b],
         phase'[b] = "draining" => phase[b] = "draining" /\ completion'[b] = completion[b],
         phase'[b] = "new" => phase[b] = "new",
         phase'[b] # "lagging" => lag'[b] = {},
         phase'[b] = "freed" => active[b] = 0,
         outcome'[b] = "results" => outcome[b] = "results" \/ \A c \in CallSet(b) : pc[c] = "done"
  PROVE  Sound'
  <1>1. BatchSound(b)
    BY Zenon DEF Sound
  <1>2. UNCHANGED <<pc, plan, hook, recorded, held>>
    BY ZenonT(30) DEF callVars
  <1>3. Flying(b)' = Flying(b) /\ Ended(b)' = Ended(b) /\ CallSet(b)' = CallSet(b)
    BY <1>2, ZenonT(30) DEF Flying, Ended, InFlight, CallSet
  <1>4. BatchSound(b)'
    BY <1>1, <1>2, <1>3, ZenonT(30) DEF BatchSound
  <1> QED
    BY <1>2, <1>4, SchedulerKeeps, Zenon

LEMMA RunBatchCancelledKeeps ==
  ASSUME Sound, NEW b \in Batches, RunBatchCancelled(b)
  PROVE  Sound'
  <1>1. Typed /\ BatchSound(b)
    BY Zenon DEF Sound
  <1>2. Typed'
    BY <1>1, Zenon DEF Typed, RunBatchCancelled, Phases, callVars, grantVars
  <1>3. /\ phase'[b] = "returned" /\ outcome'[b] = "cancelled"
        /\ \A a \in Batches \ {b} : phase'[a] = phase[a] /\ outcome'[a] = outcome[a]
        /\ UNCHANGED <<admitted, active, callVars, grantVars, reported, completion, lag>>
    BY <1>1, Zenon DEF Typed, RunBatchCancelled
  <1>4. completion[b] \cap reported[b] = {} /\ lag[b] = {}
    BY <1>1, ZenonT(30) DEF BatchSound, RunBatchCancelled
  <1> QED
    BY <1>2, <1>3, <1>4, NoCallMoves, Zenon

LEMMA CancelParentKeeps ==
  ASSUME Sound, NEW b \in Batches, CancelParent(b)
  PROVE  Sound'
  <1>1. Typed /\ BatchSound(b)
    BY Zenon DEF Sound
  <1>2. Typed'
    BY <1>1, Zenon DEF Typed, CancelParent, callVars, grantVars
  <1>3. UNCHANGED <<phase, outcome, admitted, active, callVars, grantVars, reported, completion, lag>>
    BY Zenon DEF CancelParent
  <1>4. /\ completion[b] \cap reported[b] = {}
        /\ phase[b] # "lagging" => lag[b] = {}
        /\ phase[b] = "freed" => active[b] = 0
    BY <1>1, ZenonT(30) DEF BatchSound
  <1> QED
    BY <1>2, <1>3, <1>4, NoCallMoves, Zenon

LEMMA DrainRemainingKeeps ==
  ASSUME Sound, NEW b \in Batches, DrainRemaining(b)
  PROVE  Sound'
  <1>1. Typed /\ BatchSound(b) /\ phase[b] = "grace"
    BY Zenon DEF Sound, DrainRemaining
  <1>2. PICK c \in completion[b] : /\ completion' = [completion EXCEPT ![b] = @ \ {c}]
                                   /\ reported' = [reported EXCEPT ![b] = @ \cup {c}]
    BY Zenon DEF DrainRemaining
  <1>3. c \in Calls
    BY <1>1, Zenon DEF Typed
  <1>4. /\ phase' \in [Batches -> Phases] /\ phase'[b] \in {"grace", "returned"}
        /\ outcome' \in [Batches -> {"none", "results", "cancelled"}] /\ outcome'[b] \in {outcome[b], "cancelled"}
        /\ \A a \in Batches \ {b} : phase'[a] = phase[a] /\ outcome'[a] = outcome[a]
    <2>1. phase' \in [Batches -> Phases] /\ phase'[b] \in {"grace", "returned"} /\ \A a \in Batches \ {b} : phase'[a] = phase[a]
      BY <1>1 DEF Typed, DrainRemaining, Phases
    <2>2. /\ outcome' \in [Batches -> {"none", "results", "cancelled"}] /\ outcome'[b] \in {outcome[b], "cancelled"}
          /\ \A a \in Batches \ {b} : outcome'[a] = outcome[a]
      BY <1>1 DEF Typed, DrainRemaining
    <2> QED
      BY <2>1, <2>2, Zenon
  <1>5. UNCHANGED <<parentCancel, admitted, lag, active, callVars, grantVars>>
    BY Zenon DEF DrainRemaining
  <1>6. /\ completion' \in [Batches -> SUBSET Calls] /\ reported' \in [Batches -> SUBSET Calls]
        /\ completion'[b] = completion[b] \ {c} /\ reported'[b] = reported[b] \cup {c}
        /\ \A a \in Batches \ {b} : completion'[a] = completion[a] /\ reported'[a] = reported[a]
    BY <1>1, <1>2, <1>3, Zenon DEF Typed
  <1>7. Typed'
    BY <1>1, <1>4, <1>5, <1>6, Zenon DEF Typed, callVars, grantVars
  <1>8. completion[b] \cap reported[b] = {} /\ lag[b] = {}
    BY <1>1, ZenonT(30) DEF BatchSound
  <1>9. completion'[b] \cap reported'[b] = {} /\ completion'[b] \cup reported'[b] = completion[b] \cup reported[b]
    BY <1>2, <1>6, <1>8, ZenonT(30)
  <1> QED
    BY <1>4, <1>5, <1>6, <1>7, <1>8, <1>9, NoCallMoves, ZenonT(30)

LEMMA GraceExpiresKeeps ==
  ASSUME Sound, NEW b \in Batches, GraceExpires(b)
  PROVE  Sound'
  <1>1. Typed /\ BatchSound(b)
    BY Zenon DEF Sound
  <1>2. CallSet(b) \ reported[b] \in SUBSET Calls
    BY Places, Zenon
  <1>3. /\ phase' \in [Batches -> Phases] /\ phase'[b] = "lagging" /\ lag' \in [Batches -> SUBSET Calls]
        /\ \A a \in Batches \ {b} : phase'[a] = phase[a] /\ lag'[a] = lag[a]
    BY <1>1, <1>2, Zenon DEF Typed, GraceExpires, Phases
  <1>4. UNCHANGED <<outcome, parentCancel, admitted, reported, completion, active, callVars, grantVars>>
    BY Zenon DEF GraceExpires
  <1>5. Typed'
    BY <1>1, <1>3, <1>4, Zenon DEF Typed, callVars, grantVars
  <1>6. completion[b] \cap reported[b] = {}
    BY <1>1, ZenonT(30) DEF BatchSound
  <1> QED
    BY <1>3, <1>4, <1>5, <1>6, NoCallMoves, Zenon

LEMMA RecordLagKeeps ==
  ASSUME Sound, NEW b \in Batches, RecordLag(b)
  PROVE  Sound'
  <1>1. Typed /\ BatchSound(b) /\ phase[b] = "lagging"
    BY Zenon DEF Sound, RecordLag
  <1>2. PICK c \in lag[b] : lag' = [lag EXCEPT ![b] = @ \ {c}]
    BY Zenon DEF RecordLag
  <1>3. lag' \in [Batches -> SUBSET Calls] /\ \A a \in Batches \ {b} : lag'[a] = lag[a]
    BY <1>1, <1>2, Zenon DEF Typed
  <1>4. /\ phase' \in [Batches -> Phases] /\ phase'[b] \in {"lagging", "returned"}
        /\ phase'[b] # "lagging" => lag'[b] = {}
        /\ outcome' \in [Batches -> {"none", "results", "cancelled"}] /\ outcome'[b] \in {outcome[b], "cancelled"}
        /\ \A a \in Batches \ {b} : phase'[a] = phase[a] /\ outcome'[a] = outcome[a]
    BY <1>1 DEF Typed, RecordLag, Phases
  <1>5. UNCHANGED <<parentCancel, admitted, reported, completion, active, callVars, grantVars>>
    BY Zenon DEF RecordLag
  <1>6. Typed'
    BY <1>1, <1>3, <1>4, <1>5, Zenon DEF Typed, callVars, grantVars
  <1>7. completion[b] \cap reported[b] = {}
    BY <1>1, Zenon DEF BatchSound
  <1> QED
    BY <1>3, <1>4, <1>5, <1>6, <1>7, NoCallMoves, ZenonT(30)

LEMMA WaitIdleKeeps ==
  ASSUME Sound, NEW b \in Batches, WaitIdle(b)
  PROVE  Sound'
  <1>1. Typed /\ BatchSound(b) /\ phase[b] = "returned"
    BY Zenon DEF Sound, WaitIdle
  <1>2. /\ phase' \in [Batches -> Phases] /\ phase'[b] \in {"freed", "parked"}
        /\ phase'[b] = "freed" => active[b] = 0
        /\ \A a \in Batches \ {b} : phase'[a] = phase[a]
    BY <1>1, Zenon DEF Typed, WaitIdle, Phases
  <1>3. UNCHANGED <<outcome, parentCancel, admitted, reported, completion, lag, active, callVars, grantVars>>
    BY Zenon DEF WaitIdle
  <1>4. Typed'
    BY <1>1, <1>2, <1>3, Zenon DEF Typed, callVars, grantVars
  <1>5. completion[b] \cap reported[b] = {} /\ lag[b] = {}
    BY <1>1, ZenonT(30) DEF BatchSound
  <1> QED
    BY <1>2, <1>3, <1>4, <1>5, NoCallMoves, Zenon

LEMMA ReceiveKeeps ==
  ASSUME Sound, NEW b \in Batches, Receive(b)
  PROVE  Sound'
  <1>1. Typed /\ BatchSound(b) /\ phase[b] = "draining"
    BY ZenonT(30) DEF Sound, Receive
  <1>2. PICK c \in completion[b] :
          /\ completion' = [completion EXCEPT ![b] = @ \ {c}]
          /\ reported' = [reported EXCEPT ![b] = @ \cup {c}]
          /\ IF reported'[b] = CallSet(b)
             THEN /\ phase' = [phase EXCEPT ![b] = "returned"]
                  /\ outcome' = [outcome EXCEPT ![b] = "results"]
                  /\ UNCHANGED <<admitted, active, pc>>
             ELSE /\ StartCalls(b, admitted[b],
                                IF admitted[b] < Len(CallsOf[b]) THEN admitted[b] + 1 ELSE admitted[b])
                  /\ UNCHANGED <<phase, outcome>>
    BY ZenonT(30) DEF Receive
  <1>3. UNCHANGED <<parentCancel, lag, cut, plan, hook, recorded, held, grantVars>>
    BY Zenon DEF Receive
  <1>4. c \in Calls
    BY <1>1, Zenon DEF Typed
  <1>5. /\ completion' \in [Batches -> SUBSET Calls] /\ reported' \in [Batches -> SUBSET Calls]
        /\ completion'[b] = completion[b] \ {c} /\ reported'[b] = reported[b] \cup {c}
        /\ \A a \in Batches \ {b} : completion'[a] = completion[a] /\ reported'[a] = reported[a]
    BY <1>1, <1>2, <1>4, Zenon DEF Typed
  <1>6. completion[b] \cap reported[b] = {} /\ lag[b] = {} /\ \A d \in CallSet(b) : pc[d] # "dropped"
    BY <1>1, ZenonT(30) DEF BatchSound
  <1>7. completion'[b] \cap reported'[b] = {} /\ completion'[b] \cup reported'[b] = completion[b] \cup reported[b]
    BY <1>2, <1>5, <1>6, SMTT(30)
  <1>8. CASE reported'[b] = CallSet(b)
    <2>1. /\ phase' \in [Batches -> Phases] /\ phase'[b] = "returned"
          /\ outcome' \in [Batches -> {"none", "results", "cancelled"}]
          /\ \A a \in Batches \ {b} : phase'[a] = phase[a] /\ outcome'[a] = outcome[a]
          /\ UNCHANGED <<admitted, active, pc>>
      BY <1>1, <1>2, <1>8, Zenon DEF Typed, Phases
    <2>2. Typed'
      BY <1>1, <1>3, <1>5, <2>1, Zenon DEF Typed, grantVars
    <2>3. \A d \in CallSet(b) : pc[d] = "done"
      <3>1. CallSet(b) \subseteq Ended(b)
        BY <1>1, <1>7, <1>8, Zenon DEF BatchSound
      <3> QED
        BY <1>6, <3>1, Zenon DEF Ended
    <2>4. UNCHANGED callVars
      BY <1>3, <2>1, ZenonT(30) DEF callVars
    <2> QED
      BY <1>3, <1>5, <1>6, <1>7, <2>1, <2>2, <2>3, <2>4, NoCallMoves, ZenonT(30)
  <1>9. CASE reported'[b] # CallSet(b)
    <2> DEFINE to == IF admitted[b] < Len(CallsOf[b]) THEN admitted[b] + 1 ELSE admitted[b]
    <2>1. admitted[b] \in Nat /\ Len(CallsOf[b]) \in Nat /\ admitted[b] <= Len(CallsOf[b]) /\ active[b] \in Nat
      BY <1>1, Places, ZenonT(30) DEF Typed, BatchSound
    <2>2. to \in admitted[b] .. Len(CallsOf[b]) /\ to <= admitted[b] + 1 /\ to \in Nat
      BY <2>1
    <2>3. StartCalls(b, admitted[b], to) /\ UNCHANGED <<phase, outcome>>
      BY <1>2, <1>9, Zenon
    <2> HIDE DEF to
    <2>4. /\ pc' \in [Calls -> Locations] /\ admitted' \in [Batches -> Nat] /\ active' \in [Batches -> Nat]
          /\ \A d \in Calls : pc'[d] = pc[d] \/ (d \in CallSet(b) /\ pc[d] = "queued" /\ pc'[d] = "start")
          /\ \A a \in Batches \ {b} : admitted'[a] = admitted[a] /\ active'[a] = active[a]
          /\ admitted'[b] = to /\ active'[b] = active[b] + (to - admitted[b])
      BY <1>6, <2>2, <2>3, StartedCalls
    <2>5. /\ active'[b] = Cardinality(Flying(b)') /\ Ended(b)' = Ended(b)
          /\ \A i \in 1 .. Len(CallsOf[b]) : pc'[CallsOf[b][i]] \in {"queued", "dropped"} <=> i > to
      BY <1>6, <2>2, <2>3, StartedCalls, Zenon
    <2>6. Typed'
      BY <1>1, <1>3, <1>5, <2>3, <2>4, Zenon DEF Typed, grantVars
    <2>7. Cardinality(completion'[b]) = Cardinality(completion[b]) - 1 /\ Cardinality(completion[b]) \in Nat \ {0}
      <3>1. IsFiniteSet(completion[b]) /\ Cardinality(completion[b]) \in Nat
        BY <1>1, Counted, Zenon
      <3>2. Cardinality(completion[b]) # 0
        BY <1>2, <3>1, FS_EmptySet, Zenon
      <3>3. Cardinality(completion[b] \ {c}) = Cardinality(completion[b]) - 1
        BY <1>2, <3>1, FS_RemoveElement, Zenon
      <3> QED
        BY <1>5, <3>1, <3>2, <3>3, ZenonT(30)
    <2>8. active'[b] <= MaxParallel /\ active'[b] + Cardinality(completion'[b]) <= MaxParallel
      <3>1. active[b] + Cardinality(completion[b]) <= MaxParallel
        BY <1>1, ZenonT(30) DEF BatchSound
      <3>2. active'[b] = active[b] + (to - admitted[b]) /\ MaxParallel \in Nat
        BY <2>4, Bounds
      <3> QED
        BY <2>1, <2>2, <2>7, <3>1, <3>2, SMTT(30)
    <2>9. \A d \in CallSet(b) : pc'[d] # "dropped" /\ (pc[d] = "done" => pc'[d] = "done")
      BY <1>6, <2>4, Places, Zenon
    <2>10. CallSet(b)' = CallSet(b)
      BY Zenon DEF CallSet
    <2>11. BatchSound(b)'
      <3>1. completion'[b] \cup reported'[b] = Ended(b)' /\ lag'[b] = {} /\ admitted'[b] <= Len(CallsOf[b])
        <4>1. completion[b] \cup reported[b] = Ended(b) /\ lag[b] = {}
          BY <1>1, Zenon DEF BatchSound
        <4>2. to <= Len(CallsOf[b])
          BY <2>1, <2>2
        <4> QED
          BY <1>3, <1>6, <1>7, <2>4, <2>5, <4>1, <4>2, Zenon
      <3>2. outcome'[b] = "results" => \A d \in CallSet(b) : pc'[d] = "done"
        BY <1>1, <2>3, <2>9, Zenon DEF BatchSound
      <3> QED
        BY <1>1, <1>7, <2>3, <2>4, <2>5, <2>8, <2>9, <2>10, <3>1, <3>2, ZenonT(30) DEF BatchSound
    <2> QED
      BY <1>3, <1>5, <2>3, <2>4, <2>6, <2>11, SchedulerKeeps, ZenonT(30)
  <1> QED
    BY <1>8, <1>9, Zenon

\* Phase 2: what was not started is dropped, and reported as such.
LEMMA CancelledKeeps ==
  ASSUME Sound, NEW b \in Batches, phase[b] = "draining", NEW seen \in SUBSET Calls, Cancelled(b, seen),
         UNCHANGED <<parentCancel, admitted, lag, active, plan, hook, recorded, held, grantVars>>,
         completion' \in [Batches -> SUBSET Calls],
         \A a \in Batches \ {b} : completion'[a] = completion[a],
         completion'[b] \cap seen = {}, completion'[b] \cup seen = completion[b] \cup reported[b]
  PROVE  Sound'
  <1> DEFINE queued == {c \in CallSet(b) : pc[c] = "queued"}
  <1>1. Typed /\ BatchSound(b) /\ CallSet(b) \subseteq Calls
    BY Places, ZenonT(30) DEF Sound
  <1>2. /\ reported' \in [Batches -> SUBSET Calls] /\ reported'[b] = seen \cup queued
        /\ \A a \in Batches \ {b} : reported'[a] = reported[a]
    BY <1>1, Zenon DEF Cancelled, Typed
  <1>3. /\ pc' \in [Calls -> Locations] /\ \A c \in Calls : pc'[c] = IF c \in queued THEN "dropped" ELSE pc[c]
    BY <1>1, Zenon DEF Cancelled, Typed, Locations
  <1>4. cut' \in [Calls -> BOOLEAN]
    BY <1>1, Zenon DEF Cancelled, Typed
  <1>5. /\ phase' \in [Batches -> Phases] /\ phase'[b] \in {"returned", "grace"}
        /\ outcome' \in [Batches -> {"none", "results", "cancelled"}] /\ outcome'[b] \in {outcome[b], "cancelled"}
        /\ \A a \in Batches \ {b} : phase'[a] = phase[a] /\ outcome'[a] = outcome[a]
    BY <1>1, ZenonT(30) DEF Cancelled, Typed, Phases
  <1>6. Typed'
    BY <1>1, <1>2, <1>3, <1>4, <1>5, Zenon DEF Typed, grantVars
  <1>7. Flying(b)' = Flying(b) /\ Ended(b)' = Ended(b) \cup queued /\ CallSet(b)' = CallSet(b)
    BY <1>1, <1>3, ZenonT(30) DEF Flying, Ended, InFlight, CallSet
  <1>8. completion[b] \cup reported[b] = Ended(b) /\ Ended(b) \cap queued = {}
    BY <1>1, ZenonT(30) DEF BatchSound, Ended
  <1>9. completion'[b] \cap reported'[b] = {} /\ completion'[b] \cup reported'[b] = Ended(b)'
    BY <1>2, <1>7, <1>8, ZenonT(30)
  <1>10. \A i \in 1 .. Len(CallsOf[b]) : pc'[CallsOf[b][i]] \in {"queued", "dropped"} <=> i > admitted[b]
    <2>1. \A i \in 1 .. Len(CallsOf[b]) : CallsOf[b][i] \in CallSet(b)
      BY Placed, Zenon
    <2> QED
      BY <1>1, <1>3, <2>1, ZenonT(30) DEF BatchSound
  <1>11. outcome'[b] = "results" => \A c \in CallSet(b) : pc'[c] = "done"
    BY <1>1, <1>3, <1>5, Zenon DEF BatchSound
  <1>12. BatchSound(b)'
    BY <1>1, <1>5, <1>7, <1>9, <1>10, <1>11, ZenonT(30) DEF BatchSound
  <1> QED
    BY <1>1, <1>2, <1>3, <1>5, <1>6, <1>12, SchedulerKeeps, ZenonT(30)

LEMMA ReceiveCancelledKeeps ==
  ASSUME Sound, NEW b \in Batches, ReceiveCancelled(b)
  PROVE  Sound'
  <1>1. Typed /\ BatchSound(b) /\ phase[b] = "draining"
    BY Zenon DEF Sound, ReceiveCancelled
  <1>2. UNCHANGED <<parentCancel, admitted, lag, active, plan, hook, recorded, held, grantVars>>
    BY Zenon DEF ReceiveCancelled
  <1>3. completion[b] \cap reported[b] = {} /\ reported[b] \in SUBSET Calls /\ completion[b] \in SUBSET Calls
    BY <1>1, ZenonT(30) DEF BatchSound, Typed
  <1>4. CASE Cancelled(b, reported[b]) /\ UNCHANGED completion
    <2>1. completion' \in [Batches -> SUBSET Calls]
      BY <1>1, <1>4, Zenon DEF Typed
    <2> QED
      BY <1>1, <1>2, <1>3, <1>4, <2>1, CancelledKeeps, ZenonT(30)
  <1>5. ASSUME NEW c \in completion[b], completion' = [completion EXCEPT ![b] = @ \ {c}],
               Cancelled(b, reported[b] \cup {c})
        PROVE  Sound'
    <2>1. /\ completion' \in [Batches -> SUBSET Calls] /\ completion'[b] = completion[b] \ {c}
          /\ \A a \in Batches \ {b} : completion'[a] = completion[a]
      BY <1>1, <1>5, Zenon DEF Typed
    <2>2. /\ reported[b] \cup {c} \in SUBSET Calls /\ completion'[b] \cap (reported[b] \cup {c}) = {}
          /\ completion'[b] \cup (reported[b] \cup {c}) = completion[b] \cup reported[b]
      BY <1>3, <1>5, <2>1, Zenon
    <2> QED
      BY <1>1, <1>2, <1>5, <2>1, <2>2, CancelledKeeps, ZenonT(30)
  <1> QED
    BY <1>4, <1>5, ZenonT(30) DEF ReceiveCancelled

-----------------------------------------------------------------------------
LEMMA SoundNext == Sound /\ [Next]_vars => Sound'
  <1> SUFFICES ASSUME Sound, [Next]_vars PROVE Sound'
    BY Zenon
  <1>1. ASSUME NEW b \in Batches,
               RunBatch(b) \/ RunBatchCancelled(b) \/ CancelParent(b) \/ Return(b) \/ WaitIdle(b)
        PROVE  Sound'
    BY <1>1, RunBatchKeeps, RunBatchCancelledKeeps, CancelParentKeeps, ReceiveKeeps, ReceiveCancelledKeeps,
       DrainRemainingKeeps, GraceExpiresKeeps, RecordLagKeeps, WaitIdleKeeps, Zenon DEF Return
  <1>2. ASSUME NEW c \in Calls, Dispatch(c) \/ TimeoutFires(c) PROVE Sound'
    <2>1. CASE StartUnknown(c)
      <3>1. InFlight(c)
        BY <2>1, Zenon DEF StartUnknown, InFlight
      <3> QED
        BY <2>1, <3>1, CompleteKeeps, Zenon DEF StartUnknown
    <2>2. CASE After(c)
      <3>1. InFlight(c)
        BY <2>2, Zenon DEF After, InFlight
      <3> QED
        BY <2>2, <3>1, CompleteKeeps, Zenon DEF After
    <2> QED
      BY <1>2, <2>1, <2>2, StartKeeps, BeforeKeeps, LockAndDecideKeeps, AnswerKeeps, RecordKeeps,
         HandlerEndsKeeps, UnwindKeeps, TimeoutKeeps, Zenon DEF Dispatch
  <1>3. CASE UNCHANGED vars
    <2>1. UNCHANGED <<phase, outcome, parentCancel, admitted, reported, completion, lag, active,
                      pc, cut, plan, hook, recorded, held, uses, issued>>
      BY <1>3, Zenon DEF vars, batchVars, callVars, grantVars
    <2>2. Typed' /\ LocksApart' /\ ApprovalsCharged'
      BY <2>1, Zenon DEF Sound, Typed, LocksApart, ApprovalsCharged
    <2>3. ASSUME NEW b \in Batches PROVE BatchSound(b)'
      <3>1. Flying(b)' = Flying(b) /\ Ended(b)' = Ended(b) /\ CallSet(b)' = CallSet(b)
        BY <2>1, Zenon DEF Flying, Ended, InFlight, CallSet
      <3>2. BatchSound(b)
        BY Zenon DEF Sound
      <3> QED
        BY <2>1, <3>1, <3>2, Zenon DEF BatchSound
    <2>4. \A c \in Calls : CallSound(c)'
      BY <2>1, Zenon DEF Sound, CallSound
    <2> QED
      BY <2>2, <2>3, <2>4, Zenon DEF Sound
  <1> QED
    BY <1>1, <1>2, <1>3, Zenon DEF Next

\* The inductive invariant of the scheduler and its dispatches, for any batches
\* (scheduler.cpp run_batch and wait_idle, registry.cpp dispatch).
THEOREM BatchInvariant == Spec => []Sound
  BY SoundInit, SoundNext, PTL DEF Spec

\* A handler starts only after its durable row, allowed or approved and vetoed by
\* no hook, and approvals never exceed the uses granted (registry.cpp dispatch).
THEOREM OnlyAuthorizedEffects == Spec => []EffectsAuthorized
  <1>1. Sound => EffectsAuthorized
    <2> SUFFICES ASSUME Sound PROVE EffectsAuthorized
      BY Zenon
    <2>1. ApprovalsCharged /\ \A c \in Calls : CallSound(c) /\ plan[c] \in Plans /\ hook[c] \in {"none", "proceed", "veto", "require_approval"}
      BY Zenon DEF Sound, Typed
    <2> QED
      BY <2>1, Zenon DEF EffectsAuthorized, CallSound
  <1> QED
    BY <1>1, BatchInvariant, PTL

\* Handlers that run side by side never conflict on a path, whichever batch they
\* belong to and whether or not it has returned (scheduler.cpp, registry.cpp).
THEOREM EffectsNeverConflict == Spec => []EffectsExcluded
  <1>1. Sound => EffectsExcluded
    BY Zenon DEF Sound, CallSound, LocksApart, EffectsExcluded
  <1> QED
    BY <1>1, BatchInvariant, PTL

\* wait_idle keeps a dispatch context until no frame borrows it, and the
\* scheduler's counts are exact throughout (scheduler.cpp).
THEOREM ContextsOutliveCalls == Spec => []ContextOutlivesCalls
  <1>1. Sound => ContextOutlivesCalls
    <2> SUFFICES ASSUME Sound PROVE ContextOutlivesCalls
      BY Zenon
    <2>1. Typed /\ (\A b \in Batches : BatchSound(b)) /\ (\A c \in Calls : CallSound(c))
      BY Zenon DEF Sound
    <2>2. held \subseteq {c \in Calls : pc[c] \in {"ask", "audit", "run", "after"}}
      BY <2>1, Zenon DEF Typed, CallSound
    <2>3. BatchInv
      BY <2>1, <2>2, ZenonT(30) DEF BatchInv, Typed, BatchSound, Flying, Ended
    <2>4. ASSUME NEW b \in Batches, phase[b] = "freed" PROVE lag[b] = {} /\ \A c \in CallSet(b) : ~InFlight(c)
      <3>1. lag[b] = {} /\ Cardinality(Flying(b)) = 0
        BY <2>1, <2>4, Zenon DEF BatchSound
      <3>2. Flying(b) = {}
        BY <2>1, <3>1, Counted, FS_EmptySet, Zenon
      <3> QED
        BY <3>1, <3>2, ZenonT(30) DEF Flying
    <2> QED
      BY <2>3, <2>4, Zenon DEF ContextOutlivesCalls
  <1> QED
    BY <1>1, BatchInvariant, PTL
=============================================================================
