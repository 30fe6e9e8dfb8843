----------------------------- MODULE DeliveryProof -----------------------------
(***************************************************************************)
(* What is handed on is neither lost nor doubled, in the host and in the   *)
(* channel.                                                                *)
(*                                                                         *)
(* HostInv is inductive: the journal accounts for everything the Telegram  *)
(* host did at every point where it can stop.                              *)
(*                                                                         *)
(* ChannelInv is inductive, and the channel implements the mailbox, for    *)
(* any calls and capacities.  The argument has two halves.  Moves says     *)
(* what a critical section may do to the histories and the buffer, and is  *)
(* all the mailbox sees; the pump lemmas show that every operation moves   *)
(* values that way and leaves the queues settled.                          *)
(***************************************************************************)
EXTENDS TelegramHost, Channel, TLAPS

-----------------------------------------------------------------------------
\* The Telegram host.
LEMMA HostInit == Init => HostInv
  <1> SUFFICES ASSUME Init PROVE HostInv  OBVIOUS
  <1>1. NewState \in State
    BY BoundsAreNaturals DEF NewState, State
  <1>2. TypeOK
    BY <1>1, BoundsAreNaturals DEF Init, TypeOK, Locations, Work
  <1>3. JournalOK(disk)
    BY BoundsAreNaturals DEF Init, NewState, JournalOK, AccurateIn, NoneSkippedIn, Unbegun, UpdateWork, Work, Updates
  <1>4. TurnAtMostOnce
    BY DEF Init, TurnAtMostOnce
  <1>5. \A t \in 1 .. MaxTasks : Unbegun(TaskWork(t))
    BY BoundsAreNaturals DEF Init, Unbegun, TaskWork, Work
  <1> QED
    BY <1>2, <1>3, <1>4, <1>5, Zenon DEF HostInv, Init

LEMMA SavedInv == HostInv /\ Saved => HostInv'
  <1> SUFFICES ASSUME HostInv, Saved PROVE HostInv'  OBVIOUS
  <1>1. TypeOK'
    BY Zenon DEF HostInv, TypeOK, Saved, world
  <1>2. JournalOK(disk)' /\ At(pc, disk)' /\ then \in {"poll", "run", "turn", "deliver", "send"}
    BY Zenon DEF HostInv, Saved, world, JournalOK, At, AccurateIn, NoneSkippedIn, Archived, Unbegun
  <1> QED
    BY <1>1, <1>2, Zenon DEF HostInv, Saved, world, TurnAtMostOnce, Unbegun

\* Work in the journal, and the two kinds of work.
LEMMA WorkTyped ==
  /\ \A u \in Updates : UpdateWork(u) \in Work /\ UpdateWork(u).task = FALSE /\ UpdateWork(u).id = u
  /\ \A t \in 1 .. MaxTasks : TaskWork(t) \in Work /\ TaskWork(t).task = TRUE /\ TaskWork(t).id = t
  /\ \A w \in Work : w.task \in BOOLEAN /\ w.id \in Nat
  /\ \A w \in Work : ~w.task => w = UpdateWork(w.id)
  /\ \A w \in Work : w.task => w = TaskWork(w.id)
  BY BoundsAreNaturals DEF Work, UpdateWork, TaskWork, Updates

LEMMA PendingTyped ==
  ASSUME NEW d \in State, d.pending # NoPending
  PROVE  /\ d.pending \in Pending
         /\ d.pending.work \in Work
         /\ d.pending.answered \in BOOLEAN /\ d.pending.inflight \in BOOLEAN
         /\ d.pending.confirmed \in 0 .. MaxParts
  BY Zenon DEF State, Pending

LEMMA UpdateArrivesInv ==
  ASSUME NEW u \in Updates, NEW kind \in Kinds, HostInv, UpdateArrives(u, kind)
  PROVE  HostInv'
  <1>0. inbox' = [v \in DOMAIN inbox \cup {u} |-> IF v = u THEN kind ELSE inbox[v]]
        /\ (\A v \in DOMAIN inbox : v < u) /\ DOMAIN inbox \subseteq Updates
    BY Zenon DEF UpdateArrives, HostInv, TypeOK
  <1>1. TypeOK'
    BY <1>0, Zenon DEF HostInv, TypeOK, UpdateArrives, host
  <1>2. ASSUME NEW d \in State, JournalOK(d) PROVE JournalOK(d)'
    <2>1. d.next_update \in Nat
      BY BoundsAreNaturals DEF State
    <2>2. d.next_update <= u
      BY <1>0, <1>2, <2>1, BoundsAreNaturals DEF JournalOK, Updates
    <2>3. NoneSkippedIn(d)'
      BY <1>0, <1>2, <2>1, <2>2, BoundsAreNaturals DEF JournalOK, NoneSkippedIn, Archived, UpdateArrives, Updates
    <2>4. d.pending # NoPending /\ ~d.pending.work.task =>
            \A v \in DOMAIN inbox' : d.next_update <= v => d.pending.work.id <= v
      BY <1>0, <1>2 DEF JournalOK, Updates
    <2> QED
      BY <1>0, <1>2, <2>3, <2>4, Zenon DEF JournalOK, AccurateIn, Unbegun, UpdateArrives, host
  <1>3. disk \in State /\ writing \in State
    BY Zenon DEF HostInv, TypeOK
  <1>4. JournalOK(disk)' /\ (pc' = "saving" => JournalOK(writing)')
    BY <1>2, <1>3, ZenonT(30) DEF HostInv, UpdateArrives, host, JournalOK, AccurateIn, NoneSkippedIn, Archived
  <1> QED
    BY <1>1, <1>4, Zenon DEF HostInv, UpdateArrives, host, At, TurnAtMostOnce, Unbegun

LEMMA TaskFinishesInv == ASSUME HostInv, TaskFinishes PROVE HostInv'
  <1> DEFINE new == [id |-> started + 1, session |-> state.session]
  <1>0. /\ started \in 0 .. MaxTasks /\ started < MaxTasks /\ started' = started + 1
        /\ ready' = ready \cup {new} /\ new.id = started + 1
        /\ ready \subseteq [id : 1 .. MaxTasks, session : Nat]
        /\ state.session \in Nat /\ disk \in State /\ writing \in State
    BY Zenon DEF HostInv, TypeOK, TaskFinishes, State
  <1>1. TypeOK'
    <2>1. started' \in 0 .. MaxTasks /\ new \in [id : 1 .. MaxTasks, session : Nat]
      BY <1>0, BoundsAreNaturals
    <2> QED
      BY <1>0, <2>1, Zenon DEF HostInv, TypeOK, TaskFinishes
  <1>2. ASSUME NEW d \in State, JournalOK(d) PROVE JournalOK(d)'
    <2>1. d.pending # NoPending => d.pending.work.id \in Nat
      BY PendingTyped, WorkTyped, Zenon
    <2> QED
      BY <1>0, <1>2, <2>1, BoundsAreNaturals
         DEF JournalOK, AccurateIn, NoneSkippedIn, Archived, Unbegun, TaskFinishes
  <1>3. JournalOK(disk)' /\ (pc' = "saving" => JournalOK(writing)')
    BY <1>0, <1>2, ZenonT(30) DEF HostInv, TaskFinishes, JournalOK, AccurateIn, NoneSkippedIn, Archived
  <1>4. \A t \in ready : t.id \in Nat /\ t.id <= started /\ Unbegun(TaskWork(t.id))
    BY <1>0, BoundsAreNaturals DEF HostInv
  <1>5. /\ \A t \in ready' : t.id <= started' /\ Unbegun(TaskWork(t.id))
        /\ \A t, r \in ready' : t.id = r.id => t = r
        /\ \A t \in 1 .. MaxTasks : started' < t => Unbegun(TaskWork(t))
    BY <1>0, <1>4, BoundsAreNaturals DEF HostInv
  <1> QED
    BY <1>1, <1>3, <1>5, Zenon DEF HostInv, TaskFinishes, At, TurnAtMostOnce, Unbegun

LEMMA StopsInv == ASSUME HostInv, Stops PROVE HostInv'
  <1>1. TypeOK'
    BY BoundsAreNaturals DEF HostInv, TypeOK, Stops, Down, world, NewState, State, Locations
  <1>2. JournalOK(disk)'
    BY Zenon DEF HostInv, Stops, Down, world, JournalOK, AccurateIn, NoneSkippedIn, Archived, Unbegun
  <1> QED
    BY <1>1, <1>2, Zenon DEF HostInv, Stops, Down, world, TurnAtMostOnce, Unbegun

\* The write that was cut short leaves either journal; both account for the work.
LEMMA SaveStopsInv == ASSUME HostInv, SaveStops PROVE HostInv'
  <1>1. TypeOK'
    BY BoundsAreNaturals DEF HostInv, TypeOK, SaveStops, Down, world, NewState, State, Locations
  <1>2. JournalOK(disk)'
    BY Zenon DEF HostInv, SaveStops, Down, world, JournalOK, AccurateIn, NoneSkippedIn, Archived, Unbegun
  <1> QED
    BY <1>1, <1>2, Zenon DEF HostInv, SaveStops, Down, world, TurnAtMostOnce, Unbegun

LEMMA StartInv == ASSUME HostInv, Start PROVE HostInv'
  <1>1. TypeOK'
    BY Zenon DEF HostInv, TypeOK, Start, world, Locations
  <1>2. JournalOK(disk)'
    BY Zenon DEF HostInv, Start, world, JournalOK, AccurateIn, NoneSkippedIn, Archived, Unbegun
  <1> QED
    BY <1>1, <1>2, Zenon DEF HostInv, Start, world, At, TurnAtMostOnce, Unbegun

LEMMA SkipUpdateInv == ASSUME NEW u \in Updates, HostInv, SkipUpdate(u) PROVE HostInv'
  <1>1. /\ writing' \in State /\ writing'.pending = NoPending
        /\ writing'.next_update = u + 1 /\ writing'.session = disk.session
    BY BoundsAreNaturals DEF HostInv, TypeOK, SkipUpdate, Save, At, State, Updates
  <1>2. pc' = "saving" /\ then' = "poll" /\ state = disk /\ IsNextUpdate(u) /\ inbox[u] = "foreign"
        /\ disk.pending = NoPending /\ disk.next_update \in Nat
    BY BoundsAreNaturals DEF HostInv, TypeOK, SkipUpdate, Save, At, State
  <1>3. TypeOK'
    BY <1>1, <1>2, Zenon DEF HostInv, TypeOK, SkipUpdate, world, Locations
  <1>4. JournalOK(disk)'
    BY Zenon DEF HostInv, SkipUpdate, world, JournalOK, AccurateIn, NoneSkippedIn, Archived, Unbegun
  <1>5. JournalOK(writing)'
    <2>1. DOMAIN inbox \subseteq Updates /\ u \in DOMAIN inbox /\ disk.next_update <= u
          /\ \A v \in DOMAIN inbox : v \in Nat /\ (disk.next_update <= v => u <= v)
      BY <1>2 DEF IsNextUpdate, Updates, HostInv, TypeOK
    <2>2. NoneSkippedIn(writing)'
      <3> SUFFICES ASSUME NEW v \in DOMAIN inbox, inbox[v] # "foreign", v < u + 1
                   PROVE  UpdateWork(v) \in settled \/ Archived(UpdateWork(v))
        BY <1>1, Zenon DEF NoneSkippedIn, Archived, SkipUpdate, world
      <3>1. v < disk.next_update
        BY <1>2, <2>1 DEF Updates
      <3> QED
        BY <3>1, Zenon DEF HostInv, JournalOK, NoneSkippedIn
    <2>3. writing'.next_update - 1 = u
      BY <1>1 DEF Updates
    <2>4. \A v \in Updates : u + 1 <= v => Unbegun(UpdateWork(v))
      BY <1>2, <2>1 DEF HostInv, JournalOK, Updates
    <2> QED
      BY <1>1, <1>2, <2>1, <2>2, <2>3, <2>4, Zenon DEF HostInv, JournalOK, AccurateIn, SkipUpdate, world, Unbegun
  <1> QED
    BY <1>1, <1>2, <1>3, <1>4, <1>5, Zenon DEF HostInv, SkipUpdate, world, At, TurnAtMostOnce, Unbegun

LEMMA AdmitUpdateInv == ASSUME NEW u \in Updates, HostInv, AdmitUpdate(u) PROVE HostInv'
  <1>0. NewPending(UpdateWork(u)) \in Pending /\ NewPending(UpdateWork(u)) # NoPending
    BY WorkTyped, BoundsAreNaturals DEF NewPending, Pending, NoPending
  <1>1. /\ writing' \in State /\ writing'.pending = NewPending(UpdateWork(u))
        /\ writing'.next_update = disk.next_update /\ writing'.session = disk.session
    BY <1>0, Zenon DEF HostInv, TypeOK, AdmitUpdate, Save, State
  <1>2. pc' = "saving" /\ then' = "run" /\ state = disk /\ IsNextUpdate(u)
        /\ disk.pending = NoPending /\ disk.next_update \in Nat
    BY BoundsAreNaturals DEF HostInv, TypeOK, AdmitUpdate, Save, At, State
  <1>3. TypeOK'
    BY <1>1, <1>2, Zenon DEF HostInv, TypeOK, AdmitUpdate, world, Locations
  <1>4. JournalOK(disk)'
    BY Zenon DEF HostInv, AdmitUpdate, world, JournalOK, AccurateIn, NoneSkippedIn, Archived, Unbegun
  <1>5. /\ u \in DOMAIN inbox /\ disk.next_update <= u /\ Unbegun(UpdateWork(u))
        /\ \A v \in DOMAIN inbox : disk.next_update <= v => u <= v
    BY <1>2, Zenon DEF IsNextUpdate, HostInv, JournalOK, Updates
  <1>6. /\ writing'.pending # NoPending /\ writing'.pending.work = UpdateWork(u)
        /\ writing'.pending.confirmed = 0 /\ ~writing'.pending.inflight /\ ~writing'.pending.answered
    BY <1>0, <1>1 DEF NewPending
  <1>7. JournalOK(writing)'
    <2>1. AccurateIn(writing)'
      BY <1>5, <1>6 DEF AccurateIn, Unbegun, AdmitUpdate, world
    <2>2. NoneSkippedIn(writing)' /\ (announced <= writing.session)'
      BY <1>1, Zenon DEF HostInv, JournalOK, NoneSkippedIn, Archived, AdmitUpdate, world
    <2> QED
      BY <1>1, <1>2, <1>5, <1>6, <2>1, <2>2, WorkTyped
         DEF HostInv, JournalOK, AdmitUpdate, world, Unbegun
  <1>8. At(then, writing)'
    BY <1>1, <1>2, <1>5, <1>6, Zenon DEF At, Unbegun, AdmitUpdate, world
  <1> QED
    BY <1>2, <1>3, <1>4, <1>7, <1>8, Zenon DEF HostInv, AdmitUpdate, world, TurnAtMostOnce, Unbegun

LEMMA AdmitTaskInv == ASSUME NEW t \in ready, HostInv, AdmitTask(t) PROVE HostInv'
  <1>0. /\ t.id \in 1 .. MaxTasks /\ t.id <= started /\ started \in Nat /\ Unbegun(TaskWork(t.id))
        /\ \A r \in ready \ {t} : r.id # t.id
    BY BoundsAreNaturals DEF HostInv, TypeOK
  <1>1. NewPending(TaskWork(t.id)) \in Pending /\ NewPending(TaskWork(t.id)) # NoPending
    BY <1>0, WorkTyped, BoundsAreNaturals DEF NewPending, Pending, NoPending
  <1>2. /\ writing' \in State /\ writing'.pending = NewPending(TaskWork(t.id))
        /\ writing'.next_update = disk.next_update /\ writing'.session = disk.session
    BY <1>1, Zenon DEF HostInv, TypeOK, AdmitTask, Save, State
  <1>3. pc' = "saving" /\ then' = "run" /\ state = disk /\ disk.pending = NoPending
        /\ ready' = ready \ {t}
    BY Zenon DEF HostInv, AdmitTask, Save, At
  <1>4. TypeOK'
    BY <1>2, <1>3, Zenon DEF HostInv, TypeOK, AdmitTask, world, Locations
  <1>5. JournalOK(disk)'
    BY <1>3, Zenon DEF HostInv, AdmitTask, world, JournalOK, AccurateIn, NoneSkippedIn, Archived, Unbegun
  <1>6. /\ writing'.pending # NoPending /\ writing'.pending.work = TaskWork(t.id)
        /\ writing'.pending.confirmed = 0 /\ ~writing'.pending.inflight /\ ~writing'.pending.answered
    BY <1>1, <1>2 DEF NewPending
  <1>7. JournalOK(writing)'
    <2>1. AccurateIn(writing)'
      BY <1>0, <1>6 DEF AccurateIn, Unbegun, AdmitTask, world
    <2>2. NoneSkippedIn(writing)' /\ (announced <= writing.session)'
      BY <1>2, Zenon DEF HostInv, JournalOK, NoneSkippedIn, Archived, AdmitTask, world
    <2>3. TaskWork(t.id).task /\ TaskWork(t.id).id \in 1 .. started
      BY <1>0, WorkTyped
    <2> QED
      BY <1>0, <1>2, <1>3, <1>6, <2>1, <2>2, <2>3, WorkTyped
         DEF HostInv, JournalOK, AdmitTask, world, Unbegun
  <1>8. At(then, writing)'
    BY <1>0, <1>2, <1>3, <1>6, Zenon DEF At, Unbegun, AdmitTask, world
  <1> QED
    BY <1>3, <1>4, <1>5, <1>7, <1>8, Zenon DEF HostInv, AdmitTask, world, TurnAtMostOnce, Unbegun

LEMMA RunTurnInv == ASSUME HostInv, RunTurn PROVE HostInv'
  <1> DEFINE w == disk.pending.work
  <1>0. /\ disk \in State /\ state = disk /\ disk.pending # NoPending /\ w \in Work
        /\ ran \in [Work -> Nat] /\ ran[w] = 0 /\ shown[w] = 0 /\ At("run", disk)
    BY PendingTyped, Zenon DEF HostInv, TypeOK, RunTurn, At
  <1>1. ran' = [ran EXCEPT ![w] = 1] /\ pc' = "turn" /\ UNCHANGED <<host, disk, archive, inbox, started, shown, settled, announced>>
    BY <1>0 DEF RunTurn
  <1>2. TypeOK'
    BY <1>0, <1>1, Zenon DEF HostInv, TypeOK, host, Locations
  <1>3. TurnAtMostOnce'
    BY <1>0, <1>1 DEF HostInv, TurnAtMostOnce
  <1>4. \A x \in Work \ {w} : Unbegun(x)' <=> Unbegun(x)
    BY <1>0, <1>1, Zenon DEF Unbegun
  <1>5. JournalOK(disk)'
    <2>1. \A u \in Updates : (disk.next_update <= u /\ ~Unbegun(UpdateWork(u)))' =>
            disk.pending.work = UpdateWork(u)
      BY <1>0, <1>1, <1>4, WorkTyped, Zenon DEF HostInv, JournalOK
    <2> QED
      BY <1>0, <1>1, <2>1, Zenon DEF HostInv, JournalOK, AccurateIn, NoneSkippedIn, Archived, host
  <1>6. At(pc, disk)'
    BY <1>0, <1>1, Zenon DEF At, host
  <1>7. /\ \A t \in ready : TaskWork(t.id) \in Work /\ TaskWork(t.id) # w
        /\ \A t \in 1 .. MaxTasks : started < t => TaskWork(t) \in Work /\ TaskWork(t) # w
    <2>1. \A t \in ready : t.id \in 1 .. MaxTasks
      BY Zenon DEF HostInv, TypeOK
    <2>2. started \in Nat /\ (w.task => w.id \in 1 .. started /\ \A t \in ready : t.id # w.id)
      BY <1>0 DEF HostInv, JournalOK, TypeOK
    <2>3. \A t \in 1 .. MaxTasks : TaskWork(t) \in Work /\ (TaskWork(t) = w => w.task /\ w.id = t)
      BY <1>0, WorkTyped
    <2> QED
      BY <2>1, <2>2, <2>3
  <1>8. /\ \A t \in ready : t.id <= started /\ Unbegun(TaskWork(t.id))'
        /\ \A t \in 1 .. MaxTasks : started < t => Unbegun(TaskWork(t))'
    BY <1>4, <1>7, Zenon DEF HostInv
  <1> QED
    BY <1>0, <1>1, <1>2, <1>3, <1>5, <1>6, <1>8, Zenon DEF HostInv, host

\* Writing the journal with a new pending record: what a delivery step does.
LEMMA PendingUpdate ==
  ASSUME NEW d \in State, d.pending # NoPending
  PROVE  /\ [d EXCEPT !.pending.inflight = TRUE] \in State
         /\ [d EXCEPT !.pending.inflight = TRUE].pending = [d.pending EXCEPT !.inflight = TRUE]
  <1>1. d.pending \in Pending
    BY PendingTyped, Zenon
  <1>2. [d.pending EXCEPT !.inflight = TRUE] \in Pending
    BY <1>1, Zenon DEF Pending
  <1> QED
    BY <1>2, Zenon DEF State

LEMMA AnswerInv == ASSUME NEW n \in 0 .. MaxParts, HostInv, Answer(n) PROVE HostInv'
  <1> DEFINE p == disk.pending
  <1>0. /\ disk \in State /\ state = disk /\ p # NoPending /\ p \in Pending /\ p.work \in Work
        /\ p = NewPending(p.work) /\ shown[p.work] = 0
    BY PendingTyped, Zenon DEF HostInv, TypeOK, Answer, At
  <1>1. p.confirmed = 0 /\ p.inflight = FALSE
    BY <1>0 DEF NewPending
  <1> DEFINE q == [p EXCEPT !.answered = TRUE]
  <1>2. /\ q \in Pending /\ q # NoPending /\ q.work = p.work /\ q.answered = TRUE
        /\ q.confirmed = 0 /\ q.inflight = FALSE
    BY <1>0, <1>1, Zenon DEF Pending, NoPending
  <1>3. /\ writing' \in State /\ writing'.pending = q
        /\ writing'.next_update = disk.next_update
        /\ writing'.session \in {disk.session, disk.session + 1}
    <2> DEFINE k == IF IsNewCommand THEN disk.session + 1 ELSE disk.session
    <2>1. disk.session \in Nat /\ disk.next_update \in 1 .. MaxUpdate + 1 /\ k \in Nat
      BY <1>0 DEF State
    <2>2. writing' = [disk EXCEPT !.pending = q, !.session = k]
      BY <1>0, Zenon DEF Answer, Save
    <2> HIDE DEF q
    <2> QED
      BY <1>0, <1>2, <2>1, <2>2, Zenon DEF State
  <1>4. pc' = "saving" /\ then' = "deliver" /\ parts' = n
    BY Zenon DEF Answer, Save
  <1>5. TypeOK'
    BY <1>3, <1>4, Zenon DEF HostInv, TypeOK, Answer, world, Locations
  <1>6. JournalOK(disk)'
    BY Zenon DEF HostInv, Answer, world, JournalOK, AccurateIn, NoneSkippedIn, Archived, Unbegun
  <1>7. JournalOK(writing)'
    <2>1. AccurateIn(writing)'
      BY <1>0, <1>2, <1>3 DEF AccurateIn, Answer, world
    <2>2. NoneSkippedIn(writing)'
      BY <1>3, Zenon DEF HostInv, JournalOK, NoneSkippedIn, Archived, Answer, world
    <2>3. (announced <= writing.session)'
      BY <1>3 DEF HostInv, JournalOK, TypeOK, State, Answer, world
    <2> QED
      BY <1>0, <1>2, <1>3, <2>1, <2>2, <2>3 DEF HostInv, JournalOK, Answer, world, Unbegun
  <1>8. At(then, writing)'
    BY <1>0, <1>2, <1>3, <1>4 DEF At, Answer, world
  <1> QED
    BY <1>0, <1>4, <1>5, <1>6, <1>7, <1>8, Zenon DEF HostInv, Answer, world, TurnAtMostOnce, Unbegun

LEMMA NextPartInv == ASSUME HostInv, NextPart PROVE HostInv'
  <1> DEFINE p == disk.pending
  <1>0. /\ disk \in State /\ state = disk /\ p # NoPending /\ p \in Pending /\ p.work \in Work
        /\ p.answered /\ p.confirmed = shown[p.work] /\ p.confirmed < parts
    BY PendingTyped, Zenon DEF HostInv, TypeOK, NextPart, At
  <1> DEFINE q == [p EXCEPT !.inflight = TRUE]
  <1>1. /\ q # NoPending /\ q.work = p.work /\ q.answered = p.answered
        /\ q.confirmed = p.confirmed /\ q.inflight = TRUE
    BY <1>0, Zenon DEF Pending, NoPending
  <1>2. /\ writing' \in State /\ writing'.pending = q
        /\ writing'.next_update = disk.next_update /\ writing'.session = disk.session
    BY <1>0, PendingUpdate, Zenon DEF NextPart, Save, State
  <1>3. pc' = "saving" /\ then' = "send"
    BY Zenon DEF NextPart, Save
  <1>4. TypeOK'
    BY <1>2, <1>3, Zenon DEF HostInv, TypeOK, NextPart, world, Locations
  <1>5. JournalOK(disk)'
    BY Zenon DEF HostInv, NextPart, world, JournalOK, AccurateIn, NoneSkippedIn, Archived, Unbegun
  <1>6. JournalOK(writing)'
    <2>1. AccurateIn(writing)'
      <3>1. p.confirmed \in Nat
        BY <1>0, BoundsAreNaturals DEF Pending
      <3> QED
        BY <1>0, <1>1, <1>2, <3>1 DEF AccurateIn, NextPart, world
    <2>2. NoneSkippedIn(writing)' /\ (announced <= writing.session)'
      BY <1>2, Zenon DEF HostInv, JournalOK, NoneSkippedIn, Archived, NextPart, world
    <2> QED
      BY <1>0, <1>1, <1>2, <2>1, <2>2 DEF HostInv, JournalOK, NextPart, world, Unbegun
  <1>7. At(then, writing)'
    BY <1>0, <1>1, <1>2, <1>3, Zenon DEF At, NextPart, world
  <1> QED
    BY <1>0, <1>3, <1>4, <1>5, <1>6, <1>7, Zenon DEF HostInv, NextPart, world, TurnAtMostOnce, Unbegun

\* A part that reaches the user is one the journal on disk already allows for.
LEMMA ShowFacts ==
  ASSUME HostInv, pc = "send", Show,
         UNCHANGED <<disk, archive, inbox, started, ran, settled>>, ready' \subseteq ready
  PROVE  /\ disk \in State /\ state = disk /\ disk.pending # NoPending
         /\ disk.pending \in Pending /\ disk.pending.work \in Work
         /\ disk.pending.answered /\ disk.pending.inflight
         /\ disk.pending.confirmed \in Nat /\ disk.pending.confirmed < parts
         /\ shown' = [shown EXCEPT ![disk.pending.work] = disk.pending.confirmed + 1]
         /\ shown' \in [Work -> Nat]
         /\ announced' \in Nat /\ announced' <= disk.session
         /\ JournalOK(disk)'
         /\ \A t \in ready' : t.id <= started /\ Unbegun(TaskWork(t.id))'
         /\ \A t \in 1 .. MaxTasks : started < t => Unbegun(TaskWork(t))'
  <1> DEFINE w == disk.pending.work
  <1>0. /\ disk \in State /\ state = disk /\ disk.pending # NoPending
        /\ disk.pending \in Pending /\ w \in Work
        /\ disk.pending.answered /\ disk.pending.inflight
        /\ disk.pending.confirmed = shown[w] /\ disk.pending.confirmed < parts
        /\ shown \in [Work -> Nat] /\ disk.session \in Nat
    BY PendingTyped, Zenon DEF HostInv, TypeOK, At, State
  <1>1. shown[w] \in Nat /\ shown' = [shown EXCEPT ![w] = shown[w] + 1]
    BY <1>0, Zenon DEF Show
  <1>2. announced' \in Nat /\ announced' <= disk.session
    BY <1>0 DEF Show, HostInv, JournalOK, TypeOK
  <1>3. \A x \in Work \ {w} : Unbegun(x)' <=> Unbegun(x)
    BY <1>0, <1>1, Zenon DEF Unbegun
  <1>4. AccurateIn(disk)'
    BY <1>0, <1>1, SMTT(30) DEF AccurateIn
  <1>5. JournalOK(disk)'
    <2>1. \A u \in Updates : (disk.next_update <= u /\ ~Unbegun(UpdateWork(u)))' =>
            disk.pending.work = UpdateWork(u)
      BY <1>0, <1>3, WorkTyped, Zenon DEF HostInv, JournalOK
    <2> QED
      BY <1>0, <1>2, <1>4, <2>1, Zenon DEF HostInv, JournalOK, NoneSkippedIn, Archived
  <1>6. /\ \A t \in ready : TaskWork(t.id) \in Work \ {w}
        /\ \A t \in 1 .. MaxTasks : started < t => TaskWork(t) \in Work \ {w}
    <2>1. \A t \in ready : t.id \in 1 .. MaxTasks
      BY Zenon DEF HostInv, TypeOK
    <2>2. started \in Nat /\ (w.task => w.id \in 1 .. started /\ \A t \in ready : t.id # w.id)
      BY <1>0 DEF HostInv, JournalOK, TypeOK
    <2>3. \A t \in 1 .. MaxTasks : TaskWork(t) \in Work /\ (TaskWork(t) = w => w.task /\ w.id = t)
      BY <1>0, WorkTyped
    <2> QED
      BY <2>1, <2>2, <2>3
  <1>7. /\ \A t \in ready' : t.id <= started /\ Unbegun(TaskWork(t.id))'
        /\ \A t \in 1 .. MaxTasks : started < t => Unbegun(TaskWork(t))'
    BY <1>3, <1>6, Zenon DEF HostInv
  <1> QED
    BY <1>0, <1>1, <1>2, <1>5, <1>7

LEMMA PartConfirmedInv == ASSUME HostInv, PartConfirmed PROVE HostInv'
  <1> DEFINE p == disk.pending
  <1>0. /\ disk \in State /\ state = disk /\ p # NoPending /\ p \in Pending /\ p.work \in Work
        /\ p.answered /\ p.confirmed \in Nat /\ p.confirmed < parts
        /\ shown' = [shown EXCEPT ![p.work] = p.confirmed + 1] /\ shown' \in [Work -> Nat]
        /\ announced' \in Nat /\ announced' <= disk.session /\ JournalOK(disk)'
        /\ (\A t \in ready' : t.id <= started /\ Unbegun(TaskWork(t.id))')
        /\ (\A t \in 1 .. MaxTasks : started < t => Unbegun(TaskWork(t))')
    BY ShowFacts, Zenon DEF PartConfirmed
  <1>1. p.confirmed + 1 \in 0 .. MaxParts /\ shown'[p.work] = p.confirmed + 1 /\ parts \in Nat
    BY <1>0, BoundsAreNaturals DEF HostInv, TypeOK
  <1> DEFINE q == [p EXCEPT !.inflight = FALSE, !.confirmed = p.confirmed + 1]
  <1>2. /\ q \in Pending /\ q # NoPending /\ q.work = p.work /\ q.answered = p.answered
        /\ q.confirmed = p.confirmed + 1 /\ q.inflight = FALSE
    BY <1>0, <1>1, Zenon DEF Pending, NoPending
  <1>3. /\ writing' \in State /\ writing'.pending = q
        /\ writing'.next_update = disk.next_update /\ writing'.session = disk.session
    <2>1. writing' = [disk EXCEPT !.pending = q]
      BY <1>0, Zenon DEF PartConfirmed, Save, State, Pending
    <2> HIDE DEF q
    <2> QED
      BY <1>0, <1>2, <2>1, Zenon DEF State
  <1>4. pc' = "saving" /\ then' = "deliver"
    BY Zenon DEF PartConfirmed, Save
  <1>5. TypeOK'
    BY <1>0, <1>3, <1>4, Zenon DEF HostInv, TypeOK, PartConfirmed, Locations
  <1>6. /\ writing'.pending # NoPending /\ writing'.pending.inflight = FALSE
        /\ writing'.pending.answered = TRUE
        /\ writing'.pending.confirmed = shown'[writing'.pending.work]
        /\ writing'.pending.confirmed \in Nat /\ writing'.pending.confirmed <= parts
    <2>1. q.answered = TRUE
      BY <1>0, Zenon DEF Pending
    <2>2. p.confirmed + 1 \in Nat /\ p.confirmed + 1 <= parts
      BY <1>0, <1>1
    <2> HIDE DEF q
    <2> QED
      BY <1>1, <1>2, <1>3, <2>1, <2>2, Zenon
  <1> HIDE DEF q
  <1>7. JournalOK(writing)'
    <2>1. AccurateIn(writing)'
      BY <1>6 DEF AccurateIn
    <2>2. NoneSkippedIn(writing)' /\ (announced <= writing.session)'
      BY <1>0, <1>3, Zenon DEF JournalOK, NoneSkippedIn, Archived, PartConfirmed
    <2> QED
      BY <1>0, <1>2, <1>3, <2>1, <2>2, ZenonT(30) DEF JournalOK, PartConfirmed, Unbegun
  <1>8. At(then, writing)'
    <2>1. parts' = parts
      BY Zenon DEF PartConfirmed
    <2> QED
      BY <1>4, <1>6, <2>1, Zenon DEF At
  <1> QED
    BY <1>0, <1>4, <1>5, <1>7, <1>8, Zenon DEF HostInv, PartConfirmed, TurnAtMostOnce

LEMMA ReceiptLostInv == ASSUME HostInv, ReceiptLost PROVE HostInv'
  <1>0. /\ shown' \in [Work -> Nat] /\ announced' \in Nat /\ JournalOK(disk)'
        /\ (\A t \in ready' : t.id <= started /\ Unbegun(TaskWork(t.id))')
        /\ (\A t \in 1 .. MaxTasks : started < t => Unbegun(TaskWork(t))')
    BY ShowFacts, Zenon DEF ReceiptLost, Down
  <1>1. TypeOK'
    BY <1>0, BoundsAreNaturals DEF HostInv, TypeOK, ReceiptLost, Down, NewState, State, Locations
  <1> QED
    BY <1>0, <1>1, Zenon DEF HostInv, ReceiptLost, Down, TurnAtMostOnce

\* Settling the pending work, delivered or archived, moves the cursor past its
\* update and past no other.
LEMMA SettleFacts ==
  ASSUME NEW d \in State, NEW e \in State, JournalOK(d), d.pending # NoPending,
         DOMAIN inbox \subseteq Updates,
         e.pending = NoPending, e.session = d.session,
         e.next_update = IF d.pending.work.task THEN d.next_update ELSE d.pending.work.id + 1,
         UNCHANGED <<inbox, started, ran, shown, announced, ready>>,
         settled \subseteq settled', archive \subseteq archive',
         d.pending.work \in settled' \/ \E a \in archive' : a.pending # NoPending /\ a.pending.work = d.pending.work
  PROVE  JournalOK(e)'
  <1> DEFINE w == d.pending.work
  <1>0. /\ w \in Work /\ w.id \in Nat /\ w.task \in BOOLEAN /\ d.next_update \in Nat /\ e.next_update \in Nat
        /\ (~w.task => w = UpdateWork(w.id) /\ w.id \in Updates /\ d.next_update <= w.id)
    BY PendingTyped, WorkTyped, BoundsAreNaturals DEF State, JournalOK
  <1>1. NoneSkippedIn(e)'
    <2> SUFFICES ASSUME NEW u \in DOMAIN inbox, inbox[u] # "foreign", u < e.next_update
                 PROVE  UpdateWork(u) \in settled' \/ Archived(UpdateWork(u))'
      BY Zenon DEF NoneSkippedIn
    <2>1. CASE u < d.next_update
      BY <2>1, Zenon DEF JournalOK, NoneSkippedIn, Archived
    <2>2. CASE ~(u < d.next_update)
      <3>1. u \in Nat /\ d.next_update <= u /\ ~w.task
        BY <1>0, <2>2, BoundsAreNaturals DEF Updates
      <3>2. w.id <= u /\ u < w.id + 1
        BY <3>1, Zenon DEF JournalOK
      <3> QED
        BY <1>0, <3>1, <3>2 DEF Archived
    <2> QED
      BY <2>1, <2>2, Zenon
  <1>2. e.next_update = 1 \/ e.next_update - 1 \in DOMAIN inbox
    <2>1. CASE w.task
      BY <2>1, Zenon DEF JournalOK
    <2>2. CASE ~w.task
      <3>1. e.next_update - 1 = w.id
        BY <1>0, <2>2
      <3> QED
        BY <2>2, <3>1, Zenon DEF JournalOK
    <2> QED
      BY <2>1, <2>2, Zenon
  <1>3. ASSUME NEW u \in Updates, e.next_update <= u PROVE Unbegun(UpdateWork(u))
    <2>1. u \in Nat /\ d.next_update <= u
      BY <1>0, <1>3, BoundsAreNaturals DEF Updates
    <2>2. UpdateWork(u) # w
      BY <1>0, <1>3, <2>1, WorkTyped
    <2> QED
      BY <2>1, <2>2, Zenon DEF JournalOK
  <1> QED
    BY <1>1, <1>2, <1>3, Zenon DEF JournalOK, AccurateIn, Unbegun

LEMMA DeliveredInv == ASSUME HostInv, Delivered PROVE HostInv'
  <1> DEFINE w == disk.pending.work
  <1>0. /\ disk \in State /\ state = disk /\ disk.pending # NoPending /\ w \in Work /\ w.id \in Nat
        /\ DOMAIN inbox \subseteq Updates /\ disk.next_update \in 1 .. MaxUpdate + 1 /\ JournalOK(disk)
    BY PendingTyped, WorkTyped, Zenon DEF HostInv, TypeOK, Delivered, At, State
  <1> DEFINE n == IF w.task THEN disk.next_update ELSE w.id + 1
  <1>1. n \in 1 .. MaxUpdate + 1
    BY <1>0, BoundsAreNaturals DEF JournalOK, Updates
  <1>2. /\ writing' \in State /\ writing'.pending = NoPending
        /\ writing'.session = disk.session /\ writing'.next_update = n
    <2>1. writing' = [disk EXCEPT !.pending = NoPending, !.next_update = n]
      BY <1>0, Zenon DEF Delivered, Save
    <2> HIDE DEF n
    <2> QED
      BY <1>0, <1>1, <2>1, Zenon DEF State
  <1>3. pc' = "saving" /\ then' = "poll" /\ settled' = settled \cup {w}
    BY <1>0, Zenon DEF Delivered, Save
  <1>4. TypeOK'
    BY <1>0, <1>2, <1>3, Zenon DEF HostInv, TypeOK, Delivered, Locations
  <1>5. JournalOK(disk)'
    BY <1>0, <1>3, Zenon DEF JournalOK, AccurateIn, NoneSkippedIn, Archived, Unbegun, Delivered
  <1>6. JournalOK(writing)'
    <2>1. ASSUME NEW e \in State, e.pending = NoPending, e.session = disk.session, e.next_update = n
          PROVE  JournalOK(e)'
      <3>1. w \in settled' /\ settled \subseteq settled'
            /\ UNCHANGED <<inbox, started, ran, shown, announced, ready, archive>>
        BY <1>3, Zenon DEF Delivered
      <3> QED
        BY <1>0, <2>1, <3>1, SettleFacts, Zenon
    <2> QED
      BY <1>2, <2>1, Zenon DEF JournalOK, AccurateIn, NoneSkippedIn, Archived, Unbegun
  <1> QED
    BY <1>0, <1>2, <1>3, <1>4, <1>5, <1>6, ZenonT(30) DEF HostInv, Delivered, At, TurnAtMostOnce, Unbegun

LEMMA ArchiveInv == ASSUME HostInv, Archive PROVE HostInv'
  <1>1. TypeOK'
    BY Zenon DEF HostInv, TypeOK, Archive, host, Locations
  <1>2. JournalOK(disk)'
    BY Zenon DEF HostInv, Archive, host, JournalOK, AccurateIn, NoneSkippedIn, Archived, Unbegun
  <1> QED
    BY <1>1, <1>2, Zenon DEF HostInv, Archive, host, TurnAtMostOnce, Unbegun

LEMMA AcknowledgeInv == ASSUME HostInv, Acknowledge PROVE HostInv'
  <1> DEFINE w == disk.pending.work
  <1>0. /\ disk \in State /\ disk.pending # NoPending /\ w \in Work /\ w.id \in Nat /\ disk \in archive
        /\ DOMAIN inbox \subseteq Updates /\ disk.next_update \in 1 .. MaxUpdate + 1 /\ JournalOK(disk)
    BY PendingTyped, WorkTyped, Zenon DEF HostInv, TypeOK, Acknowledge, State
  <1> DEFINE n == IF w.task THEN disk.next_update ELSE w.id + 1
  <1>1. n \in 1 .. MaxUpdate + 1
    BY <1>0, BoundsAreNaturals DEF JournalOK, Updates
  <1>2. /\ disk' \in State /\ disk'.pending = NoPending
        /\ disk'.session = disk.session /\ disk'.next_update = n
    <2>1. disk' = [disk EXCEPT !.pending = NoPending, !.next_update = n]
      BY Zenon DEF Acknowledge
    <2> HIDE DEF n
    <2> QED
      BY <1>0, <1>1, <2>1, Zenon DEF State
  <1>3. TypeOK'
    BY <1>2, Zenon DEF HostInv, TypeOK, Acknowledge, host, world, Locations
  <1>4. JournalOK(disk)'
    <2>1. ASSUME NEW e \in State, e.pending = NoPending, e.session = disk.session, e.next_update = n
          PROVE  JournalOK(e)'
      <3>1. (\E a \in archive' : a.pending # NoPending /\ a.pending.work = w)
            /\ UNCHANGED <<inbox, started, ran, shown, announced, ready, settled, archive>>
        BY <1>0, Zenon DEF Acknowledge, Archived, host, world
      <3> QED
        BY <1>0, <2>1, <3>1, SettleFacts, Zenon
    <2> QED
      BY <1>2, <2>1, Zenon DEF JournalOK, AccurateIn, NoneSkippedIn, Archived, Unbegun
  <1> QED
    BY <1>3, <1>4, Zenon DEF HostInv, Acknowledge, host, world, TurnAtMostOnce, Unbegun

LEMMA StutterInv == ASSUME HostInv, UNCHANGED vars PROVE HostInv'
  <1>1. TypeOK'
    BY Zenon DEF HostInv, TypeOK, vars
  <1>2. JournalOK(disk)' /\ (pc' = "saving" => JournalOK(writing)')
    BY Zenon DEF HostInv, vars, JournalOK, AccurateIn, NoneSkippedIn, Archived, Unbegun
  <1> QED
    BY <1>1, <1>2, Zenon DEF HostInv, vars, At, TurnAtMostOnce, Unbegun

\* At every point where the host can stop, in the middle of a write included, the
\* journal left behind accounts for what it did: for any number of updates, parts,
\* tasks, crashes, restarts and acknowledgements.
THEOREM HostInvariant == Spec => []HostInv
  <1>1. HostInv /\ [Next]_vars => HostInv'
    <2> SUFFICES ASSUME HostInv, [Next]_vars PROVE HostInv'
      BY Zenon
    <2>1. ASSUME NEW u \in Updates, NEW k \in Kinds, UpdateArrives(u, k) PROVE HostInv'
      BY <2>1, UpdateArrivesInv, Zenon
    <2>2. ASSUME NEW u \in Updates, SkipUpdate(u) PROVE HostInv'
      BY <2>2, SkipUpdateInv, Zenon
    <2>3. ASSUME NEW u \in Updates, AdmitUpdate(u) PROVE HostInv'
      BY <2>3, AdmitUpdateInv, Zenon
    <2>4. ASSUME NEW t \in ready, AdmitTask(t) PROVE HostInv'
      BY <2>4, AdmitTaskInv, Zenon
    <2>5. ASSUME NEW n \in 0 .. MaxParts, Answer(n) PROVE HostInv'
      BY <2>5, AnswerInv, Zenon
    <2>6. CASE Stops \/ Saved \/ SaveStops \/ Start
      BY <2>6, StopsInv, SavedInv, SaveStopsInv, StartInv, Zenon
    <2>7. CASE TaskFinishes \/ RunTurn \/ NextPart \/ PartConfirmed \/ ReceiptLost \/ Delivered
      BY <2>7, TaskFinishesInv, RunTurnInv, NextPartInv, PartConfirmedInv, ReceiptLostInv, DeliveredInv, Zenon
    <2>8. CASE Archive \/ Acknowledge
      BY <2>8, ArchiveInv, AcknowledgeInv, Zenon
    <2>9. CASE UNCHANGED vars
      BY <2>9, StutterInv, Zenon
    <2> QED
      BY <2>1, <2>2, <2>3, <2>4, <2>5, <2>6, <2>7, <2>8, <2>9, Zenon DEF Next
  <1> QED
    BY HostInit, <1>1, PTL DEF Spec

\* The journal an operator inspects is never behind what the user was sent by more
\* than the part marked in flight.
THEOREM JournalAccurate == Spec => []JournalIsAccurate
  <1>1. HostInv => JournalIsAccurate
    BY Zenon DEF HostInv, JournalOK, JournalIsAccurate
  <1> QED
    BY HostInvariant, <1>1, PTL

\* No update and no background completion makes the agent run twice.
THEOREM AtMostOneTurn == Spec => []TurnAtMostOnce
  <1>1. HostInv => TurnAtMostOnce
    BY Zenon DEF HostInv
  <1> QED
    BY HostInvariant, <1>1, PTL

\* The cursor passes no admitted update that was not delivered or archived.
THEOREM NoUpdateSkipped == Spec => []NothingSkipped
  <1>1. HostInv => NothingSkipped
    BY Zenon DEF HostInv, JournalOK, NothingSkipped
  <1> QED
    BY HostInvariant, <1>1, PTL

\* A session the user was told of survives every crash and acknowledgement.
THEOREM SessionKept == Spec => []AnnouncedSessionKept
  <1>1. HostInv => AnnouncedSessionKept
    BY Zenon DEF HostInv, JournalOK, AnnouncedSessionKept
  <1> QED
    BY HostInvariant, <1>1, PTL

\* Neither an admitted update nor an announced session is lost.
THEOREM NoMessageLost == Spec => []WorkKept
  <1>1. NothingSkipped /\ AnnouncedSessionKept => WorkKept
    BY Zenon DEF WorkKept
  <1> QED
    BY NoUpdateSkipped, SessionKept, <1>1, PTL

-----------------------------------------------------------------------------
\* The channel: sequences.

LEMMA SeqTyped ==
  ASSUME NEW S, NEW s \in Seq(S)
  PROVE  Len(s) \in Nat /\ s \in [1 .. Len(s) -> S] /\ DOMAIN s = 1 .. Len(s)
  OBVIOUS

LEMMA SeqAt == ASSUME NEW S, NEW s \in Seq(S), NEW i \in 1 .. Len(s) PROVE s[i] \in S
  OBVIOUS

LEMMA SeqNone ==
  ASSUME NEW S
  PROVE  << >> \in Seq(S) /\ Len(<< >>) = 0 /\ \A s \in Seq(S) : s # << >> => Len(s) \in Nat \ {0}
  OBVIOUS

LEMMA SeqSame ==
  ASSUME NEW S, NEW s \in Seq(S), NEW t \in Seq(S), Len(s) = Len(t), \A i \in 1 .. Len(s) : s[i] = t[i]
  PROVE  s = t
  BY SeqTyped

LEMMA Join ==
  ASSUME NEW S, NEW s \in Seq(S), NEW t \in Seq(S)
  PROVE  /\ s \o t \in Seq(S) /\ Len(s \o t) = Len(s) + Len(t)
         /\ \A i \in 1 .. Len(s) + Len(t) : (s \o t)[i] = IF i <= Len(s) THEN s[i] ELSE t[i - Len(s)]
  OBVIOUS

LEMMA JoinNone == ASSUME NEW S, NEW s \in Seq(S) PROVE s \o << >> = s /\ << >> \o s = s
  OBVIOUS

LEMMA JoinJoin ==
  ASSUME NEW S, NEW s \in Seq(S), NEW t \in Seq(S), NEW u \in Seq(S)
  PROVE  (s \o t) \o u = s \o (t \o u)
  OBVIOUS

LEMMA Add ==
  ASSUME NEW S, NEW s \in Seq(S), NEW x \in S
  PROVE  /\ Append(s, x) \in Seq(S) /\ Append(s, x) # << >> /\ Len(Append(s, x)) = Len(s) + 1
         /\ \A i \in 1 .. Len(s) : Append(s, x)[i] = s[i]
         /\ Append(s, x)[Len(s) + 1] = x
  OBVIOUS

LEMMA AddJoin == ASSUME NEW S, NEW s \in Seq(S), NEW x \in S PROVE Append(s, x) = s \o <<x>>
  OBVIOUS

LEMMA Part ==
  ASSUME NEW S, NEW s, NEW m \in Int, NEW n \in Int, \A i \in m .. n : s[i] \in S
  PROVE  /\ SubSeq(s, m, n) \in Seq(S) /\ Len(SubSeq(s, m, n)) = IF m <= n THEN n - m + 1 ELSE 0
         /\ \A i \in 1 .. n - m + 1 : SubSeq(s, m, n)[i] = s[m + i - 1]
  OBVIOUS

LEMMA Rest ==
  ASSUME NEW S, NEW s \in Seq(S), s # << >>
  PROVE  /\ Head(s) \in S /\ Tail(s) \in Seq(S) /\ Len(Tail(s)) = Len(s) - 1
         /\ \A i \in 1 .. Len(Tail(s)) : Tail(s)[i] = s[i + 1]
  OBVIOUS

-----------------------------------------------------------------------------
\* Sequences by their elements.

LEMMA Elements ==
  ASSUME NEW S, NEW s \in Seq(S)
  PROVE  /\ Len(s) \in Nat /\ DOMAIN s = 1 .. Len(s) /\ Range(s) \subseteq S
         /\ \A i \in 1 .. Len(s) : s[i] \in S
         /\ \A x : x \in Range(s) <=> \E i \in 1 .. Len(s) : s[i] = x
         /\ IsInjective(s) <=> \A i, j \in 1 .. Len(s) : s[i] = s[j] => i = j
         /\ s = << >> <=> Len(s) = 0
  <1>1. Len(s) \in Nat /\ DOMAIN s = 1 .. Len(s)
    BY SeqTyped, Zenon
  <1>2. \A i \in 1 .. Len(s) : s[i] \in S
    BY SeqAt, Zenon
  <1>3. \A x : x \in Range(s) <=> \E i \in 1 .. Len(s) : s[i] = x
    BY <1>1, Zenon DEF Range
  <1>4. Range(s) \subseteq S
    BY <1>2, <1>3, Zenon
  <1>5. IsInjective(s) <=> \A i, j \in 1 .. Len(s) : s[i] = s[j] => i = j
    BY <1>1, Zenon DEF IsInjective
  <1>6. s = << >> <=> Len(s) = 0
    BY SeqNone, Zenon
  <1> QED
    BY <1>1, <1>2, <1>3, <1>4, <1>5, <1>6, Zenon

LEMMA Found ==
  ASSUME NEW S, NEW s \in Seq(S), NEW x \in Range(s)
  PROVE  \E i \in 1 .. Len(s) : s[i] = x
  <1>1. \A y : y \in Range(s) <=> \E i \in 1 .. Len(s) : s[i] = y
    BY Elements, ZenonT(30)
  <1> QED
    BY <1>1, Zenon

LEMMA Parts ==
  ASSUME NEW S, NEW s \in Seq(S), NEW n \in 0 .. Len(s)
  PROVE  /\ Take(s, n) \in Seq(S) /\ Len(Take(s, n)) = n
         /\ \A i \in 1 .. n : Take(s, n)[i] = s[i]
         /\ Drop(s, n) \in Seq(S) /\ Len(Drop(s, n)) = Len(s) - n
         /\ \A i \in 1 .. (Len(s) - n) : Drop(s, n)[i] = s[n + i]
  <1>1. Len(s) \in Nat
    BY SeqTyped, Zenon
  <1>2. Take(s, n) \in Seq(S) /\ Len(Take(s, n)) = n /\ \A i \in 1 .. n : Take(s, n)[i] = s[i]
    BY <1>1, Part DEF Take
  <1>3. /\ Drop(s, n) \in Seq(S) /\ Len(Drop(s, n)) = Len(s) - n
        /\ \A i \in 1 .. (Len(s) - n) : Drop(s, n)[i] = s[n + i]
    BY <1>1, Part DEF Drop
  <1> QED
    BY <1>2, <1>3, Zenon

\* The front and the rest of a queue have its calls, each in one of them.
LEMMA Split ==
  ASSUME NEW S, NEW s \in Seq(S), NEW n \in 0 .. Len(s), IsInjective(s)
  PROVE  /\ IsInjective(Take(s, n)) /\ IsInjective(Drop(s, n))
         /\ \A x : x \in Range(s) <=> x \in Range(Take(s, n)) \/ x \in Range(Drop(s, n))
         /\ \A x : ~(x \in Range(Take(s, n)) /\ x \in Range(Drop(s, n)))
  <1> DEFINE t == Take(s, n)
             r == Drop(s, n)
  <1>1. /\ t \in Seq(S) /\ Len(t) = n /\ (\A i \in 1 .. n : t[i] = s[i])
        /\ r \in Seq(S) /\ Len(r) = Len(s) - n /\ (\A i \in 1 .. (Len(s) - n) : r[i] = s[n + i])
    BY Parts, ZenonT(30)
  <1> HIDE DEF t, r
  <1>2. Len(s) \in Nat /\ \A i, j \in 1 .. Len(s) : s[i] = s[j] => i = j
    BY Elements, Zenon
  <1>7. /\ \A i \in 1 .. Len(t) : i \in 1 .. Len(s) /\ t[i] = s[i]
        /\ \A i \in 1 .. Len(r) : n + i \in 1 .. Len(s) /\ r[i] = s[n + i]
        /\ \A i, j \in 1 .. Len(r) : n + i = n + j => i = j
        /\ \A i \in 1 .. Len(t), j \in 1 .. Len(r) : i # n + j
    BY <1>1, <1>2
  <1>3. IsInjective(t)
    <2>1. \A i, j \in 1 .. Len(t) : t[i] = t[j] => i = j
      BY <1>2, <1>7, Zenon
    <2> QED
      BY <1>1, <2>1, Elements, Zenon
  <1>4. IsInjective(r)
    <2>1. \A i, j \in 1 .. Len(r) : r[i] = r[j] => i = j
      BY <1>2, <1>7, ZenonT(30)
    <2> QED
      BY <1>1, <2>1, Elements, Zenon
  <1>5. ASSUME NEW x PROVE ~(x \in Range(t) /\ x \in Range(r))
    <2> SUFFICES ASSUME x \in Range(t), x \in Range(r) PROVE FALSE
      BY Zenon
    <2>1. PICK i \in 1 .. Len(t) : t[i] = x
      BY <1>1, Elements
    <2>2. PICK j \in 1 .. Len(r) : r[j] = x
      BY <1>1, Elements
    <2>3. i \in 1 .. Len(s) /\ s[i] = x /\ n + j \in 1 .. Len(s) /\ s[n + j] = x /\ i # n + j
      BY <1>7, <2>1, <2>2, Zenon
    <2>4. i = n + j
      BY <1>2, <2>3, Zenon
    <2> QED
      BY <2>3, <2>4, Zenon
  <1>6. ASSUME NEW x PROVE x \in Range(s) <=> x \in Range(t) \/ x \in Range(r)
    <2>1. ASSUME x \in Range(s) PROVE x \in Range(t) \/ x \in Range(r)
      <3>1. PICK i \in 1 .. Len(s) : s[i] = x
        BY <2>1, Elements
      <3>2. CASE i <= n
        <4>1. i \in 1 .. Len(t) /\ t[i] = x
          BY <1>1, <1>2, <3>1, <3>2
        <4> QED
          BY <1>1, <4>1, Elements, Zenon
      <3>3. CASE ~(i <= n)
        <4>1. i - n \in 1 .. Len(r) /\ r[i - n] = x
          BY <1>1, <1>2, <3>1, <3>3
        <4> QED
          BY <1>1, <4>1, Elements, Zenon
      <3> QED
        BY <3>2, <3>3, Zenon
    <2>2. ASSUME x \in Range(t) PROVE x \in Range(s)
      <3>1. PICK i \in 1 .. Len(t) : t[i] = x
        BY <1>1, <2>2, Elements
      <3>2. i \in 1 .. Len(s) /\ s[i] = x
        BY <1>1, <1>2, <3>1
      <3> QED
        BY <3>2, Elements, Zenon
    <2>3. ASSUME x \in Range(r) PROVE x \in Range(s)
      <3>1. PICK i \in 1 .. Len(r) : r[i] = x
        BY <1>1, <2>3, Elements
      <3>2. n + i \in 1 .. Len(s) /\ s[n + i] = x
        BY <1>1, <1>2, <3>1
      <3> QED
        BY <3>2, Elements, Zenon
    <2> QED
      BY <2>1, <2>2, <2>3, Zenon
  <1> QED
    BY <1>3, <1>4, <1>5, <1>6, Zenon DEF t, r

\* What a sequence and one put behind it have.
LEMMA Joined ==
  ASSUME NEW S, NEW p \in Seq(S), NEW q \in Seq(S)
  PROVE  /\ p \o q \in Seq(S) /\ Len(p \o q) = Len(p) + Len(q)
         /\ \A i \in 1 .. Len(p) : (p \o q)[i] = p[i]
         /\ \A i \in 1 .. Len(q) : (p \o q)[Len(p) + i] = q[i]
         /\ \A x : x \in Range(p \o q) <=> x \in Range(p) \/ x \in Range(q)
         /\ IsInjective(p) /\ IsInjective(q) /\ (\A x : ~(x \in Range(p) /\ x \in Range(q)))
            => IsInjective(p \o q)
  <1> DEFINE t == p \o q
  <1>1. /\ t \in Seq(S) /\ Len(t) = Len(p) + Len(q)
        /\ (\A i \in 1 .. Len(p) : t[i] = p[i])
    BY Join, SeqTyped
  <1>2. Len(p) \in Nat /\ Len(q) \in Nat
    BY SeqTyped, Zenon
  <1>3. \A i \in 1 .. Len(q) : t[Len(p) + i] = q[i]
    BY <1>2, Join
  <1> HIDE DEF t
  <1>4. \A i \in 1 .. Len(t) : i \in 1 .. Len(p) \/ (i - Len(p) \in 1 .. Len(q) /\ t[i] = q[i - Len(p)])
    BY <1>1, <1>2, <1>3, SMTT(30)
  <1>5. ASSUME NEW x PROVE x \in Range(t) <=> x \in Range(p) \/ x \in Range(q)
    <2>1. ASSUME x \in Range(t) PROVE x \in Range(p) \/ x \in Range(q)
      <3>1. PICK i \in 1 .. Len(t) : t[i] = x
        BY <1>1, <2>1, Elements
      <3>2. \/ i \in 1 .. Len(p) /\ p[i] = x
            \/ i - Len(p) \in 1 .. Len(q) /\ q[i - Len(p)] = x
        BY <1>1, <1>4, <3>1, Zenon
      <3> QED
        BY <3>2, Elements, Zenon
    <2>2. ASSUME x \in Range(p) PROVE x \in Range(t)
      <3>1. PICK i \in 1 .. Len(p) : p[i] = x
        BY <2>2, Elements
      <3>2. i \in 1 .. Len(t) /\ t[i] = x
        BY <1>1, <1>2, <3>1
      <3> QED
        BY <1>1, <3>2, Elements, Zenon
    <2>3. ASSUME x \in Range(q) PROVE x \in Range(t)
      <3>1. PICK i \in 1 .. Len(q) : q[i] = x
        BY <2>3, Elements
      <3>2. Len(p) + i \in 1 .. Len(t) /\ t[Len(p) + i] = x
        BY <1>1, <1>2, <1>3, <3>1
      <3> QED
        BY <1>1, <3>2, Elements, Zenon
    <2> QED
      BY <2>1, <2>2, <2>3, Zenon
  <1>6. ASSUME IsInjective(p), IsInjective(q), \A x : ~(x \in Range(p) /\ x \in Range(q))
        PROVE  IsInjective(t)
    <2>1. /\ \A i, j \in 1 .. Len(p) : p[i] = p[j] => i = j
          /\ \A i, j \in 1 .. Len(q) : q[i] = q[j] => i = j
      BY <1>6, Elements, Zenon
    <2>2. \A i \in 1 .. Len(p), j \in 1 .. Len(q) : p[i] # q[j]
      BY <1>6, Elements, Zenon
    <2>3. ASSUME NEW i \in 1 .. Len(t), NEW j \in 1 .. Len(t), t[i] = t[j] PROVE i = j
      <3>1. /\ \/ i \in 1 .. Len(p) /\ t[i] = p[i]
               \/ i - Len(p) \in 1 .. Len(q) /\ t[i] = q[i - Len(p)]
            /\ \/ j \in 1 .. Len(p) /\ t[j] = p[j]
               \/ j - Len(p) \in 1 .. Len(q) /\ t[j] = q[j - Len(p)]
        BY <1>1, <1>4, Zenon
      <3>2. i \in Nat /\ j \in Nat
        BY <1>1, <1>2
      <3>3. i - Len(p) = j - Len(p) => i = j
        BY <1>2, <3>2
      <3>4. CASE i \in 1 .. Len(p) /\ t[i] = p[i] /\ j \in 1 .. Len(p) /\ t[j] = p[j]
        BY <2>1, <2>3, <3>4, Zenon
      <3>5. CASE /\ i - Len(p) \in 1 .. Len(q) /\ t[i] = q[i - Len(p)]
                 /\ j - Len(p) \in 1 .. Len(q) /\ t[j] = q[j - Len(p)]
        <4>1. i - Len(p) = j - Len(p)
          BY <2>1, <2>3, <3>5, Zenon
        <4> QED
          BY <3>3, <4>1, Zenon
      <3>6. CASE /\ i \in 1 .. Len(p) /\ t[i] = p[i]
                 /\ j - Len(p) \in 1 .. Len(q) /\ t[j] = q[j - Len(p)]
        <4>1. p[i] # q[j - Len(p)]
          BY <2>2, <3>6, Zenon
        <4> QED
          BY <2>3, <3>6, <4>1, Zenon
      <3>7. CASE /\ i - Len(p) \in 1 .. Len(q) /\ t[i] = q[i - Len(p)]
                 /\ j \in 1 .. Len(p) /\ t[j] = p[j]
        <4>1. p[j] # q[i - Len(p)]
          BY <2>2, <3>7, Zenon
        <4> QED
          BY <2>3, <3>7, <4>1, Zenon
      <3> QED
        BY <3>1, <3>4, <3>5, <3>6, <3>7, Zenon
    <2> QED
      BY <1>1, <2>3, Elements, Zenon
  <1> QED
    BY <1>1, <1>3, <1>5, <1>6, Zenon DEF t

LEMMA Appended ==
  ASSUME NEW S, NEW s \in Seq(S), NEW e \in S
  PROVE  /\ Append(s, e) \in Seq(S) /\ Append(s, e) = s \o <<e>> /\ <<e>> \in Seq(S) /\ Len(<<e>>) = 1
         /\ \A x : x \in Range(<<e>>) <=> x = e
         /\ \A x : x \in Range(Append(s, e)) <=> x \in Range(s) \/ x = e
         /\ IsInjective(<<e>>)
         /\ IsInjective(s) /\ e \notin Range(s) => IsInjective(Append(s, e))
  <1> DEFINE u == <<e>>
  <1>1. u \in Seq(S) /\ Len(u) = 1 /\ u[1] = e
    OBVIOUS
  <1>2. Append(s, e) \in Seq(S) /\ Append(s, e) = s \o u
    BY Add, AddJoin, Zenon
  <1> HIDE DEF u
  <1>3. \A i \in 1 .. Len(u) : i = 1
    BY <1>1
  <1>4. 1 \in 1 .. Len(u)
    BY <1>1
  <1>5. /\ \A x : x \in Range(u) <=> \E i \in 1 .. Len(u) : u[i] = x
        /\ IsInjective(u) <=> \A i, j \in 1 .. Len(u) : u[i] = u[j] => i = j
    BY <1>1, Elements, Zenon
  <1>6. (\A x : x \in Range(u) <=> x = e) /\ IsInjective(u)
    <2>1. \A x : x \in Range(u) <=> x = e
      BY <1>1, <1>3, <1>4, <1>5, Zenon
    <2>2. \A i, j \in 1 .. Len(u) : i = j
      BY <1>3, Zenon
    <2> QED
      BY <1>5, <2>1, <2>2, Zenon
  <1>7. \A x : x \in Range(s \o u) <=> x \in Range(s) \/ x \in Range(u)
    BY <1>1, Joined, Zenon
  <1>8. IsInjective(s) /\ IsInjective(u) /\ (\A x : ~(x \in Range(s) /\ x \in Range(u)))
        => IsInjective(s \o u)
    BY <1>1, Joined, Zenon
  <1>9. /\ \A x : x \in Range(Append(s, e)) <=> x \in Range(s) \/ x = e
        /\ IsInjective(s) /\ e \notin Range(s) => IsInjective(Append(s, e))
    BY <1>2, <1>6, <1>7, <1>8, Zenon
  <1> QED
    BY <1>1, <1>2, <1>6, <1>9, Zenon DEF u

\* A sequence is its front and the rest.
LEMMA Whole ==
  ASSUME NEW S, NEW s \in Seq(S), NEW n \in 0 .. Len(s)
  PROVE  Take(s, n) \o Drop(s, n) = s
  <1> DEFINE t == Take(s, n)
             r == Drop(s, n)
             w == t \o r
  <1>1. /\ t \in Seq(S) /\ Len(t) = n /\ (\A i \in 1 .. n : t[i] = s[i])
        /\ r \in Seq(S) /\ Len(r) = Len(s) - n /\ (\A i \in 1 .. (Len(s) - n) : r[i] = s[n + i])
    BY Parts, ZenonT(30)
  <1>2. Len(s) \in Nat
    BY SeqTyped, Zenon
  <1> HIDE DEF t, r
  <1>3. /\ w \in Seq(S) /\ Len(w) = Len(t) + Len(r)
        /\ \A i \in 1 .. Len(t) : w[i] = t[i]
        /\ \A i \in 1 .. Len(r) : w[Len(t) + i] = r[i]
    BY <1>1, Joined
  <1> HIDE DEF w
  <1>4. Len(w) = Len(s)
    BY <1>1, <1>2, <1>3
  <1>5. ASSUME NEW i \in 1 .. Len(w) PROVE w[i] = s[i]
    <2>1. CASE i <= n
      BY <1>1, <1>2, <1>3, <1>4, <2>1
    <2>2. CASE ~(i <= n)
      <3>1. i - n \in 1 .. Len(r) /\ n + (i - n) = i
        BY <1>1, <1>2, <1>4, <2>2
      <3>2. w[n + (i - n)] = r[i - n] /\ r[i - n] = s[n + (i - n)]
        BY <1>1, <1>3, <3>1, Zenon
      <3> QED
        BY <3>1, <3>2, Zenon
    <2> QED
      BY <2>1, <2>2, Zenon
  <1>6. w = s
    BY <1>3, <1>4, <1>5, SeqSame, Zenon
  <1> QED
    BY <1>6, Zenon DEF w, t, r

-----------------------------------------------------------------------------
\* What a critical section does to the histories and the buffer: it accepts the
\* sends new and serves the receives served from the front of what it has then.
Moves(new, served) ==
    /\ new \in Seq(Sends) /\ served \in Seq(Receives)
    /\ IsInjective(new) /\ IsInjective(served)
    /\ \A c \in Operations : c \in Range(new) \/ c \in Range(served) => result[c] # "ok"
    /\ Len(served) <= Len(values) + Len(new)
    /\ accepted' = accepted \o new
    /\ delivered' = delivered \o served
    /\ values' = Drop(values \o new, Len(served))
    /\ \A i \in 1 .. Len(served) : got'[served[i]] = (values \o new)[i]
    /\ \A q \in Receives : q \in Range(served) \/ got'[q] = got[q]
    /\ \A c \in Operations :
         result'[c] = "ok" <=> result[c] = "ok" \/ c \in Range(new) \/ c \in Range(served)

\* The mailbox sees two histories that only grow, one a front of the other.
Grows ==
    /\ accepted' \in Seq(Sends) /\ delivered' \in Seq(Receives) /\ values' \in Seq(Sends)
    /\ M!Continues(accepted, accepted')
    /\ M!Continues(Received, Received')
    /\ M!Continues(Received', accepted')
    /\ Len(accepted') - Len(Received') = Len(values')

\* The constants: a call is a send or a receive, and capacities are sizes.
ChannelConstants == Sends \cap Receives = {} /\ Capacities \subseteq Nat

LEMMA ReceivedSeq ==
  ASSUME ChannelTypeOK, NothingLost
  PROVE  /\ Received \in Seq(Sends) /\ Len(Received) = Len(delivered) /\ Len(delivered) \in Nat
         /\ \A i \in 1 .. Len(delivered) : Received[i] = got[delivered[i]]
  <1>1. Len(delivered) \in Nat
    BY SeqTyped, Zenon DEF ChannelTypeOK
  <1>2. \A i \in 1 .. Len(delivered) : got[delivered[i]] \in Sends \cup {NoValue}
    BY SeqAt, Zenon DEF ChannelTypeOK
  <1>3. /\ Received \in Seq(Sends \cup {NoValue}) /\ Len(Received) = Len(delivered)
        /\ \A i \in 1 .. Len(delivered) : Received[i] = got[delivered[i]]
    BY <1>1, <1>2 DEF Received
  <1>4. values \in Seq(Sends \cup {NoValue})
    <2>1. \A i \in 1 .. Len(values) : values[i] \in Sends \cup {NoValue}
      BY SeqAt, Zenon DEF ChannelTypeOK
    <2> QED
      BY <2>1, SeqTyped, SMT DEF ChannelTypeOK
  <1>5. \A i \in 1 .. Len(Received) : (Received \o values)[i] = Received[i]
    BY <1>3, <1>4, Joined
  <1>6. Len(Received \o values) = Len(Received) + Len(values) /\ Len(values) \in Nat
    <2>1. Len(values) \in Nat
      BY SeqTyped, Zenon DEF ChannelTypeOK
    <2>2. Len(Received \o values) = Len(Received) + Len(values)
      BY <1>3, <1>4, Join, Zenon
    <2> QED
      BY <2>1, <2>2, Zenon
  <1>7. \A i \in 1 .. Len(Received) : i \in 1 .. Len(accepted)
    BY <1>1, <1>3, <1>6 DEF NothingLost
  <1>8. \A i \in 1 .. Len(Received) : Received[i] \in Sends
    BY <1>5, <1>7, SeqAt, Zenon DEF NothingLost, ChannelTypeOK
  <1>9. Received \in Seq(Sends)
    <2>1. \A i \in 1 .. Len(delivered) : got[delivered[i]] \in Sends
      BY <1>3, <1>8, Zenon
    <2> QED
      BY <1>1, <2>1 DEF Received
  <1> QED
    BY <1>1, <1>3, <1>9, Zenon

\* A section that moves values keeps the histories right.
LEMMA MovesKeep ==
  ASSUME ChannelConstants, ChannelTypeOK, NothingLost, NEW new, NEW served, Moves(new, served)
  PROVE  NothingLost' /\ Grows
  <1> DEFINE n == Len(served)
             W == values \o new
  <1>1. /\ new \in Seq(Sends) /\ served \in Seq(Receives)
        /\ values \in Seq(Sends) /\ accepted \in Seq(Sends) /\ delivered \in Seq(Receives)
    BY Zenon DEF Moves, ChannelTypeOK
  <1>2. /\ Len(new) \in Nat /\ n \in Nat /\ Len(values) \in Nat
        /\ Len(accepted) \in Nat /\ Len(delivered) \in Nat
    BY <1>1, SeqTyped, Zenon
  <1>3. W \in Seq(Sends) /\ Len(W) = Len(values) + Len(new)
    BY <1>1, Joined, Zenon
  <1>4. n \in 0 .. Len(W)
    BY <1>2, <1>3 DEF Moves
  <1>5. /\ Received \in Seq(Sends) /\ Len(Received) = Len(delivered)
        /\ \A i \in 1 .. Len(delivered) : Received[i] = got[delivered[i]]
    BY ReceivedSeq, Zenon
  <1>6. /\ delivered' \in Seq(Receives) /\ Len(delivered') = Len(delivered) + n
        /\ \A i \in 1 .. Len(delivered) : delivered'[i] = delivered[i]
        /\ \A i \in 1 .. n : delivered'[Len(delivered) + i] = served[i]
    BY <1>1, Joined DEF Moves
  <1>7. /\ accepted' \in Seq(Sends) /\ Len(accepted') = Len(accepted) + Len(new)
        /\ \A i \in 1 .. Len(accepted) : accepted'[i] = accepted[i]
    BY <1>1, Joined DEF Moves
  <1>8. /\ Take(W, n) \in Seq(Sends) /\ Len(Take(W, n)) = n
        /\ \A i \in 1 .. n : Take(W, n)[i] = W[i]
        /\ Drop(W, n) \in Seq(Sends) /\ Len(Drop(W, n)) = Len(W) - n
    BY <1>3, <1>4, Parts, ZenonT(30)
  <1>9. values' = Drop(W, n)
    BY Zenon DEF Moves
  \* What was received before stays, and what is served now follows it.
  <1>10. \A i \in 1 .. Len(delivered) : got'[delivered'[i]] = got[delivered[i]]
    <2> SUFFICES ASSUME NEW i \in 1 .. Len(delivered) PROVE got'[delivered[i]] = got[delivered[i]]
      BY <1>6, Zenon
    <2>1. delivered[i] \in Receives /\ delivered[i] \in Range(delivered)
      BY <1>1, Elements, Zenon
    <2>2. result[delivered[i]] = "ok" /\ delivered[i] \in Operations
      BY <2>1, Zenon DEF NothingLost, Operations
    <2>3. delivered[i] \notin Range(served)
      BY <2>2, Zenon DEF Moves
    <2> QED
      BY <2>1, <2>3, Zenon DEF Moves
  <1>11. \A i \in 1 .. n : got'[delivered'[Len(delivered) + i]] = W[i]
    BY <1>6, Zenon DEF Moves
  <1> DEFINE R == [i \in 1 .. Len(delivered') |-> got'[delivered'[i]]]
             T == Take(W, n)
  <1>12. Received' = R
    BY Zenon DEF Received
  <1> HIDE DEF W, n, T, R
  <1>13. /\ Received \o T \in Seq(Sends) /\ Len(Received \o T) = Len(Received) + n
         /\ \A i \in 1 .. Len(Received) : (Received \o T)[i] = Received[i]
         /\ \A i \in 1 .. n : (Received \o T)[Len(Received) + i] = T[i]
    <2>1. T \in Seq(Sends) /\ Len(T) = n
      BY <1>8, Zenon DEF T
    <2>2. /\ Received \o T \in Seq(Sends) /\ Len(Received \o T) = Len(Received) + Len(T)
      BY <1>5, <2>1, Joined, Zenon
    <2>4. \A i \in 1 .. Len(Received) : (Received \o T)[i] = Received[i]
      BY <1>5, <2>1, Joined
    <2>3. \A i \in 1 .. Len(T) : (Received \o T)[Len(Received) + i] = T[i]
      BY <1>5, <2>1, Joined
    <2> QED
      BY <2>1, <2>2, <2>3, <2>4, Zenon
  <1>14. R = Received \o T
    <2>1. ASSUME NEW i \in 1 .. Len(delivered') PROVE got'[delivered'[i]] = (Received \o T)[i]
      <3>1. CASE i <= Len(delivered)
        <4>1. i \in 1 .. Len(delivered)
          BY <1>2, <1>6, <3>1
        <4> QED
          BY <1>5, <1>10, <1>13, <4>1, Zenon
      <3>2. CASE ~(i <= Len(delivered))
        <4>1. i - Len(delivered) \in 1 .. n /\ Len(delivered) + (i - Len(delivered)) = i
          BY <1>2, <1>6, <3>2
        <4>2. got'[delivered'[i]] = W[i - Len(delivered)]
          BY <1>11, <4>1, Zenon
        <4>3. (Received \o T)[i] = T[i - Len(delivered)]
          BY <1>5, <1>13, <4>1, ZenonT(30)
        <4>4. T[i - Len(delivered)] = W[i - Len(delivered)]
          BY <1>8, <4>1, Zenon DEF T
        <4> QED
          BY <4>2, <4>3, <4>4, Zenon
      <3> QED
        BY <3>1, <3>2, Zenon
    <2>2. \A i \in 1 .. Len(delivered') : (Received \o T)[i] \in Sends
      <3>1. Len(Received \o T) = Len(delivered')
        BY <1>5, <1>6, <1>13, Zenon
      <3> QED
        BY <1>13, <3>1, SeqAt, Zenon
    <2>3. Len(delivered') \in Nat
      BY <1>6, SeqTyped, Zenon
    <2>4. R \in Seq(Sends) /\ Len(R) = Len(delivered')
      <3>1. \A i \in 1 .. Len(delivered') : got'[delivered'[i]] \in Sends
        BY <2>1, <2>2, Zenon
      <3> QED
        BY <2>3, <3>1 DEF R
    <2>5. \A i \in 1 .. Len(R) : R[i] = (Received \o T)[i]
      BY <2>1, <2>4, Zenon DEF R
    <2>6. Len(R) = Len(Received \o T)
      BY <1>5, <1>6, <1>13, <2>4, Zenon
    <2> QED
      BY <1>13, <2>4, <2>5, <2>6, SeqSame, Zenon
  <1>15. R \o values' = accepted'
    <2>1. T \o values' = W
      BY <1>3, <1>4, <1>9, Whole, ZenonT(30) DEF T
    <2>2. (Received \o T) \o values' = Received \o W
      <3>1. T \in Seq(Sends) /\ values' \in Seq(Sends)
        BY <1>8, <1>9, Zenon DEF T
      <3>2. (Received \o T) \o values' = Received \o (T \o values')
        BY <1>5, <3>1, JoinJoin, SMTT(30)
      <3> QED
        BY <2>1, <3>2, Zenon
    <2>3. Received \o W = (Received \o values) \o new
      <3>1. (Received \o values) \o new = Received \o (values \o new)
        BY <1>1, <1>5, JoinJoin, SMTT(30)
      <3> QED
        BY <3>1, Zenon DEF W
    <2>4. accepted' = accepted \o new /\ Received \o values = accepted
      BY Zenon DEF Moves, NothingLost
    <2> QED
      BY <1>14, <2>2, <2>3, <2>4, Zenon
  <1>16. \A x \in Sends : result'[x] = "ok" <=> x \in Range(accepted')
    <2> SUFFICES ASSUME NEW x \in Sends PROVE result'[x] = "ok" <=> x \in Range(accepted')
      BY Zenon
    <2>1. x \in Range(accepted') <=> x \in Range(accepted) \/ x \in Range(new)
      BY <1>1, Joined, Zenon DEF Moves
    <2>2. x \in Operations /\ x \notin Range(served)
      BY <1>1, Elements, Zenon DEF ChannelConstants, Operations
    <2> QED
      BY <2>1, <2>2, Zenon DEF Moves, NothingLost
  <1>17. \A q \in Receives : result'[q] = "ok" <=> q \in Range(delivered')
    <2> SUFFICES ASSUME NEW q \in Receives PROVE result'[q] = "ok" <=> q \in Range(delivered')
      BY Zenon
    <2>1. q \in Range(delivered') <=> q \in Range(delivered) \/ q \in Range(served)
      BY <1>1, Joined, Zenon DEF Moves
    <2>2. q \in Operations /\ q \notin Range(new)
      BY <1>1, Elements, Zenon DEF ChannelConstants, Operations
    <2> QED
      BY <2>1, <2>2, Zenon DEF Moves, NothingLost
  <1>18. IsInjective(accepted')
    <2>1. ASSUME NEW x, x \in Range(accepted), x \in Range(new) PROVE FALSE
      <3>1. x \in Sends /\ x \in Operations
        BY <1>1, <2>1, Elements, Zenon DEF Operations
      <3> QED
        BY <2>1, <3>1, Zenon DEF Moves, NothingLost
    <2>2. IsInjective(accepted) /\ IsInjective(new) /\ accepted' = accepted \o new
      BY Zenon DEF Moves, NothingLost
    <2> QED
      BY <1>1, <2>1, <2>2, Joined, Zenon
  <1>19. IsInjective(delivered')
    <2>1. ASSUME NEW x, x \in Range(delivered), x \in Range(served) PROVE FALSE
      <3>1. x \in Receives /\ x \in Operations
        BY <1>1, <2>1, Elements, Zenon DEF Operations
      <3> QED
        BY <2>1, <3>1, Zenon DEF Moves, NothingLost
    <2>2. IsInjective(delivered) /\ IsInjective(served) /\ delivered' = delivered \o served
      BY Zenon DEF Moves, NothingLost
    <2> QED
      BY <1>1, <2>1, <2>2, Joined, Zenon
  <1>20. NothingLost'
    BY <1>12, <1>15, <1>16, <1>17, <1>18, <1>19, Zenon DEF NothingLost
  <1>21. R \in Seq(Sends) /\ Len(R) = Len(Received) + n
    BY <1>13, <1>14, Zenon
  <1>22. values' \in Seq(Sends) /\ Len(values') \in Nat
    BY <1>8, <1>9, SeqTyped, Zenon
  <1>23. Len(accepted') = Len(R) + Len(values') /\ \A i \in 1 .. Len(R) : accepted'[i] = R[i]
    BY <1>15, <1>21, <1>22, Joined, Zenon
  <1>24. M!Continues(accepted, accepted')
    BY <1>2, <1>7 DEF M!Continues
  <1>25. M!Continues(Received, Received')
    BY <1>2, <1>5, <1>12, <1>13, <1>14, SMTT(30) DEF M!Continues
  <1>26. M!Continues(Received', accepted')
    BY <1>2, <1>5, <1>12, <1>21, <1>22, <1>23, SMTT(30) DEF M!Continues
  <1>27. Len(accepted') - Len(Received') = Len(values')
    BY <1>2, <1>5, <1>12, <1>21, <1>22, <1>23, SMTT(30)
  <1> QED
    BY <1>6, <1>7, <1>20, <1>22, <1>24, <1>25, <1>26, <1>27, Zenon DEF Grows

-----------------------------------------------------------------------------
\* The pump of an open channel accepts the first a pending sends, serves the
\* first d pending receives, and leaves the queues settled.
OpenPumped(v, s, r, res, acc, a, d) ==
    /\ d <= Len(v) + a
    /\ values' = Drop(v \o Take(s, a), d)
    /\ accepted' = acc \o Take(s, a)
    /\ delivered' = delivered \o Take(r, d)
    /\ got' \in [Receives -> Sends \cup {NoValue}]
    /\ \A i \in 1 .. d : got'[r[i]] = (v \o Take(s, a))[i]
    /\ \A q \in Receives : q \in Range(Take(r, d)) \/ got'[q] = got[q]
    /\ result' \in [Operations -> Results]
    /\ \A c \in Operations :
         result'[c] = IF c \in Range(Take(r, d)) \/ c \in Range(Take(s, a)) THEN "ok" ELSE res[c]
    /\ senders' = Drop(s, a) /\ receivers' = Drop(r, d)
    /\ senders' \in Seq(Sends) /\ receivers' \in Seq(Receives)
    /\ Settled' /\ QueuesExact'

LEMMA OpenPump ==
  ASSUME ChannelConstants, capacity \in Capacities, capacity' = capacity, ~closed, closed' = closed,
         got \in [Receives -> Sends \cup {NoValue}],
         NEW v \in Seq(Sends), NEW s \in Seq(Sends), NEW r \in Seq(Receives),
         NEW res \in [Operations -> Results], NEW acc,
         Len(v) <= capacity, IsInjective(s), IsInjective(r),
         \A x \in Sends : res[x] = "pending" <=> x \in Range(s),
         \A q \in Receives : res[q] = "pending" <=> q \in Range(r),
         PumpOpen(v, s, r, res, acc)
  PROVE  \E a \in 0 .. Len(s), d \in 0 .. Len(r) : OpenPumped(v, s, r, res, acc, a, d)
  <1> DEFINE st == v \o s
             d == Lesser(Len(r), Len(st))
             keep == Lesser(capacity, Len(st) - d)
             a == (d + keep) - Len(v)
             w == v \o Take(s, a)
  <1>1. Len(v) \in Nat /\ Len(s) \in Nat /\ Len(r) \in Nat /\ capacity \in Nat
    BY SeqTyped, Zenon DEF ChannelConstants
  <1>2. /\ st \in Seq(Sends) /\ Len(st) = Len(v) + Len(s)
    BY Joined, Zenon
  <1>3. (\A i \in 1 .. Len(v) : st[i] = v[i]) /\ (\A i \in 1 .. Len(s) : st[Len(v) + i] = s[i])
    BY Joined
  <1>4. /\ values' = SubSeq(st, d + 1, d + keep)
        /\ senders' = Drop(s, a)
        /\ receivers' = Drop(r, d)
        /\ result' = [c \in Operations |->
                        IF c \in Range(Take(r, d)) \cup Range(Take(s, a)) THEN "ok" ELSE res[c]]
        /\ got' = [q \in Receives |->
                     IF \E i \in 1 .. d : r[i] = q
                     THEN st[CHOOSE i \in 1 .. d : r[i] = q] ELSE got[q]]
        /\ accepted' = acc \o Take(s, a)
        /\ delivered' = delivered \o Take(r, d)
    BY Zenon DEF PumpOpen
  <1> HIDE DEF st
  <1>5. d \in 0 .. Len(r) /\ d <= Len(st) /\ (d < Len(r) => d = Len(st))
    BY <1>1, <1>2 DEF Lesser
  <1> HIDE DEF d
  <1>6. keep \in Nat /\ keep <= capacity /\ d + keep <= Len(st) /\ (d + keep < Len(st) => keep = capacity)
    BY <1>1, <1>2, <1>5 DEF Lesser
  <1> HIDE DEF keep
  <1>7. a \in 0 .. Len(s) /\ d + keep = Len(v) + a
    BY <1>1, <1>2, <1>5, <1>6, SMTT(30)
  <1> HIDE DEF a
  <1>8. /\ Take(s, a) \in Seq(Sends) /\ Len(Take(s, a)) = a
        /\ \A i \in 1 .. a : Take(s, a)[i] = s[i]
        /\ Drop(s, a) \in Seq(Sends) /\ Len(Drop(s, a)) = Len(s) - a
    BY <1>7, Parts, ZenonT(30)
  <1>9. /\ Take(r, d) \in Seq(Receives) /\ Len(Take(r, d)) = d
        /\ \A i \in 1 .. d : Take(r, d)[i] = r[i]
        /\ Drop(r, d) \in Seq(Receives) /\ Len(Drop(r, d)) = Len(r) - d
    BY <1>5, Parts, ZenonT(30)
  <1>10. w \in Seq(Sends) /\ Len(w) = Len(v) + a
    BY <1>8, Joined, ZenonT(30)
  <1>11. (\A i \in 1 .. Len(v) : w[i] = v[i]) /\ (\A i \in 1 .. a : w[Len(v) + i] = Take(s, a)[i])
    BY <1>8, Joined, SMTT(30)
  <1> HIDE DEF w
  <1>12. ASSUME NEW i \in 1 .. (Len(v) + a) PROVE w[i] = st[i]
    <2>1. CASE i <= Len(v)
      <3>1. i \in 1 .. Len(v)
        BY <1>1, <1>7, <2>1, SMTT(30)
      <3> QED
        BY <1>3, <1>11, <3>1, Zenon
    <2>2. CASE ~(i <= Len(v))
      <3>1. i - Len(v) \in 1 .. a /\ i - Len(v) \in 1 .. Len(s) /\ Len(v) + (i - Len(v)) = i
        BY <1>1, <1>7, <2>2, SMTT(30)
      <3>2. w[Len(v) + (i - Len(v))] = Take(s, a)[i - Len(v)] /\ Take(s, a)[i - Len(v)] = s[i - Len(v)]
        BY <1>8, <1>11, <3>1, Zenon
      <3>3. st[Len(v) + (i - Len(v))] = s[i - Len(v)]
        BY <1>3, <3>1, Zenon
      <3> QED
        BY <3>1, <3>2, <3>3, Zenon
    <2> QED
      BY <2>1, <2>2, Zenon
  <1>13. values' = Drop(w, d) /\ values' \in Seq(Sends) /\ Len(values') = keep
    <2>1. \A i \in (d + 1) .. (d + keep) : i \in 1 .. Len(st)
      BY <1>1, <1>2, <1>5, <1>6, SMTT(30)
    <2>2. \A i \in (d + 1) .. (d + keep) : st[i] \in Sends
      BY <1>2, <2>1, SeqAt, Zenon
    <2>3. d + 1 \in Int /\ d + keep \in Int /\ (d + keep) - (d + 1) + 1 = keep
      BY <1>1, <1>5, <1>6, SMTT(30)
    <2>4. /\ values' \in Seq(Sends)
          /\ Len(values') = IF d + 1 <= d + keep THEN (d + keep) - (d + 1) + 1 ELSE 0
          /\ \A i \in 1 .. ((d + keep) - (d + 1) + 1) : values'[i] = st[(d + 1) + i - 1]
      BY <1>4, <2>2, <2>3, Part, SMTT(30)
    <2>5. Len(values') = keep
      BY <1>1, <1>5, <1>6, <2>4, SMTT(30)
    <2>6. \A i \in 1 .. keep : values'[i] = st[d + i]
      BY <1>1, <1>5, <1>6, <2>3, <2>4, SMTT(30)
    <2>7. d \in 0 .. Len(w)
      BY <1>1, <1>5, <1>6, <1>7, <1>10, SMTT(30)
    <2>8. /\ Drop(w, d) \in Seq(Sends) /\ Len(Drop(w, d)) = Len(w) - d
          /\ \A i \in 1 .. (Len(w) - d) : Drop(w, d)[i] = w[d + i]
      BY <1>10, <2>7, Parts, ZenonT(30)
    <2>9. Len(w) - d = keep
      BY <1>1, <1>5, <1>6, <1>7, <1>10
    <2>10. \A i \in 1 .. keep : d + i \in 1 .. (Len(v) + a)
      BY <1>1, <1>5, <1>6, <1>7
    <2>11. \A i \in 1 .. Len(values') : values'[i] = Drop(w, d)[i]
      BY <1>12, <2>5, <2>6, <2>8, <2>9, <2>10, Zenon
    <2>12. values' = Drop(w, d)
      BY <2>4, <2>5, <2>8, <2>9, <2>11, SeqSame, Zenon
    <2> QED
      BY <2>4, <2>5, <2>12, Zenon
  <1>14. \A i, j \in 1 .. Len(r) : r[i] = r[j] => i = j
    BY Elements, Zenon
  <1>15. /\ \A x : x \in Range(Take(r, d)) <=> \E i \in 1 .. d : r[i] = x
         /\ \A x : x \in Range(Take(r, d)) => x \in Receives
    <2>1. /\ \A x : x \in Range(Take(r, d)) <=> \E i \in 1 .. Len(Take(r, d)) : Take(r, d)[i] = x
          /\ Range(Take(r, d)) \subseteq Receives
      BY <1>9, Elements, SMTT(30)
    <2> QED
      BY <1>9, <2>1, Zenon
  <1>16. \A x : x \in Range(Take(s, a)) => x \in Sends
    BY <1>8, Elements, Zenon
  <1>17. \A i \in 1 .. d : i \in 1 .. Len(r) /\ i \in 1 .. (Len(v) + a) /\ i \in 1 .. Len(st)
    BY <1>1, <1>2, <1>5, <1>6, <1>7, SMTT(30)
  <1>18. ASSUME NEW i \in 1 .. d PROVE got'[r[i]] = w[i]
    <2>1. r[i] \in Receives
      BY <1>17, SeqAt, Zenon
    <2> DEFINE k == CHOOSE j \in 1 .. d : r[j] = r[i]
    <2>2. k \in 1 .. d /\ r[k] = r[i]
      BY Zenon
    <2>3. k = i
      BY <1>14, <1>17, <2>2, Zenon
    <2>4. got'[r[i]] = st[k]
      BY <1>4, <2>1, Zenon
    <2> QED
      BY <1>12, <1>17, <2>3, <2>4, Zenon
  <1>19. ASSUME NEW q \in Receives PROVE q \in Range(Take(r, d)) \/ got'[q] = got[q]
    BY <1>4, <1>15, Zenon
  <1>20. got' \in [Receives -> Sends \cup {NoValue}]
    <2> SUFFICES ASSUME NEW q \in Receives PROVE got'[q] \in Sends \cup {NoValue}
      BY <1>4, Zenon
    <2>1. CASE q \in Range(Take(r, d))
      <3>1. PICK i \in 1 .. d : r[i] = q
        BY <1>15, <2>1, Zenon
      <3>2. st[i] \in Sends
        BY <1>2, <1>17, SeqAt, Zenon
      <3> QED
        BY <1>12, <1>17, <1>18, <3>1, <3>2, Zenon
    <2>2. CASE ~(q \in Range(Take(r, d)))
      BY <1>19, <2>2, Zenon
    <2> QED
      BY <2>1, <2>2, Zenon
  <1>21. \A c \in Operations :
           result'[c] = IF c \in Range(Take(r, d)) \/ c \in Range(Take(s, a)) THEN "ok" ELSE res[c]
    BY <1>4, Zenon
  <1>22. result' \in [Operations -> Results]
    <2>1. \A c \in Operations : result'[c] \in Results
      BY <1>21, Zenon DEF Results
    <2> QED
      BY <1>4, <2>1, Zenon
  <1>23. Settled'
    <2>1. Len(receivers') = Len(r) - d /\ Len(senders') = Len(s) - a
      BY <1>4, <1>8, <1>9, Zenon
    <2>2. /\ receivers' # << >> => Len(receivers') # 0
          /\ senders' # << >> => Len(senders') # 0
          /\ Len(senders') = 0 => senders' = << >>
          /\ Len(values') = 0 => values' = << >>
      BY <1>4, <1>8, <1>9, <1>13, SeqNone, ZenonT(30)
    <2>3. receivers' # << >> => values' = << >> /\ senders' = << >>
      BY <1>1, <1>2, <1>5, <1>6, <1>7, <1>13, <2>1, <2>2
    <2>4. senders' # << >> => Len(values') = capacity'
      BY <1>1, <1>2, <1>5, <1>6, <1>7, <1>13, <2>1, <2>2, SMTT(30)
    <2>5. Len(values') <= capacity'
      BY <1>6, <1>13, Zenon
    <2> QED
      BY <2>3, <2>4, <2>5, Zenon DEF Settled
  <1>24. QueuesExact'
    <2>1. /\ IsInjective(Drop(s, a))
          /\ \A x : x \in Range(s) <=> x \in Range(Take(s, a)) \/ x \in Range(Drop(s, a))
          /\ \A x : ~(x \in Range(Take(s, a)) /\ x \in Range(Drop(s, a)))
      BY <1>7, Split, Zenon
    <2>2. /\ IsInjective(Drop(r, d))
          /\ \A x : x \in Range(r) <=> x \in Range(Take(r, d)) \/ x \in Range(Drop(r, d))
          /\ \A x : ~(x \in Range(Take(r, d)) /\ x \in Range(Drop(r, d)))
      BY <1>5, Split, Zenon
    <2>3. ASSUME NEW x \in Sends PROVE result'[x] = "pending" <=> x \in Range(Drop(s, a))
      <3>1. x \in Operations /\ x \notin Range(Take(r, d))
        BY <1>15, Zenon DEF ChannelConstants, Operations
      <3> QED
        BY <1>21, <2>1, <3>1, Zenon
    <2>4. ASSUME NEW q \in Receives PROVE result'[q] = "pending" <=> q \in Range(Drop(r, d))
      <3>1. q \in Operations /\ q \notin Range(Take(s, a))
        BY <1>16, Zenon DEF ChannelConstants, Operations
      <3> QED
        BY <1>21, <2>2, <3>1, Zenon
    <2> QED
      BY <1>4, <2>1, <2>2, <2>3, <2>4, Zenon DEF QueuesExact
  <1>25. d <= Len(v) + a
    BY <1>1, <1>5, <1>6, <1>7, SMTT(30)
  <1>26. OpenPumped(v, s, r, res, acc, a, d)
    BY <1>4, <1>8, <1>9, <1>13, <1>18, <1>19, <1>20, <1>21, <1>22, <1>23, <1>24, <1>25, ZenonT(30) DEF OpenPumped, w
  <1> QED
    BY <1>5, <1>7, <1>26, ZenonT(30)

\* The pump of a closed channel serves the first d pending receives from the
\* buffer and fails whatever else is pending.
ClosedPumped(v, r, res, d) ==
    /\ d \in 0 .. Len(r) /\ d <= Len(v)
    /\ values' = Drop(v, d)
    /\ accepted' = accepted
    /\ delivered' = delivered \o Take(r, d)
    /\ got' \in [Receives -> Sends \cup {NoValue}]
    /\ \A i \in 1 .. d : got'[r[i]] = v[i]
    /\ \A q \in Receives : q \in Range(Take(r, d)) \/ got'[q] = got[q]
    /\ result' \in [Operations -> Results]
    /\ \A c \in Operations : result'[c] = "ok" <=> c \in Range(Take(r, d)) \/ res[c] = "ok"
    /\ senders' = << >> /\ receivers' = << >>
    /\ Settled' /\ QueuesExact'

LEMMA NoneQueued ==
  /\ \A x : x \notin Range(<< >>)
  /\ IsInjective(<< >>)
  BY DEF Range, IsInjective

LEMMA ClosedPump ==
  ASSUME ChannelConstants, capacity \in Capacities, capacity' = capacity, closed',
         got \in [Receives -> Sends \cup {NoValue}],
         NEW v \in Seq(Sends), NEW s \in Seq(Sends), NEW r \in Seq(Receives),
         NEW res \in [Operations -> Results],
         Len(v) <= capacity, IsInjective(r),
         \A x \in Sends : res[x] = "pending" <=> x \in Range(s),
         \A q \in Receives : res[q] = "pending" <=> q \in Range(r),
         PumpClosed(v, s, r, res)
  PROVE  ClosedPumped(v, r, res, Lesser(Len(r), Len(v)))
  <1> DEFINE d == Lesser(Len(r), Len(v))
  <1>1. Len(v) \in Nat /\ Len(s) \in Nat /\ Len(r) \in Nat /\ capacity \in Nat
    BY SeqTyped, Zenon DEF ChannelConstants
  <1>2. /\ values' = Drop(v, d)
        /\ senders' = << >>
        /\ receivers' = << >>
        /\ result' = [c \in Operations |->
                        IF c \in Range(Take(r, d)) THEN "ok"
                        ELSE IF c \in Range(r) \cup Range(s) THEN "closed" ELSE res[c]]
        /\ got' = [q \in Receives |->
                     IF \E i \in 1 .. d : r[i] = q
                     THEN v[CHOOSE i \in 1 .. d : r[i] = q] ELSE got[q]]
        /\ accepted' = accepted
        /\ delivered' = delivered \o Take(r, d)
    BY Zenon DEF PumpClosed
  <1>3. d \in 0 .. Len(r) /\ d \in 0 .. Len(v)
    BY <1>1 DEF Lesser
  <1> HIDE DEF d
  <1>4. Drop(v, d) \in Seq(Sends) /\ Len(Drop(v, d)) = Len(v) - d
    BY <1>3, Parts, ZenonT(30)
  <1>5. /\ Take(r, d) \in Seq(Receives) /\ Len(Take(r, d)) = d
        /\ \A i \in 1 .. d : Take(r, d)[i] = r[i]
    BY <1>3, Parts, Zenon
  <1>6. /\ \A x : x \in Range(Take(r, d)) <=> \E i \in 1 .. d : r[i] = x
    <2>1. \A x : x \in Range(Take(r, d)) <=> \E i \in 1 .. Len(Take(r, d)) : Take(r, d)[i] = x
      BY <1>5, Elements
    <2> QED
      BY <1>5, <2>1, Zenon
  <1>7. \A x : x \in Range(Take(r, d)) => x \in Range(r)
    BY <1>3, Split, Zenon
  <1>8. \A i, j \in 1 .. Len(r) : r[i] = r[j] => i = j
    BY Elements, Zenon
  <1>9. \A i \in 1 .. d : i \in 1 .. Len(r) /\ i \in 1 .. Len(v)
    BY <1>1, <1>3
  <1>10. ASSUME NEW i \in 1 .. d PROVE got'[r[i]] = v[i]
    <2>1. r[i] \in Receives
      BY <1>9, SeqAt, Zenon
    <2> DEFINE k == CHOOSE j \in 1 .. d : r[j] = r[i]
    <2>2. k \in 1 .. d /\ r[k] = r[i]
      BY Zenon
    <2>3. k = i
      BY <1>8, <1>9, <2>2, Zenon
    <2>4. got'[r[i]] = v[k]
      BY <1>2, <2>1, Zenon
    <2> QED
      BY <2>3, <2>4, ZenonT(30)
  <1>11. ASSUME NEW q \in Receives PROVE q \in Range(Take(r, d)) \/ got'[q] = got[q]
    BY <1>2, <1>6, Zenon
  <1>12. got' \in [Receives -> Sends \cup {NoValue}]
    <2> SUFFICES ASSUME NEW q \in Receives PROVE got'[q] \in Sends \cup {NoValue}
      BY <1>2, ZenonT(30)
    <2>1. CASE q \in Range(Take(r, d))
      <3>1. PICK i \in 1 .. d : r[i] = q
        BY <1>6, <2>1, Zenon
      <3>2. v[i] \in Sends
        BY <1>9, SeqAt, Zenon
      <3> QED
        BY <1>10, <3>1, <3>2, Zenon
    <2>2. CASE ~(q \in Range(Take(r, d)))
      BY <1>11, <2>2, Zenon
    <2> QED
      BY <2>1, <2>2, Zenon
  <1>13. \A c \in Operations :
           result'[c] = IF c \in Range(Take(r, d)) THEN "ok"
                        ELSE IF c \in Range(r) \/ c \in Range(s) THEN "closed" ELSE res[c]
    BY <1>2, Zenon
  <1>14. result' \in [Operations -> Results]
    <2>1. \A c \in Operations : result'[c] \in Results
      BY <1>13, Zenon DEF Results
    <2> QED
      BY <1>2, <2>1, ZenonT(30)
  <1>15. /\ \A x : x \in Range(r) => x \in Receives
         /\ \A x : x \in Range(s) => x \in Sends
    BY Elements, Zenon
  <1>16. \A c \in Operations : result'[c] = "ok" <=> c \in Range(Take(r, d)) \/ res[c] = "ok"
    BY <1>13, <1>15, Zenon
  <1>17. \A c \in Operations : result'[c] # "pending"
    BY <1>13, Zenon DEF Operations
  <1>18. Settled'
    BY <1>1, <1>2, <1>3, <1>4, SMTT(30) DEF Settled
  <1>19. QueuesExact'
    BY <1>2, <1>17, NoneQueued, Zenon DEF QueuesExact, Operations
  <1>20. ClosedPumped(v, r, res, d)
    <2>1. d <= Len(v)
      BY <1>1, <1>3
    <2> QED
      BY <1>2, <1>3, <1>10, <1>11, <1>12, <1>14, <1>16, <1>18, <1>19, <2>1, ZenonT(30) DEF ClosedPumped
  <1> QED
    BY <1>20, Zenon DEF d

-----------------------------------------------------------------------------
\* The order of service: a call that succeeds was queued before every call of its
\* kind that goes on waiting.
Before(q, x, y) == \E i, j \in 1 .. Len(q) : i < j /\ q[i] = x /\ q[j] = y
Follows(q, s) == Len(q) <= Len(s) /\ \A i \in 1 .. Len(q) : s[i] = q[i]
Succeeds(c) == result[c] # "ok" /\ result'[c] = "ok"
Waits(c) == result[c] = "pending" /\ result'[c] = "pending"
SendsServed == \A x, y \in Sends : Succeeds(x) /\ Waits(y) => Before(senders, x, y)
ReceivesServed == \A q, r \in Receives : Succeeds(q) /\ Waits(r) => Before(receivers, q, r)

\* The pump serves the front of a queue s that has grown from q at its end.
LEMMA FrontFirst ==
  ASSUME NEW S, NEW q \in Seq(S), NEW s \in Seq(S), IsInjective(s), Follows(q, s), NEW n \in 0 .. Len(s),
         NEW x \in Range(Take(s, n)), NEW y \in Range(q), y \in Range(Drop(s, n))
  PROVE  Before(q, x, y)
  <1>1. Len(s) \in Nat /\ Len(q) \in Nat /\ \A i, j \in 1 .. Len(s) : s[i] = s[j] => i = j
    BY Elements, Zenon
  <1>2. /\ Take(s, n) \in Seq(S) /\ Len(Take(s, n)) = n /\ \A i \in 1 .. n : Take(s, n)[i] = s[i]
        /\ Drop(s, n) \in Seq(S) /\ Len(Drop(s, n)) = Len(s) - n
        /\ \A i \in 1 .. (Len(s) - n) : Drop(s, n)[i] = s[n + i]
    BY Parts, ZenonT(30)
  <1>3. PICK i \in 1 .. n : s[i] = x
    <2>1. \E i \in 1 .. Len(Take(s, n)) : Take(s, n)[i] = x
      BY <1>2, Found, Zenon
    <2> QED
      BY <1>2, <2>1, Zenon
  <1>4. PICK k \in 1 .. (Len(s) - n) : s[n + k] = y
    <2>1. \E m \in 1 .. Len(Drop(s, n)) : Drop(s, n)[m] = y
      BY <1>2, Found, Zenon
    <2> QED
      BY <1>2, <2>1, Zenon
  <1>5. PICK j \in 1 .. Len(q) : q[j] = y
    BY Found, Zenon
  <1>6. s[j] = s[n + k]
    BY <1>4, <1>5, Zenon DEF Follows
  <1>7. j = n + k
    BY <1>1, <1>6 DEF Follows
  <1>8. i \in 1 .. Len(q) /\ i < j
    BY <1>1, <1>7
  <1>9. q[i] = x
    BY <1>3, <1>8, Zenon DEF Follows
  <1> QED
    BY <1>5, <1>8, <1>9, Zenon DEF Before

LEMMA HeadFirst ==
  ASSUME NEW S, NEW q \in Seq(S), q # << >>, NEW y \in Range(q), y # Head(q)
  PROVE  Before(q, Head(q), y)
  <1>1. PICK j \in 1 .. Len(q) : q[j] = y
    BY Found, Zenon
  <1>2. Len(q) \in Nat /\ Head(q) = q[1]
    BY SeqTyped
  <1>3. 1 \in 1 .. Len(q) /\ 1 < j
    BY <1>1, <1>2
  <1> QED
    BY <1>1, <1>2, <1>3, Zenon DEF Before

LEMMA Following ==
  ASSUME NEW S, NEW q \in Seq(S)
  PROVE  Follows(q, q) /\ (\A e \in S : Follows(q, Append(q, e))) /\ (q = << >> => \A s \in Seq(S) : Follows(q, s))
  <1>1. Len(q) \in Nat
    BY SeqTyped, Zenon
  <1>2. Follows(q, q)
    BY <1>1 DEF Follows
  <1>3. ASSUME NEW e \in S PROVE Follows(q, Append(q, e))
    BY <1>1, Add DEF Follows
  <1>4. ASSUME q = << >>, NEW s \in Seq(S) PROVE Follows(q, s)
    BY <1>4, SeqNone, SeqTyped DEF Follows
  <1> QED
    BY <1>2, <1>3, <1>4, Zenon

LEMMA NobodyWaits ==
  ASSUME ChannelInv, QueuesExact'
  PROVE  /\ senders = << >> \/ senders' = << >> => SendsServed
         /\ receivers = << >> \/ receivers' = << >> => ReceivesServed
  BY NoneQueued, Zenon DEF ChannelInv, QueuesExact, SendsServed, ReceivesServed, Waits

LEMMA NobodyServed ==
  ASSUME \A c \in Operations : result'[c] = "ok" => result[c] = "ok"
  PROVE  SendsServed /\ ReceivesServed
  BY Zenon DEF SendsServed, ReceivesServed, Succeeds, Operations

-----------------------------------------------------------------------------
\* Every operation is a move that keeps the rest of the invariant and the order.
Keeps ==
    /\ capacity' = capacity
    /\ result' \in [Operations -> Results]
    /\ got' \in [Receives -> Sends \cup {NoValue}]
    /\ senders' \in Seq(Sends) /\ receivers' \in Seq(Receives)
    /\ Settled' /\ QueuesExact'
    /\ SendsServed /\ ReceivesServed
    /\ closed => accepted' = accepted
    /\ \E new, served : Moves(new, served)

\* A pump over the queues s and r as the operation left them.
LEMMA PumpKeeps ==
  ASSUME ChannelConstants, ChannelInv, capacity' = capacity, closed' = closed,
         NEW s \in Seq(Sends), NEW r \in Seq(Receives), NEW res \in [Operations -> Results],
         IsInjective(s), IsInjective(r),
         \A x \in Sends : res[x] = "pending" <=> x \in Range(s),
         \A q \in Receives : res[q] = "pending" <=> q \in Range(r),
         \A c \in Operations : res[c] = "ok" <=> result[c] = "ok",
         Follows(senders, s), Follows(receivers, r),
         Pump(values, s, r, res)
  PROVE  Keeps
  <1>1. /\ capacity \in Capacities /\ closed \in BOOLEAN /\ values \in Seq(Sends)
        /\ got \in [Receives -> Sends \cup {NoValue}] /\ accepted \in Seq(Sends)
        /\ Len(values) <= capacity
    BY Zenon DEF ChannelInv, ChannelTypeOK, Settled
  <1>2. \A x : x \in Range(s) => x \in Sends /\ x \in Operations /\ result[x] # "ok"
    <2>1. \A x : x \in Range(s) => x \in Sends
      BY Elements, Zenon
    <2> QED
      BY <2>1, Zenon DEF Operations
  <1>3. \A x : x \in Range(r) => x \in Receives /\ x \in Operations /\ result[x] # "ok"
    <2>1. \A x : x \in Range(r) => x \in Receives
      BY Elements, Zenon
    <2> QED
      BY <2>1, Zenon DEF Operations
  <1>4. CASE ~closed
    <2>1. PumpOpen(values, s, r, res, accepted)
      BY <1>4, Zenon DEF Pump
    <2>2. PICK a \in 0 .. Len(s), d \in 0 .. Len(r) : OpenPumped(values, s, r, res, accepted, a, d)
      BY <1>1, <1>4, <2>1, OpenPump, Zenon
    <2>3. /\ Take(s, a) \in Seq(Sends) /\ Len(Take(s, a)) = a
      BY Parts, ZenonT(30)
    <2>4. /\ Take(r, d) \in Seq(Receives) /\ Len(Take(r, d)) = d
          /\ \A i \in 1 .. d : Take(r, d)[i] = r[i]
      BY Parts, ZenonT(30)
    <2>5. IsInjective(Take(s, a)) /\ \A x : x \in Range(Take(s, a)) => x \in Range(s)
      BY Split, Zenon
    <2>6. IsInjective(Take(r, d)) /\ \A x : x \in Range(Take(r, d)) => x \in Range(r)
      BY Split, Zenon
    <2>7. \A c \in Operations : result'[c] = "ok" <=>
            result[c] = "ok" \/ c \in Range(Take(s, a)) \/ c \in Range(Take(r, d))
      BY <2>2, Zenon DEF OpenPumped
    <2>8. \A i \in 1 .. Len(Take(r, d)) : got'[Take(r, d)[i]] = (values \o Take(s, a))[i]
      BY <2>2, <2>4, ZenonT(30) DEF OpenPumped
    <2>9. Moves(Take(s, a), Take(r, d))
      BY <1>2, <1>3, <2>2, <2>3, <2>4, <2>5, <2>6, <2>7, <2>8, Zenon DEF Moves, OpenPumped
    <2>10. SendsServed
      <3> SUFFICES ASSUME NEW x \in Sends, NEW y \in Sends, Succeeds(x), Waits(y) PROVE Before(senders, x, y)
        BY Zenon DEF SendsServed
      <3>1. x \in Range(Take(s, a))
        BY <1>3, <2>2, <2>6, Zenon DEF OpenPumped, Succeeds, Operations, ChannelConstants
      <3>2. y \in Range(senders) /\ y \in Range(Drop(s, a))
        BY <2>2, Zenon DEF OpenPumped, Waits, ChannelInv, QueuesExact
      <3>3. senders \in Seq(Sends)
        BY Zenon DEF ChannelInv, ChannelTypeOK
      <3> QED
        BY <3>1, <3>2, <3>3, FrontFirst, Zenon
    <2>11. ReceivesServed
      <3> SUFFICES ASSUME NEW x \in Receives, NEW y \in Receives, Succeeds(x), Waits(y) PROVE Before(receivers, x, y)
        BY Zenon DEF ReceivesServed
      <3>1. x \in Range(Take(r, d))
        BY <1>2, <2>2, <2>5, Zenon DEF OpenPumped, Succeeds, Operations, ChannelConstants
      <3>2. y \in Range(receivers) /\ y \in Range(Drop(r, d))
        BY <2>2, Zenon DEF OpenPumped, Waits, ChannelInv, QueuesExact
      <3>3. receivers \in Seq(Receives)
        BY Zenon DEF ChannelInv, ChannelTypeOK
      <3> QED
        BY <3>1, <3>2, <3>3, FrontFirst, Zenon
    <2> QED
      BY <1>4, <2>2, <2>9, <2>10, <2>11, Zenon DEF Keeps, OpenPumped
  <1>5. CASE closed
    <2> DEFINE d == Lesser(Len(r), Len(values))
    <2>1. PumpClosed(values, s, r, res)
      BY <1>5, Zenon DEF Pump
    <2>2. ClosedPumped(values, r, res, d)
      BY <1>1, <1>5, <2>1, ClosedPump, Zenon
    <2> HIDE DEF d
    <2>3. d \in 0 .. Len(r)
      BY <2>2, Zenon DEF ClosedPumped
    <2>4. /\ Take(r, d) \in Seq(Receives) /\ Len(Take(r, d)) = d
          /\ \A i \in 1 .. d : Take(r, d)[i] = r[i]
      BY <2>3, Parts, ZenonT(30)
    <2>5. IsInjective(Take(r, d)) /\ \A x : x \in Range(Take(r, d)) => x \in Range(r)
      BY <2>3, Split, Zenon
    <2>6. << >> \in Seq(Sends) /\ << >> \in Seq(Receives) /\ Len(<< >>) = 0
      OBVIOUS
    <2>7. values \o << >> = values /\ accepted \o << >> = accepted
      BY <1>1, JoinNone, Zenon
    <2>8. Len(values) \in Nat
      BY <1>1, SeqTyped, Zenon
    <2>9. Moves(<< >>, Take(r, d))
      <3>1. Len(Take(r, d)) <= Len(values) + Len(<< >>)
        BY <2>2, <2>4, <2>6, <2>8 DEF ClosedPumped
      <3>2. \A i \in 1 .. Len(Take(r, d)) : got'[Take(r, d)[i]] = (values \o << >>)[i]
        BY <2>2, <2>4, <2>7, Zenon DEF ClosedPumped
      <3>3. values' = Drop(values \o << >>, Len(Take(r, d))) /\ accepted' = accepted \o << >>
        BY <2>2, <2>4, <2>7, Zenon DEF ClosedPumped
      <3>4. \A c \in Operations : result'[c] = "ok" <=> result[c] = "ok" \/ c \in Range(Take(r, d))
        BY <2>2, Zenon DEF ClosedPumped
      <3> QED
        BY <1>3, <2>2, <2>4, <2>5, <2>6, <3>1, <3>2, <3>3, <3>4, NoneQueued, ZenonT(30) DEF Moves, ClosedPumped
    <2>10. SendsServed /\ ReceivesServed
      BY <2>2, NobodyWaits, Zenon DEF ClosedPumped
    <2> QED
      BY <2>2, <2>6, <2>9, <2>10, Zenon DEF Keeps, ClosedPumped
  <1> QED
    BY <1>1, <1>4, <1>5, Zenon

\* An operation that moves nothing: it queues nothing, or is turned away.
LEMMA NothingMoves ==
  ASSUME ChannelInv, UNCHANGED <<values, got, accepted, delivered>>,
         \A c \in Operations : result'[c] = "ok" <=> result[c] = "ok"
  PROVE  Moves(<< >>, << >>)
  <1>1. values \in Seq(Sends) /\ accepted \in Seq(Sends) /\ delivered \in Seq(Receives)
    BY Zenon DEF ChannelInv, ChannelTypeOK
  <1>2. Len(values) \in Nat
    BY <1>1, SeqTyped, Zenon
  <1>3. values \o << >> = values /\ accepted \o << >> = accepted /\ delivered \o << >> = delivered
    BY <1>1, JoinNone, Zenon
  <1>4. Drop(values, 0) = values
    <2>1. /\ Drop(values, 0) \in Seq(Sends) /\ Len(Drop(values, 0)) = Len(values) - 0
          /\ \A i \in 1 .. (Len(values) - 0) : Drop(values, 0)[i] = values[0 + i]
      BY <1>1, <1>2, Parts
    <2>2. Len(values) - 0 = Len(values) /\ \A i \in 1 .. Len(values) : 0 + i = i
      BY <1>2
    <2>3. \A i \in 1 .. Len(Drop(values, 0)) : Drop(values, 0)[i] = values[i]
      BY <2>1, <2>2
    <2> QED
      BY <1>1, <2>1, <2>2, <2>3, SeqSame, Zenon
  <1>5. << >> \in Seq(Sends) /\ << >> \in Seq(Receives) /\ Len(<< >>) = 0 /\ 1 .. Len(<< >>) = {}
    OBVIOUS
  <1> QED
    BY <1>2, <1>3, <1>4, <1>5, NoneQueued DEF Moves

\* Facts of the invariant about a call that was told nothing yet.
LEMMA NewCall ==
  ASSUME ChannelConstants, ChannelInv, NEW c \in Operations, result[c] = "new"
  PROVE  c \notin Range(senders) /\ c \notin Range(receivers)
  <1>1. \A x : (x \in Range(senders) => x \in Sends) /\ (x \in Range(receivers) => x \in Receives)
    BY Elements, Zenon DEF ChannelInv, ChannelTypeOK
  <1> QED
    BY <1>1, Zenon DEF ChannelInv, QueuesExact

LEMMA ToldFacts ==
  ASSUME ChannelInv, NEW c \in Operations, NEW what \in Results
  PROVE  /\ Told(c, what) \in [Operations -> Results] /\ Told(c, what)[c] = what
         /\ \A e \in Operations : e # c => Told(c, what)[e] = result[e]
  BY Zenon DEF ChannelInv, ChannelTypeOK, Told

LEMMA SendKeeps ==
  ASSUME ChannelConstants, ChannelInv, NEW x \in Sends, Send(x)
  PROVE  Keeps
  <1> DEFINE s == Append(senders, x)
             res == Told(x, "pending")
  <1>1. x \in Operations /\ "pending" \in Results
    BY Zenon DEF Operations, Results
  <1>2. x \notin Range(senders)
    BY <1>1, NewCall, Zenon DEF Send
  <1>3. senders \in Seq(Sends) /\ receivers \in Seq(Receives) /\ IsInjective(senders) /\ IsInjective(receivers)
    BY Zenon DEF ChannelInv, ChannelTypeOK, QueuesExact
  <1>4. /\ s \in Seq(Sends) /\ IsInjective(s)
        /\ \A y : y \in Range(s) <=> y \in Range(senders) \/ y = x
    BY <1>2, <1>3, Appended, Zenon
  <1>5. /\ res \in [Operations -> Results] /\ res[x] = "pending"
        /\ \A e \in Operations : e # x => res[e] = result[e]
    BY <1>1, ToldFacts, Zenon
  <1>6. capacity' = capacity /\ closed' = closed /\ Pump(values, s, receivers, res) /\ result[x] = "new"
    BY Zenon DEF Send
  <1> HIDE DEF s, res
  <1>7. \A y \in Sends : res[y] = "pending" <=> y \in Range(s)
    BY <1>4, <1>5, Zenon DEF ChannelInv, QueuesExact, Operations
  <1>8. \A q \in Receives : res[q] = "pending" <=> q \in Range(receivers)
    BY <1>5, Zenon DEF ChannelInv, QueuesExact, Operations, ChannelConstants
  <1>9. \A c \in Operations : res[c] = "ok" <=> result[c] = "ok"
    BY <1>5, <1>6, Zenon
  <1>10. Follows(senders, s) /\ Follows(receivers, receivers)
    BY <1>3, Following, Zenon DEF s
  <1> QED
    BY <1>3, <1>4, <1>5, <1>6, <1>7, <1>8, <1>9, <1>10, PumpKeeps, Zenon

LEMMA ReceiveKeeps ==
  ASSUME ChannelConstants, ChannelInv, NEW r \in Receives, Receive(r)
  PROVE  Keeps
  <1> DEFINE s == Append(receivers, r)
             res == Told(r, "pending")
  <1>1. r \in Operations /\ "pending" \in Results
    BY Zenon DEF Operations, Results
  <1>2. r \notin Range(receivers)
    BY <1>1, NewCall, Zenon DEF Receive
  <1>3. senders \in Seq(Sends) /\ receivers \in Seq(Receives) /\ IsInjective(senders) /\ IsInjective(receivers)
    BY Zenon DEF ChannelInv, ChannelTypeOK, QueuesExact
  <1>4. /\ s \in Seq(Receives) /\ IsInjective(s)
        /\ \A y : y \in Range(s) <=> y \in Range(receivers) \/ y = r
    BY <1>2, <1>3, Appended, Zenon
  <1>5. /\ res \in [Operations -> Results] /\ res[r] = "pending"
        /\ \A e \in Operations : e # r => res[e] = result[e]
    BY <1>1, ToldFacts, Zenon
  <1>6. capacity' = capacity /\ closed' = closed /\ Pump(values, senders, s, res) /\ result[r] = "new"
    BY Zenon DEF Receive
  <1> HIDE DEF s, res
  <1>7. \A y \in Receives : res[y] = "pending" <=> y \in Range(s)
    BY <1>4, <1>5, Zenon DEF ChannelInv, QueuesExact, Operations
  <1>8. \A q \in Sends : res[q] = "pending" <=> q \in Range(senders)
    BY <1>5, Zenon DEF ChannelInv, QueuesExact, Operations, ChannelConstants
  <1>9. \A c \in Operations : res[c] = "ok" <=> result[c] = "ok"
    BY <1>5, <1>6, Zenon
  <1>10. Follows(senders, senders) /\ Follows(receivers, s)
    BY <1>3, Following, Zenon DEF s
  <1> QED
    BY <1>3, <1>4, <1>5, <1>6, <1>7, <1>8, <1>9, <1>10, PumpKeeps, Zenon

\* A call that is turned away is told so, and nothing else happens.
LEMMA TurnedAway ==
  ASSUME ChannelConstants, ChannelInv, NEW c \in Operations, result[c] = "new",
         NEW what \in Results \ {"ok", "pending"}, result' = Told(c, what),
         UNCHANGED <<capacity, closed, values, senders, receivers, got, accepted, delivered>>
  PROVE  Keeps
  <1>1. /\ result' \in [Operations -> Results] /\ result'[c] = what
        /\ \A e \in Operations : e # c => result'[e] = result[e]
    BY ToldFacts
  <1>2. Moves(<< >>, << >>)
    BY <1>1, NothingMoves, Zenon
  <1>3. \A e \in Operations : result'[e] = "pending" <=> result[e] = "pending"
    BY <1>1, Zenon
  <1>4. QueuesExact'
    BY <1>3, Zenon DEF ChannelInv, QueuesExact, Operations
  <1>5. Settled'
    BY Zenon DEF ChannelInv, Settled
  <1>6. SendsServed /\ ReceivesServed
    BY <1>1, NobodyServed, Zenon
  <1> QED
    BY <1>1, <1>2, <1>4, <1>5, <1>6, Zenon DEF Keeps, ChannelInv, ChannelTypeOK

\* The rest of a queue without its head, or without one of its elements.
LEMMA Tailed ==
  ASSUME NEW S, NEW s \in Seq(S), s # << >>, IsInjective(s)
  PROVE  /\ Head(s) \in S /\ Tail(s) \in Seq(S) /\ Len(Tail(s)) = Len(s) - 1
         /\ IsInjective(Tail(s)) /\ Head(s) \in Range(s)
         /\ \A x : x \in Range(Tail(s)) <=> x \in Range(s) /\ x # Head(s)
  <1> DEFINE t == Tail(s)
  <1>1. /\ Head(s) \in S /\ Head(s) = s[1] /\ t \in Seq(S) /\ Len(t) = Len(s) - 1
        /\ \A i \in 1 .. Len(t) : t[i] = s[i + 1]
    BY Rest
  <1>2. Len(s) \in Nat \ {0} /\ Len(t) \in Nat
    BY <1>1, SeqNone, SeqTyped, Zenon
  <1> HIDE DEF t
  <1>3. /\ \A i \in 1 .. Len(t) : i + 1 \in 1 .. Len(s) /\ i + 1 # 1
        /\ \A i, j \in 1 .. Len(t) : i + 1 = j + 1 => i = j
        /\ 1 \in 1 .. Len(s)
        /\ \A i \in 1 .. Len(s) : i # 1 => i - 1 \in 1 .. Len(t) /\ (i - 1) + 1 = i
    BY <1>1, <1>2
  <1>4. \A i, j \in 1 .. Len(s) : s[i] = s[j] => i = j
    BY Elements, Zenon
  <1>5. \A x : x \in Range(s) <=> \E i \in 1 .. Len(s) : s[i] = x
    BY Elements
  <1>6. /\ \A x : x \in Range(t) <=> \E i \in 1 .. Len(t) : t[i] = x
        /\ IsInjective(t) <=> \A i, j \in 1 .. Len(t) : t[i] = t[j] => i = j
    BY <1>1, Elements, SMTT(30)
  <1>7. IsInjective(t)
    <2>1. ASSUME NEW i \in 1 .. Len(t), NEW j \in 1 .. Len(t), t[i] = t[j] PROVE i = j
      <3>1. i + 1 \in 1 .. Len(s) /\ j + 1 \in 1 .. Len(s)
        BY <1>3, Zenon
      <3>2. s[i + 1] = s[j + 1]
        BY <1>1, <2>1, Zenon
      <3>3. i + 1 = j + 1
        BY <1>4, <3>1, <3>2, Zenon
      <3> QED
        BY <1>3, <3>3, Zenon
    <2> QED
      BY <1>6, <2>1, Zenon
  <1>8. ASSUME NEW x PROVE x \in Range(t) <=> x \in Range(s) /\ x # Head(s)
    <2>1. ASSUME x \in Range(t) PROVE x \in Range(s) /\ x # Head(s)
      <3>1. PICK i \in 1 .. Len(t) : t[i] = x
        BY <1>6, <2>1, Zenon
      <3>2. s[i + 1] = x /\ i + 1 \in 1 .. Len(s) /\ i + 1 # 1
        BY <1>1, <1>3, <3>1, Zenon
      <3> QED
        BY <1>1, <1>3, <1>4, <1>5, <3>2, Zenon
    <2>2. ASSUME x \in Range(s), x # Head(s) PROVE x \in Range(t)
      <3>1. PICK i \in 1 .. Len(s) : s[i] = x
        BY <1>5, <2>2, Zenon
      <3>2. i - 1 \in 1 .. Len(t) /\ (i - 1) + 1 = i
        BY <1>1, <1>3, <2>2, <3>1, Zenon
      <3>3. t[i - 1] = x
        BY <1>1, <3>1, <3>2, Zenon
      <3> QED
        BY <1>6, <3>2, <3>3, Zenon
    <2> QED
      BY <2>1, <2>2, Zenon
  <1>9. Head(s) \in Range(s)
    BY <1>1, <1>3, <1>5, Zenon
  <1> QED
    BY <1>1, <1>7, <1>8, <1>9, Zenon DEF t

LEMMA Removed ==
  ASSUME NEW S, NEW s \in Seq(S), NEW i \in 1 .. Len(s), IsInjective(s)
  PROVE  /\ Without(s, i) \in Seq(S) /\ Len(Without(s, i)) = Len(s) - 1 /\ IsInjective(Without(s, i))
         /\ \A x : x \in Range(Without(s, i)) <=> x \in Range(s) /\ x # s[i]
  <1> DEFINE p == Take(s, i - 1)
             q == Drop(s, i)
             t == Without(s, i)
  <1>1. Len(s) \in Nat /\ i - 1 \in 0 .. Len(s) /\ i \in 0 .. Len(s)
    BY SeqTyped
  <1>2. t = p \o q
    BY Zenon DEF Without, Take, Drop
  <1>3. p \in Seq(S) /\ Len(p) = i - 1 /\ \A k \in 1 .. (i - 1) : p[k] = s[k]
    BY <1>1, Parts, ZenonT(30)
  <1>4. q \in Seq(S) /\ Len(q) = Len(s) - i /\ \A k \in 1 .. (Len(s) - i) : q[k] = s[i + k]
    BY <1>1, Parts, Zenon
  <1>5. IsInjective(p)
    BY <1>1, Split, Zenon
  <1>6. IsInjective(q)
    BY <1>1, Split, Zenon
  <1> HIDE DEF p, q, t
  <1>7. \A k, m \in 1 .. Len(s) : s[k] = s[m] => k = m
    BY Elements, Zenon
  <1>8. \A x : x \in Range(s) <=> \E k \in 1 .. Len(s) : s[k] = x
    BY Elements, ZenonT(30)
  <1>9. \A x : x \in Range(p) <=> \E k \in 1 .. Len(p) : p[k] = x
    BY <1>3, Elements, Zenon
  <1>10. \A x : x \in Range(q) <=> \E k \in 1 .. Len(q) : q[k] = x
    BY <1>4, Elements, Zenon
  <1>11. /\ \A k \in 1 .. Len(p) : k \in 1 .. Len(s) /\ k < i /\ p[k] = s[k]
         /\ \A k \in 1 .. Len(q) : i + k \in 1 .. Len(s) /\ i + k > i /\ q[k] = s[i + k]
         /\ \A k \in 1 .. Len(s) : k < i => k \in 1 .. Len(p)
         /\ \A k \in 1 .. Len(s) : k > i => k - i \in 1 .. Len(q) /\ i + (k - i) = k
    BY <1>1, <1>3, <1>4
  <1>12. \A x : x \in Range(p) <=> \E k \in 1 .. Len(s) : k < i /\ s[k] = x
    BY <1>9, <1>11, Zenon
  <1>13. \A x : x \in Range(q) <=> \E k \in 1 .. Len(s) : k > i /\ s[k] = x
    <2> SUFFICES ASSUME NEW x PROVE x \in Range(q) <=> \E k \in 1 .. Len(s) : k > i /\ s[k] = x
      BY Zenon
    <2>1. ASSUME x \in Range(q) PROVE \E k \in 1 .. Len(s) : k > i /\ s[k] = x
      BY <1>10, <1>11, <2>1, ZenonT(30)
    <2>2. ASSUME NEW k \in 1 .. Len(s), k > i, s[k] = x PROVE x \in Range(q)
      <3>1. k - i \in 1 .. Len(q) /\ q[k - i] = x
        BY <1>11, <2>2, Zenon
      <3> QED
        BY <1>10, <3>1, Zenon
    <2> QED
      BY <2>1, <2>2, Zenon
  <1>14. \A x : ~(x \in Range(p) /\ x \in Range(q))
    BY <1>1, <1>7, <1>12, <1>13
  <1>15. IsInjective(t) /\ t \in Seq(S) /\ Len(t) = Len(p) + Len(q)
    BY <1>2, <1>3, <1>4, <1>5, <1>6, <1>14, Joined, Zenon
  <1>16. \A x : x \in Range(t) <=> x \in Range(p) \/ x \in Range(q)
    BY <1>2, <1>3, <1>4, Joined, Zenon
  <1>17. \A x : x \in Range(p) \/ x \in Range(q) <=> x \in Range(s) /\ x # s[i]
    BY <1>1, <1>7, <1>8, <1>12, <1>13
  <1>18. Len(t) = Len(s) - 1
    BY <1>1, <1>3, <1>4, <1>15, SMTT(30)
  <1> QED
    BY <1>15, <1>16, <1>17, <1>18, Zenon DEF t

LEMMA CancelSendKeeps ==
  ASSUME ChannelConstants, ChannelInv, NEW x \in Sends, CancelSend(x)
  PROVE  Keeps
  <1>1. PICK i \in 1 .. Len(senders) : senders[i] = x /\ senders' = Without(senders, i)
    BY Zenon DEF CancelSend
  <1>2. senders \in Seq(Sends) /\ IsInjective(senders) /\ x \in Operations /\ "cancelled" \in Results
    BY Zenon DEF ChannelInv, ChannelTypeOK, QueuesExact, Operations, Results
  <1>3. /\ senders' \in Seq(Sends) /\ Len(senders') = Len(senders) - 1 /\ IsInjective(senders')
        /\ \A y : y \in Range(senders') <=> y \in Range(senders) /\ y # x
    BY <1>1, <1>2, Removed, Zenon
  <1>4. x \in Range(senders) /\ senders # << >>
    <2>1. x \in Range(senders)
      BY <1>1, <1>2, Elements, Zenon
    <2> QED
      BY <2>1, NoneQueued, Zenon
  <1>5. /\ UNCHANGED <<capacity, closed, values, receivers, got, accepted, delivered>>
        /\ result' = Told(x, "cancelled")
    BY Zenon DEF CancelSend
  <1>6. /\ result' \in [Operations -> Results] /\ result'[x] = "cancelled"
        /\ \A e \in Operations : e # x => result'[e] = result[e]
    BY <1>2, <1>5, ToldFacts, ZenonT(30)
  <1>7. result[x] = "pending"
    BY <1>4, Zenon DEF ChannelInv, QueuesExact
  <1>8. Moves(<< >>, << >>)
    BY <1>5, <1>6, <1>7, NothingMoves, Zenon
  <1>9. QueuesExact'
    <2>1. \A y \in Sends : result'[y] = "pending" <=> y \in Range(senders')
      BY <1>3, <1>6, Zenon DEF ChannelInv, QueuesExact, Operations
    <2>2. \A q \in Receives : result'[q] = "pending" <=> q \in Range(receivers')
      BY <1>5, <1>6, Zenon DEF ChannelInv, QueuesExact, Operations, ChannelConstants
    <2> QED
      BY <1>3, <1>5, <2>1, <2>2, Zenon DEF ChannelInv, QueuesExact
  <1>10. Settled'
    BY <1>4, <1>5, Zenon DEF ChannelInv, Settled
  <1>11. SendsServed /\ ReceivesServed
    BY <1>6, NobodyServed, Zenon
  <1> QED
    BY <1>3, <1>5, <1>6, <1>8, <1>9, <1>10, <1>11, Zenon DEF Keeps, ChannelInv, ChannelTypeOK

LEMMA CancelReceiveKeeps ==
  ASSUME ChannelConstants, ChannelInv, NEW r \in Receives, CancelReceive(r)
  PROVE  Keeps
  <1>1. PICK i \in 1 .. Len(receivers) : receivers[i] = r /\ receivers' = Without(receivers, i)
    BY Zenon DEF CancelReceive
  <1>2. receivers \in Seq(Receives) /\ IsInjective(receivers) /\ r \in Operations /\ "cancelled" \in Results
    BY Zenon DEF ChannelInv, ChannelTypeOK, QueuesExact, Operations, Results
  <1>3. /\ receivers' \in Seq(Receives) /\ Len(receivers') = Len(receivers) - 1 /\ IsInjective(receivers')
        /\ \A y : y \in Range(receivers') <=> y \in Range(receivers) /\ y # r
    BY <1>1, <1>2, Removed, Zenon
  <1>4. r \in Range(receivers) /\ receivers # << >>
    <2>1. r \in Range(receivers)
      BY <1>1, <1>2, Elements, Zenon
    <2> QED
      BY <2>1, NoneQueued, Zenon
  <1>5. /\ UNCHANGED <<capacity, closed, values, senders, got, accepted, delivered>>
        /\ result' = Told(r, "cancelled")
    BY Zenon DEF CancelReceive
  <1>6. /\ result' \in [Operations -> Results] /\ result'[r] = "cancelled"
        /\ \A e \in Operations : e # r => result'[e] = result[e]
    BY <1>2, <1>5, ToldFacts, Zenon
  <1>7. result[r] = "pending"
    BY <1>4, Zenon DEF ChannelInv, QueuesExact
  <1>8. Moves(<< >>, << >>)
    BY <1>5, <1>6, <1>7, NothingMoves, Zenon
  <1>9. QueuesExact'
    <2>1. \A y \in Receives : result'[y] = "pending" <=> y \in Range(receivers')
      BY <1>3, <1>6, Zenon DEF ChannelInv, QueuesExact, Operations
    <2>2. \A q \in Sends : result'[q] = "pending" <=> q \in Range(senders')
      BY <1>5, <1>6, Zenon DEF ChannelInv, QueuesExact, Operations, ChannelConstants
    <2> QED
      BY <1>3, <1>5, <2>1, <2>2, Zenon DEF ChannelInv, QueuesExact
  <1>10. Settled'
    BY <1>4, <1>5, Zenon DEF ChannelInv, Settled
  <1>11. SendsServed /\ ReceivesServed
    BY <1>6, NobodyServed, Zenon
  <1> QED
    BY <1>3, <1>5, <1>6, <1>8, <1>9, <1>10, <1>11, Zenon DEF Keeps, ChannelInv, ChannelTypeOK

\* A value goes from the send x to the receive q past an empty buffer.
LEMMA HandOver ==
  ASSUME ChannelConstants, ChannelInv, values = << >>,
         NEW x \in Sends, NEW q \in Receives,
         result[x] \in {"new", "pending"}, result[q] \in {"new", "pending"},
         result' = [Told(x, "ok") EXCEPT ![q] = "ok"] \/ result' = [Told(q, "ok") EXCEPT ![x] = "ok"],
         got' = [got EXCEPT ![q] = x],
         accepted' = Append(accepted, x), delivered' = Append(delivered, q), values' = values
  PROVE  /\ Moves(<<x>>, <<q>>)
         /\ result' \in [Operations -> Results] /\ got' \in [Receives -> Sends \cup {NoValue}]
         /\ result'[x] = "ok" /\ result'[q] = "ok"
         /\ \A e \in Operations : e # x /\ e # q => result'[e] = result[e]
  <1>1. x \in Operations /\ q \in Operations /\ x # q /\ "ok" \in Results
    BY Zenon DEF Operations, Results, ChannelConstants
  <1>2. /\ result \in [Operations -> Results] /\ got \in [Receives -> Sends \cup {NoValue}]
        /\ accepted \in Seq(Sends) /\ delivered \in Seq(Receives)
    BY Zenon DEF ChannelInv, ChannelTypeOK
  <1>3. /\ result' \in [Operations -> Results] /\ result'[x] = "ok" /\ result'[q] = "ok"
        /\ \A e \in Operations : e # x /\ e # q => result'[e] = result[e]
    BY <1>1, <1>2, Zenon DEF Told
  <1>4. /\ got' \in [Receives -> Sends \cup {NoValue}] /\ got'[q] = x
        /\ \A p \in Receives : p # q => got'[p] = got[p]
    BY <1>2, Zenon
  <1>5. /\ <<x>> \in Seq(Sends) /\ Len(<<x>>) = 1 /\ IsInjective(<<x>>)
        /\ \A y : y \in Range(<<x>>) <=> y = x
        /\ accepted' = accepted \o <<x>>
    BY <1>2, Appended, Zenon
  <1>6. /\ <<q>> \in Seq(Receives) /\ Len(<<q>>) = 1 /\ IsInjective(<<q>>)
        /\ \A y : y \in Range(<<q>>) <=> y = q
        /\ delivered' = delivered \o <<q>>
    BY <1>2, Appended, Zenon
  <1>7. values \o <<x>> = <<x>>
    BY <1>5, JoinNone, Zenon
  <1>8. Drop(<<x>>, 1) = << >>
    BY DEF Drop
  <1>9. \A i \in 1 .. Len(<<q>>) : i = 1 /\ <<q>>[i] = q /\ <<x>>[i] = x
    BY <1>5, <1>6
  <1>10. Moves(<<x>>, <<q>>)
    <2>1. Len(<<q>>) <= Len(values) + Len(<<x>>)
      BY <1>5, <1>6
    <2>2. \A i \in 1 .. Len(<<q>>) : got'[<<q>>[i]] = (values \o <<x>>)[i]
      BY <1>4, <1>7, <1>9, Zenon
    <2>3. values' = Drop(values \o <<x>>, Len(<<q>>))
      BY <1>6, <1>7, <1>8, Zenon
    <2>4. \A p \in Receives : p \in Range(<<q>>) \/ got'[p] = got[p]
      BY <1>4, <1>6, Zenon
    <2>5. \A c \in Operations : c \in Range(<<x>>) \/ c \in Range(<<q>>) => result[c] # "ok"
      BY <1>5, <1>6, Zenon
    <2>6. \A c \in Operations :
            result'[c] = "ok" <=> result[c] = "ok" \/ c \in Range(<<x>>) \/ c \in Range(<<q>>)
      BY <1>3, <1>5, <1>6, Zenon
    <2> QED
      BY <1>5, <1>6, <2>1, <2>2, <2>3, <2>4, <2>5, <2>6, ZenonT(30) DEF Moves
  <1> QED
    BY <1>3, <1>4, <1>10, Zenon

LEMMA TrySendKeeps ==
  ASSUME ChannelConstants, ChannelInv, NEW x \in Sends, TrySend(x)
  PROVE  Keeps
  <1>1. /\ x \in Operations /\ {"closed", "overflow"} \subseteq Results \ {"ok", "pending"} /\ "ok" \in Results
        /\ result[x] = "new" /\ capacity' = capacity /\ closed' = closed
    BY Zenon DEF Operations, Results, TrySend
  <1>2. x \notin Range(senders) /\ x \notin Range(receivers)
    BY <1>1, NewCall, Zenon
  <1>3. /\ senders \in Seq(Sends) /\ receivers \in Seq(Receives) /\ IsInjective(senders)
        /\ IsInjective(receivers) /\ values \in Seq(Sends) /\ accepted \in Seq(Sends)
        /\ capacity \in Capacities /\ capacity \in Nat /\ got \in [Receives -> Sends \cup {NoValue}]
    BY Zenon DEF ChannelInv, ChannelTypeOK, QueuesExact, ChannelConstants
  <1>4. CASE closed
    <2>1. result' = Told(x, "closed") /\ UNCHANGED <<values, senders, receivers, got, accepted, delivered>>
      BY <1>4, Zenon DEF TrySend
    <2> QED
      BY <1>1, <2>1, TurnedAway, Zenon
  <1>5. CASE ~closed /\ receivers # << >> /\ values = << >>
    <2> DEFINE q == Head(receivers)
    <2>1. /\ result' = [Told(x, "ok") EXCEPT ![q] = "ok"]
          /\ got' = [got EXCEPT ![q] = x]
          /\ receivers' = Tail(receivers)
          /\ accepted' = Append(accepted, x)
          /\ delivered' = Append(delivered, q)
          /\ values' = values /\ senders' = senders
      BY <1>5, Zenon DEF TrySend
    <2>2. /\ q \in Receives /\ receivers' \in Seq(Receives) /\ IsInjective(receivers') /\ q \in Range(receivers)
          /\ \A y : y \in Range(receivers') <=> y \in Range(receivers) /\ y # q
      BY <1>3, <1>5, <2>1, Tailed, Zenon
    <2> HIDE DEF q
    <2>3. result[q] = "pending"
      BY <2>2, Zenon DEF ChannelInv, QueuesExact
    <2>4. /\ Moves(<<x>>, <<q>>)
          /\ result' \in [Operations -> Results] /\ got' \in [Receives -> Sends \cup {NoValue}]
          /\ result'[x] = "ok" /\ result'[q] = "ok"
          /\ \A e \in Operations : e # x /\ e # q => result'[e] = result[e]
      BY <1>1, <1>5, <2>1, <2>2, <2>3, HandOver, Zenon
    <2>5. \A y \in Sends : result'[y] = "pending" <=> y \in Range(senders')
      BY <1>2, <2>1, <2>2, <2>4, ZenonT(30) DEF ChannelInv, QueuesExact, Operations, ChannelConstants
    <2>6. \A y \in Receives : result'[y] = "pending" <=> y \in Range(receivers')
      BY <2>2, <2>4, Zenon DEF ChannelInv, QueuesExact, Operations, ChannelConstants
    <2>7. QueuesExact'
      BY <1>3, <2>1, <2>2, <2>5, <2>6, Zenon DEF QueuesExact
    <2>8. Settled' /\ senders = << >>
      BY <1>1, <1>5, <2>1, Zenon DEF ChannelInv, Settled
    <2>9. ReceivesServed
      <3> SUFFICES ASSUME NEW p \in Receives, NEW y \in Receives, Succeeds(p), Waits(y) PROVE Before(receivers, p, y)
        BY Zenon DEF ReceivesServed
      <3>1. p = q
        BY <2>4, Zenon DEF Succeeds, Operations, ChannelConstants
      <3>2. y \in Range(receivers) /\ y # q
        BY <2>2, <2>6, Zenon DEF Waits
      <3> QED
        BY <1>3, <1>5, <3>1, <3>2, HeadFirst, Zenon DEF q
    <2>10. SendsServed
      BY <2>7, <2>8, NobodyWaits, Zenon
    <2> QED
      BY <1>1, <1>3, <1>5, <2>1, <2>2, <2>4, <2>7, <2>8, <2>9, <2>10, Zenon DEF Keeps
  <1>6. CASE ~closed /\ ~(receivers # << >> /\ values = << >>) /\ Len(values) < capacity
    <2> DEFINE v == Append(values, x)
               res == Told(x, "ok")
    <2>1. PumpOpen(v, senders, receivers, res, Append(accepted, x))
      BY <1>6, Zenon DEF TrySend
    <2>2. senders = << >> /\ receivers = << >> /\ Len(values) \in Nat
      BY <1>3, <1>6, SeqTyped, SMTT(30) DEF ChannelInv, Settled
    <2>3. /\ v \in Seq(Sends) /\ v = values \o <<x>> /\ <<x>> \in Seq(Sends) /\ Len(<<x>>) = 1
          /\ \A y : y \in Range(<<x>>) <=> y = x
          /\ IsInjective(<<x>>)
      BY <1>3, Appended, ZenonT(30)
    <2>4. Len(v) = Len(values) + 1
      BY <1>3, Add, Zenon
    <2>5. /\ res \in [Operations -> Results] /\ res[x] = "ok"
          /\ \A e \in Operations : e # x => res[e] = result[e]
      BY <1>1, ToldFacts, Zenon
    <2>6. Append(accepted, x) = accepted \o <<x>>
      BY <1>3, Appended
    <2> HIDE DEF v, res
    <2>7. Len(v) <= capacity
      BY <1>3, <1>6, <2>2, <2>4, SMTT(30)
    <2>8. \A y \in Sends : res[y] = "pending" <=> y \in Range(senders)
      BY <1>2, <2>5, Zenon DEF ChannelInv, QueuesExact, Operations
    <2>9. \A y \in Receives : res[y] = "pending" <=> y \in Range(receivers)
      BY <2>5, Zenon DEF ChannelInv, QueuesExact, Operations, ChannelConstants
    <2>10. PICK a \in 0 .. Len(senders), d \in 0 .. Len(receivers) :
             OpenPumped(v, senders, receivers, res, Append(accepted, x), a, d)
      BY <1>1, <1>3, <1>6, <2>1, <2>3, <2>5, <2>7, <2>8, <2>9, OpenPump, Zenon
    <2>11. a = 0 /\ d = 0
      BY <2>2
    <2>12. Take(senders, a) = << >> /\ Take(receivers, d) = << >>
      BY <2>2, <2>11, SMTT(30) DEF Take
    <2>13. v \o << >> = v /\ Append(accepted, x) \o << >> = Append(accepted, x) /\ delivered \o << >> = delivered
      BY <1>3, <2>3, Add, JoinNone DEF ChannelInv, ChannelTypeOK
    <2>14. /\ values' = Drop(values \o <<x>>, 0) /\ accepted' = accepted \o <<x>>
           /\ delivered' = delivered \o << >>
      BY <2>3, <2>6, <2>10, <2>11, <2>12, <2>13, ZenonT(30) DEF OpenPumped
    <2>15. \A p \in Receives : got'[p] = got[p]
      BY <2>10, <2>12, NoneQueued, Zenon DEF OpenPumped
    <2>16. \A c \in Operations : result'[c] = res[c]
      BY <2>10, <2>12, NoneQueued, Zenon DEF OpenPumped
    <2>17. << >> \in Seq(Receives) /\ Len(<< >>) = 0 /\ 1 .. Len(<< >>) = {}
      OBVIOUS
    <2>18. Moves(<<x>>, << >>)
      <3>1. Len(<< >>) <= Len(values) + Len(<<x>>)
        BY <2>2, <2>3, <2>17, SMTT(30)
      <3>2. \A c \in Operations : result'[c] = "ok" <=> result[c] = "ok" \/ c \in Range(<<x>>) \/ c \in Range(<< >>)
        BY <2>3, <2>5, <2>16, NoneQueued, SMTT(30)
      <3>3. \A c \in Operations : c \in Range(<<x>>) \/ c \in Range(<< >>) => result[c] # "ok"
        BY <1>1, <2>3, NoneQueued, Zenon
      <3> QED
        BY <2>3, <2>14, <2>15, <2>17, <3>1, <3>2, <3>3, NoneQueued, Zenon DEF Moves
    <2>19. SendsServed /\ ReceivesServed
      BY <2>2, <2>10, NobodyWaits, Zenon DEF OpenPumped
    <2> QED
      BY <1>1, <1>6, <2>10, <2>18, <2>19, Zenon DEF Keeps, OpenPumped
  <1>7. CASE ~closed /\ ~(receivers # << >> /\ values = << >>) /\ ~(Len(values) < capacity)
    <2>1. result' = Told(x, "overflow") /\ UNCHANGED <<values, senders, receivers, got, accepted, delivered>>
      BY <1>7, Zenon DEF TrySend
    <2> QED
      BY <1>1, <2>1, TurnedAway, Zenon
  <1> QED
    BY <1>4, <1>5, <1>6, <1>7, Zenon

LEMMA TryReceiveKeeps ==
  ASSUME ChannelConstants, ChannelInv, NEW r \in Receives, TryReceive(r)
  PROVE  Keeps
  <1>1. /\ r \in Operations /\ {"closed", "empty"} \subseteq Results \ {"ok", "pending"} /\ "pending" \in Results
        /\ result[r] = "new" /\ capacity' = capacity /\ closed' = closed
    BY Zenon DEF Operations, Results, TryReceive
  <1>2. r \notin Range(senders) /\ r \notin Range(receivers)
    BY <1>1, NewCall, Zenon
  <1>3. /\ senders \in Seq(Sends) /\ receivers \in Seq(Receives) /\ IsInjective(senders)
        /\ IsInjective(receivers) /\ values \in Seq(Sends)
    BY Zenon DEF ChannelInv, ChannelTypeOK, QueuesExact
  <1>4. CASE values # << >>
    <2> DEFINE q == <<r>>
               res == Told(r, "pending")
    <2>1. receivers = << >>
      BY <1>4, Zenon DEF ChannelInv, Settled
    <2>2. q \in Seq(Receives) /\ IsInjective(q) /\ \A y : y \in Range(q) <=> y = r
      BY <1>3, Appended, Zenon
    <2>3. q \o receivers = q
      BY <2>1, <2>2, JoinNone, Zenon
    <2>4. Pump(values, senders, q, res)
      <3>1. Pump(values, senders, q \o receivers, res)
        BY <1>4, Zenon DEF TryReceive
      <3> QED
        BY <2>3, <3>1, Zenon
    <2>5. /\ res \in [Operations -> Results] /\ res[r] = "pending"
          /\ \A e \in Operations : e # r => res[e] = result[e]
      BY <1>1, ToldFacts, Zenon
    <2> HIDE DEF q, res
    <2>6. \A y \in Receives : res[y] = "pending" <=> y \in Range(q)
      <3>1. \A y \in Receives : result[y] # "pending"
        BY <2>1, NoneQueued, Zenon DEF ChannelInv, QueuesExact
      <3> QED
        BY <2>2, <2>5, <3>1, Zenon DEF Operations
    <2>7. \A y \in Sends : res[y] = "pending" <=> y \in Range(senders)
      BY <2>5, Zenon DEF ChannelInv, QueuesExact, Operations, ChannelConstants
    <2>8. \A c \in Operations : res[c] = "ok" <=> result[c] = "ok"
      BY <1>1, <2>5, Zenon
    <2>9. Follows(senders, senders) /\ Follows(receivers, q)
      BY <1>3, <2>1, <2>2, Following, Zenon
    <2> QED
      BY <1>1, <1>3, <2>2, <2>4, <2>5, <2>6, <2>7, <2>8, <2>9, PumpKeeps, Zenon
  <1>5. CASE values = << >> /\ senders # << >>
    <2> DEFINE x == Head(senders)
    <2>1. /\ result' = [Told(r, "ok") EXCEPT ![x] = "ok"]
          /\ got' = [got EXCEPT ![r] = x]
          /\ senders' = Tail(senders)
          /\ accepted' = Append(accepted, x)
          /\ delivered' = Append(delivered, r)
          /\ values' = values /\ receivers' = receivers
      BY <1>5, Zenon DEF TryReceive
    <2>2. /\ x \in Sends /\ senders' \in Seq(Sends) /\ IsInjective(senders') /\ x \in Range(senders)
          /\ \A y : y \in Range(senders') <=> y \in Range(senders) /\ y # x
      BY <1>3, <1>5, <2>1, Tailed, Zenon
    <2> HIDE DEF x
    <2>3. result[x] = "pending"
      BY <2>2, Zenon DEF ChannelInv, QueuesExact
    <2>4. /\ Moves(<<x>>, <<r>>)
          /\ result' \in [Operations -> Results] /\ got' \in [Receives -> Sends \cup {NoValue}]
          /\ result'[x] = "ok" /\ result'[r] = "ok"
          /\ \A e \in Operations : e # x /\ e # r => result'[e] = result[e]
      BY <1>1, <1>5, <2>1, <2>2, <2>3, HandOver, Zenon
    <2>5. \A y \in Receives : result'[y] = "pending" <=> y \in Range(receivers')
      BY <1>2, <2>1, <2>2, <2>4, Zenon DEF ChannelInv, QueuesExact, Operations, ChannelConstants
    <2>6. \A y \in Sends : result'[y] = "pending" <=> y \in Range(senders')
      BY <2>2, <2>4, Zenon DEF ChannelInv, QueuesExact, Operations, ChannelConstants
    <2>7. QueuesExact'
      BY <1>3, <2>1, <2>2, <2>5, <2>6, Zenon DEF QueuesExact
    <2>8. Settled' /\ ~closed /\ receivers = << >>
      BY <1>1, <1>5, <2>1, Zenon DEF ChannelInv, Settled
    <2>9. SendsServed
      <3> SUFFICES ASSUME NEW p \in Sends, NEW y \in Sends, Succeeds(p), Waits(y) PROVE Before(senders, p, y)
        BY Zenon DEF SendsServed
      <3>1. p = x
        BY <2>4, Zenon DEF Succeeds, Operations, ChannelConstants
      <3>2. y \in Range(senders) /\ y # x
        BY <2>2, <2>6, Zenon DEF Waits
      <3> QED
        BY <1>3, <1>5, <3>1, <3>2, HeadFirst, Zenon DEF x
    <2>10. ReceivesServed
      BY <2>7, <2>8, NobodyWaits, Zenon
    <2> QED
      BY <1>1, <1>3, <1>5, <2>1, <2>2, <2>4, <2>7, <2>8, <2>9, <2>10, Zenon DEF Keeps
  <1>6. CASE values = << >> /\ senders = << >>
    <2>1. /\ result' = Told(r, IF closed THEN "closed" ELSE "empty")
          /\ UNCHANGED <<values, senders, receivers, got, accepted, delivered>>
      BY <1>6, Zenon DEF TryReceive
    <2>2. result' = Told(r, "closed") \/ result' = Told(r, "empty")
      BY <2>1, Zenon
    <2> QED
      BY <1>1, <2>1, <2>2, TurnedAway, Zenon
  <1> QED
    BY <1>4, <1>5, <1>6, Zenon

\* close serves nobody: a receive that waits does so beside an empty buffer.
LEMMA CloseKeeps ==
  ASSUME ChannelConstants, ChannelInv, Close
  PROVE  Keeps /\ accepted' = accepted /\ Received' = Received
  <1>1. /\ capacity \in Capacities /\ values \in Seq(Sends) /\ senders \in Seq(Sends)
        /\ receivers \in Seq(Receives) /\ IsInjective(receivers) /\ result \in [Operations -> Results]
        /\ got \in [Receives -> Sends \cup {NoValue}] /\ delivered \in Seq(Receives)
        /\ Len(values) <= capacity
        /\ \A x \in Sends : result[x] = "pending" <=> x \in Range(senders)
        /\ \A q \in Receives : result[q] = "pending" <=> q \in Range(receivers)
    BY Zenon DEF ChannelInv, ChannelTypeOK, Settled, QueuesExact
  <1>2. ~closed /\ closed' /\ capacity' = capacity /\ PumpClosed(values, senders, receivers, result)
    BY Zenon DEF Close
  <1> DEFINE d == Lesser(Len(receivers), Len(values))
  <1>3. ClosedPumped(values, receivers, result, d)
    BY <1>1, <1>2, ClosedPump, Zenon
  <1>4. d = 0
    <2>1. Len(receivers) \in Nat /\ Len(values) \in Nat
      BY <1>1, SeqTyped, Zenon
    <2>2. Len(receivers) = 0 \/ Len(values) = 0
      BY <1>1, SeqNone, Zenon DEF ChannelInv, Settled
    <2> QED
      BY <2>1, <2>2 DEF Lesser
  <1> HIDE DEF d
  <1>5. Take(receivers, d) = << >>
    <2>1. 0 \in 0 .. Len(receivers)
      BY <1>3, <1>4, Zenon DEF ClosedPumped
    <2>2. Take(receivers, 0) \in Seq(Receives) /\ Len(Take(receivers, 0)) = 0
      BY <1>1, <2>1, Parts, Zenon
    <2> QED
      BY <1>4, <2>2, SeqNone, Zenon
  <1>6. delivered' = delivered
    <2>1. delivered' = delivered \o << >>
      BY <1>3, <1>5, ZenonT(30) DEF ClosedPumped
    <2> QED
      BY <1>1, <2>1, JoinNone, Zenon
  <1>7. got' = got
    <2>1. \A q \in Receives : got'[q] = got[q]
      BY <1>3, <1>5, NoneQueued, Zenon DEF ClosedPumped
    <2> QED
      BY <1>1, <1>3, <2>1, SMTT(30) DEF ClosedPumped
  <1>8. values' = values
    <2>1. Len(values) \in Nat /\ 0 \in 0 .. Len(values)
      BY <1>1, SeqTyped, SMTT(30)
    <2>2. Take(values, 0) \in Seq(Sends) /\ Len(Take(values, 0)) = 0 /\ Drop(values, 0) \in Seq(Sends)
      BY <1>1, <2>1, Parts, Zenon
    <2>3. Take(values, 0) = << >>
      BY <2>2, SeqNone, Zenon
    <2>4. << >> \o Drop(values, 0) = values
      BY <1>1, <2>1, <2>3, Whole, Zenon
    <2>5. Drop(values, 0) = values
      BY <2>2, <2>4, JoinNone, Zenon
    <2> QED
      BY <1>3, <1>4, <2>5, Zenon DEF ClosedPumped
  <1>9. accepted' = accepted /\ \A c \in Operations : result'[c] = "ok" <=> result[c] = "ok"
    BY <1>3, <1>5, NoneQueued, Zenon DEF ClosedPumped
  <1>10. Moves(<< >>, << >>)
    BY <1>6, <1>7, <1>8, <1>9, NothingMoves, Zenon
  <1>11. Received' = Received
    BY <1>6, <1>7, Zenon DEF Received
  <1>12. << >> \in Seq(Sends) /\ << >> \in Seq(Receives)
    OBVIOUS
  <1>13. SendsServed /\ ReceivesServed
    BY <1>9, NobodyServed, Zenon
  <1> QED
    BY <1>2, <1>3, <1>9, <1>10, <1>11, <1>12, <1>13, Zenon DEF Keeps, ClosedPumped

-----------------------------------------------------------------------------
\* The invariant and the refinement.

LEMMA ChannelBegins ==
  ASSUME ChannelConstants, ChannelInit
  PROVE  ChannelInv /\ Received = << >>
  <1>1. << >> \in Seq(Sends) /\ << >> \in Seq(Receives) /\ Len(<< >>) = 0 /\ << >> \o << >> = << >>
    OBVIOUS
  <1>2. Received = << >>
    BY DEF ChannelInit, Received
  <1>3. ChannelTypeOK
    BY <1>1, ZenonT(30) DEF ChannelInit, ChannelTypeOK, Results
  <1>4. \A c \in Operations : result[c] = "new"
    BY Zenon DEF ChannelInit
  <1>5. QueuesExact
    BY <1>4, NoneQueued, Zenon DEF ChannelInit, QueuesExact, Operations
  <1>6. NothingLost
    BY <1>1, <1>2, <1>4, NoneQueued, Zenon DEF ChannelInit, NothingLost, Operations
  <1>7. Settled
    BY <1>1 DEF ChannelInit, Settled, ChannelConstants
  <1> QED
    BY <1>2, <1>3, <1>5, <1>6, <1>7, Zenon DEF ChannelInv

\* A step keeps the invariant and serves in order, and the mailbox takes a step or none.
LEMMA ChannelGoesOn ==
  ASSUME ChannelConstants, ChannelInv, [ChannelNext]_channelVars
  PROVE  ChannelInv' /\ [M!Next]_(M!mailboxVars) /\ [SendsServed /\ ReceivesServed]_channelVars
  <1>1. CASE UNCHANGED channelVars
    <2>1. ChannelInv'
      BY <1>1, ZenonT(30) DEF channelVars, ChannelInv, ChannelTypeOK, Settled, QueuesExact, NothingLost, Received
    <2>2. UNCHANGED M!mailboxVars
      BY <1>1, Zenon DEF channelVars, M!mailboxVars, Received
    <2> QED
      BY <1>1, <2>1, <2>2, Zenon
  <1>2. ASSUME Keeps PROVE (closed' \in BOOLEAN => ChannelInv') /\ Grows
    <2>1. PICK new, served : Moves(new, served)
      BY <1>2, Zenon DEF Keeps
    <2>2. NothingLost' /\ Grows
      BY <2>1, MovesKeep, Zenon DEF ChannelInv
    <2> QED
      BY <1>2, <2>2, Zenon DEF ChannelInv, ChannelTypeOK, Keeps, Grows
  <1>3. ASSUME Keeps, closed' = closed PROVE ChannelInv' /\ M!Next
    <2>1. ChannelInv' /\ Grows
      BY <1>2, <1>3, Zenon DEF ChannelInv, ChannelTypeOK
    <2>2. M!InOrder(accepted', Received')
      BY <1>3, <2>1, Zenon DEF M!InOrder, Grows, Keeps, Settled
    <2>3. CASE ~closed
      BY <1>3, <2>1, <2>2, <2>3, Zenon DEF M!Next, M!Transfer, Grows, Keeps
    <2>4. CASE closed
      BY <1>3, <2>1, <2>2, <2>4, Zenon DEF M!Next, M!Drain, Grows, Keeps
    <2> QED
      BY <2>1, <2>3, <2>4, Zenon
  <1>4. ASSUME NEW x \in Sends, Send(x) \/ TrySend(x) \/ CancelSend(x) PROVE Keeps /\ closed' = closed
    BY <1>4, SendKeeps, TrySendKeeps, CancelSendKeeps, ZenonT(30) DEF Send, TrySend, CancelSend
  <1>5. ASSUME NEW r \in Receives, Receive(r) \/ TryReceive(r) \/ CancelReceive(r) PROVE Keeps /\ closed' = closed
    BY <1>5, ReceiveKeeps, TryReceiveKeeps, CancelReceiveKeeps, ZenonT(30) DEF Receive, TryReceive, CancelReceive
  <1>6. ASSUME Close PROVE ChannelInv' /\ M!Next /\ Keeps
    <2>1. Keeps /\ accepted' = accepted /\ Received' = Received /\ closed' = TRUE
      BY <1>6, CloseKeeps, Zenon DEF Close
    <2>2. M!Next
      BY <2>1, Zenon DEF M!Next, M!Shut, Keeps
    <2> QED
      BY <1>2, <2>1, <2>2, Zenon
  <1>7. ASSUME Keeps PROVE SendsServed /\ ReceivesServed
    BY <1>7, Zenon DEF Keeps
  <1>8. ASSUME ChannelNext PROVE ChannelInv' /\ M!Next /\ Keeps
    BY <1>3, <1>4, <1>5, <1>6, <1>8, Zenon DEF ChannelNext
  <1> QED
    BY <1>1, <1>7, <1>8, Zenon

\* For any calls and capacities: nothing that could move is left waiting, a call
\* waits exactly while it was told nothing, and the values of the successful sends
\* are those received, in order, and those in the buffer (channel.hpp:110-370).
THEOREM ChannelInvariant ==
  ASSUME ChannelConstants
  PROVE  ChannelSpec => []ChannelInv
  <1>1. ChannelInit => ChannelInv
    BY ChannelBegins, Zenon
  <1>2. ChannelInv /\ [ChannelNext]_channelVars => ChannelInv'
    BY ChannelGoesOn, Zenon
  <1> QED
    BY <1>1, <1>2, PTL DEF ChannelSpec

\* For any calls and capacities, the channel implements the mailbox: every
\* operation, with the pump that ends its critical section, is a transfer in
\* order, the closing, a draining, or invisible (channel.hpp:290-336).
THEOREM ChannelIsMailbox ==
  ASSUME ChannelConstants
  PROVE  ChannelSpec => IsMailbox
  <1>1. ChannelInit => M!Init
    <2>1. ASSUME ChannelInit PROVE Received = << >> /\ capacity \in Nat /\ accepted = << >> /\ closed = FALSE
      BY <2>1, ChannelBegins, Zenon DEF ChannelInit, ChannelConstants
    <2> QED
      BY <2>1, Zenon DEF M!Init
  <1>2. ChannelInv /\ [ChannelNext]_channelVars => [M!Next]_(M!mailboxVars)
    BY ChannelGoesOn, Zenon
  <1>3. ChannelSpec => []ChannelInv
    BY ChannelInvariant, Zenon
  <1> QED
    BY <1>1, <1>2, <1>3, PTL DEF ChannelSpec, IsMailbox, M!Spec

\* For any calls and capacities, no send and no receive succeeds while one of its
\* kind that was queued before it goes on waiting, try_send and try_receive
\* included (channel.hpp:174-219, 290-336).
THEOREM ChannelServesInOrder ==
  ASSUME ChannelConstants
  PROVE  ChannelSpec => ServedInOrder
  <1>1. SendsServed /\ ReceivesServed => ServesInOrder
    BY Zenon DEF ServesInOrder, SendsServed, ReceivesServed, Succeeds, Waits, Before
  <1>2. ChannelInv /\ [ChannelNext]_channelVars => [ServesInOrder]_channelVars
    BY <1>1, ChannelGoesOn, Zenon
  <1>3. ChannelSpec => []ChannelInv
    BY ChannelInvariant, Zenon
  <1> QED
    BY <1>2, <1>3, PTL DEF ChannelSpec, ServedInOrder
=============================================================================
