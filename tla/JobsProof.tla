------------------------------ MODULE JobsProof ------------------------------
(***************************************************************************)
(* The board of a team and the jobs that run it agree, limits and          *)
(* reservations hold, and completions are kept, for any tasks, members,    *)
(* turns and limits.  Every handler composes changes of the service, so    *)
(* its lemma composes theirs.                                              *)
(***************************************************************************)
EXTENDS JobChangesProof

-----------------------------------------------------------------------------
\* The inductive invariant.

\* A child that ended belongs to a job its monitor has not settled.
EndedSound == DOMAIN ended \subseteq Busy(svc) /\ Range(ended) \subseteq TaskTerminal

\* What was delivered is acknowledged and not claimed any more.
DeliveredSound ==
    /\ delivered \in Seq(Runs) /\ IsInjective(delivered)
    /\ \A j \in Range(delivered) :
         /\ j < svc.next
         /\ j \in DOMAIN svc.job => svc.job[j].acknowledged /\ ~svc.job[j].claimed

JobsInv ==
    /\ SvcInv(svc) /\ EndedSound /\ DeliveredSound
    /\ shutdown \in {"no", "check", "wait", "done"}

-----------------------------------------------------------------------------
\* What a step does to the completions.

\* A finished job keeps its outcome, and its record as CompletionsKept says.
Lasting(s, t) ==
    \A j \in DOMAIN s.job : s.job[j].state \in TaskTerminal =>
      IF j \in DOMAIN t.job THEN t.job[j].state = s.job[j].state
      ELSE /\ ~s.job[j].claimed
           /\ \/ ~Unread(s.job[j])
              \/ \E k \in DOMAIN t.work : k = s.job[j].task /\ t.work[k].state = "cancelled"

LEMMA SilentLasts ==
  ASSUME NEW s, NEW t, Silent(s, t)
  PROVE  Lasting(s, t)
  BY Zenon DEF Silent, Kept, Lasting

\* Records are pruned first; what follows may acknowledge but removes nothing.
LEMMA PrunedLasts ==
  ASSUME NEW s, NEW p, NEW t, Typed(s), Typed(p), Typed(t), Silent(s, p), Kept(p, t),
         DOMAIN t.job = DOMAIN p.job
  PROVE  Kept(s, t) /\ Lasting(s, t)
  <1>1. Kept(s, t)
    BY KeptOn, Zenon DEF Silent
  <1>2. ASSUME NEW j \in DOMAIN s.job, j \notin DOMAIN t.job PROVE ~Unread(s.job[j]) /\ ~s.job[j].claimed
    BY <1>2, Zenon DEF Silent, Kept
  <1> QED
    BY <1>1, <1>2, Zenon DEF Kept, Lasting

\* A step that claims and delivers nothing and ends no child.
LEMMA KeptStep ==
  ASSUME JobsInv, SvcInv(svc'), Kept(svc, svc'), ended' = ended, delivered' = delivered,
         shutdown' \in {"no", "check", "wait", "done"}
  PROVE  JobsInv'
  <1>1. Typed(svc) /\ svc.next \in Nat /\ svc'.next \in Nat /\ svc.next <= svc'.next
    BY Zenon DEF JobsInv, SvcInv, Core, Typed, Runs, Kept
  <1>2. EndedSound'
    BY Zenon DEF JobsInv, EndedSound, Kept
  <1>3. DeliveredSound'
    <2>1. delivered \in Seq(Runs) /\ IsInjective(delivered)
      BY Zenon DEF JobsInv, DeliveredSound
    <2>2. ASSUME NEW j \in Range(delivered)
          PROVE  /\ j < svc'.next
                 /\ j \in DOMAIN svc'.job => svc'.job[j].acknowledged /\ ~svc'.job[j].claimed
      <3>1. j \in Nat /\ j < svc.next
        BY <2>1 DEF JobsInv, DeliveredSound, Range, Runs
      <3>2. j < svc'.next
        BY <1>1, <3>1
      <3>3. j \in DOMAIN svc'.job => j \in DOMAIN svc.job
        BY <1>1, <3>1 DEF Kept
      <3>4. j \in DOMAIN svc.job => svc.job[j].acknowledged /\ ~svc.job[j].claimed
        BY Zenon DEF JobsInv, DeliveredSound
      <3> QED
        BY <3>2, <3>3, <3>4, Zenon DEF Kept
    <2> QED
      BY <2>1, <2>2, Zenon DEF DeliveredSound
  <1> QED
    BY <1>2, <1>3, Zenon DEF JobsInv

\* The flags of one finished job.
Flagged(p, j, b) ==
    /\ j \in DOMAIN p.job /\ p.job[j].state \in TaskTerminal /\ b \in Job
    /\ b.state = p.job[j].state /\ b.task = p.job[j].task /\ b.team = p.job[j].team
    /\ b.attempt = p.job[j].attempt /\ (p.job[j].acknowledged => b.acknowledged)

Put(p, j, b) == [p EXCEPT !.job = [p.job EXCEPT ![j] = b]]

LEMMA FlagJob ==
  ASSUME NEW p, SvcInv(p), NEW j, NEW b, Flagged(p, j, b), NEW t, t = Put(p, j, b)
  PROVE  /\ SvcInv(t) /\ Busy(t) = Busy(p) /\ DOMAIN t.job = DOMAIN p.job /\ t.next = p.next
         /\ \A i \in DOMAIN p.job : t.job[i] = IF i = j THEN b ELSE p.job[i]
  <1>1. Typed(p) /\ Board(p) /\ Slots(p) /\ Acked(p) /\ Core(p)
    BY Zenon DEF SvcInv, Core
  <1>0. p = [x \in Fields |-> p[x]] /\ p.job = [i \in DOMAIN p.job |-> p.job[i]]
    BY <1>1, Zenon DEF Typed
  <1> DEFINE jobs == [p.job EXCEPT ![j] = b]
  <1>11. t = [p EXCEPT !.job = jobs] /\ jobs = [i \in DOMAIN p.job |-> IF i = j THEN b ELSE p.job[i]]
    BY <1>0, Zenon DEF Put
  <1> HIDE DEF jobs
  <1>12. /\ t = [x \in Fields |-> t[x]] /\ \A x \in Fields \ {"job"} : t[x] = p[x]
         /\ t.job = [i \in DOMAIN p.job |-> IF i = j THEN b ELSE p.job[i]]
    BY <1>0, <1>11, Zenon DEF Fields
  <1>13. /\ j \in DOMAIN p.job /\ p.job[j].state \in TaskTerminal /\ b \in Job
         /\ b.state = p.job[j].state /\ b.task = p.job[j].task /\ b.team = p.job[j].team
         /\ b.attempt = p.job[j].attempt /\ (p.job[j].acknowledged => b.acknowledged)
    BY Zenon DEF Flagged
  <1>2. /\ t.next = p.next /\ t.active = p.active /\ t.team = p.team /\ t.stopped = p.stopped
        /\ t.members = p.members /\ t.keys = p.keys /\ t.work = p.work /\ t.pump = p.pump
        /\ t.changed = p.changed /\ t.closed = p.closed
    BY <1>12, Zenon DEF Fields
  <1>3. /\ DOMAIN t.job = DOMAIN p.job /\ t.job = [i \in DOMAIN t.job |-> t.job[i]]
        /\ t.job[j] = b /\ \A i \in DOMAIN p.job : i # j => t.job[i] = p.job[i]
    BY <1>12, <1>13
  <1>4. Typed(t)
    <2>0. \A i \in DOMAIN p.job : p.job[i] \in Job
      BY <1>1, Zenon DEF Typed
    <2>1. \A i \in DOMAIN t.job : t.job[i] \in Job
      BY <1>3, <1>13, <2>0
    <2> QED
      BY <1>1, <1>2, <1>3, <1>12, <2>1, Zenon DEF Typed
  <1>5. \A i \in DOMAIN p.job :
          /\ t.job[i].state = p.job[i].state /\ t.job[i].task = p.job[i].task
          /\ t.job[i].team = p.job[i].team /\ t.job[i].attempt = p.job[i].attempt
    BY <1>3, <1>13, Zenon
  <1>6. Update(p, t)
    <2>1. \A k \in DOMAIN p.work : p.work[k].state \in TeamTaskActive =>
            p.work[k].state = BoardState(t.job[p.work[k].run].state)
      BY <1>1, <1>5, TypedJob, StatesMatch DEF Board, TaskSound
    <2> QED
      BY <1>2, <1>3, <1>5, <2>1, ZenonT(30) DEF Update
  <1>7. Core(t)
    BY <1>1, <1>4, <1>6, UpdateSound, Zenon
  <1>8. Busy(t) = Busy(p)
    BY <1>3, <1>5, Zenon DEF Busy
  <1>9. Slots(t)
    BY <1>1, <1>2, <1>8, Zenon DEF Slots
  <1>10. Acked(t)
    <2>1. ASSUME NEW i \in DOMAIN t.job
          PROVE  /\ t.job[i].claimed => t.job[i].state \in TaskTerminal
                 /\ t.job[i].task # None /\ (t.job[i].team # t.team \/ t.stopped) => t.job[i].acknowledged
      <3>1. CASE i = j
        BY <1>1, <1>2, <1>3, <1>13, <3>1 DEF Acked
      <3>2. CASE i # j
        BY <1>1, <1>2, <1>3, <2>1, <3>2, Zenon DEF Acked
      <3> QED
        BY <3>1, <3>2, Zenon
    <2> QED
      BY <2>1, Zenon DEF Acked
  <1> QED
    BY <1>2, <1>3, <1>7, <1>8, <1>9, <1>10, Zenon DEF SvcInv

-----------------------------------------------------------------------------
\* The actions.

LEMMA ServiceSound ==
  ASSUME JobsInv
  PROVE  /\ SvcInv(svc) /\ Typed(svc) /\ Board(svc) /\ svc = [x \in Fields |-> svc[x]]
         /\ shutdown \in {"no", "check", "wait", "done"}
  BY Zenon DEF JobsInv, SvcInv, Core, Typed

LEMMA InvTyped ==
  ASSUME NEW s, SvcInv(s)
  PROVE  Typed(s) /\ Board(s) /\ s = [x \in Fields |-> s[x]]
  BY Zenon DEF SvcInv, Core, Typed

\* A silent change, and the pump after it.
LEMMA PumpSilent ==
  ASSUME NEW s, SvcInv(s), NEW a, SvcInv(a), Silent(s, a), NEW t, t = Pump(a)
  PROVE  SvcInv(t) /\ Kept(s, t) /\ Lasting(s, t)
  <1>1. SvcInv(t) /\ Silent(a, t)
    BY PumpSound, Zenon
  <1>2. Silent(s, t)
    BY <1>1, InvTyped, SilentOn, Zenon
  <1> QED
    BY <1>1, <1>2, SilentLasts, Zenon DEF Silent

LEMMA PruneJobs ==
  ASSUME JobsInv, NEW p, p = Prune(svc)
  PROVE  /\ SvcInv(p) /\ Silent(svc, p) /\ p.next = svc.next /\ p.work = svc.work
         /\ DOMAIN p.job \subseteq DOMAIN svc.job
         /\ \A i \in DOMAIN p.job : p.job[i] = svc.job[i]
         /\ \A i \in DOMAIN svc.job : svc.job[i].claimed => i \in DOMAIN p.job
  <1>1. SvcInv(p) /\ Silent(svc, p)
    BY ServiceSound, PruneSound, Zenon
  <1>2. svc = [x \in Fields |-> svc[x]]
    BY ServiceSound, Zenon
  <1>3. /\ \A x \in Fields \ {"job"} : p[x] = svc[x]
        /\ p.job = [j \in {i \in DOMAIN svc.job : ~Prunable(svc.job[i])} |-> svc.job[j]]
    BY <1>2, PruneFacts, Zenon
  <1>4. p.next = svc.next /\ p.work = svc.work
    BY <1>3, Zenon DEF Fields
  <1> QED
    BY <1>1, <1>3, <1>4, Zenon DEF Prunable

LEMMA PruneOnlyStep ==
  ASSUME JobsInv, PruneOnly
  PROVE  JobsInv' /\ Lasting(svc, svc')
  <1>1. svc' = Prune(svc) /\ ended' = ended /\ delivered' = delivered /\ shutdown' = shutdown
    BY Zenon DEF PruneOnly, Keep
  <1>2. SvcInv(svc') /\ Silent(svc, svc')
    BY <1>1, ServiceSound, PruneSound, Zenon
  <1> QED
    BY <1>1, <1>2, ServiceSound, KeptStep, SilentLasts, Zenon DEF Silent

LEMMA StartStep ==
  ASSUME JobsInv, NEW turn \in Turns, Start(turn)
  PROVE  JobsInv' /\ Lasting(svc, svc')
  <1> DEFINE p == Prune(svc)
  <1>1. /\ HasCapacity(p, FALSE) /\ svc' = Enqueue(p, NewJob(None, 0, 0, turn))
        /\ ended' = ended /\ delivered' = delivered /\ shutdown' = shutdown
    BY Zenon DEF Start
  <1>2. SvcInv(p) /\ Silent(svc, p)
    BY ServiceSound, PruneSound, Zenon
  <1> HIDE DEF p
  <1>3. SvcInv(svc') /\ Silent(p, svc')
    BY <1>1, <1>2, EnqueueSound, Zenon
  <1>4. Silent(svc, svc')
    BY <1>2, <1>3, ServiceSound, InvTyped, SilentOn, Zenon
  <1> QED
    BY <1>1, <1>3, <1>4, ServiceSound, KeptStep, SilentLasts, Zenon DEF Silent

LEMMA CancelStep ==
  ASSUME JobsInv, NEW j, Cancel(j)
  PROVE  JobsInv' /\ Lasting(svc, svc')
  <1> DEFINE p == Prune(svc)
             J == {j}
  <1>1. /\ J \subseteq DOMAIN p.job /\ svc' = CancelJobs(p, J, "owner")
        /\ ended' = ended /\ delivered' = delivered /\ shutdown' = shutdown
    BY Zenon DEF Cancel, Keep
  <1>2. SvcInv(p) /\ Silent(svc, p)
    BY ServiceSound, PruneSound, Zenon
  <1> HIDE DEF p, J
  <1>3. SvcInv(svc') /\ Kept(p, svc')
    BY <1>1, <1>2, CancelSound, ZenonT(30)
  <1>4. DOMAIN svc'.job = DOMAIN p.job
    BY <1>1, <1>2, InvTyped, CancelFacts DEF Update
  <1>5. Kept(svc, svc') /\ Lasting(svc, svc')
    BY <1>2, <1>3, <1>4, ServiceSound, InvTyped, PrunedLasts, Zenon
  <1> QED
    BY <1>1, <1>3, <1>5, ServiceSound, KeptStep, Zenon

\* Tasks that are not in flight are settled.
LEMMA SettleSound ==
  ASSUME NEW s, SvcInv(s), NEW t, Settles(s, t), t.stopped = s.stopped
  PROVE  SvcInv(t) /\ Silent(s, t)
  <1>1. Typed(t) /\ Update(s, t) /\ Silent(s, t) /\ Busy(t) = Busy(s)
    BY InvTyped, WorkUpdates, Zenon
  <1>2. t.active = s.active
    BY Zenon DEF Settles, Fields
  <1>3. Slots(t)
    BY <1>1, <1>2, Zenon DEF Slots, SvcInv
  <1> QED
    BY <1>1, <1>3, UpdateKeeps, Zenon DEF Silent

LEMMA CancelTurnStep ==
  ASSUME JobsInv, NEW turn \in Turns, CancelTurn(turn)
  PROVE  JobsInv' /\ Lasting(svc, svc')
  <1> DEFINE work == [k \in DOMAIN svc.work |->
                        IF svc.work[k].turn = turn /\ svc.work[k].state = "waiting"
                        THEN [svc.work[k] EXCEPT !.state = "cancelled"] ELSE svc.work[k]]
             w == [svc EXCEPT !.work = work]
             J == {j \in DOMAIN svc.job : svc.job[j].turn = turn}
  <1>1. /\ svc' = CancelJobs(w, J, "owner")
        /\ ended' = ended /\ delivered' = delivered /\ shutdown' = shutdown
    BY Zenon DEF CancelTurn, Keep
  <1>2. /\ w = [x \in Fields |-> w[x]] /\ \A x \in Fields \ {"work"} : w[x] = svc[x]
        /\ w.work = work
    <2> HIDE DEF work
    <2> QED
      BY ServiceSound, Zenon DEF Fields
  <1> HIDE DEF w
  <1>3. w.stopped = svc.stopped /\ w.job = svc.job /\ svc.stopped \in BOOLEAN
    BY <1>2, ServiceSound, Zenon DEF Fields, Typed
  <1>4. ASSUME NEW k \in DOMAIN svc.work
        PROVE  \/ w.work[k] = svc.work[k]
               \/ \E x \in {"accepted", "cancelled"} :
                    /\ w.work[k] = [svc.work[k] EXCEPT !.state = x]
                    /\ svc.work[k].state \notin TeamTaskActive \cup {"accepted"}
                    /\ x = "accepted" => svc.work[k].state = "in_review"
    BY <1>2, <1>4, Zenon DEF TeamTaskActive
  <1>5. w.work = [k \in DOMAIN svc.work |-> w.work[k]]
    BY <1>2, ZenonT(30), SMTT(30)
  <1>6. Settles(svc, w)
    BY <1>2, <1>3, <1>4, <1>5, ZenonT(30), SMTT(30) DEF Settles
  <1>7. SvcInv(w) /\ Silent(svc, w) /\ J \subseteq DOMAIN w.job
    BY <1>3, <1>6, ServiceSound, SettleSound, Zenon
  <1> HIDE DEF J
  <1>8. SvcInv(svc') /\ Kept(w, svc')
    BY <1>1, <1>7, CancelSound, Zenon
  <1>9. DOMAIN svc'.job = DOMAIN w.job
    BY <1>1, <1>7, InvTyped, CancelFacts DEF Update
  <1>10. Kept(svc, svc') /\ Lasting(svc, svc')
    BY <1>7, <1>8, <1>9, ServiceSound, InvTyped, PrunedLasts, Zenon
  <1> QED
    BY <1>1, <1>8, <1>10, ServiceSound, KeptStep, Zenon

\* Every job is cancelled, after the team was stopped.
LEMMA CancelAll ==
  ASSUME NEW s, SvcInv(s), NEW c, c = IF s.team = 0 THEN s ELSE StopTeam(s),
         NEW t, t = CancelJobs(c, DOMAIN s.job, "owner")
  PROVE  SvcInv(t) /\ Kept(s, t) /\ DOMAIN t.job = DOMAIN s.job
  <1>1. SvcInv(c) /\ Kept(s, c) /\ DOMAIN c.job = DOMAIN s.job
    <2>1. CASE s.team = 0
      BY <2>1, InvTyped, AdmittedSelf, Zenon DEF Silent
    <2>2. CASE s.team # 0
      BY <2>2, StopSound, Zenon
    <2> QED
      BY <2>1, <2>2, Zenon
  <1>2. SvcInv(t) /\ Kept(c, t)
    BY <1>1, CancelSound, Zenon
  <1>3. DOMAIN t.job = DOMAIN c.job
    BY <1>1, InvTyped, CancelFacts DEF Update
  <1>4. Kept(s, t)
    BY <1>1, <1>2, InvTyped, KeptOn
  <1> QED
    BY <1>1, <1>2, <1>3, <1>4, Zenon

LEMMA SameLasts ==
  ASSUME NEW s, NEW t, Kept(s, t), DOMAIN t.job = DOMAIN s.job
  PROVE  Lasting(s, t)
  BY Zenon DEF Kept, Lasting

LEMMA CancelOwnerStep ==
  ASSUME JobsInv, CancelOwner
  PROVE  JobsInv' /\ Lasting(svc, svc')
  <1> DEFINE c == IF svc.team = 0 THEN svc ELSE StopTeam(svc)
  <1>1. /\ svc' = CancelJobs(c, DOMAIN svc.job, "owner")
        /\ ended' = ended /\ delivered' = delivered /\ shutdown' = shutdown
    BY Zenon DEF CancelOwner, Keep
  <1>2. c = IF svc.team = 0 THEN svc ELSE StopTeam(svc)
    BY Zenon
  <1> HIDE DEF c
  <1>3. SvcInv(svc') /\ Kept(svc, svc') /\ DOMAIN svc'.job = DOMAIN svc.job
    BY <1>1, <1>2, ServiceSound, CancelAll, Zenon
  <1> QED
    BY <1>1, <1>3, ServiceSound, KeptStep, SameLasts, Zenon

LEMMA ShutdownStep ==
  ASSUME JobsInv, Shutdown
  PROVE  JobsInv' /\ Lasting(svc, svc')
  <1> DEFINE s == [svc EXCEPT !.closed = TRUE]
             c == IF s.team = 0 THEN s ELSE StopTeam(s)
  <1>1. /\ svc' = CancelJobs(c, DOMAIN s.job, "owner")
        /\ ended' = ended /\ delivered' = delivered /\ shutdown' = "check"
    BY Zenon DEF Shutdown
  <1>2. /\ s = [x \in Fields |-> s[x]] /\ \A x \in Fields \ {"closed"} : s[x] = svc[x]
        /\ s.closed = TRUE
    BY ServiceSound, Zenon DEF Fields
  <1>3. c = IF s.team = 0 THEN s ELSE StopTeam(s)
    BY Zenon
  <1> HIDE DEF s, c
  <1>4. /\ s.job = svc.job /\ s.next = svc.next /\ s.active = svc.active /\ s.team = svc.team
        /\ s.stopped = svc.stopped /\ s.keys = svc.keys /\ s.work = svc.work
        /\ svc.members \subseteq s.members /\ s.members \subseteq Members
        /\ s.pump \in BOOLEAN /\ s.changed \in BOOLEAN /\ s.closed \in BOOLEAN
    BY <1>2, ServiceSound, Zenon DEF Fields, Typed
  <1>5. SvcInv(s) /\ Silent(svc, s)
    BY <1>2, <1>4, ServiceSound, FlagsSound, Zenon
  <1>6. SvcInv(svc') /\ Kept(s, svc') /\ DOMAIN svc'.job = DOMAIN s.job
    BY <1>1, <1>3, <1>5, CancelAll, Zenon
  <1>7. Kept(svc, svc') /\ Lasting(svc, svc')
    BY <1>5, <1>6, ServiceSound, InvTyped, PrunedLasts, Zenon
  <1> QED
    BY <1>1, <1>6, <1>7, KeptStep, Zenon

\* A change of one flag of the service.
LEMMA OneFlag ==
  ASSUME NEW s, SvcInv(s), NEW f \in {"pump", "changed", "closed"}, NEW v \in BOOLEAN,
         NEW t, t = [s EXCEPT ![f] = v]
  PROVE  SvcInv(t) /\ Silent(s, t)
  <1>1. Typed(s) /\ s = [x \in Fields |-> s[x]] /\ f \in Fields
    BY InvTyped, Zenon DEF Fields
  <1>2. t = [x \in Fields |-> t[x]] /\ t[f] = v /\ \A x \in Fields \ {f} : t[x] = s[x]
    BY <1>1, FieldSet, Zenon
  <1>3. /\ t.job = s.job /\ t.next = s.next /\ t.active = s.active /\ t.team = s.team
        /\ t.stopped = s.stopped /\ t.keys = s.keys /\ t.work = s.work /\ t.members = s.members
    BY <1>2, Zenon DEF Fields
  <1>4. s.members \subseteq Members /\ s.pump \in BOOLEAN /\ s.changed \in BOOLEAN /\ s.closed \in BOOLEAN
    BY <1>1, Zenon DEF Typed
  <1>5. /\ t.pump = s.pump \/ t.pump = v
        /\ t.changed = s.changed \/ t.changed = v
        /\ t.closed = s.closed \/ t.closed = v
    BY <1>2, Zenon DEF Fields
  <1>6. t.pump \in BOOLEAN /\ t.changed \in BOOLEAN /\ t.closed \in BOOLEAN
    BY <1>4, <1>5, Zenon
  <1> QED
    BY <1>2, <1>3, <1>4, <1>6, FlagsSound, Zenon

LEMMA PostedPumpStep ==
  ASSUME JobsInv, PostedPump
  PROVE  JobsInv' /\ Lasting(svc, svc')
  <1> DEFINE a == [svc EXCEPT !["pump"] = FALSE]
  <1>1. svc' = Pump(a) /\ ended' = ended /\ delivered' = delivered /\ shutdown' = shutdown
    BY Zenon DEF PostedPump, Keep
  <1>2. SvcInv(a) /\ Silent(svc, a)
    BY ServiceSound, OneFlag, Zenon
  <1> HIDE DEF a
  <1>3. SvcInv(svc') /\ Kept(svc, svc') /\ Lasting(svc, svc')
    BY <1>1, <1>2, ServiceSound, PumpSilent, Zenon
  <1> QED
    BY <1>1, <1>3, ServiceSound, KeptStep, Zenon

LEMMA DeadlineStep ==
  ASSUME JobsInv, NEW j, Deadline(j)
  PROVE  JobsInv' /\ Lasting(svc, svc')
  <1> DEFINE J == {j}
             a == CancelJobs(svc, J, "deadline")
  <1>1. svc' = Pump(a) /\ ended' = ended /\ delivered' = delivered /\ shutdown' = shutdown
        /\ J \subseteq DOMAIN svc.job
    BY Zenon DEF Deadline, Keep, Unfinished
  <1>2. a = CancelJobs(svc, J, "deadline")
    BY Zenon
  <1> HIDE DEF J, a
  <1>3. SvcInv(a) /\ Silent(svc, a)
    BY <1>1, <1>2, ServiceSound, CancelSound, DeadlineSilent, Zenon
  <1>4. SvcInv(svc') /\ Kept(svc, svc') /\ Lasting(svc, svc')
    BY <1>1, <1>3, ServiceSound, PumpSilent, Zenon
  <1> QED
    BY <1>1, <1>4, ServiceSound, KeptStep, Zenon

LEMMA ShutdownCheckStep ==
  ASSUME JobsInv, ShutdownCheck
  PROVE  JobsInv' /\ Lasting(svc, svc')
  <1> DEFINE a == [svc EXCEPT !["changed"] = FALSE]
  <1>1. /\ svc' = svc \/ svc' = a
        /\ ended' = ended /\ delivered' = delivered
        /\ shutdown' \in {"no", "check", "wait", "done"}
    BY Zenon DEF ShutdownCheck
  <1>2. SvcInv(a) /\ Silent(svc, a) /\ Silent(svc, svc)
    BY ServiceSound, OneFlag, AdmittedSelf, Zenon
  <1> HIDE DEF a
  <1>3. SvcInv(svc') /\ Silent(svc, svc')
    BY <1>1, <1>2, ServiceSound, Zenon
  <1> QED
    BY <1>1, <1>3, KeptStep, SilentLasts, Zenon DEF Silent

LEMMA ShutdownWakesStep ==
  ASSUME JobsInv, ShutdownWakes
  PROVE  JobsInv' /\ Lasting(svc, svc')
  <1> DEFINE a == [svc EXCEPT !["changed"] = FALSE]
  <1>1. svc' = a /\ ended' = ended /\ delivered' = delivered /\ shutdown' = "check"
    BY Zenon DEF ShutdownWakes
  <1>2. SvcInv(a) /\ Silent(svc, a)
    BY ServiceSound, OneFlag, Zenon
  <1> HIDE DEF a
  <1> QED
    BY <1>1, <1>2, KeptStep, SilentLasts, Zenon DEF Silent

LEMMA AddTeamMemberStep ==
  ASSUME JobsInv, NEW m \in Members, AddTeamMember(m)
  PROVE  JobsInv' /\ Lasting(svc, svc')
  <1> DEFINE a == [svc EXCEPT !.members = @ \cup {m}]
  <1>1. svc' = Pump(a) /\ ended' = ended /\ delivered' = delivered /\ shutdown' = shutdown
    BY Zenon DEF AddTeamMember, Keep
  <1>2. /\ a = [x \in Fields |-> a[x]] /\ \A x \in Fields \ {"members"} : a[x] = svc[x]
        /\ a.members = svc.members \cup {m}
    BY ServiceSound, Zenon DEF Fields
  <1> HIDE DEF a
  <1>3. /\ a.job = svc.job /\ a.next = svc.next /\ a.active = svc.active /\ a.team = svc.team
        /\ a.stopped = svc.stopped /\ a.keys = svc.keys /\ a.work = svc.work
        /\ svc.members \subseteq a.members /\ a.members \subseteq Members
        /\ a.pump \in BOOLEAN /\ a.changed \in BOOLEAN /\ a.closed \in BOOLEAN
    BY <1>2, ServiceSound, Zenon DEF Fields, Typed
  <1>4. SvcInv(a) /\ Silent(svc, a)
    BY <1>2, <1>3, ServiceSound, FlagsSound, Zenon
  <1>5. SvcInv(svc') /\ Kept(svc, svc') /\ Lasting(svc, svc')
    BY <1>1, <1>4, ServiceSound, PumpSilent, Zenon
  <1> QED
    BY <1>1, <1>5, ServiceSound, KeptStep, Zenon

LEMMA TeamStopStep ==
  ASSUME JobsInv, TeamStop
  PROVE  JobsInv' /\ Lasting(svc, svc')
  <1> DEFINE a == StopTeam(svc)
  <1>1. svc' = Pump(a) /\ ended' = ended /\ delivered' = delivered /\ shutdown' = shutdown
    BY Zenon DEF TeamStop, Keep
  <1>2. SvcInv(a) /\ Kept(svc, a) /\ DOMAIN a.job = DOMAIN svc.job /\ a.stopped
    BY ServiceSound, StopSound, Zenon
  <1> HIDE DEF a
  <1>3. SvcInv(svc') /\ Silent(a, svc') /\ DOMAIN svc'.job = DOMAIN a.job
    BY <1>1, <1>2, PumpSound, Zenon
  <1>4. Kept(svc, svc')
    BY <1>2, <1>3, ServiceSound, InvTyped, KeptOn, Zenon DEF Silent
  <1> QED
    BY <1>1, <1>2, <1>3, <1>4, ServiceSound, KeptStep, SameLasts, Zenon

\* The state of one task.
SetState(s, k, y) == [s EXCEPT !.work[k].state = y]

LEMMA SettleOne ==
  ASSUME NEW s, SvcInv(s), NEW k \in DOMAIN s.work, s.work[k].state \notin TeamTaskActive \cup {"accepted"},
         NEW y \in {"accepted", "cancelled"}, y = "accepted" => s.work[k].state = "in_review",
         NEW t, t = SetState(s, k, y)
  PROVE  SvcInv(t) /\ Silent(s, t) /\ DOMAIN t.work = DOMAIN s.work /\ t.work[k].state = y
  <1>1. Typed(s) /\ s = [x \in Fields |-> s[x]] /\ s.work = [l \in DOMAIN s.work |-> s.work[l]]
        /\ s.work[k] \in Work /\ s.stopped \in BOOLEAN
    BY InvTyped, Zenon DEF Typed
  <1> DEFINE v == [s.work[k] EXCEPT !.state = y]
             w == [s.work EXCEPT ![k] = v]
  <1>2. t = [s EXCEPT !.work = w]
    BY Zenon DEF SetState
  <1>3. w = [l \in DOMAIN s.work |-> IF l = k THEN v ELSE s.work[l]]
    BY <1>1, Zenon
  <1>4. v.state = y
    BY <1>1, Zenon DEF Work
  <1> HIDE DEF w, v
  <1>5. t = [x \in Fields |-> t[x]] /\ t.work = w /\ \A x \in Fields \ {"work"} : t[x] = s[x]
    BY <1>1, <1>2, Zenon DEF Fields
  <1>6. t.stopped = s.stopped
    BY <1>5, Zenon DEF Fields
  <1>7. Settles(s, t)
    <2>1. t.work = [l \in DOMAIN s.work |-> t.work[l]]
      BY <1>3, <1>5, Zenon
    <2>2. ASSUME NEW l \in DOMAIN s.work, l # k PROVE t.work[l] = s.work[l]
      BY <1>3, <1>5, <2>2, Zenon
    <2>3. t.work[k] = [s.work[k] EXCEPT !.state = y]
      BY <1>3, <1>5, Zenon DEF v
    <2>4. \A x \in Fields \ {"work", "stopped"} : t[x] = s[x]
      BY <1>5, Zenon
    <2>5. t.stopped \in BOOLEAN
      BY <1>1, <1>6, Zenon
    <2>6. ASSUME NEW l \in DOMAIN s.work
          PROVE  \/ t.work[l] = s.work[l]
                 \/ \E x \in {"accepted", "cancelled"} :
                      /\ t.work[l] = [s.work[l] EXCEPT !.state = x]
                      /\ s.work[l].state \notin TeamTaskActive \cup {"accepted"}
                      /\ x = "accepted" => s.work[l].state = "in_review"
      <3>1. CASE l = k
        BY <2>3, <3>1, Zenon
      <3>2. CASE l # k
        BY <2>2, <3>2, Zenon
      <3> QED
        BY <3>1, <3>2, Zenon
    <2> QED
      BY <1>5, <2>1, <2>4, <2>5, <2>6, Zenon DEF Settles
  <1> QED
    BY <1>3, <1>4, <1>5, <1>6, <1>7, SettleSound, Zenon

LEMMA AcceptTaskStep ==
  ASSUME JobsInv, NEW k \in DOMAIN svc.work, AcceptTask(k)
  PROVE  JobsInv' /\ Lasting(svc, svc')
  <1> DEFINE a == SetState(svc, k, "accepted")
  <1>1. /\ svc' = Pump(a) /\ ended' = ended /\ delivered' = delivered /\ shutdown' = shutdown
        /\ svc.work[k].state = "in_review"
    BY Zenon DEF AcceptTask, Keep, SetState
  <1>2. SvcInv(a) /\ Silent(svc, a)
    BY <1>1, ServiceSound, SettleOne, Zenon DEF TeamTaskActive
  <1> HIDE DEF a
  <1>3. SvcInv(svc') /\ Kept(svc, svc') /\ Lasting(svc, svc')
    BY <1>1, <1>2, ServiceSound, PumpSilent, Zenon
  <1> QED
    BY <1>1, <1>3, ServiceSound, KeptStep, Zenon

LEMMA ChildEndsStep ==
  ASSUME JobsInv, NEW j, NEW how \in TaskTerminal, ChildEnds(j, how)
  PROVE  JobsInv' /\ Lasting(svc, svc')
  <1>1. /\ svc' = svc /\ delivered' = delivered /\ shutdown' = shutdown
        /\ ended' = [i \in DOMAIN ended \cup {j} |-> IF i = j THEN how ELSE ended[i]]
        /\ j \in Busy(svc)
    BY Zenon DEF ChildEnds, Unfinished, Busy
  <1>2. EndedSound'
    <2>1. DOMAIN ended' \subseteq Busy(svc')
      BY <1>1, Zenon DEF JobsInv, EndedSound
    <2>2. ASSUME NEW i \in DOMAIN ended' PROVE ended'[i] \in TaskTerminal
      BY <1>1, <2>2, Zenon DEF JobsInv, EndedSound, Range
    <2> QED
      BY <2>1, <2>2, Zenon DEF EndedSound, Range
  <1>3. SvcInv(svc') /\ DeliveredSound'
    BY <1>1, Zenon DEF JobsInv, DeliveredSound
  <1>4. Lasting(svc, svc')
    BY <1>1, ServiceSound, AdmittedSelf, SilentLasts, Zenon
  <1> QED
    BY <1>1, <1>2, <1>3, <1>4, Zenon DEF JobsInv

LEMMA AgeStep ==
  ASSUME JobsInv, NEW j, Age(j)
  PROVE  JobsInv' /\ Lasting(svc, svc')
  <1> DEFINE b == [svc.job[j] EXCEPT !.aged = TRUE]
  <1>1. /\ j \in DOMAIN svc.job /\ svc.job[j].state \in TaskTerminal
        /\ svc' = [svc EXCEPT !.job[j].aged = TRUE]
        /\ ended' = ended /\ delivered' = delivered /\ shutdown' = shutdown
    BY Zenon DEF Age
  <1>2. svc' = [svc EXCEPT !.job = [svc.job EXCEPT ![j] = b]]
    BY <1>1, Zenon
  <1>3. svc.job[j] \in Job /\ svc.job = [i \in DOMAIN svc.job |-> svc.job[i]]
    BY <1>1, ServiceSound, Zenon DEF Typed
  <1>4. /\ b \in Job /\ b.state = svc.job[j].state /\ b.task = svc.job[j].task /\ b.team = svc.job[j].team
        /\ b.attempt = svc.job[j].attempt /\ b.acknowledged = svc.job[j].acknowledged
        /\ b.claimed = svc.job[j].claimed
    BY <1>3, Zenon DEF Job
  <1>5. svc' = Put(svc, j, b) /\ Flagged(svc, j, b)
    BY <1>1, <1>2, <1>4, Zenon DEF Put, Flagged
  <1> HIDE DEF b
  <1>7. /\ SvcInv(svc') /\ Busy(svc') = Busy(svc) /\ DOMAIN svc'.job = DOMAIN svc.job /\ svc'.next = svc.next
        /\ \A i \in DOMAIN svc.job : svc'.job[i] = IF i = j THEN b ELSE svc.job[i]
    BY <1>5, ServiceSound, FlagJob
  <1>8. Silent(svc, svc')
    <2>1. svc.next <= svc'.next
      BY <1>7, ServiceSound DEF Typed, Runs
    <2>2. ASSUME NEW i \in DOMAIN svc.job
          PROVE  /\ svc'.job[i].task = svc.job[i].task /\ svc'.job[i].team = svc.job[i].team
                 /\ svc'.job[i].claimed = svc.job[i].claimed /\ svc'.job[i].state = svc.job[i].state
                 /\ svc'.job[i].acknowledged = svc.job[i].acknowledged
      BY <1>4, <1>7, Zenon
    <2> QED
      BY <1>7, <2>1, <2>2, Zenon DEF Silent, Kept
  <1> QED
    BY <1>1, <1>7, <1>8, ServiceSound, KeptStep, SilentLasts, Zenon DEF Silent

\* Records are pruned and the flags of a finished job change.
LEMMA FlagStep ==
  ASSUME JobsInv, NEW p, p = Prune(svc), NEW j, NEW b, Flagged(p, j, b), svc' = Put(p, j, b), ended' = ended
  PROVE  /\ SvcInv(svc') /\ EndedSound' /\ Lasting(svc, svc')
         /\ svc'.next = svc.next /\ DOMAIN svc'.job \subseteq DOMAIN svc.job /\ svc'.job[j] = b
         /\ \A i \in DOMAIN svc'.job : i # j => /\ svc'.job[i].acknowledged = svc.job[i].acknowledged
                                               /\ svc'.job[i].claimed = svc.job[i].claimed
  <1>1. SvcInv(p) /\ Silent(svc, p)
    BY PruneJobs, Zenon
  <1>2. /\ p.next = svc.next /\ DOMAIN p.job \subseteq DOMAIN svc.job
        /\ \A i \in DOMAIN p.job : p.job[i] = svc.job[i]
    BY PruneJobs, Zenon
  <1>3. j \in DOMAIN p.job /\ b.state = p.job[j].state
    BY Zenon DEF Flagged
  <1>5. /\ SvcInv(svc') /\ Busy(svc') = Busy(p) /\ DOMAIN svc'.job = DOMAIN p.job /\ svc'.next = p.next
        /\ \A i \in DOMAIN p.job : svc'.job[i] = IF i = j THEN b ELSE p.job[i]
    BY <1>1, FlagJob
  <1>6. EndedSound'
    BY <1>1, <1>5, Zenon DEF JobsInv, EndedSound, Silent, Kept
  <1>7. Lasting(svc, svc')
    <2>1. ASSUME NEW i \in DOMAIN svc.job, i \notin DOMAIN svc'.job
          PROVE  ~svc.job[i].claimed /\ ~Unread(svc.job[i])
      BY <1>1, <1>5, <2>1, Zenon DEF Silent, Kept
    <2>2. ASSUME NEW i \in DOMAIN svc'.job PROVE svc'.job[i].state = svc.job[i].state
      BY <1>2, <1>3, <1>5, <2>2, Zenon
    <2> QED
      BY <2>1, <2>2, Zenon DEF Lasting
  <1> QED
    BY <1>2, <1>3, <1>5, <1>6, <1>7, ZenonT(30)

LEMMA ClaimCompletionStep ==
  ASSUME JobsInv, NEW j, ClaimCompletion(j)
  PROVE  JobsInv' /\ Lasting(svc, svc')
  <1> DEFINE p == Prune(svc)
             b == [p.job[j] EXCEPT !.claimed = TRUE]
  <1>1. /\ j \in DOMAIN p.job /\ p.job[j].state \in TaskTerminal /\ ~p.job[j].acknowledged
        /\ svc' = [p EXCEPT !.job = [p.job EXCEPT ![j] = b]]
        /\ ended' = ended /\ delivered' = delivered /\ shutdown' = shutdown
    BY Zenon DEF ClaimCompletion
  <1>2. SvcInv(p) /\ j \in DOMAIN svc.job /\ p.job[j] = svc.job[j] /\ p = Prune(svc)
    BY <1>1, PruneJobs, Zenon
  <1> HIDE DEF p
  <1>3. p.job[j] \in Job
    BY <1>1, <1>2, InvTyped, Zenon DEF Typed
  <1>4. /\ b \in Job /\ b.state = p.job[j].state /\ b.task = p.job[j].task /\ b.team = p.job[j].team
        /\ b.attempt = p.job[j].attempt /\ b.acknowledged = p.job[j].acknowledged
    BY <1>3, Zenon DEF Job
  <1> HIDE DEF b
  <1>5. /\ SvcInv(svc') /\ EndedSound' /\ Lasting(svc, svc')
        /\ svc'.next = svc.next /\ DOMAIN svc'.job \subseteq DOMAIN svc.job
        /\ \A i \in DOMAIN svc'.job : i # j => /\ svc'.job[i].acknowledged = svc.job[i].acknowledged
                                              /\ svc'.job[i].claimed = svc.job[i].claimed
    <2>1. Flagged(p, j, b) /\ svc' = Put(p, j, b)
      BY <1>1, <1>4, Zenon DEF Flagged, Put
    <2> QED
      BY <1>1, <1>2, <2>1, FlagStep
  <1>6. j \notin Range(delivered)
    BY <1>1, <1>2, Zenon DEF JobsInv, DeliveredSound
  <1>7. DeliveredSound'
    BY <1>1, <1>5, <1>6, Zenon DEF JobsInv, DeliveredSound
  <1> QED
    BY <1>1, <1>5, <1>7, Zenon DEF JobsInv

LEMMA AppendNew ==
  ASSUME NEW S, NEW q \in Seq(S), IsInjective(q), NEW j \in S, j \notin Range(q)
  PROVE  /\ Append(q, j) \in Seq(S) /\ IsInjective(Append(q, j))
         /\ Range(Append(q, j)) = Range(q) \cup {j}
  <1> DEFINE r == Append(q, j)
  <1>1. /\ r \in Seq(S) /\ DOMAIN q = 1 .. Len(q) /\ DOMAIN r = 1 .. Len(q) + 1 /\ Len(q) \in Nat
        /\ r[Len(q) + 1] = j /\ \A i \in 1 .. Len(q) : r[i] = q[i]
    OBVIOUS
  <1> HIDE DEF r
  <1>2. \A i \in 1 .. Len(q) : q[i] # j
    BY <1>1, Zenon DEF Range
  <1>3. \A i \in 1 .. Len(q) + 1 : i \in 1 .. Len(q) \/ i = Len(q) + 1
    BY <1>1
  <1>4. \A x, y \in 1 .. Len(q) : q[x] = q[y] => x = y
    BY <1>1, Zenon DEF IsInjective
  <1>5. IsInjective(r)
    BY <1>1, <1>2, <1>3, <1>4, Zenon DEF IsInjective
  <1>6. Range(r) = Range(q) \cup {j}
    BY <1>1, <1>3 DEF Range
  <1> QED
    BY <1>1, <1>5, <1>6, Zenon DEF r

LEMMA FinishCompletionStep ==
  ASSUME JobsInv, NEW j, NEW committed \in BOOLEAN, FinishCompletion(j, committed)
  PROVE  JobsInv' /\ Lasting(svc, svc')
  <1> DEFINE p == Prune(svc)
             a == p.job[j].acknowledged \/ committed
             b == [p.job[j] EXCEPT !.claimed = FALSE, !.acknowledged = a]
  <1>1. /\ j \in DOMAIN svc.job /\ svc.job[j].claimed
        /\ svc' = [p EXCEPT !.job[j].claimed = FALSE, !.job[j].acknowledged = @ \/ committed]
        /\ delivered' = IF committed THEN Append(delivered, j) ELSE delivered
        /\ ended' = ended /\ shutdown' = shutdown
    BY Zenon DEF FinishCompletion
  <1>2. SvcInv(p) /\ Silent(svc, p) /\ p = Prune(svc) /\ p = [x \in Fields |-> p[x]]
    BY ServiceSound, PruneSound, InvTyped, Zenon
  <1>3. j \in DOMAIN p.job /\ p.job[j] = svc.job[j]
    BY <1>1, PruneJobs, Zenon
  <1>4. svc.job[j].state \in TaskTerminal
    BY <1>1, Zenon DEF JobsInv, SvcInv, Acked
  <1> HIDE DEF p
  <1>5. p.job[j] \in Job /\ p.job = [i \in DOMAIN p.job |-> p.job[i]]
    BY <1>2, <1>3, InvTyped, Zenon DEF Typed
  <1>6. a \in BOOLEAN /\ (p.job[j].acknowledged => a) /\ (committed => a)
    BY Zenon
  <1>7. svc' = [p EXCEPT !.job = [p.job EXCEPT ![j] = b]]
    <2> DEFINE v == [p.job[j] EXCEPT !.claimed = FALSE]
               f == [p EXCEPT !.job = [p.job EXCEPT ![j] = v]]
    <2>1. svc' = [f EXCEPT !.job[j].acknowledged = @ \/ committed]
      BY <1>1, Zenon
    <2>2. f.job = [p.job EXCEPT ![j] = v]
      BY <1>2, Zenon DEF Fields
    <2>3. f.job[j] = v /\ v.acknowledged = p.job[j].acknowledged
      BY <1>3, <1>5, <2>2, Zenon DEF Job
    <2>4. svc' = [f EXCEPT !.job = [f.job EXCEPT ![j] = [f.job[j] EXCEPT !.acknowledged = f.job[j].acknowledged \/ committed]]]
      BY <2>1, Zenon
    <2>5. [f.job[j] EXCEPT !.acknowledged = f.job[j].acknowledged \/ committed] = b
      BY <2>3, Zenon
    <2>6. [f.job EXCEPT ![j] = b] = [p.job EXCEPT ![j] = b]
      BY <1>5, <2>2, Zenon
    <2>7. svc' = [f EXCEPT !.job = [p.job EXCEPT ![j] = b]]
      BY <2>4, <2>5, <2>6, Zenon
    <2> HIDE DEF b, v
    <2> QED
      BY <1>2, <2>7, Zenon DEF Fields
  <1>8. /\ b \in Job /\ b.state = p.job[j].state /\ b.task = p.job[j].task /\ b.team = p.job[j].team
        /\ b.attempt = p.job[j].attempt /\ b.acknowledged = a /\ b.claimed = FALSE
    <2> HIDE DEF a
    <2> QED
      BY <1>5, <1>6, Zenon DEF Job
  <1> HIDE DEF b, a
  <1>9. /\ SvcInv(svc') /\ EndedSound' /\ Lasting(svc, svc')
        /\ svc'.next = svc.next /\ DOMAIN svc'.job \subseteq DOMAIN svc.job /\ svc'.job[j] = b
        /\ \A i \in DOMAIN svc'.job : i # j => /\ svc'.job[i].acknowledged = svc.job[i].acknowledged
                                              /\ svc'.job[i].claimed = svc.job[i].claimed
    <2>0. p.job[j].state \in TaskTerminal
      BY <1>3, <1>4, Zenon
    <2>1. Flagged(p, j, b) /\ svc' = Put(p, j, b)
      BY <1>3, <1>6, <1>7, <1>8, <2>0, Zenon DEF Flagged, Put
    <2>2. p = Prune(svc) /\ ended' = ended
      BY <1>1, <1>2, Zenon
    <2> QED
      BY <2>1, <2>2, FlagStep
  <1>10. j \notin Range(delivered) /\ j \in Runs /\ j < svc.next
    <2>1. j \notin Range(delivered)
      BY <1>1, Zenon DEF JobsInv, DeliveredSound
    <2>2. j \in 1 .. svc.next - 1 /\ svc.next \in Nat
      BY <1>1, ServiceSound, Zenon DEF Typed, Runs
    <2> QED
      BY <2>1, <2>2 DEF Runs
  <1>11. DeliveredSound'
    <2>1. delivered \in Seq(Runs) /\ IsInjective(delivered)
      BY Zenon DEF JobsInv, DeliveredSound
    <2>2. delivered' \in Seq(Runs) /\ IsInjective(delivered')
          /\ \A i \in Range(delivered') : i \in Range(delivered) \/ (i = j /\ committed)
      <3>1. CASE committed
        BY <1>1, <1>10, <2>1, <3>1, AppendNew
      <3>2. CASE ~committed
        BY <1>1, <2>1, <3>2, Zenon
      <3> QED
        BY <3>1, <3>2, Zenon
    <2>3. ASSUME NEW i \in Range(delivered')
          PROVE  /\ i < svc'.next
                 /\ i \in DOMAIN svc'.job => svc'.job[i].acknowledged /\ ~svc'.job[i].claimed
      <3>1. CASE i = j
        BY <1>6, <1>8, <1>9, <1>10, <2>2, <2>3, <3>1, ZenonT(30), SMTT(30)
      <3>2. CASE i # j
        BY <1>9, <2>2, <2>3, <3>2, Zenon DEF JobsInv, DeliveredSound
      <3> QED
        BY <3>1, <3>2, Zenon
    <2> QED
      BY <2>2, <2>3, Zenon DEF DeliveredSound
  <1> QED
    BY <1>1, <1>9, <1>11, Zenon DEF JobsInv

\* A monitor settles its job and frees the slot.
LEMMA MonitorEndsStep ==
  ASSUME JobsInv, NEW j, MonitorEnds(j)
  PROVE  JobsInv' /\ Lasting(svc, svc')
  <1> DEFINE to == [i \in {j} |-> Outcome(svc.job[i], ended[i])]
             m == Move(svc, to)
  <1>1. /\ j \in DOMAIN ended /\ ended' = [i \in DOMAIN ended \ {j} |-> ended[i]]
        /\ svc' = [m EXCEPT !.active = @ - 1, !.changed = TRUE, !.pump = TRUE]
        /\ delivered' = delivered /\ shutdown' = shutdown
    BY Zenon DEF MonitorEnds, Restrict
  <1>2. /\ SvcInv(svc) /\ Typed(svc) /\ Board(svc) /\ Slots(svc) /\ Acked(svc) /\ Core(svc)
        /\ svc.active \in Nat
    BY ServiceSound, Zenon DEF SvcInv, Core, Typed
  <1>3. j \in Busy(svc) /\ j \in DOMAIN svc.job /\ ended[j] \in TaskTerminal
    BY <1>1, Zenon DEF JobsInv, EndedSound, Busy, Range
  <1>4. DOMAIN to = {j} /\ to[j] \in TaskTerminal
    BY <1>3, Zenon DEF Outcome, TaskTerminal
  <1>5. DOMAIN to \subseteq Unfinished(svc) /\ \A i \in DOMAIN to : to[i] \in TaskState
    BY <1>3, <1>4, ZenonT(30), SMTT(30) DEF Unfinished, Busy, TaskTerminal, TaskState
  <1> HIDE DEF to
  <1>6. /\ Typed(m) /\ Update(svc, m) /\ \A x \in Fields \ {"job", "work"} : m[x] = svc[x]
        /\ \A i \in DOMAIN svc.job :
             /\ m.job[i].state = IF i \in DOMAIN to THEN to[i] ELSE svc.job[i].state
             /\ m.job[i].acknowledged = svc.job[i].acknowledged
             /\ m.job[i].claimed = svc.job[i].claimed /\ m.job[i].aged = svc.job[i].aged
             /\ m.job[i].task = svc.job[i].task /\ m.job[i].team = svc.job[i].team
    BY <1>2, <1>5, MoveUpdates, SMTT(30), ZenonT(30)
  <1> HIDE DEF m
  <1>7. /\ svc' = [x \in Fields |-> svc'[x]]
        /\ \A x \in Fields \ {"active", "changed", "pump"} : svc'[x] = m[x]
        /\ svc'.active = m.active - 1 /\ svc'.changed = TRUE /\ svc'.pump = TRUE
    <2>1. m = [x \in Fields |-> m[x]]
      BY <1>6, Zenon DEF Typed
    <2> QED
      BY <1>1, <2>1, Zenon DEF Fields
  <1>8. /\ svc'.job = m.job /\ svc'.next = m.next /\ svc'.team = m.team /\ svc'.stopped = m.stopped
        /\ svc'.members = m.members /\ svc'.keys = m.keys /\ svc'.work = m.work /\ svc'.closed = m.closed
    BY <1>7, Zenon DEF Fields
  <1>9. /\ m.active = svc.active /\ m.next = svc.next /\ m.stopped = svc.stopped /\ m.team = svc.team
        /\ DOMAIN m.job = DOMAIN svc.job
    BY <1>6, Zenon DEF Fields, Update
  <1>10. ASSUME NEW i \in DOMAIN svc.job
         PROVE  /\ svc'.job[i].state = IF i = j THEN to[j] ELSE svc.job[i].state
                /\ svc'.job[i].acknowledged = svc.job[i].acknowledged
                /\ svc'.job[i].claimed = svc.job[i].claimed
                /\ svc'.job[i].task = svc.job[i].task /\ svc'.job[i].team = svc.job[i].team
    BY <1>4, <1>6, <1>8, <1>10
  <1>11. Busy(svc') = Busy(svc) \ {j}
    BY <1>4, <1>8, <1>9, <1>10, Zenon DEF Busy, TaskTerminal
  <1>12. Cardinality(Busy(svc')) = svc.active - 1 /\ svc'.active = svc.active - 1 /\ svc'.active \in Nat
    <2>1. IsFiniteSet(Busy(svc)) /\ Cardinality(Busy(svc)) = svc.active
      BY <1>2, FiniteParts, Zenon DEF Slots
    <2>2. Cardinality(Busy(svc) \ {j}) = Cardinality(Busy(svc)) - 1 /\ IsFiniteSet(Busy(svc) \ {j})
      BY <1>3, <2>1, FS_RemoveElement, Zenon
    <2>3. Cardinality(Busy(svc) \ {j}) \in Nat
      BY <2>2, FS_CardinalityType, Zenon
    <2> QED
      BY <1>7, <1>9, <1>11, <2>1, <2>2, <2>3, ZenonT(30)
  <1>13. Typed(svc')
    <2>1. svc'.changed \in BOOLEAN /\ svc'.pump \in BOOLEAN
      BY <1>7, ZenonT(30)
    <2> QED
      BY <1>6, <1>7, <1>8, <1>12, <2>1, Zenon DEF Typed
  <1>14. Update(svc, svc')
    BY <1>6, <1>8 DEF Update
  <1>15. Core(svc')
    BY <1>2, <1>13, <1>14, UpdateSound, Zenon
  <1>16. Slots(svc')
    BY <1>2, <1>12, LimitsValid, SMTT(30), ZenonT(30) DEF Slots
  <1>17. Acked(svc')
    <2>1. ASSUME NEW i \in DOMAIN svc.job
          PROVE  /\ svc.job[i].claimed => svc.job[i].state \in TaskTerminal
                 /\ svc.job[i].task # None /\ (svc.job[i].team # svc.team \/ svc.stopped) =>
                      svc.job[i].acknowledged
      BY <1>2, <2>1, Zenon DEF Acked
    <2> QED
      BY <1>4, <1>8, <1>9, <1>10, <2>1, SMTT(30), ZenonT(30) DEF Acked
  <1>18. EndedSound'
    BY <1>1, <1>11, Zenon DEF JobsInv, EndedSound, Range
  <1>19. DeliveredSound'
    BY <1>1, <1>8, <1>9, <1>10 DEF JobsInv, DeliveredSound
  <1>20. Lasting(svc, svc')
    BY <1>3, <1>8, <1>9, <1>10, Zenon DEF Lasting, Busy, TaskTerminal
  <1> QED
    BY <1>1, <1>15, <1>16, <1>17, <1>18, <1>19, <1>20, ZenonT(30) DEF JobsInv, SvcInv

\* A stopped team without work in flight is replaced.
LEMMA CreateTeamStep ==
  ASSUME JobsInv, NEW q \in Members, CreateTeam({q})
  PROVE  JobsInv' /\ Lasting(svc, svc')
  <1> DEFINE a == [svc EXCEPT !.team = @ + 1, !.stopped = FALSE, !.members = {q},
                              !.keys = << >>, !.work = << >>]
  <1>1. /\ svc.stopped /\ ~\E r \in svc.members : HasActiveWork(svc, r)
        /\ svc.team < MaxTeams /\ svc' = Pump(a)
        /\ ended' = ended /\ delivered' = delivered /\ shutdown' = shutdown
    BY Zenon DEF CreateTeam, Keep
  <1>2. /\ SvcInv(svc) /\ Typed(svc) /\ Board(svc) /\ Slots(svc) /\ Acked(svc) /\ Room(svc)
        /\ svc = [x \in Fields |-> svc[x]]
    BY ServiceSound, ZenonT(30), SMTT(30) DEF SvcInv, Core
  <1>3. /\ a = [x \in Fields |-> a[x]]
        /\ \A x \in Fields \ {"team", "stopped", "members", "keys", "work"} : a[x] = svc[x]
        /\ a.team = svc.team + 1 /\ a.stopped = FALSE /\ a.members = {q} /\ a.keys = << >> /\ a.work = << >>
    BY <1>2, Zenon DEF Fields
  <1> HIDE DEF a
  <1>4. /\ a.job = svc.job /\ a.next = svc.next /\ a.active = svc.active /\ a.pump = svc.pump
        /\ a.changed = svc.changed /\ a.closed = svc.closed
    BY <1>3, Zenon DEF Fields
  <1>5. DOMAIN a.work = {} /\ a.work = [k \in DOMAIN a.work |-> a.work[k]]
    BY <1>3
  <1>6. a.keys \in Seq(Tasks) /\ IsInjective(a.keys) /\ Range(a.keys) = {}
    <2>1. a.keys = << >>
      BY <1>3, Zenon
    <2>2. a.keys \in Seq(Tasks)
      BY <2>1
    <2>3. DOMAIN a.keys = {}
      BY <2>1
    <2> QED
      BY <2>2, <2>3, Zenon DEF IsInjective, Range
  <1>7. a.team \in 0 .. MaxTeams
    BY <1>1, <1>2, <1>3, LimitsValid, SMTT(30), ZenonT(30) DEF Typed
  <1>8. Typed(a)
    <2>1. a.members \subseteq Members /\ a.stopped \in BOOLEAN
      BY <1>3, Zenon
    <2>2. DOMAIN a.work = Range(a.keys) /\ \A k \in DOMAIN a.work : a.work[k] \in Work
      BY <1>5, <1>6, Zenon
    <2> QED
      BY <1>2, <1>3, <1>4, <1>5, <1>6, <1>7, <2>1, <2>2, ZenonT(30) DEF Typed
  <1>9. Unfinished(a) = Unfinished(svc) /\ Waiting(a) = {} /\ Busy(a) = Busy(svc)
    BY <1>4, <1>5, Zenon DEF Unfinished, Waiting, Busy
  <1>10. Board(a)
    <2>1. ASSUME NEW j \in Unfinished(svc) PROVE svc.job[j].task = None
      <3> SUFFICES ASSUME svc.job[j].task # None PROVE FALSE
        BY Zenon
      <3>1. svc.job[j].task \in DOMAIN svc.work /\ svc.work[svc.job[j].task].state \in TeamTaskActive
        <4>1. JobSound(svc, j)
          BY <1>2, Zenon DEF Board
        <4> QED
          BY <4>1, Zenon DEF JobSound
      <3>2. svc.work[svc.job[j].task].member \in svc.members
        BY <1>2, <3>1, Zenon DEF Board, TaskSound
      <3> QED
        BY <1>1, <3>1, <3>2, Zenon DEF HasActiveWork
    <2>2. ASSUME NEW j \in Unfinished(a) PROVE JobSound(a, j)
      BY <1>4, <1>9, <2>1, <2>2, Zenon DEF JobSound
    <2> QED
      BY <1>5, <2>2, Zenon DEF Board
  <1>11. Room(a)
    <2>1. Cardinality({}) = 0
      BY FS_EmptySet, Zenon
    <2>2. Cardinality(DOMAIN svc.job) \in Nat /\ Cardinality(Waiting(svc)) \in Nat
      BY <1>2, FiniteParts, FS_CardinalityType, Zenon
    <2> QED
      BY <1>2, <1>4, <1>9, <2>1, <2>2, LimitsValid, SMTT(30) DEF Room
  <1>12. Slots(a)
    BY <1>2, <1>4, <1>9, Zenon DEF Slots
  <1>13. Acked(a)
    BY <1>1, <1>2, <1>4, Zenon DEF Acked
  <1>14. SvcInv(a) /\ Silent(svc, a)
    BY <1>2, <1>4, <1>8, <1>10, <1>11, <1>12, <1>13, SameJobs, ZenonT(30) DEF SvcInv, Core
  <1>15. SvcInv(svc') /\ Kept(svc, svc') /\ Lasting(svc, svc')
    BY <1>1, <1>2, <1>14, PumpSilent, Zenon
  <1> QED
    BY <1>1, <1>15, ServiceSound, KeptStep, Zenon

\* A task is submitted, or goes back to waiting with a new attempt.
Waits(p, k, w, t) ==
    /\ k \in Tasks /\ w \in Work /\ w.state = "waiting" /\ w.run = None
    /\ w.member \in p.members /\ w.depends_on \subseteq DOMAIN p.work
    /\ k \in DOMAIN p.work => p.work[k].state \in {"in_review", "failed"}
    /\ t = [x \in Fields |-> t[x]] /\ \A x \in Fields \ {"keys", "work"} : t[x] = p[x]
    /\ t.work = [x \in DOMAIN p.work \cup {k} |-> IF x = k THEN w ELSE p.work[x]]
    /\ t.keys \in Seq(Tasks) /\ IsInjective(t.keys) /\ Range(t.keys) = DOMAIN p.work \cup {k}

LEMMA WaitSound ==
  ASSUME NEW p, SvcInv(p), HasRecordCapacity(p, FALSE), NEW k, NEW w, NEW t, Waits(p, k, w, t)
  PROVE  SvcInv(t) /\ Silent(p, t)
  <1>1. Typed(p) /\ Board(p) /\ Room(p) /\ Slots(p) /\ Acked(p)
    BY Zenon DEF SvcInv, Core
  <1>2. /\ k \in Tasks /\ w \in Work /\ w.state = "waiting" /\ w.run = None
        /\ w.member \in p.members /\ w.depends_on \subseteq DOMAIN p.work
        /\ k \in DOMAIN p.work => p.work[k].state \in {"in_review", "failed"}
    BY Zenon DEF Waits
  <1>3. /\ t.job = p.job /\ t.next = p.next /\ t.active = p.active /\ t.team = p.team
        /\ t.stopped = p.stopped /\ t.members = p.members /\ t.pump = p.pump
        /\ t.changed = p.changed /\ t.closed = p.closed
    BY Zenon DEF Waits, Fields
  <1>4. /\ DOMAIN t.work = DOMAIN p.work \cup {k} /\ t.work[k] = w
        /\ \A l \in DOMAIN p.work : l # k => t.work[l] = p.work[l]
        /\ t.work = [x \in DOMAIN t.work |-> t.work[x]]
    BY Zenon DEF Waits
  <1>5. Typed(t)
    <2>1. \A l \in DOMAIN t.work : t.work[l] \in Work
      <3>1. \A l \in DOMAIN p.work : p.work[l] \in Work
        BY <1>1, Zenon DEF Typed
      <3> QED
        BY <1>2, <1>4, <3>1, Zenon
    <2>2. t.keys \in Seq(Tasks) /\ IsInjective(t.keys) /\ DOMAIN t.work = Range(t.keys) /\ t = [x \in Fields |-> t[x]]
      BY <1>4, Zenon DEF Waits
    <2> QED
      BY <1>1, <1>3, <1>4, <2>1, <2>2, Zenon DEF Typed
  <1>6. Unfinished(t) = Unfinished(p) /\ Busy(t) = Busy(p)
    BY <1>3, Zenon DEF Unfinished, Busy
  <1>7. ASSUME NEW l \in DOMAIN t.work PROVE TaskSound(t, l)
    <2>1. CASE l = k
      <3>1. None \notin DOMAIN t.job
        BY <1>5, TypedJob, ZenonT(30), SMTT(30)
      <3> QED
        BY <1>2, <1>3, <1>4, <2>1, <3>1, Zenon DEF TaskSound, TeamTaskActive
    <2>2. CASE l # k
      <3>1. TaskSound(p, l) /\ l \in DOMAIN p.work /\ t.work[l] = p.work[l]
        BY <1>1, <1>4, <1>7, <2>2, ZenonT(30), SMTT(30) DEF Board
      <3>2. ASSUME p.work[l].state \notin {"waiting", "cancelled"}, NEW d \in p.work[l].depends_on
            PROVE  t.work[d].state = "accepted"
        <4>1. d \in DOMAIN p.work /\ p.work[d].state = "accepted"
          BY <3>1, <3>2, Zenon DEF TaskSound
        <4>2. d # k
          BY <1>2, <4>1, ZenonT(30), SMTT(30)
        <4> QED
          BY <1>4, <4>1, <4>2, ZenonT(30), SMTT(30)
      <3>3. p.work[l].depends_on \subseteq DOMAIN t.work
        BY <1>4, <3>1, ZenonT(30), SMTT(30) DEF TaskSound
      <3> QED
        BY <1>3, <3>1, <3>2, <3>3, ZenonT(30), SMTT(30) DEF TaskSound
    <2> QED
      BY <2>1, <2>2, Zenon
  <1>8. ASSUME NEW j \in Unfinished(t) PROVE JobSound(t, j)
    <2>1. JobSound(p, j)
      BY <1>1, <1>6, <1>8, ZenonT(30), SMTT(30) DEF Board
    <2>2. t.job[j].task # None => t.job[j].task # k
      BY <1>2, <1>3, <2>1, Zenon DEF JobSound, TeamTaskActive
    <2> QED
      BY <1>3, <1>4, <2>1, <2>2, Zenon DEF JobSound
  <1>9. Board(t)
    <2>1. ASSUME NEW i \in DOMAIN t.work, NEW l \in DOMAIN t.work, i # l,
                 t.work[i].state \in TeamTaskActive, t.work[l].state \in TeamTaskActive
          PROVE  t.work[i].member # t.work[l].member
      <3>1. i # k /\ l # k
        BY <1>2, <1>4, <2>1, ZenonT(30), SMTT(30) DEF TeamTaskActive
      <3> QED
        BY <1>1, <1>4, <2>1, <3>1, ZenonT(30), SMTT(30) DEF Board
    <2> QED
      BY <1>7, <1>8, <2>1, ZenonT(30), SMTT(30) DEF Board
  <1>10. Room(t)
    <2>1. Waiting(t) = Waiting(p) \cup {k} /\ k \notin Waiting(p)
      BY <1>2, <1>4, Zenon DEF Waiting
    <2>2. IsFiniteSet(Waiting(p)) /\ IsFiniteSet(DOMAIN p.job)
      BY <1>1, FiniteParts, Zenon
    <2>3. Cardinality(Waiting(t)) = Cardinality(Waiting(p)) + 1
      BY <2>1, <2>2, FS_AddElement, Zenon
    <2>4. Cardinality(Waiting(p)) \in Nat /\ Cardinality(DOMAIN p.job) \in Nat
      BY <2>2, FS_CardinalityType, Zenon
    <2>5. Cardinality(DOMAIN p.job) + Cardinality(Waiting(p)) < MaxRecords
      BY Zenon DEF HasRecordCapacity
    <2> QED
      BY <1>1, <1>3, <1>6, <2>3, <2>4, <2>5, LimitsValid, SMTT(30) DEF Room
  <1>11. Slots(t) /\ Acked(t)
    BY <1>1, <1>3, <1>6, Zenon DEF Slots, Acked
  <1> QED
    BY <1>1, <1>3, <1>5, <1>9, <1>10, <1>11, SameJobs, ZenonT(30), SMTT(30) DEF SvcInv, Core
LEMMA SubmitTeamTaskStep ==
  ASSUME JobsInv, NEW k \in Tasks, NEW q \in Members, NEW turn \in Turns,
         NEW deps \in SUBSET DOMAIN svc.work, SubmitTeamTask(k, q, deps, turn)
  PROVE  JobsInv' /\ Lasting(svc, svc')
  <1> DEFINE p == Prune(svc)
             w == [member |-> q, depends_on |-> deps, attempt |-> 1,
                   state |-> "waiting", run |-> None, turn |-> turn]
             keys == Append(p.keys, k)
             work == [x \in DOMAIN p.work \cup {k} |-> IF x = k THEN w ELSE p.work[x]]
             a == [p EXCEPT !.keys = keys, !.work = work]
  <1>1. /\ k \notin DOMAIN svc.work /\ q \in svc.members /\ HasRecordCapacity(p, FALSE)
        /\ svc' = Pump(a) /\ ended' = ended /\ delivered' = delivered /\ shutdown' = shutdown
    BY Zenon DEF SubmitTeamTask, Keep
  <1>2. SvcInv(p) /\ Silent(svc, p) /\ p.work = svc.work /\ p.members = svc.members
    BY PruneJobs, ServiceSound, PruneFacts, ZenonT(30), SMTT(30) DEF Fields
  <1> HIDE DEF p
  <1>3. p = [x \in Fields |-> p[x]] /\ Typed(p)
    BY <1>2, InvTyped, Zenon
  <1>4. DOMAIN p.work \subseteq Tasks
    BY <1>3, TypedWork, Zenon
  <1>5. w \in Work /\ w.state = "waiting" /\ w.run = None /\ w.member = q /\ w.depends_on = deps
    <2>1. deps \in SUBSET Tasks
      BY <1>2, <1>4, Zenon
    <2>2. 1 \in 1 .. MaxAttempts
      BY LimitsValid
    <2> QED
      BY <2>1, <2>2, Zenon DEF Work, TeamTaskState
  <1> HIDE DEF w
  <1>6. keys \in Seq(Tasks) /\ IsInjective(keys) /\ Range(keys) = DOMAIN p.work \cup {k}
    <2>1. p.keys \in Seq(Tasks) /\ IsInjective(p.keys) /\ DOMAIN p.work = Range(p.keys)
      BY <1>3, Zenon DEF Typed
    <2> QED
      BY <1>1, <1>2, <2>1, AppendNew
  <1> HIDE DEF keys
  <1>7. work = [x \in DOMAIN p.work \cup {k} |-> IF x = k THEN w ELSE p.work[x]]
    BY Zenon
  <1> HIDE DEF work
  <1>8. /\ a = [x \in Fields |-> a[x]] /\ \A x \in Fields \ {"keys", "work"} : a[x] = p[x]
        /\ a.work = work /\ a.keys = keys
    BY <1>3, Zenon DEF Fields
  <1> HIDE DEF a
  <1>9. Waits(p, k, w, a)
    BY <1>1, <1>2, <1>5, <1>6, <1>7, <1>8, ZenonT(30), SMTT(30) DEF Waits
  <1>10. SvcInv(a) /\ Silent(p, a)
    BY <1>1, <1>2, <1>9, WaitSound, Zenon
  <1>11. Silent(svc, a)
    BY <1>2, <1>10, ServiceSound, InvTyped, SilentOn, Zenon
  <1>12. SvcInv(svc') /\ Kept(svc, svc') /\ Lasting(svc, svc')
    BY <1>1, <1>10, <1>11, ServiceSound, PumpSilent, Zenon
  <1> QED
    BY <1>1, <1>12, ServiceSound, KeptStep, Zenon

\* The second of two changes in the same place counts.
LEMMA Overwrite ==
  ASSUME NEW p, p = [x \in Fields |-> p[x]], NEW f, NEW g
  PROVE  [[p EXCEPT !.work = f] EXCEPT !.work = g] = [p EXCEPT !.work = g]
  BY Zenon DEF Fields

LEMMA OverwriteAt ==
  ASSUME NEW f, f = [x \in DOMAIN f |-> f[x]], NEW k, NEW u, NEW v
  PROVE  [[f EXCEPT ![k] = u] EXCEPT ![k] = v] = [f EXCEPT ![k] = v]
  BY Zenon

LEMMA ReviseTaskStep ==
  ASSUME JobsInv, NEW k \in DOMAIN svc.work, NEW turn \in Turns, ReviseTask(k, turn)
  PROVE  JobsInv' /\ Lasting(svc, svc')
  <1> DEFINE p == Prune(svc)
             w == [member |-> p.work[k].member, depends_on |-> p.work[k].depends_on,
                   attempt |-> p.work[k].attempt + 1, state |-> "waiting", run |-> None, turn |-> turn]
             work == [p.work EXCEPT ![k] = w]
             a == [p EXCEPT !.work = work]
             r == [p EXCEPT !.work[k].attempt = @ + 1, !.work[k].state = "waiting",
                            !.work[k].run = None, !.work[k].turn = turn]
  <1>1. /\ svc.work[k].state \in {"in_review", "failed"} /\ svc.work[k].attempt < MaxAttempts
        /\ HasRecordCapacity(p, FALSE)
        /\ svc' = Pump(r) /\ ended' = ended /\ delivered' = delivered /\ shutdown' = shutdown
    BY Zenon DEF ReviseTask, Keep
  <1>2. SvcInv(p) /\ Silent(svc, p) /\ p.work = svc.work
    BY PruneJobs, Zenon
  <1> HIDE DEF p
  <1>3. p = [x \in Fields |-> p[x]] /\ Typed(p) /\ p.work = [l \in DOMAIN p.work |-> p.work[l]]
        /\ p.work[k] \in Work
    BY <1>2, InvTyped, Zenon DEF Typed
  <1>4. r = a
    <2> DEFINE w1 == [p.work[k] EXCEPT !.attempt = @ + 1]
               w2 == [w1 EXCEPT !.state = "waiting"]
               w3 == [w2 EXCEPT !.run = None]
               w4 == [w3 EXCEPT !.turn = turn]
               p1 == [p EXCEPT !.work[k].attempt = @ + 1]
               p2 == [p1 EXCEPT !.work[k].state = "waiting"]
               p3 == [p2 EXCEPT !.work[k].run = None]
    <2>1. p1 = [p EXCEPT !.work = [p.work EXCEPT ![k] = w1]]
      BY Zenon
    <2>2. p2 = [p EXCEPT !.work = [p.work EXCEPT ![k] = w2]]
      <3> HIDE DEF p1, w1
      <3>1. p1.work = [p.work EXCEPT ![k] = w1] /\ p1.work[k] = w1
        BY <1>2, <1>3, <2>1, Zenon DEF Fields
      <3>2. p2 = [p1 EXCEPT !.work = [p1.work EXCEPT ![k] = w2]]
        BY <3>1, Zenon
      <3> HIDE DEF p2, w2
      <3>3. [p1.work EXCEPT ![k] = w2] = [p.work EXCEPT ![k] = w2]
        BY <1>3, <3>1, OverwriteAt, ZenonT(30)
      <3> QED
        BY <1>3, <2>1, <3>2, <3>3, Overwrite, Zenon
    <2>3. p3 = [p EXCEPT !.work = [p.work EXCEPT ![k] = w3]]
      <3> HIDE DEF p2, w2
      <3>1. p2.work = [p.work EXCEPT ![k] = w2] /\ p2.work[k] = w2
        BY <1>2, <1>3, <2>2, Zenon DEF Fields
      <3>2. p3 = [p2 EXCEPT !.work = [p2.work EXCEPT ![k] = w3]]
        BY <3>1, ZenonT(30), SMTT(30)
      <3> HIDE DEF p3, w3
      <3>3. [p2.work EXCEPT ![k] = w3] = [p.work EXCEPT ![k] = w3]
        BY <1>3, <3>1, OverwriteAt, Zenon
      <3> QED
        BY <1>3, <2>2, <3>2, <3>3, Overwrite, Zenon
    <2>4. r = [p EXCEPT !.work = [p.work EXCEPT ![k] = w4]]
      <3>1. r = [p3 EXCEPT !.work[k].turn = turn]
        BY Zenon
      <3> HIDE DEF p3, w3, r
      <3>2. p3.work = [p.work EXCEPT ![k] = w3] /\ p3.work[k] = w3
        BY <1>2, <1>3, <2>3, Zenon DEF Fields
      <3>3. r = [p3 EXCEPT !.work = [p3.work EXCEPT ![k] = w4]]
        BY <3>1, <3>2, ZenonT(30), SMTT(30)
      <3> HIDE DEF w4
      <3>4. [p3.work EXCEPT ![k] = w4] = [p.work EXCEPT ![k] = w4]
        BY <1>3, <3>2, OverwriteAt, Zenon
      <3> QED
        BY <1>3, <2>3, <3>3, <3>4, Overwrite, ZenonT(30)
    <2>5. w4 = w
      <3> DEFINE v == p.work[k]
      <3>0. v = [member |-> v.member, depends_on |-> v.depends_on, attempt |-> v.attempt,
                 state |-> v.state, run |-> v.run, turn |-> v.turn]
        BY <1>3, Zenon DEF Work
      <3> HIDE DEF v
      <3>1. w1 = [v EXCEPT !.attempt = v.attempt + 1]
        BY Zenon DEF v
      <3>2. w1 = [member |-> v.member, depends_on |-> v.depends_on, attempt |-> v.attempt + 1,
                  state |-> v.state, run |-> v.run, turn |-> v.turn]
        BY <3>0, <3>1
      <3> HIDE DEF w1
      <3>3. w2 = [member |-> v.member, depends_on |-> v.depends_on, attempt |-> v.attempt + 1,
                  state |-> "waiting", run |-> v.run, turn |-> v.turn]
        BY <3>2
      <3> HIDE DEF w2
      <3>4. w3 = [member |-> v.member, depends_on |-> v.depends_on, attempt |-> v.attempt + 1,
                  state |-> "waiting", run |-> None, turn |-> v.turn]
        BY <3>3
      <3> HIDE DEF w3
      <3>5. w4 = [member |-> v.member, depends_on |-> v.depends_on, attempt |-> v.attempt + 1,
                  state |-> "waiting", run |-> None, turn |-> turn]
        BY <3>4
      <3> QED
        BY <3>5, Zenon DEF v
    <2> QED
      BY <2>4, <2>5, Zenon
  <1> HIDE DEF r
  <1>5. /\ w \in Work /\ w.state = "waiting" /\ w.run = None /\ w.member = p.work[k].member
        /\ w.depends_on = p.work[k].depends_on
    <2>1. p.work[k].attempt + 1 \in 1 .. MaxAttempts
      BY <1>1, <1>2, <1>3, LimitsValid DEF Work
    <2> QED
      BY <1>3, <2>1, Zenon DEF Work, TeamTaskState
  <1> HIDE DEF w
  <1>6. work = [x \in DOMAIN p.work \cup {k} |-> IF x = k THEN w ELSE p.work[x]]
    BY <1>2, <1>3, Zenon
  <1> HIDE DEF work
  <1>7. /\ a = [x \in Fields |-> a[x]] /\ \A x \in Fields \ {"work"} : a[x] = p[x]
        /\ a.work = work
    BY <1>3, ZenonT(30), SMTT(30) DEF Fields
  <1> HIDE DEF a
  <1>8. k \in Tasks /\ p.work[k].member \in p.members /\ p.work[k].depends_on \subseteq DOMAIN p.work
    BY <1>2, <1>3, InvTyped, TypedWork, Zenon DEF Board, TaskSound
  <1>9. a.keys = p.keys /\ p.keys \in Seq(Tasks) /\ IsInjective(p.keys) /\ Range(p.keys) = DOMAIN p.work
    BY <1>3, <1>7, Zenon DEF Typed, Fields
  <1>10. Waits(p, k, w, a)
    <2>1. DOMAIN p.work \cup {k} = DOMAIN p.work
      BY <1>2, Zenon
    <2> QED
      BY <1>1, <1>2, <1>5, <1>6, <1>7, <1>8, <1>9, <2>1, ZenonT(30), SMTT(30) DEF Waits
  <1>11. SvcInv(a) /\ Silent(p, a)
    BY <1>1, <1>2, <1>10, WaitSound, ZenonT(30), SMTT(30)
  <1>12. Silent(svc, a)
    BY <1>2, <1>11, ServiceSound, InvTyped, SilentOn, Zenon
  <1>13. SvcInv(svc') /\ Kept(svc, svc') /\ Lasting(svc, svc')
    BY <1>1, <1>4, <1>11, <1>12, ServiceSound, PumpSilent, ZenonT(30)
  <1> QED
    BY <1>1, <1>13, ServiceSound, KeptStep, Zenon

\* The run of a task is cancelled: only that job is acknowledged, and when it had
\* finished already the task is as it was, and not in flight.
LEMMA CancelRun ==
  ASSUME NEW p, SvcInv(p), NEW k \in DOMAIN p.work, p.work[k].state # "accepted",
         NEW run, run = p.work[k].run,
         NEW c, c = IF run \in DOMAIN p.job THEN CancelJobs(p, {run}, "owner") ELSE p
  PROVE  /\ SvcInv(c) /\ Kept(p, c) /\ DOMAIN c.job = DOMAIN p.job /\ DOMAIN c.work = DOMAIN p.work
         /\ c.work[k].state # "accepted"
         /\ \A j \in DOMAIN p.job : c.job[j].acknowledged => p.job[j].acknowledged \/ j = run
         /\ run \in DOMAIN p.job /\ p.job[run].state \in TaskTerminal =>
              p.job[run].task = k /\ c.work[k].state \notin TeamTaskActive
  <1>1. Typed(p) /\ Board(p) /\ TaskSound(p, k)
    BY InvTyped, ZenonT(30), SMTT(30) DEF Board
  <1>2. CASE run \notin DOMAIN p.job
    BY <1>1, <1>2, AdmittedSelf, ZenonT(30), SMTT(30) DEF Silent
  <1>3. CASE run \in DOMAIN p.job
    <2> DEFINE J == {run}
    <2>1. c = CancelJobs(p, J, "owner") /\ J \subseteq DOMAIN p.job
      BY <1>3, Zenon
    <2>2. \A j : j \in J <=> j = run
      BY Zenon
    <2> HIDE DEF J
    <2>3. SvcInv(c) /\ Kept(p, c)
      BY <2>1, CancelSound, ZenonT(30), SMTT(30)
    <2>4. /\ Typed(c) /\ Update(p, c)
          /\ \A j \in DOMAIN p.job : c.job[j].acknowledged <=> (p.job[j].acknowledged \/ j \in J)
          /\ p.work[k].state \notin TeamTaskActive => c.work[k] = p.work[k]
      BY <1>1, <2>1, CancelFacts, SMTT(30), ZenonT(30)
    <2>5. DOMAIN c.job = DOMAIN p.job /\ DOMAIN c.work = DOMAIN p.work
      BY <2>4, Zenon DEF Update
    <2>6. c.work[k].state # "accepted"
      <3>1. CASE p.work[k].state \in TeamTaskActive
        <4>1. c.work[k].state = BoardState(c.job[run].state)
          <5>1. \A l \in DOMAIN p.work : p.work[l].state \in TeamTaskActive =>
                  c.work[l].state = BoardState(c.job[p.work[l].run].state)
            BY <2>4, ZenonT(30), SMTT(30) DEF Update
          <5> QED
            BY <3>1, <5>1, Zenon
        <4>2. c.job[run].state \in TaskState
          BY <1>3, <2>4, <2>5, TypedJob, ZenonT(30), SMTT(30)
        <4> QED
          BY <4>1, <4>2, StatesMatch, ZenonT(30), SMTT(30)
      <3> QED
        BY <2>4, <3>1, ZenonT(30), SMTT(30)
    <2>7. ASSUME p.job[run].state \in TaskTerminal
          PROVE  p.job[run].task = k /\ c.work[k].state \notin TeamTaskActive
      <3>1. /\ p.job[run].task = k
            /\ p.work[k].state \in TeamTaskActive => p.job[run].state = p.work[k].state
        BY <1>1, <1>3, Zenon DEF TaskSound
      <3>2. p.job[run].state \notin TeamTaskActive
        BY <2>7, Zenon DEF TaskTerminal, TeamTaskActive
      <3> QED
        BY <2>4, <3>1, <3>2, Zenon
    <2> QED
      BY <1>3, <2>2, <2>3, <2>4, <2>5, <2>6, <2>7, ZenonT(30)
  <1> QED
    BY <1>2, <1>3, Zenon

LEMMA CancelTaskStep ==
  ASSUME JobsInv, NEW k \in DOMAIN svc.work, CancelTask(k)
  PROVE  JobsInv' /\ Lasting(svc, svc')
  <1> DEFINE p == Prune(svc)
             run == svc.work[k].run
             c == IF run \in DOMAIN p.job THEN CancelJobs(p, {run}, "owner") ELSE p
             y == IF c.work[k].state \in TeamTaskActive THEN c.work[k].state ELSE "cancelled"
             a == SetState(c, k, y)
  <1>1. /\ svc.work[k].state # "accepted" /\ svc' = Pump(a)
        /\ ended' = ended /\ delivered' = delivered /\ shutdown' = shutdown
    BY Zenon DEF CancelTask, Keep, SetState
  <1>2. SvcInv(p) /\ Silent(svc, p) /\ p.work = svc.work
        /\ DOMAIN p.job \subseteq DOMAIN svc.job /\ \A i \in DOMAIN p.job : p.job[i] = svc.job[i]
    BY PruneJobs, ZenonT(30), SMTT(30)
  <1> HIDE DEF p
  <1>3. /\ SvcInv(c) /\ Kept(p, c) /\ DOMAIN c.job = DOMAIN p.job /\ DOMAIN c.work = DOMAIN p.work
        /\ c.work[k].state # "accepted"
        /\ \A j \in DOMAIN p.job : c.job[j].acknowledged => p.job[j].acknowledged \/ j = run
        /\ run \in DOMAIN p.job /\ p.job[run].state \in TaskTerminal =>
             p.job[run].task = k /\ c.work[k].state \notin TeamTaskActive
    <2>1. k \in DOMAIN p.work /\ p.work[k].state # "accepted" /\ run = p.work[k].run
      BY <1>1, <1>2, Zenon
    <2>2. c = IF run \in DOMAIN p.job THEN CancelJobs(p, {run}, "owner") ELSE p
      BY Zenon
    <2> HIDE DEF run, c
    <2> QED
      BY <1>2, <2>1, <2>2, CancelRun, SMTT(30), ZenonT(30)
  <1> HIDE DEF c
  <1>4. /\ SvcInv(a) /\ Silent(c, a) /\ DOMAIN a.work = DOMAIN c.work
        /\ c.work[k].state \notin TeamTaskActive => a.work[k].state = "cancelled"
    <2>1. CASE c.work[k].state \in TeamTaskActive
      <3>1. c = [x \in Fields |-> c[x]] /\ c.work = [l \in DOMAIN c.work |-> c.work[l]] /\ c.work[k] \in Work
        BY <1>2, <1>3, InvTyped, Zenon DEF Typed
      <3>2. [c.work[k] EXCEPT !.state = y] = c.work[k]
        BY <2>1, <3>1, Zenon DEF Work
      <3>3. a = [c EXCEPT !.work = [c.work EXCEPT ![k] = [c.work[k] EXCEPT !.state = y]]]
        BY Zenon DEF SetState
      <3>4. [c.work EXCEPT ![k] = c.work[k]] = c.work
        BY <1>2, <1>3, <3>1, Zenon
      <3>5. a = c
        <4>1. a = [c EXCEPT !.work = c.work]
          BY <3>2, <3>3, <3>4, ZenonT(30), SMTT(30)
        <4> HIDE DEF a
        <4> QED
          BY <3>1, <4>1, Zenon DEF Fields
      <3> QED
        BY <1>3, <2>1, <3>5, InvTyped, AdmittedSelf, ZenonT(30), SMTT(30)
    <2>2. CASE c.work[k].state \notin TeamTaskActive
      <3>1. y = "cancelled" /\ k \in DOMAIN c.work
        BY <1>2, <1>3, <2>2, Zenon
      <3> HIDE DEF y
      <3> QED
        BY <1>3, <2>2, <3>1, SettleOne, SMTT(30), ZenonT(30)
    <2> QED
      BY <2>1, <2>2, ZenonT(30), SMTT(30)
  <1> HIDE DEF a
  <1>5. /\ SvcInv(svc') /\ Silent(a, svc')
        /\ k \in DOMAIN a.work /\ a.work[k].state = "cancelled" =>
             k \in DOMAIN svc'.work /\ svc'.work[k].state = "cancelled"
    BY <1>1, <1>4, PumpSound, SMTT(30), ZenonT(30)
  <1>6. Typed(svc) /\ Typed(p) /\ Typed(c) /\ Typed(a) /\ Typed(svc')
    BY <1>2, <1>3, <1>4, <1>5, ServiceSound, InvTyped, ZenonT(30), SMTT(30)
  <1>7. Silent(c, svc')
    BY <1>4, <1>5, <1>6, SilentOn, Zenon
  <1>8. Kept(svc, svc')
    <2>1. Kept(svc, p) /\ Kept(c, svc')
      BY <1>2, <1>7, ZenonT(30), SMTT(30) DEF Silent
    <2>2. Kept(svc, c)
      BY <1>3, <1>6, <2>1, KeptOn, ZenonT(30), SMTT(30)
    <2> QED
      BY <1>6, <2>1, <2>2, KeptOn, ZenonT(30), SMTT(30)
  <1>9. ASSUME NEW j \in DOMAIN svc.job, svc.job[j].state \in TaskTerminal, j \notin DOMAIN svc'.job,
               Unread(svc.job[j])
        PROVE  \E l \in DOMAIN svc'.work : l = svc.job[j].task /\ svc'.work[l].state = "cancelled"
    <2>1. j \in DOMAIN p.job
      BY <1>2, <1>9, Zenon DEF Silent
    <2>2. j \in DOMAIN c.job /\ ~Unread(c.job[j])
      BY <1>3, <1>7, <1>9, <2>1, ZenonT(30), SMTT(30) DEF Silent
    <2>3. j = run
      <3>1. c.job[j].acknowledged /\ ~p.job[j].acknowledged
        BY <1>2, <1>9, <2>1, <2>2, Zenon DEF Unread
      <3> QED
        BY <1>3, <2>1, <3>1, Zenon
    <2>4. svc.job[j].task = k /\ c.work[k].state \notin TeamTaskActive
      BY <1>2, <1>3, <1>9, <2>1, <2>3, ZenonT(30), SMTT(30)
    <2>5. k \in DOMAIN svc'.work /\ svc'.work[k].state = "cancelled"
      BY <1>2, <1>3, <1>4, <1>5, <2>4, ZenonT(30), SMTT(30)
    <2> QED
      BY <2>4, <2>5, Zenon
  <1>10. Lasting(svc, svc')
    BY <1>8, <1>9, Zenon DEF Kept, Lasting
  <1> QED
    BY <1>1, <1>5, <1>8, <1>10, ServiceSound, KeptStep, ZenonT(30), SMTT(30)

-----------------------------------------------------------------------------
\* The invariant, and what follows from it.

LEMMA InitSound == Init => JobsInv
  <1> SUFFICES ASSUME Init PROVE JobsInv
    BY Zenon
  <1>1. /\ svc = [job |-> << >>, next |-> 1, active |-> 0,
                  team |-> 0, stopped |-> TRUE, members |-> {}, keys |-> << >>, work |-> << >>,
                  pump |-> FALSE, changed |-> FALSE, closed |-> FALSE]
        /\ ended = << >> /\ shutdown = "no" /\ delivered = << >>
    BY Zenon DEF Init, Created
  <1>2. /\ svc.job = << >> /\ svc.next = 1 /\ svc.active = 0 /\ svc.team = 0 /\ svc.stopped = TRUE
        /\ svc.members = {} /\ svc.keys = << >> /\ svc.work = << >> /\ svc.pump = FALSE
        /\ svc.changed = FALSE /\ svc.closed = FALSE
    BY <1>1, ZenonT(30), SMTT(30)
  <1>3. svc = [x \in Fields |-> svc[x]]
    BY <1>1, Zenon DEF Fields
  <1>4. DOMAIN svc.job = {} /\ DOMAIN svc.work = {} /\ DOMAIN svc.keys = {}
        /\ DOMAIN ended = {} /\ DOMAIN delivered = {}
    BY <1>1, <1>2
  <1>5. svc.job = [j \in DOMAIN svc.job |-> svc.job[j]] /\ svc.work = [k \in DOMAIN svc.work |-> svc.work[k]]
    BY <1>2
  <1>6. svc.keys \in Seq(Tasks) /\ IsInjective(svc.keys) /\ Range(svc.keys) = {}
    <2>1. svc.keys \in Seq(Tasks)
      BY <1>2
    <2> QED
      BY <1>4, <2>1, Zenon DEF IsInjective, Range
  <1>7. Typed(svc)
    <2>1. svc.team \in 0 .. MaxTeams
      BY <1>2, LimitsValid
    <2>2. DOMAIN svc.work = Range(svc.keys) /\ DOMAIN svc.job \subseteq 1 .. svc.next - 1
      BY <1>4, <1>6, Zenon
    <2>3. svc.next \in Runs /\ svc.active \in Nat
      BY <1>2 DEF Runs
    <2> QED
      BY <1>2, <1>3, <1>4, <1>5, <1>6, <2>1, <2>2, <2>3, ZenonT(30) DEF Typed
  <1>8. Unfinished(svc) = {} /\ Waiting(svc) = {} /\ Busy(svc) = {}
    BY <1>4, Zenon DEF Unfinished, Waiting, Busy
  <1>9. Board(svc) /\ Acked(svc)
    BY <1>4, <1>8, Zenon DEF Board, Acked
  <1>10. Room(svc) /\ Slots(svc)
    BY <1>2, <1>4, <1>8, FS_EmptySet, LimitsValid, SMTT(30) DEF Room, Slots
  <1>11. EndedSound
    BY <1>4, Zenon DEF EndedSound, Range
  <1>12. DeliveredSound
    <2>1. delivered \in Seq(Runs)
      BY <1>1
    <2> QED
      BY <1>4, <2>1, Zenon DEF DeliveredSound, IsInjective, Range
  <1> QED
    BY <1>1, <1>7, <1>9, <1>10, <1>11, <1>12, ZenonT(30) DEF JobsInv, SvcInv, Core

LEMMA StutterSound ==
  ASSUME JobsInv, UNCHANGED vars
  PROVE  JobsInv' /\ Lasting(svc, svc')
  <1>1. svc' = svc /\ ended' = ended /\ shutdown' = shutdown /\ delivered' = delivered
    BY Zenon DEF vars
  <1>2. JobsInv'
    BY <1>1, ZenonT(30), SMTT(30) DEF JobsInv, EndedSound, DeliveredSound
  <1> QED
    BY <1>1, <1>2, ServiceSound, AdmittedSelf, SilentLasts, Zenon

\* Every step of the service, of its executor and of its callers.
LEMMA NextSound ==
  ASSUME JobsInv, [Next]_vars
  PROVE  JobsInv' /\ Lasting(svc, svc')
  <1>1. CASE PruneOnly
    BY <1>1, PruneOnlyStep, Zenon
  <1>2. CASE CancelOwner
    BY <1>2, CancelOwnerStep, ZenonT(30)
  <1>3. CASE TeamStop
    BY <1>3, TeamStopStep, Zenon
  <1>4. CASE PostedPump
    BY <1>4, PostedPumpStep, Zenon
  <1>5. CASE Shutdown
    BY <1>5, ShutdownStep, Zenon
  <1>6. CASE ShutdownCheck
    BY <1>6, ShutdownCheckStep, Zenon
  <1>7. CASE ShutdownWakes
    BY <1>7, ShutdownWakesStep, Zenon
  <1>8. ASSUME NEW turn \in Turns, Start(turn) PROVE JobsInv' /\ Lasting(svc, svc')
    BY <1>8, StartStep, Zenon
  <1>9. ASSUME NEW turn \in Turns, CancelTurn(turn) PROVE JobsInv' /\ Lasting(svc, svc')
    BY <1>9, CancelTurnStep, Zenon
  <1>10. ASSUME NEW j \in DOMAIN svc.job, Cancel(j) PROVE JobsInv' /\ Lasting(svc, svc')
    BY <1>10, CancelStep, Zenon
  <1>11. ASSUME NEW j \in DOMAIN svc.job, ClaimCompletion(j) PROVE JobsInv' /\ Lasting(svc, svc')
    BY <1>11, ClaimCompletionStep, ZenonT(30)
  <1>12. ASSUME NEW j \in DOMAIN svc.job, Deadline(j) PROVE JobsInv' /\ Lasting(svc, svc')
    BY <1>12, DeadlineStep, Zenon
  <1>13. ASSUME NEW j \in DOMAIN svc.job, MonitorEnds(j) PROVE JobsInv' /\ Lasting(svc, svc')
    BY <1>13, MonitorEndsStep, Zenon
  <1>14. ASSUME NEW j \in DOMAIN svc.job, Age(j) PROVE JobsInv' /\ Lasting(svc, svc')
    BY <1>14, AgeStep, Zenon
  <1>15. ASSUME NEW j \in DOMAIN svc.job, NEW committed \in BOOLEAN, FinishCompletion(j, committed)
         PROVE  JobsInv' /\ Lasting(svc, svc')
    BY <1>15, FinishCompletionStep, Zenon
  <1>16. ASSUME NEW j \in DOMAIN svc.job, NEW how \in TaskTerminal, ChildEnds(j, how)
         PROVE  JobsInv' /\ Lasting(svc, svc')
    BY <1>16, ChildEndsStep, Zenon
  <1>17. ASSUME NEW q \in Members, CreateTeam({q}) PROVE JobsInv' /\ Lasting(svc, svc')
    BY <1>17, CreateTeamStep, ZenonT(30)
  <1>18. ASSUME NEW q \in Members, AddTeamMember(q) PROVE JobsInv' /\ Lasting(svc, svc')
    BY <1>18, AddTeamMemberStep, Zenon
  <1>19. ASSUME NEW k \in Tasks, NEW q \in Members, NEW turn \in Turns,
                NEW deps \in SUBSET DOMAIN svc.work, SubmitTeamTask(k, q, deps, turn)
         PROVE  JobsInv' /\ Lasting(svc, svc')
    BY <1>19, SubmitTeamTaskStep, Zenon
  <1>20. ASSUME NEW k \in DOMAIN svc.work, AcceptTask(k) PROVE JobsInv' /\ Lasting(svc, svc')
    BY <1>20, AcceptTaskStep, Zenon
  <1>21. ASSUME NEW k \in DOMAIN svc.work, CancelTask(k) PROVE JobsInv' /\ Lasting(svc, svc')
    BY <1>21, CancelTaskStep, Zenon
  <1>22. ASSUME NEW k \in DOMAIN svc.work, NEW turn \in Turns, ReviseTask(k, turn)
         PROVE  JobsInv' /\ Lasting(svc, svc')
    BY <1>22, ReviseTaskStep, Zenon
  <1>23. CASE UNCHANGED vars
    BY <1>23, StutterSound, Zenon
  <1> QED
    BY <1>1, <1>2, <1>3, <1>4, <1>5, <1>6, <1>7, <1>8, <1>9, <1>10, <1>11, <1>12, <1>13, <1>14, ZenonT(30),
       <1>15, <1>16, <1>17, <1>18, <1>19, <1>20, <1>21, <1>22, <1>23 DEF Next

\* BackgroundTasks::Impl keeps the inductive invariant: whatever the leader calls and
\* in whatever order children end, deadlines pass and pumps run, the board, the
\* records, the slots and the acknowledgements agree.
THEOREM JobsInvariant == Spec => []JobsInv
  <1>1. JobsInv /\ [Next]_vars => JobsInv'
    BY NextSound, Zenon
  <1> QED
    BY <1>1, InitSound, PTL DEF Spec

LEMMA InvTypeOK == JobsInv => TypeOK
  <1> SUFFICES ASSUME JobsInv PROVE TypeOK
    BY Zenon
  <1>1. /\ DOMAIN svc.job \subseteq 1 .. svc.next - 1 /\ \A j \in DOMAIN svc.job : svc.job[j] \in Job
        /\ svc.next \in Runs /\ svc.active \in Nat /\ svc.team \in 0 .. MaxTeams
        /\ {svc.stopped, svc.pump, svc.changed, svc.closed} \subseteq BOOLEAN
        /\ svc.members \subseteq Members
        /\ svc.keys \in Seq(Tasks) /\ IsInjective(svc.keys)
        /\ DOMAIN svc.work = Range(svc.keys) /\ \A k \in DOMAIN svc.work : svc.work[k] \in Work
    BY ServiceSound, Zenon DEF Typed
  <1>2. DOMAIN ended \subseteq Runs
    <2>1. Busy(svc) \subseteq DOMAIN svc.job /\ svc.next \in Nat
      BY <1>1, Zenon DEF Busy, Runs
    <2>2. 1 .. svc.next - 1 \subseteq Runs
      BY <2>1 DEF Runs
    <2> QED
      BY <1>1, <2>1, <2>2, Zenon DEF JobsInv, EndedSound
  <1> QED
    BY <1>1, <1>2, Zenon DEF TypeOK, JobsInv, EndedSound, DeliveredSound

\* has_record_capacity, has_capacity and the slot count of pump: the records with
\* those reserved for waiting tasks never exceed the limit, nor do the unfinished
\* jobs or the children that run, and `active` counts exactly these children.
THEOREM LimitsHold == Spec => []WithinLimits
  <1>1. JobsInv => WithinLimits
    BY InvTypeOK, ZenonT(30), SMTT(30) DEF JobsInv, SvcInv, Core, Room, Slots, WithinLimits
  <1> QED
    BY <1>1, JobsInvariant, PTL

\* update_team_job writes through the current run only: a task in flight has exactly
\* one unfinished job, in the state the board shows, a specialist serves one task at
\* a time, and no superseded attempt is still running.
THEOREM BoardIsTrue == Spec => []BoardMatchesJobs
  <1>1. JobsInv => BoardMatchesJobs
    <2> SUFFICES ASSUME JobsInv PROVE BoardMatchesJobs
      BY Zenon
    <2>1. Typed(svc) /\ Board(svc)
      BY ServiceSound, Zenon
    <2>2. ASSUME NEW k \in DOMAIN svc.work, svc.work[k].state \in TeamTaskActive
          PROVE  svc.work[k].run \in Unfinished(svc) /\ svc.job[svc.work[k].run].state = svc.work[k].state
      <3>1. svc.work[k].run \in DOMAIN svc.job /\ svc.job[svc.work[k].run].state = svc.work[k].state
        BY <2>1, <2>2, ZenonT(30), SMTT(30) DEF Board, TaskSound
      <3> QED
        BY <2>2, <3>1, ZenonT(30), SMTT(30) DEF Unfinished, TeamTaskActive, TaskTerminal
    <2>3. ASSUME NEW j \in Unfinished(svc), svc.job[j].task # None
          PROVE  /\ svc.job[j].team = svc.team /\ svc.job[j].task \in DOMAIN svc.work
                 /\ svc.work[svc.job[j].task].run = j /\ j \in DOMAIN svc.job
                 /\ svc.work[svc.job[j].task].attempt = svc.job[j].attempt
                 /\ svc.work[svc.job[j].task].state \in TeamTaskActive
      <3>1. /\ svc.job[j].team = svc.team /\ svc.job[j].task \in DOMAIN svc.work
            /\ svc.work[svc.job[j].task].run = j /\ j \in DOMAIN svc.job
            /\ svc.work[svc.job[j].task].state \in TeamTaskActive
        BY <2>1, <2>3, Zenon DEF Board, JobSound, Unfinished
      <3>2. TaskSound(svc, svc.job[j].task)
        BY <2>1, <3>1, ZenonT(30), SMTT(30) DEF Board
      <3> QED
        BY <3>1, <3>2, ZenonT(30), SMTT(30) DEF TaskSound
    <2>4. ASSUME NEW i \in Unfinished(svc), NEW j \in Unfinished(svc), i # j,
                 {svc.job[i].task, svc.job[j].task} \subseteq DOMAIN svc.work
          PROVE  svc.work[svc.job[i].task].member # svc.work[svc.job[j].task].member
      <3>1. svc.job[i].task # None /\ svc.job[j].task # None
        BY <2>1, <2>4, TypedWork, Zenon
      <3>2. svc.job[i].task # svc.job[j].task
        BY <2>3, <2>4, <3>1, ZenonT(30), SMTT(30)
      <3> QED
        BY <2>1, <2>3, <2>4, <3>1, <3>2, ZenonT(30), SMTT(30) DEF Board
    <2> QED
      BY <2>2, <2>3, <2>4, ZenonT(30) DEF BoardMatchesJobs, OneTurnPerMember, IsCurrentRun
  <1> QED
    BY <1>1, JobsInvariant, PTL

\* The readiness test of the pump, and the reviews: a task that started, reported or
\* was accepted rests on dependencies that are accepted, and they stay so.
THEOREM WorkRestsOnAccepted == Spec => []BuiltOnAccepted
  <1>1. JobsInv => BuiltOnAccepted
    BY ServiceSound, Zenon DEF Board, TaskSound, BuiltOnAccepted
  <1> QED
    BY <1>1, JobsInvariant, PTL

\* claim_completion and finish_completion against prune and the cancellations: no
\* completion is delivered twice, a stopped team has nothing left to deliver, a
\* finished job keeps its outcome and, while a turn delivers it, its record; a host
\* with automatic delivery keeps the record until it was acknowledged.
THEOREM CompletionsAreKept == Spec => CompletionsKept
  <1> DEFINE A == \A j \in DOMAIN svc.job : svc.job[j].state \in TaskTerminal =>
                    IF j \in DOMAIN svc'.job THEN svc'.job[j].state = svc.job[j].state
                    ELSE /\ ~svc.job[j].claimed
                         /\ \/ ~Unread(svc.job[j])
                            \/ \E k \in DOMAIN svc'.work :
                                 k = svc.job[j].task /\ svc'.work[k].state = "cancelled"
  <1>1. JobsInv => DeliveredOnce
    BY Zenon DEF JobsInv, DeliveredSound, SvcInv, Acked, DeliveredOnce
  <1>2. JobsInv /\ [Next]_vars => A
    BY NextSound, Zenon DEF Lasting
  <1>3. CompletionsKept <=> []DeliveredOnce /\ [][A]_vars
    BY Zenon DEF CompletionsKept
  <1> HIDE DEF A
  <1> QED
    BY <1>1, <1>2, <1>3, JobsInvariant, PTL DEF Spec

=============================================================================
