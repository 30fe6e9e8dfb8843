---------------------------- MODULE ApprovalsProof ----------------------------
(***************************************************************************)
(* ApprovalInv is inductive for any calls, sinks, policy and ceiling.  Of a *)
(* dispatch it says what its place promises about the gate and the decision *)
(* (FrameSound), of the broker that its counters and the ledger add up and  *)
(* that no identity has more grants than the ceiling (GrantsSound).         *)
(***************************************************************************)
EXTENDS Approvals, FiniteSetTheorems, SequenceTheorems, WellFoundedInduction, TLAPS

Kinds == {"proceed", "veto", "rewrite", "require_approval"}
Answer == [kind : Kinds, reason : BOOLEAN]

\* A record with the fields of a frame, of a grant.
Fields == {"pc", "runtime", "now", "since", "input", "token", "gates", "trace", "prompt", "asked",
           "path", "decision", "plan", "row"}
IsFrame(f) == f = [x \in Fields |-> f[x]]

IsGrant(e) ==
    /\ e = [expires_at |-> e.expires_at, remaining_uses |-> e.remaining_uses, sequence |-> e.sequence]
    /\ e.remaining_uses \in Nat /\ e.sequence \in Nat

\* The walk through the sinks of the gate: everybody before the last proceeded.
Walked(trace) ==
    /\ trace \in Seq(Answer)
    /\ \A i \in 1 .. Len(trace) - 1 : trace[i].kind = "proceed"

Escalated(f) == Len(f.trace) > 0 /\ f.trace[Len(f.trace)].kind = "require_approval"

\* The gate let the call pass.
Passed(f) ==
    LET n == Len(f.trace)
    IN /\ n = Len(f.gates) \/ (n > 0 /\ f.trace[n].kind # "proceed")
       /\ n > 0 => f.trace[n].kind # "veto"

NotDenied(f) == ~f.runtime => Policy[f.input].verdict # "deny" /\ f.path \in {"inside", "override"}
Allowed(f) == ~f.runtime => Policy[f.input].verdict = "allow" /\ ~Escalated(f) /\ f.path # "override"

\* What the place of a dispatch promises.
Promise(f) ==
    /\ f.pc \in {"lock", "ask"} => Passed(f)
    /\ f.pc = "ask" => f.decision \in Decisions /\ NotDenied(f)
    /\ f.pc \in {"audit", "run"} /\ f.plan # "refused" => Passed(f) /\ NotDenied(f)
    /\ f.pc \in {"audit", "run"} /\ f.plan = "allow" => Allowed(f)
    /\ f.pc = "run" => f.plan \in {"allow", "approved"} /\ f.row = [input |-> f.input, plan |-> f.plan]

FrameSound(f) ==
    /\ IsFrame(f)
    /\ f.runtime \in BOOLEAN /\ f.input \in Inputs
    /\ Walked(f.trace)
    /\ Promise(f)

\* The grants of an identity.
Held(g, key) == {o \in Key : o.identity = key.identity /\ g[o] # Unset}

Table(g) ==
    /\ g = [k \in Key |-> g[k]]
    /\ \A k \in Key : g[k] # Unset => IsGrant(g[k])

Ceiling(g) == \A k \in Key : IsFiniteSet(Held(g, k)) /\ Cardinality(Held(g, k)) <= MaxGrants

Balanced(g, l) ==
    \A k \in Key : /\ l[k].used <= l[k].granted
                   /\ g[k] # Unset => g[k].remaining_uses + l[k].used = l[k].granted

GrantsSound ==
    /\ Table(grants) /\ Ceiling(grants)
    /\ sequence \in Nat
    /\ ledger \in [Key -> [granted : Nat, used : Nat]]
    /\ Balanced(grants, ledger)

FramesSound ==
    /\ call = [c \in Calls |-> call[c]]
    /\ \A c \in Calls : FrameSound(call[c])

\* The inductive invariant.
ApprovalInv == FramesSound /\ GrantsSound

-----------------------------------------------------------------------------
\* The table of grants.

LEMMA LeastNat ==
  ASSUME NEW T \in SUBSET Nat, T # {}
  PROVE  \E n \in T : \A m \in T : n <= m
  <1> DEFINE R == OpToRel(<, Nat)
  <1>1. IsWellFoundedOn(R, Nat)
    BY NatLessThanWellFounded, Zenon
  <1> HIDE DEF R
  <1>2. PICK n \in T : \A m \in T : ~(<<m, n>> \in R)
    BY <1>1, WFMin, Zenon
  <1>3. \A m \in T : ~(m < n)
    BY <1>2, Zenon DEF R, OpToRel
  <1> QED
    BY <1>3

\* reap_expired only removes grants.
LEMMA ReapedTable ==
  ASSUME NEW g, Table(g), Ceiling(g), NEW now
  PROVE  /\ Table(Reaped(g, now)) /\ Ceiling(Reaped(g, now))
         /\ \A k \in Key : Reaped(g, now)[k] \in {g[k], Unset}
  <1> DEFINE r == Reaped(g, now)
  <1>1. r = [k \in Key |-> r[k]] /\ \A k \in Key : r[k] \in {g[k], Unset}
    BY Zenon DEF Reaped
  <1>2. Table(r)
    BY <1>1, Zenon DEF Table
  <1>3. ASSUME NEW k \in Key PROVE IsFiniteSet(Held(r, k)) /\ Cardinality(Held(r, k)) <= MaxGrants
    <2>1. Held(r, k) \in SUBSET Held(g, k)
      BY <1>1, Zenon DEF Held
    <2>2. IsFiniteSet(Held(g, k)) /\ Cardinality(Held(g, k)) <= MaxGrants
      BY Zenon DEF Ceiling
    <2>3. IsFiniteSet(Held(r, k)) /\ Cardinality(Held(r, k)) <= Cardinality(Held(g, k))
      BY <2>1, <2>2, FS_Subset, Zenon
    <2> QED
      BY <2>2, <2>3, FS_CardinalityType, ApprovalConstants
  <1> QED
    BY <1>1, <1>2, <1>3, Zenon DEF Ceiling

\* The oldest other grant exists, and is one of the others.
LEMMA OldestIsOther ==
  ASSUME NEW g, Table(g), NEW others \in SUBSET Key, others # {}, \A k \in others : g[k] # Unset
  PROVE  (CHOOSE k \in others : \A o \in others : g[k].sequence <= g[o].sequence) \in others
  <1> DEFINE T == {g[k].sequence : k \in others}
  <1>1. T \in SUBSET Nat /\ T # {}
    BY Zenon DEF Table, IsGrant
  <1> HIDE DEF T
  <1>2. PICK n \in T : \A m \in T : n <= m
    BY <1>1, LeastNat, Zenon
  <1>3. \E k \in others : \A o \in others : g[k].sequence <= g[o].sequence
    BY <1>2, Zenon DEF T
  <1> QED
    BY <1>3, Zenon

\* approve: at most one grant makes room, and the ceiling holds with the new one.
LEMMA CeilingHolds ==
  ASSUME NEW g, Table(g), Ceiling(g), NEW key \in Key, NEW e, IsGrant(e)
  PROVE  LET h == [WithinCeiling(g, key) EXCEPT ![key] = e]
         IN /\ Table(h) /\ Ceiling(h)
            /\ h[key] = e
            /\ \A k \in Key \ {key} : h[k] \in {g[k], Unset}
  <1> DEFINE others == {k \in Key \ {key} : g[k] # Unset /\ k.identity = key.identity}
             oldest == CHOOSE k \in others : \A o \in others : g[k].sequence <= g[o].sequence
             w == WithinCeiling(g, key)
             h == [w EXCEPT ![key] = e]
  <1>1. w = IF Cardinality(others) >= MaxGrants THEN [g EXCEPT ![oldest] = Unset] ELSE g
    BY Zenon DEF WithinCeiling
  <1>2. others = Held(g, key) \ {key}
    BY Zenon DEF Held
  <1>3. IsFiniteSet(others) /\ Cardinality(others) \in Nat /\ Cardinality(others) <= MaxGrants
    <2>1. IsFiniteSet(Held(g, key)) /\ Cardinality(Held(g, key)) <= MaxGrants
      BY Zenon DEF Ceiling
    <2>2. others \in SUBSET Held(g, key)
      BY <1>2, Zenon
    <2>3. IsFiniteSet(others) /\ Cardinality(others) <= Cardinality(Held(g, key))
      BY <2>1, <2>2, FS_Subset, Zenon
    <2> QED
      BY <2>1, <2>3, FS_CardinalityType, ApprovalConstants
  <1>4. Cardinality(others) >= MaxGrants => oldest \in others
    <2>1. others \in SUBSET Key /\ \A k \in others : g[k] # Unset
      BY Zenon
    <2>2. Cardinality(others) >= MaxGrants => others # {}
      BY <1>3, FS_EmptySet, ApprovalConstants
    <2> HIDE DEF others
    <2> QED
      BY <2>1, <2>2, OldestIsOther, Zenon
  <1>5. /\ w = [k \in Key |-> w[k]]
        /\ \A k \in Key : w[k] = IF Cardinality(others) >= MaxGrants /\ k = oldest THEN Unset ELSE g[k]
    <2> HIDE DEF others, oldest, w
    <2> QED
      BY <1>1, Zenon DEF Table
  <1> HIDE DEF w
  <1>6. /\ h = [k \in Key |-> h[k]] /\ h[key] = e
        /\ \A k \in Key \ {key} : h[k] = w[k] /\ h[k] \in {g[k], Unset}
    BY <1>5, Zenon
  <1> HIDE DEF h
  <1>7. Table(h)
    BY <1>6, Zenon DEF Table
  <1>8. IsFiniteSet(Held(h, key)) /\ Cardinality(Held(h, key)) <= MaxGrants
    <2> DEFINE rest == IF Cardinality(others) >= MaxGrants THEN others \ {oldest} ELSE others
    <2>1. IsFiniteSet(rest) /\ Cardinality(rest) \in Nat /\ Cardinality(rest) + 1 <= MaxGrants
      <3> HIDE DEF others, oldest
      <3>1. CASE Cardinality(others) >= MaxGrants
        <4>1. /\ IsFiniteSet(others \ {oldest})
              /\ Cardinality(others \ {oldest}) = Cardinality(others) - 1
          BY <1>3, <1>4, <3>1, FS_RemoveElement, Zenon
        <4>2. Cardinality(others \ {oldest}) \in Nat
          BY <4>1, FS_CardinalityType, Zenon
        <4> QED
          BY <1>3, <3>1, <4>1, <4>2, ApprovalConstants, SMTT(30)
      <3>2. CASE ~(Cardinality(others) >= MaxGrants)
        BY <1>3, <3>2, ApprovalConstants
      <3> QED
        BY <3>1, <3>2, Zenon
    <2>2. key \notin rest /\ Held(h, key) \in SUBSET (rest \cup {key})
      BY <1>2, <1>5, <1>6, Zenon DEF Held
    <2> HIDE DEF rest
    <2>3. IsFiniteSet(rest \cup {key}) /\ Cardinality(rest \cup {key}) = Cardinality(rest) + 1
      BY <2>1, <2>2, FS_AddElement, Zenon
    <2>4. IsFiniteSet(Held(h, key)) /\ Cardinality(Held(h, key)) <= Cardinality(rest \cup {key})
      BY <2>2, <2>3, FS_Subset, Zenon
    <2> QED
      BY <2>1, <2>3, <2>4, FS_CardinalityType, ApprovalConstants, SMTT(30)
  <1>9. ASSUME NEW k \in Key PROVE IsFiniteSet(Held(h, k)) /\ Cardinality(Held(h, k)) <= MaxGrants
    <2>1. CASE k.identity = key.identity
      BY <1>8, <2>1, Zenon DEF Held
    <2>2. CASE k.identity # key.identity
      <3>1. Held(h, k) \in SUBSET Held(g, k)
        BY <1>6, <2>2, Zenon DEF Held
      <3>2. IsFiniteSet(Held(g, k)) /\ Cardinality(Held(g, k)) <= MaxGrants
        BY Zenon DEF Ceiling
      <3>3. IsFiniteSet(Held(h, k)) /\ Cardinality(Held(h, k)) <= Cardinality(Held(g, k))
        BY <3>1, <3>2, FS_Subset, Zenon
      <3> QED
        BY <3>2, <3>3, FS_CardinalityType, ApprovalConstants, SMTT(30)
    <2> QED
      BY <2>1, <2>2, Zenon
  <1> QED
    BY <1>6, <1>7, <1>9, Zenon DEF Ceiling, h, w

\* A use is charged to a grant that has one left.
LEMMA ChargedTable ==
  ASSUME NEW g, Table(g), Ceiling(g), NEW key \in Key, g[key] # Unset, g[key].remaining_uses > 0
  PROVE  LET h == Charged(g, key)
         IN /\ Table(h) /\ Ceiling(h)
            /\ h[key].remaining_uses = g[key].remaining_uses - 1
            /\ \A k \in Key \ {key} : h[k] = g[k]
  <1> DEFINE h == Charged(g, key)
             e == [g[key] EXCEPT !.remaining_uses = @ - 1]
  <1>1. h = [g EXCEPT ![key] = e]
    BY Zenon DEF Charged
  <1>2. IsGrant(g[key])
    BY Zenon DEF Table
  <1>3. IsGrant(e) /\ e.remaining_uses = g[key].remaining_uses - 1
    BY <1>2 DEF IsGrant
  <1> HIDE DEF e
  <1>4. h = [k \in Key |-> h[k]] /\ h[key] = e /\ \A k \in Key \ {key} : h[k] = g[k]
    <2> HIDE DEF h
    <2> QED
      BY <1>1, Zenon DEF Table
  <1> HIDE DEF h
  <1>5. Table(h)
    BY <1>3, <1>4, Zenon DEF Table
  <1>6. ASSUME NEW k \in Key PROVE IsFiniteSet(Held(h, k)) /\ Cardinality(Held(h, k)) <= MaxGrants
    <2>1. Held(h, k) \in SUBSET Held(g, k)
      BY <1>4, Zenon DEF Held
    <2>2. IsFiniteSet(Held(g, k)) /\ Cardinality(Held(g, k)) <= MaxGrants
      BY Zenon DEF Ceiling
    <2>3. IsFiniteSet(Held(h, k)) /\ Cardinality(Held(h, k)) <= Cardinality(Held(g, k))
      BY <2>1, <2>2, FS_Subset, Zenon
    <2> QED
      BY <2>2, <2>3, FS_CardinalityType, ApprovalConstants, SMTT(30)
  <1> QED
    BY <1>3, <1>4, <1>5, <1>6, Zenon DEF Ceiling, h

-----------------------------------------------------------------------------
\* The frames.

\* What an action that changes one frame has to show.
LEMMA OneFrame ==
  ASSUME FramesSound, NEW c \in Calls, NEW f, FrameSound(f), Frame(c, f)
  PROVE  FramesSound'
  BY Zenon DEF FramesSound, Frame

LEMMA IdleSound ==
  ASSUME NEW c \in Calls, NEW p \in {"idle", "done"}
  PROVE  FrameSound([Idle(c) EXCEPT !.pc = p])
  <1> DEFINE f == [Idle(c) EXCEPT !.pc = p]
  <1>1. IsFrame(Idle(c))
    BY Zenon DEF Idle, IsFrame, Fields
  <1>2. IsFrame(f)
    BY <1>1, Zenon DEF IsFrame
  <1>3. f.pc = p /\ f.runtime = FALSE /\ f.input = Requested[c] /\ f.trace = <<>>
    BY Zenon DEF Idle
  <1> HIDE DEF f
  <1>4. Walked(f.trace)
    BY <1>3 DEF Walked
  <1>5. Promise(f)
    BY <1>3, Zenon DEF Promise
  <1>6. FrameSound(f)
    BY <1>2, <1>3, <1>4, <1>5, ApprovalConstants, ZenonT(30) DEF FrameSound
  <1> QED
    BY <1>6, Zenon DEF f

\* The decided call keeps what the gate said of it.
LEMMA PlannedSound ==
  ASSUME NEW f, IsFrame(f), f.runtime \in BOOLEAN, f.input \in Inputs, Walked(f.trace), NEW plan,
         plan # "refused" => Passed(f) /\ NotDenied(f),
         plan = "allow" => Allowed(f)
  PROVE  FrameSound(Planned(f, plan))
  <1> DEFINE p == Planned(f, plan)
  <1>1. /\ IsFrame(p) /\ p.pc = "audit" /\ p.plan = plan
        /\ p.runtime = f.runtime /\ p.input = f.input /\ p.trace = f.trace /\ p.gates = f.gates
        /\ p.path = f.path
    BY Zenon DEF Planned, IsFrame, Fields
  <1> HIDE DEF p
  <1>2. Promise(p)
    BY <1>1, Zenon DEF Promise, Passed, NotDenied, Allowed, Escalated
  <1>3. FrameSound(p)
    BY <1>1, <1>2, Zenon DEF FrameSound
  <1> QED
    BY <1>3, Zenon DEF p

LEMMA EndedSound ==
  ASSUME FramesSound, NEW c \in Calls, Ended(c)
  PROVE  FramesSound'
  BY IdleSound, OneFrame, Zenon DEF Ended

LEMMA DispatchSound ==
  ASSUME FramesSound, NEW c \in Calls, Dispatch(c)
  PROVE  FramesSound'
  <1>1. PICK runtime \in BOOLEAN, token \in tokens \cup {Unset} :
          Frame(c, [call[c] EXCEPT !.pc = "gate", !.runtime = runtime, !.now = clock, !.token = token,
                                   !.gates = Gates("tool_before")])
    BY Zenon DEF Dispatch
  <1> DEFINE f == [call[c] EXCEPT !.pc = "gate", !.runtime = runtime, !.now = clock, !.token = token,
                                  !.gates = Gates("tool_before")]
  <1>2. FrameSound(call[c])
    BY Zenon DEF FramesSound
  <1>3. /\ IsFrame(f) /\ f.pc = "gate" /\ f.runtime = runtime
        /\ f.input = call[c].input /\ f.trace = call[c].trace
    BY <1>2, Zenon DEF FrameSound, IsFrame, Fields
  <1>4. Frame(c, f)
    BY <1>1, Zenon
  <1> HIDE DEF f
  <1>5. FrameSound(f)
    BY <1>2, <1>3, Zenon DEF FrameSound, Promise
  <1> QED
    BY <1>4, <1>5, OneFrame, Zenon

\* A sink answers only while all before it proceeded.
LEMMA WalkedOn ==
  ASSUME NEW trace, Walked(trace), NEW a \in Answer,
         trace # <<>> => Last(trace).kind = "proceed"
  PROVE  Walked(Append(trace, a))
  <1> DEFINE t == Append(trace, a)
  <1>1. /\ trace \in Seq(Answer) /\ Len(trace) \in Nat
        /\ t \in Seq(Answer) /\ Len(t) = Len(trace) + 1
        /\ \A i \in 1 .. Len(trace) : t[i] = trace[i]
    BY AppendProperties, LenProperties DEF Walked
  <1>2. Len(trace) > 0 => trace[Len(trace)].kind = "proceed"
    BY <1>1, EmptySeq DEF Last
  <1>3. ASSUME NEW i \in 1 .. Len(trace) PROVE trace[i].kind = "proceed"
    BY <1>1, <1>2 DEF Walked
  <1> HIDE DEF t
  <1>4. Walked(t)
    BY <1>1, <1>3 DEF Walked
  <1> QED
    BY <1>4, Zenon DEF t

LEMMA AnswersTyped ==
  ASSUME NEW reasons \in SUBSET BOOLEAN, NEW a \in Answers(reasons)
  PROVE  a \in Answer
  <1>1. CASE a \in {[kind |-> k, reason |-> FALSE] : k \in {"veto", "rewrite", "require_approval"}}
    <2>1. PICK k \in {"veto", "rewrite", "require_approval"} : a = [kind |-> k, reason |-> FALSE]
      BY <1>1, Zenon
    <2> QED
      BY <2>1, Zenon DEF Answer, Kinds
  <1>2. CASE a \in {[kind |-> "proceed", reason |-> r] : r \in reasons}
    <2>1. PICK r \in reasons : a = [kind |-> "proceed", reason |-> r]
      BY <1>2, Zenon
    <2> QED
      BY <2>1, Zenon DEF Answer, Kinds
  <1> QED
    BY <1>1, <1>2, Zenon DEF Answers

LEMMA GateSound ==
  ASSUME FramesSound, NEW c \in Calls, Gate(c)
  PROVE  FramesSound'
  <1>1. PICK a \in Answers({FALSE}) : Frame(c, [call[c] EXCEPT !.trace = Append(call[c].trace, a)])
    BY Zenon DEF Gate
  <1> DEFINE f == [call[c] EXCEPT !.trace = Append(call[c].trace, a)]
  <1>2. FrameSound(call[c]) /\ call[c].pc = "gate" /\ ~Settled(call[c].gates, call[c].trace)
    BY Zenon DEF FramesSound, Gate
  <1>3. a \in Answer
    BY AnswersTyped, Zenon
  <1>4. Walked(Append(call[c].trace, a))
    BY <1>2, <1>3, WalkedOn, Zenon DEF FrameSound, Settled
  <1>5. /\ IsFrame(f) /\ f.pc = "gate" /\ f.runtime = call[c].runtime /\ f.input = call[c].input
        /\ f.trace = Append(call[c].trace, a)
    BY <1>2, Zenon DEF FrameSound, IsFrame, Fields
  <1>6. Frame(c, f)
    BY <1>1, Zenon
  <1> HIDE DEF f
  <1>7. FrameSound(f)
    BY <1>2, <1>4, <1>5, Zenon DEF FrameSound, Promise
  <1> QED
    BY <1>6, <1>7, OneFrame, Zenon

\* A call that the gate blocks is refused; the others pass with their final input.
LEMMA PrepareSound ==
  ASSUME FramesSound, NEW c \in Calls, Prepare(c)
  PROVE  FramesSound'
  <1> DEFINE f == call[c]
             kind == IF f.trace = <<>> THEN "proceed" ELSE Last(f.trace).kind
  <1>1. FrameSound(f) /\ f.pc = "gate" /\ Settled(f.gates, f.trace)
    BY Zenon DEF FramesSound, Prepare
  <1>2. PICK input \in (IF kind = "rewrite" THEN Inputs \cup {Unset} ELSE {f.input}), prepared \in BOOLEAN :
          LET blocked == \/ kind = "veto" \/ input = Unset
                         \/ kind = "require_approval" /\ f.runtime
          IN Frame(c, IF blocked \/ ~prepared
                      THEN Planned(f, "refused")
                      ELSE [f EXCEPT !.pc = "lock", !.input = input, !.since = clock])
    BY Zenon DEF Prepare
  <1>3. FrameSound(Planned(f, "refused"))
    BY <1>1, PlannedSound, Zenon DEF FrameSound
  <1>4. ASSUME kind # "veto", input # Unset
        PROVE  FrameSound([f EXCEPT !.pc = "lock", !.input = input, !.since = clock])
    <2> DEFINE g == [f EXCEPT !.pc = "lock", !.input = input, !.since = clock]
    <2>1. /\ IsFrame(g) /\ g.pc = "lock" /\ g.runtime = f.runtime /\ g.input = input
          /\ g.trace = f.trace /\ g.gates = f.gates
      BY <1>1, ZenonT(30) DEF FrameSound, IsFrame, Fields
    <2>2. input \in Inputs
      BY <1>1, <1>2, <1>4, SMTT(30) DEF FrameSound
    <2>3. Passed(g)
      <3>1. f.trace \in Seq(Answer) /\ Len(f.trace) \in Nat /\ (f.trace = <<>> <=> Len(f.trace) = 0)
        BY <1>1, LenProperties, EmptySeq, Zenon DEF FrameSound, Walked
      <3>2. f.trace # <<>> => kind = f.trace[Len(f.trace)].kind
        BY Zenon DEF Last
      <3>3. Len(f.trace) = Len(f.gates) \/ (f.trace # <<>> /\ kind # "proceed")
        BY <1>1, Zenon DEF Settled
      <3> HIDE DEF f, g, kind
      <3> QED
        BY <1>4, <2>1, <3>1, <3>2, <3>3, SMTT(30) DEF Passed
    <2> HIDE DEF g
    <2>4. FrameSound(g)
      BY <1>1, <2>1, <2>2, <2>3, ZenonT(30) DEF FrameSound, Promise
    <2> QED
      BY <2>4, Zenon DEF g
  <1>5. \E g : FrameSound(g) /\ Frame(c, g)
    <2> HIDE DEF f, kind
    <2> QED
      BY <1>2, <1>3, <1>4, Zenon
  <1> QED
    BY <1>5, OneFrame, Zenon

\* What the policies and the escalations make of each other.
LEMMA DecisionFacts ==
  ASSUME FramesSound, NEW c \in Calls, NEW escalated \in BOOLEAN, NEW override \in BOOLEAN
  PROVE  LET d == Decision(c, escalated, override)
         IN /\ d \in Decisions
            /\ d.verdict # "deny" => Evaluated(c).verdict # "deny"
            /\ d.verdict = "allow" => Evaluated(c).verdict = "allow" /\ ~escalated /\ ~override
  <1>1. Evaluated(c) \in Decisions
    <2>1. call[c].input \in Inputs
      BY Zenon DEF FramesSound, FrameSound
    <2>2. Policy[call[c].input] \in Decisions
      BY <2>1, ApprovalConstants, Zenon
    <2>3. [verdict |-> "allow", reason |-> 0, replay_max |-> DefaultReplays, approval_ttl |-> DefaultTtl]
            \in Decisions
      BY ApprovalConstants, Zenon DEF Decisions, Verdicts
    <2> QED
      BY <2>2, <2>3, Zenon DEF Evaluated
  <1> DEFINE e == Evaluated(c)
             hooked == IF escalated THEN require_approval_decision(e) ELSE e
  <1> HIDE DEF e
  <1>2. /\ hooked \in Decisions
        /\ hooked.verdict # "deny" => e.verdict # "deny"
        /\ hooked.verdict = "allow" => e.verdict = "allow" /\ ~escalated
    BY <1>1, Zenon DEF e, require_approval_decision, Decisions, Verdicts
  <1> HIDE DEF hooked
  <1> DEFINE d == IF override THEN require_workspace_override_approval(hooked) ELSE hooked
  <1>3. /\ d \in Decisions
        /\ d.verdict # "deny" => hooked.verdict # "deny"
        /\ d.verdict = "allow" => hooked.verdict = "allow" /\ ~override
    BY <1>2, Zenon DEF require_workspace_override_approval, Decisions, Verdicts
  <1>4. d = Decision(c, escalated, override)
    BY Zenon DEF d, hooked, e, Decision
  <1> HIDE DEF d
  <1> QED
    BY <1>2, <1>3, <1>4, Zenon DEF e

-----------------------------------------------------------------------------
\* check_token and the steps that use it.

LEMMA KeyTyped ==
  ASSUME FramesSound, NEW c \in Calls
  PROVE  KeyOf(c) \in Key
  BY Zenon DEF FramesSound, FrameSound, KeyOf, Key

\* check on a table g for whose key the ledger l balances: a use that is accepted
\* is charged to both.
LEMMA CheckSound ==
  ASSUME FramesSound, NEW c \in Calls, NEW f, NEW g, NEW token, Check(c, f, g, token),
         IsFrame(f), f.runtime \in BOOLEAN, f.input \in Inputs, Walked(f.trace), Passed(f), NotDenied(f),
         Table(g), Ceiling(g), NEW l \in [Key -> [granted : Nat, used : Nat]], Balanced(g, l)
  PROVE  LET spent == IF call'[c].plan = "approved" THEN [l EXCEPT ![KeyOf(c)].used = @ + 1] ELSE l
         IN /\ FramesSound' /\ Table(grants') /\ Ceiling(grants')
            /\ spent \in [Key -> [granted : Nat, used : Nat]] /\ Balanced(grants', spent)
  <1> DEFINE key == KeyOf(c)
             spent == IF call'[c].plan = "approved" THEN [l EXCEPT ![key].used = @ + 1] ELSE l
  <1>1. key \in Key
    BY KeyTyped, Zenon
  <1>2. \A plan : plan \in {"approved", "refused"} => FrameSound(Planned(f, plan)) /\ Planned(f, plan).plan = plan
    <2>1. ASSUME NEW plan \in {"approved", "refused"}
          PROVE  FrameSound(Planned(f, plan)) /\ Planned(f, plan).plan = plan
      <3>1. FrameSound(Planned(f, plan))
        BY PlannedSound, Zenon
      <3>2. Planned(f, plan).plan = plan
        BY Zenon DEF Planned, IsFrame, Fields
      <3> QED
        BY <3>1, <3>2, Zenon
    <2> QED
      BY <2>1, Zenon
  <1>3. CASE Honoured(g, token, key, f.now)
    <2>1. Frame(c, Planned(f, "approved")) /\ grants' = Charged(g, key)
      BY <1>3, Zenon DEF Check
    <2>2. FramesSound' /\ call'[c].plan = "approved"
      BY <1>2, <2>1, OneFrame, Zenon DEF Frame, FramesSound
    <2>3. g[key] # Unset /\ g[key].remaining_uses > 0
      BY <1>3, Zenon DEF Honoured
    <2>4. /\ Table(grants') /\ Ceiling(grants')
          /\ grants'[key].remaining_uses = g[key].remaining_uses - 1
          /\ \A k \in Key \ {key} : grants'[k] = g[k]
      BY <1>1, <2>1, <2>3, ChargedTable, ZenonT(30)
    <2>5. /\ spent \in [Key -> [granted : Nat, used : Nat]]
          /\ spent[key].used = l[key].used + 1 /\ spent[key].granted = l[key].granted
          /\ \A k \in Key \ {key} : spent[k] = l[k]
      BY <1>1, <2>2
    <2>6. ASSUME NEW k \in Key
          PROVE  /\ spent[k].used <= spent[k].granted
                 /\ grants'[k] # Unset => grants'[k].remaining_uses + spent[k].used = spent[k].granted
      <3> HIDE DEF spent, key
      <3>1. CASE k = key
        <4>1. g[key].remaining_uses \in Nat /\ l[key].used \in Nat /\ l[key].granted \in Nat
          BY <1>1, <2>3, Zenon DEF Table, IsGrant
        <4>2. g[key].remaining_uses + l[key].used = l[key].granted
          BY <1>1, <2>3, Zenon DEF Balanced
        <4> QED
          BY <2>3, <2>4, <2>5, <3>1, <4>1, <4>2, SMTT(30)
      <3>2. CASE k # key
        BY <2>4, <2>5, <3>2, ZenonT(30) DEF Balanced
      <3> QED
        BY <3>1, <3>2, Zenon
    <2> HIDE DEF spent
    <2> QED
      BY <2>2, <2>4, <2>5, <2>6, ZenonT(30) DEF Balanced, spent, key
  <1>4. CASE ~Honoured(g, token, key, f.now)
    <2>1. Frame(c, Planned(f, "refused")) /\ grants' = g
      BY <1>4, Zenon DEF Check
    <2>2. FramesSound' /\ call'[c].plan = "refused"
      BY <1>2, <2>1, OneFrame, Zenon DEF Frame, FramesSound
    <2> QED
      BY <2>1, <2>2, Zenon
  <1> QED
    BY <1>3, <1>4, Zenon

LEMMA DecideSound ==
  ASSUME ApprovalInv, NEW c \in Calls, Decide(c)
  PROVE  ApprovalInv'
  <1> DEFINE f == call[c]
             escalated == f.trace # <<>> /\ Last(f.trace).kind = "require_approval"
  <1>1. FramesSound /\ GrantsSound /\ FrameSound(f) /\ f.pc = "lock"
    BY Zenon DEF ApprovalInv, FramesSound, Decide
  <1>2. PICK path \in (IF f.runtime THEN {"inside"} ELSE {"inside", "override", "error"}) :
          Decided(c, [f EXCEPT !.now = Now(c), !.since = 0, !.path = path,
                               !.decision = Decision(c, escalated, path = "override")])
    BY Zenon DEF Decide
  <1>3. UNCHANGED sequence
    BY Zenon DEF Decide
  <1> DEFINE d == Decision(c, escalated, path = "override")
             g == [f EXCEPT !.now = Now(c), !.since = 0, !.path = path, !.decision = d]
  <1>4. /\ IsFrame(g) /\ g.runtime = f.runtime /\ g.input = f.input /\ g.trace = f.trace
        /\ g.gates = f.gates /\ g.path = path /\ g.decision = d /\ g.token = f.token
    BY <1>1, Zenon DEF FrameSound, IsFrame, Fields
  <1>5. Decided(c, g)
    BY <1>2, Zenon
  <1>6. /\ d \in Decisions
        /\ d.verdict # "deny" => Evaluated(c).verdict # "deny"
        /\ d.verdict = "allow" => Evaluated(c).verdict = "allow" /\ ~escalated /\ path # "override"
    BY <1>1, DecisionFacts, Zenon
  <1>7. /\ ~f.runtime => Evaluated(c) = Policy[f.input]
        /\ path # "error" => path \in {"inside", "override"}
    BY Zenon DEF Evaluated
  <1>8. Escalated(f) => escalated
    <2>1. f.trace \in Seq(Answer)
      BY <1>1, Zenon DEF FrameSound, Walked
    <2> QED
      BY <2>1, EmptySeq DEF Escalated, Last
  <1>9. g.runtime \in BOOLEAN /\ g.input \in Inputs /\ Walked(g.trace) /\ Passed(g)
    BY <1>1, <1>4, Zenon DEF FrameSound, Promise, Passed
  <1>10. path # "error" /\ d.verdict # "deny" => NotDenied(g)
    <2> HIDE DEF f, g, d
    <2> QED
      BY <1>4, <1>6, <1>7, Zenon DEF NotDenied
  <1>11. d.verdict = "allow" => Allowed(g)
    <2>1. Escalated(g) <=> Escalated(f)
      BY <1>4, Zenon DEF Escalated
    <2> HIDE DEF f, g, d, escalated
    <2> QED
      BY <1>4, <1>6, <1>7, <1>8, <2>1, ZenonT(30) DEF Allowed
  <1> HIDE DEF f, g, d, escalated
  <1>12. ASSUME NEW plan, Frame(c, Planned(g, plan)), UNCHANGED <<grants, ledger>>,
                plan # "refused" => path # "error" /\ d.verdict # "deny", plan = "allow" => d.verdict = "allow"
         PROVE  ApprovalInv'
    <2>1. FrameSound(Planned(g, plan))
      BY <1>4, <1>9, <1>10, <1>11, <1>12, PlannedSound, ZenonT(30)
    <2>2. FramesSound'
      BY <1>1, <1>12, <2>1, OneFrame, ZenonT(30)
    <2> QED
      BY <1>1, <1>3, <1>12, <2>2, ZenonT(30) DEF ApprovalInv, GrantsSound
  <1>13. CASE path = "error" \/ d.verdict = "deny"
    BY <1>4, <1>5, <1>12, <1>13, ZenonT(30) DEF Decided
  <1>14. CASE path # "error" /\ d.verdict = "allow"
    BY <1>4, <1>5, <1>12, <1>14, ZenonT(30) DEF Decided
  <1>15. CASE path # "error" /\ d.verdict \notin {"deny", "allow"} /\ f.token # Unset
    <2>1. Check(c, g, grants, g.token) /\ ledger' = Spent(c)
      BY <1>4, <1>5, <1>15, ZenonT(30) DEF Decided
    <2>2. NotDenied(g)
      BY <1>10, <1>15
    <2>3. /\ FramesSound' /\ Table(grants') /\ Ceiling(grants')
          /\ ledger' \in [Key -> [granted : Nat, used : Nat]] /\ Balanced(grants', ledger')
      BY <1>1, <1>4, <1>9, <2>1, <2>2, CheckSound, ZenonT(30) DEF Spent, GrantsSound
    <2> QED
      BY <1>1, <1>3, <2>3, ZenonT(30) DEF ApprovalInv, GrantsSound
  <1>16. CASE path # "error" /\ d.verdict \notin {"deny", "allow"} /\ f.token = Unset
    <2>1. CASE Gates("permission_ask_rendered") = <<>>
      <3>1. Frame(c, Planned(g, "refused")) /\ UNCHANGED <<grants, ledger>>
        BY <1>4, <1>5, <1>16, <2>1, SMTT(30) DEF Decided
      <3> QED
        BY <1>12, <3>1
    <2>2. CASE Gates("permission_ask_rendered") # <<>>
      <3> DEFINE a == [g EXCEPT !.pc = "ask", !.prompt = Gates("permission_ask_rendered")]
      <3>1. Frame(c, a) /\ UNCHANGED <<grants, ledger>>
        BY <1>4, <1>5, <1>16, <2>2, SMTT(30) DEF Decided
      <3>2. /\ IsFrame(a) /\ a.pc = "ask" /\ a.runtime = g.runtime /\ a.input = g.input /\ a.trace = g.trace
            /\ a.gates = g.gates /\ a.path = g.path /\ a.decision = d
        BY <1>4, ZenonT(30) DEF IsFrame, Fields
      <3> HIDE DEF a
      <3>3. Passed(a) /\ NotDenied(a)
        BY <1>9, <1>10, <1>16, <3>2, SMTT(30) DEF Passed, NotDenied
      <3>4. FrameSound(a)
        BY <1>6, <1>9, <3>2, <3>3, ZenonT(30) DEF FrameSound, Promise
      <3>5. FramesSound'
        BY <1>1, <3>1, <3>4, OneFrame, SMTT(30)
      <3> QED
        BY <1>1, <1>3, <3>1, <3>5, SMTT(30) DEF ApprovalInv, GrantsSound
    <2> QED
      BY <2>1, <2>2
  <1> QED
    BY <1>13, <1>14, <1>15, <1>16, ZenonT(30)

LEMMA AskSound ==
  ASSUME FramesSound, NEW c \in Calls, Ask(c)
  PROVE  FramesSound'
  <1>1. PICK a \in Answers(BOOLEAN) : Frame(c, [call[c] EXCEPT !.asked = Append(call[c].asked, a)])
    BY Zenon DEF Ask
  <1> DEFINE f == [call[c] EXCEPT !.asked = Append(call[c].asked, a)]
  <1>2. FrameSound(call[c])
    BY Zenon DEF FramesSound
  <1>3. IsFrame(f) /\ \A x \in Fields \ {"asked"} : f[x] = call[c][x]
    BY <1>2, Zenon DEF FrameSound, IsFrame, Fields
  <1>4. Frame(c, f)
    BY <1>1, Zenon
  <1> HIDE DEF f
  <1>5. /\ f.pc = call[c].pc /\ f.runtime = call[c].runtime /\ f.input = call[c].input
        /\ f.trace = call[c].trace /\ f.gates = call[c].gates /\ f.decision = call[c].decision
        /\ f.plan = call[c].plan /\ f.row = call[c].row /\ f.path = call[c].path
    BY <1>3, Zenon DEF Fields
  <1>6. Promise(f)
    BY <1>2, <1>5, Zenon DEF FrameSound, Promise, Passed, NotDenied, Allowed, Escalated
  <1>7. FrameSound(f)
    BY <1>2, <1>3, <1>5, <1>6, SMTT(30) DEF FrameSound
  <1> QED
    BY <1>4, <1>7, OneFrame, Zenon

\* approve replaces the grant of the key, and with it the key's line of the ledger.
LEMMA ApprovedSound ==
  ASSUME GrantsSound, NEW key \in Key, NEW d \in Decisions, NEW now
  PROVE  LET g == Approved(key, d, now)
             l == [ledger EXCEPT ![key] = [granted |-> d.replay_max, used |-> 0]]
         IN /\ Table(g) /\ Ceiling(g)
            /\ l \in [Key -> [granted : Nat, used : Nat]] /\ Balanced(g, l)
  <1> DEFINE r == Reaped(grants, now)
             e == [expires_at |-> now + d.approval_ttl, remaining_uses |-> d.replay_max,
                   sequence |-> sequence]
             g == [WithinCeiling(r, key) EXCEPT ![key] = e]
             l == [ledger EXCEPT ![key] = [granted |-> d.replay_max, used |-> 0]]
  <1>1. Table(r) /\ Ceiling(r) /\ \A k \in Key : r[k] \in {grants[k], Unset}
    BY ReapedTable, Zenon DEF GrantsSound
  <1>2. d.replay_max \in Nat /\ IsGrant(e) /\ e.remaining_uses = d.replay_max
    BY Zenon DEF GrantsSound, Decisions, IsGrant
  <1> HIDE DEF r, e
  <1>3. /\ Table(g) /\ Ceiling(g) /\ g[key] = e
        /\ \A k \in Key \ {key} : g[k] \in {r[k], Unset}
    BY <1>1, <1>2, CeilingHolds, SMTT(30)
  <1>4. g = Approved(key, d, now)
    BY Zenon DEF Approved, r, e
  <1> HIDE DEF g
  <1>5. /\ l \in [Key -> [granted : Nat, used : Nat]]
        /\ l[key] = [granted |-> d.replay_max, used |-> 0]
        /\ \A k \in Key \ {key} : l[k] = ledger[k]
    BY <1>2, Zenon DEF GrantsSound
  <1> HIDE DEF l
  <1>6. ASSUME NEW k \in Key
        PROVE  /\ l[k].used <= l[k].granted
               /\ g[k] # Unset => g[k].remaining_uses + l[k].used = l[k].granted
    <2>1. CASE k = key
      BY <1>2, <1>3, <1>5, <2>1, SMTT(30)
    <2>2. CASE k # key
      <3>1. g[k] # Unset => g[k] = grants[k]
        BY <1>1, <1>3, <2>2, SMTT(30)
      <3> QED
        BY <1>5, <2>2, <3>1, ZenonT(30) DEF GrantsSound, Balanced
    <2> QED
      BY <2>1, <2>2, Zenon
  <1>7. Balanced(g, l)
    BY <1>6, Zenon DEF Balanced
  <1> QED
    BY <1>3, <1>4, <1>5, <1>7, SMTT(30) DEF l

LEMMA ResolveSound ==
  ASSUME ApprovalInv, NEW c \in Calls, Resolve(c)
  PROVE  ApprovalInv'
  <1> DEFINE f == call[c]
             key == KeyOf(c)
             token == issue(key, f.decision.approval_ttl, f.now)
             asked == Last(f.asked).kind = "proceed" /\ \E i \in DOMAIN f.asked : f.asked[i].reason
  <1>1. FramesSound /\ GrantsSound /\ FrameSound(f) /\ f.pc = "ask"
    BY Zenon DEF ApprovalInv, FramesSound, Resolve
  <1>2. key \in Key
    BY <1>1, KeyTyped, Zenon
  <1>3. f.decision \in Decisions /\ Passed(f) /\ NotDenied(f)
    BY <1>1, Zenon DEF FrameSound, Promise
  <1>4. CASE asked
    <2> DEFINE g == Approved(key, f.decision, f.now)
               l == [ledger EXCEPT ![key] = [granted |-> f.decision.replay_max, used |-> 0]]
               spent == IF call'[c].plan = "approved" THEN [l EXCEPT ![key].used = @ + 1] ELSE l
    <2>1. /\ Check(c, f, g, token)
          /\ sequence' = sequence + 1
          /\ ledger' = [ledger EXCEPT ![key] = [granted |-> f.decision.replay_max,
                                                used |-> IF call'[c].plan = "approved" THEN 1 ELSE 0]]
      BY <1>4, Zenon DEF Resolve
    <2>2. /\ Table(g) /\ Ceiling(g)
          /\ l \in [Key -> [granted : Nat, used : Nat]] /\ Balanced(g, l)
      BY <1>1, <1>2, <1>3, ApprovedSound, ZenonT(30)
    <2>3. ledger \in [Key -> [granted : Nat, used : Nat]]
      BY <1>1, Zenon DEF GrantsSound
    <2> HIDE DEF f, key, token, g
    <2>4. ledger' = spent
      <3>1. CASE call'[c].plan = "approved"
        <4>1. l[key] = [granted |-> f.decision.replay_max, used |-> 0]
          BY <1>2, <2>3, Zenon
        <4>2. spent = [l EXCEPT ![key] = [granted |-> f.decision.replay_max, used |-> 1]]
          BY <1>2, <2>3, <3>1, <4>1, SMTT(30)
        <4>3. spent = [ledger EXCEPT ![key] = [granted |-> f.decision.replay_max, used |-> 1]]
          BY <1>2, <2>3, <4>2, ZenonT(30)
        <4> HIDE DEF spent
        <4> QED
          BY <2>1, <3>1, <4>3, ZenonT(30)
      <3>2. CASE call'[c].plan # "approved"
        BY <2>1, <3>2, Zenon
      <3> QED
        BY <3>1, <3>2, Zenon
    <2> HIDE DEF l
    <2>5. /\ FramesSound' /\ Table(grants') /\ Ceiling(grants')
          /\ spent \in [Key -> [granted : Nat, used : Nat]] /\ Balanced(grants', spent)
      BY <1>1, <1>3, <2>1, <2>2, CheckSound, ZenonT(30) DEF FrameSound, key
    <2> HIDE DEF spent
    <2>6. sequence' \in Nat
      BY <1>1, <2>1 DEF GrantsSound
    <2> QED
      BY <2>4, <2>5, <2>6, SMTT(30) DEF ApprovalInv, GrantsSound
  <1>5. CASE ~asked
    <2>1. Frame(c, Planned(f, "refused")) /\ UNCHANGED <<grants, sequence, ledger>>
      BY <1>5, Zenon DEF Resolve
    <2>2. FrameSound(Planned(f, "refused"))
      BY <1>1, PlannedSound, Zenon DEF FrameSound
    <2>3. FramesSound'
      BY <1>1, <2>1, <2>2, OneFrame, ZenonT(30)
    <2> QED
      BY <1>1, <2>1, <2>3, Zenon DEF ApprovalInv, GrantsSound
  <1> QED
    BY <1>4, <1>5, Zenon

\* Only a call that was let through and recorded goes on to its handler.
LEMMA RecordSound ==
  ASSUME FramesSound, NEW c \in Calls, Record(c)
  PROVE  FramesSound'
  <1> DEFINE f == call[c]
             g == [f EXCEPT !.pc = "run", !.row = [input |-> f.input, plan |-> f.plan]]
  <1>1. FrameSound(f) /\ f.pc = "audit"
    BY Zenon DEF FramesSound, Record
  <1>2. Ended(c) \/ (f.plan \in {"allow", "approved"} /\ Frame(c, g))
    BY Zenon DEF Record
  <1>3. ASSUME f.plan \in {"allow", "approved"}, Frame(c, g) PROVE FramesSound'
    <2>1. /\ IsFrame(g) /\ g.pc = "run" /\ g.runtime = f.runtime /\ g.input = f.input /\ g.trace = f.trace
          /\ g.gates = f.gates /\ g.path = f.path /\ g.plan = f.plan
          /\ g.row = [input |-> g.input, plan |-> g.plan]
      BY <1>1, Zenon DEF FrameSound, IsFrame, Fields
    <2> HIDE DEF g
    <2>2. Promise(g)
      BY <1>1, <1>3, <2>1, ZenonT(30) DEF FrameSound, Promise, Passed, NotDenied, Allowed, Escalated
    <2>3. FrameSound(g)
      BY <1>1, <2>1, <2>2, ZenonT(30) DEF FrameSound
    <2> QED
      BY <1>3, <2>3, OneFrame, ZenonT(30)
  <1> HIDE DEF f, g
  <1> QED
    BY <1>2, <1>3, EndedSound, Zenon

-----------------------------------------------------------------------------
\* The theorems.

LEMMA InitSound == Init => ApprovalInv
  <1> SUFFICES ASSUME Init PROVE ApprovalInv
    BY Zenon
  <1>1. FramesSound
    <2>1. ASSUME NEW c \in Calls PROVE FrameSound(Idle(c))
      <3> DEFINE f == Idle(c)
      <3>1. IsFrame(f) /\ f.pc = "idle"
        BY Zenon DEF Idle, IsFrame, Fields
      <3> HIDE DEF f
      <3>2. [f EXCEPT !.pc = "idle"] = f
        BY <3>1, Zenon DEF IsFrame, Fields
      <3>3. FrameSound([Idle(c) EXCEPT !.pc = "idle"])
        BY IdleSound, Zenon
      <3> QED
        BY <3>2, <3>3, Zenon DEF f
    <2> QED
      BY <2>1, Zenon DEF Init, FramesSound
  <1>2. Table(grants)
    BY Zenon DEF Init, Table
  <1>3. ASSUME NEW k \in Key PROVE IsFiniteSet(Held(grants, k)) /\ Cardinality(Held(grants, k)) <= MaxGrants
    <2>1. Held(grants, k) = {}
      BY Zenon DEF Init, Held
    <2> QED
      BY <2>1, FS_EmptySet, ApprovalConstants, SMTT(30)
  <1>4. ledger \in [Key -> [granted : Nat, used : Nat]] /\ Balanced(grants, ledger)
    BY DEF Init, Balanced
  <1>5. sequence \in Nat
    BY Zenon DEF Init
  <1> QED
    BY <1>1, <1>2, <1>3, <1>4, <1>5, ZenonT(30) DEF ApprovalInv, GrantsSound, Ceiling

LEMMA StepSound == ApprovalInv /\ [Next]_vars => ApprovalInv'
  <1> SUFFICES ASSUME ApprovalInv, [Next]_vars PROVE ApprovalInv'
    BY Zenon
  <1>1. FramesSound /\ GrantsSound
    BY Zenon DEF ApprovalInv
  <1>2. ASSUME FramesSound', UNCHANGED <<grants, sequence, ledger>> PROVE ApprovalInv'
    BY <1>1, <1>2, Zenon DEF ApprovalInv, GrantsSound
  <1>3. ASSUME UNCHANGED call PROVE FramesSound'
    BY <1>1, <1>3, Zenon DEF FramesSound
  <1>4. CASE Tick \/ subscribe \/ UNCHANGED vars
    BY <1>2, <1>3, <1>4, ZenonT(30) DEF Tick, subscribe, vars
  <1>5. ASSUME NEW c \in Calls, Dispatch(c) PROVE ApprovalInv'
    BY <1>1, <1>2, <1>5, DispatchSound, ZenonT(30) DEF Dispatch
  <1>6. ASSUME NEW c \in Calls, Gate(c) PROVE ApprovalInv'
    BY <1>1, <1>2, <1>6, GateSound, ZenonT(30) DEF Gate
  <1>7. ASSUME NEW c \in Calls, Prepare(c) PROVE ApprovalInv'
    BY <1>1, <1>2, <1>7, PrepareSound, ZenonT(30) DEF Prepare
  <1>8. ASSUME NEW c \in Calls, Decide(c) PROVE ApprovalInv'
    BY <1>8, DecideSound, Zenon
  <1>9. ASSUME NEW c \in Calls, Ask(c) PROVE ApprovalInv'
    BY <1>1, <1>2, <1>9, AskSound, SMTT(30) DEF Ask
  <1>10. ASSUME NEW c \in Calls, Resolve(c) PROVE ApprovalInv'
    BY <1>10, ResolveSound, Zenon
  <1>11. ASSUME NEW c \in Calls, Record(c) PROVE ApprovalInv'
    BY <1>1, <1>2, <1>11, RecordSound, ZenonT(30) DEF Record
  <1>12. ASSUME NEW c \in Calls, HandlerEnds(c) PROVE ApprovalInv'
    BY <1>1, <1>2, <1>12, EndedSound, ZenonT(30) DEF HandlerEnds
  <1> QED
    BY <1>4, <1>5, <1>6, <1>7, <1>8, <1>9, <1>10, <1>11, <1>12, ZenonT(30) DEF Next

\* Registry::dispatch, the hook bus and the approval broker: at every suspension
\* point the frame of a dispatch carries what its place promises, and the broker's
\* counters add up, for any calls, sinks, policy and ceiling.
THEOREM ApprovalInvariant == Spec => []ApprovalInv
  BY InitSound, StepSound, PTL DEF Spec

\* What EffectsGated asks of the frame of a running handler.
Gated(f) ==
    LET n == Len(f.trace)
        verdict == Policy[f.input].verdict
    IN /\ \A i \in 1 .. n : f.trace[i].kind = "proceed" \/ (i = n /\ f.trace[i].kind # "veto")
       /\ n = Len(f.gates) \/ (n > 0 /\ f.trace[n].kind # "proceed")
       /\ ~f.runtime =>
            /\ verdict # "deny" /\ f.path \in {"inside", "override"}
            /\ \/ verdict = "ask" \/ f.path = "override"
               \/ n > 0 /\ f.trace[n].kind = "require_approval"
               => f.plan = "approved"
       /\ f.row = [input |-> f.input, plan |-> f.plan]

LEMMA RunningIsGated ==
  ASSUME NEW f, FrameSound(f), f.pc = "run"
  PROVE  Gated(f)
  <1>1. f.plan \in {"allow", "approved"} /\ f.row = [input |-> f.input, plan |-> f.plan]
    BY Zenon DEF FrameSound, Promise
  <1>2. Passed(f) /\ NotDenied(f) /\ (f.plan = "allow" => Allowed(f))
    BY <1>1, Zenon DEF FrameSound, Promise
  <1>3. f.trace \in Seq(Answer) /\ Len(f.trace) \in Nat
    BY LenProperties, Zenon DEF FrameSound, Walked
  <1>4. \A i \in 1 .. Len(f.trace) :
          f.trace[i].kind = "proceed" \/ (i = Len(f.trace) /\ f.trace[i].kind # "veto")
    BY <1>2, <1>3 DEF FrameSound, Walked, Passed
  <1>5. ~f.runtime =>
          /\ Policy[f.input].verdict # "deny" /\ f.path \in {"inside", "override"}
          /\ (Policy[f.input].verdict = "ask" \/ f.path = "override" \/ Escalated(f)) => f.plan = "approved"
    BY <1>1, <1>2, Zenon DEF NotDenied, Allowed
  <1> QED
    BY <1>1, <1>2, <1>4, <1>5, SMTT(30) DEF Gated, Passed, Escalated

\* A handler runs only past its gates, not denied, approved where somebody asked or
\* the path leaves the workspace, and with a durable row of the very input it gets
\* (Registry::dispatch).
THEOREM HandlersAreGated == Spec => []EffectsGated
  <1>1. ASSUME ApprovalInv, NEW c \in Calls, call[c].pc = "run" PROVE Gated(call[c])
    BY <1>1, RunningIsGated, Zenon DEF ApprovalInv, FramesSound
  <1>2. ApprovalInv => EffectsGated
    BY <1>1, ZenonT(30) DEF EffectsGated, Gated
  <1> QED
    BY <1>2, ApprovalInvariant, PTL

\* ApprovalBroker: no approval is used more often than it allows, whoever holds
\* tokens for it, and no identity has more grants than the ceiling.
THEOREM GrantsAreCharged == Spec => []GrantsCharged
  <1>1. ApprovalInv => GrantsCharged
    BY Zenon DEF ApprovalInv, GrantsSound, Balanced, Ceiling, Held, GrantsCharged
  <1> QED
    BY <1>1, ApprovalInvariant, PTL

=============================================================================
