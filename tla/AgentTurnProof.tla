---------------------------- MODULE AgentTurnProof ----------------------------
(***************************************************************************)
(* ContextWhole, TurnsSerialized, MailKept and EffectsOnce hold for any    *)
(* number of sessions, prompts, iterations, attempts and messages.  The    *)
(* inductive invariant Sound says what the store is at any time and what   *)
(* the frame of a turn is relative to it (FrameSound).  Only a commit      *)
(* changes the store, and only by extending it: the prefix another turn    *)
(* was given stays what it was, and its own commit is refused from then on.*)
(***************************************************************************)
EXTENDS AgentTurn, FiniteSetTheorems, SequenceTheorems, TLAPS

-----------------------------------------------------------------------------
\* The inductive invariant.

Msg == [kind : {"user", "note", "call", "result", "answer"}, of : SUBSET (Nat \cup Ids)]
Context == [covered : Nat, revision : Nat, summary : Seq(Msg)]
Frame ==
    [pc : {"idle", "load", "fit", "iterate", "send", "tools", "commit", "committed"},
     then : {"idle", "load", "send"}, base : Nat, revision : Nat, loaded : Nat,
     context : Context, view : Seq(Msg), transcript : Seq(Msg), iteration : Nat,
     attempt : Nat, target : Nat, emitted : BOOLEAN, streams : Nat,
     seen : SUBSET Ids, ran : Seq(SUBSET Ids), inbox_ids : SUBSET Nat]

Typed ==
    /\ stored \in Seq(Msg)
    /\ saved \in Context
    /\ turn \in [Sessions -> Frame]
    /\ prompts \in Nat /\ mail \in Nat
    /\ acknowledged \subseteq Nat

Active(f) == f.pc \notin {"idle", "committed"}
Loading(f) == f.pc = "load" \/ (f.pc = "fit" /\ f.then = "load")

\* Calls and results come in pairs; only the last call of q may still be open.
Paired(q) ==
    \A i \in 1 .. Len(q) :
      /\ q[i].kind = "call" => /\ q[i].of \in (SUBSET Ids) \ {{}}
                               /\ i < Len(q) => q[i + 1] = Result(q[i].of)
      /\ q[i].kind = "result" => i > 1 /\ q[i - 1] = Call(q[i].of)

\* q does not end with an open call.
Closed(q) == q # << >> => q[Len(q)].kind # "call"

\* A context that was compacted where nothing was open.
CleanCut(c) == c.covered = Len(c.summary) /\ Closed(c.summary)

\* The messages m is noted in.
Noted(q, m) == {i \in 1 .. Len(q) : q[i].kind = "note" /\ m \in q[i].of}

\* The transcript of a turn: its prompt, then no other, an answer only at the end.
TranscriptSound(f) ==
    LET t == f.transcript
    IN /\ t # << >> /\ t[1] = User(f.base)
       /\ \A i \in 1 .. Len(t) : t[i].kind = "user" => i = 1
       /\ \A i \in 1 .. Len(t) : t[i].kind = "answer" <=> f.pc = "commit" /\ i = Len(t)
       /\ Paired(t)
       /\ t[Len(t)].kind = "call" <=> f.pc = "tools"
       /\ Loading(f) => t = <<User(f.base)>>
       /\ \A m \in Nat : m \in f.inbox_ids <=> Noted(t, m) # {}
       /\ \A m \in Nat : \A i, j \in Noted(t, m) : i = j

\* What a frame knows of the stored conversation st (Known).
KnownTo(f, st) ==
    IF Loading(f) THEN SubSeq(st, 1, f.loaded)
    ELSE SubSeq(st, 1, f.base) \o (IF f.pc = "commit" THEN Unanswered(f.transcript) ELSE f.transcript)

\* The turn would be accepted unless another was since it began.
Current(f, st, sv) ==
    Len(st) = f.base =>
      /\ f.revision = sv.revision /\ sv.covered <= f.context.covered
      /\ f.context.revision > f.revision \/ f.context = sv

OnceEach(f) ==
    /\ f.streams = IF f.emitted THEN 1 ELSE 0
    /\ \A i \in 1 .. Len(f.ran) : f.ran[i] \subseteq f.seen
    /\ \A i, j \in 1 .. Len(f.ran) : i # j => f.ran[i] \cap f.ran[j] = {}
    /\ f.pc = "tools" =>
         LET ids == f.transcript[Len(f.transcript)].of
         IN ids \subseteq f.seen /\ \A i \in 1 .. Len(f.ran) : f.ran[i] \cap ids = {}

\* What a turn under way is, relative to the conversation st and its context sv.
TurnSound(f, st, sv) ==
    /\ f.base <= Len(st) /\ f.loaded <= f.base
    /\ f.base > 0 => st[f.base].kind = "answer"
    /\ f.context.summary \o f.view = KnownTo(f, st)
    /\ CleanCut(f.context)
    /\ f.revision <= f.context.revision
    /\ Current(f, st, sv)
    /\ TranscriptSound(f)
    /\ f.pc = "fit" => f.then # "idle"

FrameSound(f, st, sv) == OnceEach(f) /\ (Active(f) => TurnSound(f, st, sv))

\* The conversation st is made of whole turns, and the context sv is a summary of
\* its beginning.
StoreSound(st, sv) ==
    /\ Paired(st)
    /\ \A i \in 1 .. Len(st) :
         /\ st[i].kind = "user" => st[i].of = {i - 1}
         /\ (i = 1 \/ st[i - 1].kind = "answer") <=> st[i].kind = "user"
         /\ i = Len(st) => st[i].kind = "answer"
    /\ sv.covered <= Len(st)
    /\ sv.summary = SubSeq(st, 1, sv.covered)
    /\ CleanCut(sv)

\* Mail of committed turns, acknowledged or about to be.
Settled == acknowledged \cup UNION {turn[s].inbox_ids : s \in {r \in Sessions : turn[r].pc = "committed"}}

MailSound ==
    /\ \A m \in Nat : m \in Settled <=> Noted(stored, m) # {}
    /\ \A m \in Nat : \A i, j \in Noted(stored, m) : i = j
    /\ \A s \in Sessions :
         /\ turn[s].inbox_ids # {} => s \in Readers /\ turn[s].pc # "idle"
         /\ turn[s].inbox_ids \cap acknowledged = {}

Sound ==
    /\ Typed
    /\ StoreSound(stored, saved)
    /\ MailSound
    /\ \A s \in Sessions : FrameSound(turn[s], stored, saved)

-----------------------------------------------------------------------------
\* Sequences of messages.

LEMMA Items ==
  ASSUME NEW q \in Seq(Msg)
  PROVE  /\ Len(q) \in Nat /\ \A i \in 1 .. Len(q) : q[i] \in Msg
         /\ q = << >> <=> Len(q) = 0
  BY ElementOfSeq, LenProperties, EmptySeq, Zenon

LEMMA One ==
  ASSUME NEW x \in Msg
  PROVE  <<x>> \in Seq(Msg) /\ Len(<<x>>) = 1 /\ <<x>>[1] = x /\ <<x>> # << >>
  OBVIOUS

LEMMA Prefix ==
  ASSUME NEW q \in Seq(Msg), NEW n \in 0 .. Len(q)
  PROVE  /\ SubSeq(q, 1, n) \in Seq(Msg) /\ Len(SubSeq(q, 1, n)) = n
         /\ \A i \in 1 .. n : SubSeq(q, 1, n)[i] = q[i]
  <1>1. n \in Int /\ Len(q) \in Nat /\ \A i \in 1 .. n : q[i] \in Msg
    BY Items
  <1> QED
    BY <1>1, SubSeqProperties

LEMMA PrefixOfLonger ==
  ASSUME NEW p \in Seq(Msg), NEW q \in Seq(Msg), NEW n \in 0 .. Len(p)
  PROVE  SubSeq(p \o q, 1, n) = SubSeq(p, 1, n)
  <1>1. p \o q \in Seq(Msg) /\ Len(p \o q) = Len(p) + Len(q) /\ Len(p) \in Nat /\ Len(q) \in Nat
    BY ConcatProperties, Items, Zenon
  <1>2. n \in 0 .. Len(p \o q) /\ n \in Nat /\ n <= Len(p)
    BY <1>1
  <1>3. \A i \in 1 .. n : i \in 1 .. Len(p) + Len(q) /\ i <= Len(p)
    BY <1>1, <1>2
  <1>4. \A i \in 1 .. n : (p \o q)[i] = p[i]
    BY <1>3, ConcatProperties, Zenon
  <1>5. /\ SubSeq(p \o q, 1, n) \in Seq(Msg) /\ Len(SubSeq(p \o q, 1, n)) = n
        /\ \A i \in 1 .. n : SubSeq(p \o q, 1, n)[i] = (p \o q)[i]
    BY <1>1, <1>2, Prefix, Zenon
  <1>6. /\ SubSeq(p, 1, n) \in Seq(Msg) /\ Len(SubSeq(p, 1, n)) = n
        /\ \A i \in 1 .. n : SubSeq(p, 1, n)[i] = p[i]
    BY Prefix, Zenon
  <1> QED
    BY <1>4, <1>5, <1>6, SeqEqual, Zenon

LEMMA PrefixGrows ==
  ASSUME NEW q \in Seq(Msg), NEW n \in Nat, n < Len(q)
  PROVE  SubSeq(q, 1, n + 1) = SubSeq(q, 1, n) \o <<q[n + 1]>>
  <1>1. Len(q) \in Nat
    BY Items, Zenon
  <1>2. 1 \in 1 .. Len(q) /\ n + 1 \in 1 .. Len(q) /\ (n + 1) - 1 = n
    BY <1>1
  <1>3. SubSeq(q, 1, n + 1) = SubSeq(q, 1, (n + 1) - 1) \o <<q[n + 1]>>
    BY <1>2, SubSeqRecursiveSecond, Zenon
  <1> QED
    BY <1>2, <1>3, Zenon

LEMMA UnansweredBefore ==
  ASSUME NEW q \in Seq(Msg), NEW x \in Msg
  PROVE  Unanswered(Append(q, x)) = q
  <1>1. Append(q, x) = q \o <<x>> /\ Len(Append(q, x)) = Len(q) + 1 /\ Len(q) \in Nat
    BY AppendIsConcat, AppendProperties, Items, Zenon
  <1>2. Len(Append(q, x)) - 1 = Len(q)
    BY <1>1
  <1>3. SubSeq(q \o <<x>>, 1, Len(q)) = SubSeq(q, 1, Len(q))
    BY <1>1, One, PrefixOfLonger
  <1>4. SubSeq(q, 1, Len(q)) = q
    BY SubSeqFull, Zenon
  <1> QED
    BY <1>1, <1>2, <1>3, <1>4, Zenon DEF Unanswered

LEMMA SplitAt ==
  ASSUME NEW q \in Seq(Msg), NEW n \in 1 .. Len(q) - 1
  PROVE  /\ SubSeq(q, 1, n) \o SubSeq(q, n + 1, Len(q)) = q
         /\ SubSeq(q, n + 1, Len(q)) \in Seq(Msg)
  <1>1. Len(q) \in Nat /\ \A i \in 1 .. Len(q) : q[i] \in Msg
    BY Items, Zenon
  <1>2. 1 \in 1 .. Len(q) + 1 /\ n \in 1 - 1 .. Len(q) /\ Len(q) \in n .. Len(q)
    BY <1>1
  <1>3. SubSeq(q, 1, n) \o SubSeq(q, n + 1, Len(q)) = SubSeq(q, 1, Len(q))
    BY <1>2, ConcatAdjacentSubSeq, Zenon
  <1>4. n + 1 \in Int /\ Len(q) \in Int /\ \A i \in n + 1 .. Len(q) : q[i] \in Msg
    BY <1>1
  <1>5. SubSeq(q, n + 1, Len(q)) \in Seq(Msg)
    BY <1>4, SubSeqProperties, Zenon
  <1> QED
    BY <1>3, <1>5, SubSeqFull, Zenon

\* Joined sequences, element by element.
LEMMA Joined ==
  ASSUME NEW p \in Seq(Msg), NEW q \in Seq(Msg)
  PROVE  /\ p \o q \in Seq(Msg) /\ Len(p \o q) = Len(p) + Len(q)
         /\ \A i \in 1 .. Len(p) : (p \o q)[i] = p[i]
         /\ \A i \in 1 .. Len(q) : (p \o q)[Len(p) + i] = q[i]
         /\ \A i \in 1 .. Len(p \o q) : i \in 1 .. Len(p) \/ i - Len(p) \in 1 .. Len(q)
  <1>1. Len(p) \in Nat /\ Len(q) \in Nat
    BY Items, Zenon
  <1>2. p \o q \in Seq(Msg) /\ Len(p \o q) = Len(p) + Len(q)
    BY ConcatProperties, Zenon
  <1>3. \A i \in 1 .. Len(p) + Len(q) : (p \o q)[i] = IF i <= Len(p) THEN p[i] ELSE q[i - Len(p)]
    BY ConcatProperties, Zenon
  <1>4. \A i \in 1 .. Len(p) : (p \o q)[i] = p[i]
    BY <1>1, <1>3
  <1>5. ASSUME NEW i \in 1 .. Len(q) PROVE (p \o q)[Len(p) + i] = q[i]
    <2>1. Len(p) + i \in 1 .. Len(p) + Len(q) /\ ~(Len(p) + i <= Len(p)) /\ (Len(p) + i) - Len(p) = i
      BY <1>1
    <2> QED
      BY <1>3, <2>1, Zenon
  <1>6. \A i \in 1 .. Len(p \o q) : i \in 1 .. Len(p) \/ i - Len(p) \in 1 .. Len(q)
    BY <1>1, <1>2
  <1> QED
    BY <1>2, <1>4, <1>5, <1>6, Zenon

-----------------------------------------------------------------------------
\* Calls and results.

LEMMA Associative ==
  ASSUME NEW p \in Seq(Msg), NEW q \in Seq(Msg), NEW r \in Seq(Msg)
  PROVE  p \o (q \o r) = (p \o q) \o r
  <1>1. (p \o q) \o r = p \o (q \o r)
    BY ConcatAssociative, SMTT(30)
  <1> QED
    BY <1>1, Zenon

LEMMA PairedPrefix ==
  ASSUME NEW q \in Seq(Msg), Paired(q), NEW n \in 0 .. Len(q)
  PROVE  Paired(SubSeq(q, 1, n))
  <1> DEFINE p == SubSeq(q, 1, n)
  <1>1. p \in Seq(Msg) /\ Len(p) = n /\ (\A i \in 1 .. n : p[i] = q[i]) /\ Len(q) \in Nat
    BY Prefix, Items, Zenon
  <1> HIDE DEF p
  <1>2. SUFFICES ASSUME NEW i \in 1 .. n
                 PROVE  /\ p[i].kind = "call" => /\ p[i].of \in (SUBSET Ids) \ {{}}
                                                 /\ i < Len(p) => p[i + 1] = Result(p[i].of)
                        /\ p[i].kind = "result" => i > 1 /\ p[i - 1] = Call(p[i].of)
    BY <1>1, Zenon DEF Paired, p
  <1>3. i \in 1 .. Len(q) /\ p[i] = q[i]
    BY <1>1
  <1>4. i < Len(p) => i < Len(q) /\ p[i + 1] = q[i + 1]
    BY <1>1
  <1>5. i > 1 => p[i - 1] = q[i - 1]
    BY <1>1
  <1> QED
    BY <1>3, <1>4, <1>5, Zenon DEF Paired

LEMMA PairedJoin ==
  ASSUME NEW p \in Seq(Msg), NEW q \in Seq(Msg), Paired(p), Closed(p), Paired(q)
  PROVE  Paired(p \o q)
  <1> DEFINE w == p \o q
  <1>1. /\ w \in Seq(Msg) /\ Len(w) = Len(p) + Len(q)
        /\ \A i \in 1 .. Len(p) : w[i] = p[i]
        /\ \A i \in 1 .. Len(q) : w[Len(p) + i] = q[i]
    BY Joined, Zenon
  <1>2. \A i \in 1 .. Len(w) : i \in 1 .. Len(p) \/ i - Len(p) \in 1 .. Len(q)
    BY Joined, Zenon
  <1>3. Len(p) \in Nat /\ Len(q) \in Nat /\ (p = << >> <=> Len(p) = 0)
    BY Items, Zenon
  <1> HIDE DEF w
  <1>4. SUFFICES ASSUME NEW i \in 1 .. Len(w)
                 PROVE  /\ w[i].kind = "call" => /\ w[i].of \in (SUBSET Ids) \ {{}}
                                                 /\ i < Len(w) => w[i + 1] = Result(w[i].of)
                        /\ w[i].kind = "result" => i > 1 /\ w[i - 1] = Call(w[i].of)
    BY Zenon DEF Paired, w
  <1>5. CASE i \in 1 .. Len(p)
    <2>3. (i > 1 => i - 1 \in 1 .. Len(p)) /\ (i < Len(p) => i + 1 \in 1 .. Len(p))
      BY <1>3, <1>5
    <2>1. w[i] = p[i] /\ (i > 1 => w[i - 1] = p[i - 1]) /\ (i < Len(p) => w[i + 1] = p[i + 1])
      BY <1>1, <1>5, <2>3, Zenon
    <2>2. i = Len(p) => p[i].kind # "call"
      BY <1>3, <1>5 DEF Closed
    <2> QED
      BY <1>3, <1>5, <2>1, <2>2 DEF Paired
  <1>6. CASE i - Len(p) \in 1 .. Len(q)
    <2> DEFINE j == i - Len(p)
    <2>1. i = Len(p) + j /\ j \in 1 .. Len(q) /\ w[Len(p) + j] = q[j]
      BY <1>1, <1>3, <1>6
    <2>2. i < Len(w) => j < Len(q) /\ j + 1 \in 1 .. Len(q) /\ Len(p) + (j + 1) = i + 1
      BY <1>1, <1>3, <2>1
    <2>3. i < Len(w) => w[i + 1] = q[j + 1]
      BY <1>1, <2>2
    <2>4. j > 1 => j - 1 \in 1 .. Len(q) /\ Len(p) + (j - 1) = i - 1 /\ i > 1
      BY <1>1, <1>3, <2>1
    <2>5. j > 1 => w[i - 1] = q[j - 1]
      BY <1>1, <2>4, Zenon
    <2> QED
      BY <2>1, <2>2, <2>3, <2>4, <2>5, Zenon DEF Paired
  <1> QED
    BY <1>2, <1>5, <1>6, Zenon

\* A message that is no result, and closes or opens a pair of its own.
LEMMA PairedOne ==
  ASSUME NEW x \in Msg, x.kind # "result", x.kind = "call" => x.of \in (SUBSET Ids) \ {{}}
  PROVE  Paired(<<x>>)
  <1> DEFINE u == <<x>>
  <1>1. Len(u) = 1 /\ u[1] = x
    BY Zenon
  <1> HIDE DEF u
  <1>2. \A i \in 1 .. Len(u) : i = 1
    BY <1>1
  <1>3. Paired(u)
    BY <1>1, <1>2 DEF Paired
  <1> QED
    BY <1>3, Zenon DEF u

LEMMA PairedResult ==
  ASSUME NEW q \in Seq(Msg), Paired(q), NEW ids, Result(ids) \in Msg, q # << >>, q[Len(q)] = Call(ids)
  PROVE  Paired(Append(q, Result(ids))) /\ Closed(Append(q, Result(ids)))
  <1> DEFINE w == Append(q, Result(ids))
  <1>1. Len(w) = Len(q) + 1 /\ (\A i \in 1 .. Len(q) : w[i] = q[i]) /\ w[Len(q) + 1] = Result(ids)
    BY AppendProperties
  <1>2. Len(q) \in Nat /\ Len(q) # 0
    BY Items, Zenon
  <1> HIDE DEF w
  <1>3. Call(ids).of = ids /\ Result(ids).of = ids /\ Result(ids).kind = "result" /\ Call(ids).kind = "call"
    BY Zenon DEF Call, Result
  <1>4. Closed(w)
    BY <1>1, <1>2, <1>3, Zenon DEF Closed
  <1>5. ASSUME NEW i \in 1 .. Len(w)
        PROVE  /\ w[i].kind = "call" => /\ w[i].of \in (SUBSET Ids) \ {{}}
                                        /\ i < Len(w) => w[i + 1] = Result(w[i].of)
               /\ w[i].kind = "result" => i > 1 /\ w[i - 1] = Call(w[i].of)
    <2>1. CASE i = Len(q) + 1
      <3>1. w[i] = Result(ids) /\ i > 1 /\ w[i - 1] = Call(ids)
        BY <1>1, <1>2, <2>1
      <3> QED
        BY <1>3, <3>1, Zenon
    <2>2. CASE i = Len(q)
      <3>1. i \in 1 .. Len(q) /\ w[i] = Call(ids) /\ q[i] = Call(ids) /\ w[i + 1] = Result(ids)
        BY <1>1, <1>2, <2>2
      <3> QED
        BY <1>3, <3>1, Zenon DEF Paired
    <2>3. CASE i < Len(q)
      <3>1. i \in 1 .. Len(q) /\ i + 1 \in 1 .. Len(q) /\ (i > 1 => i - 1 \in 1 .. Len(q))
        BY <1>2, <2>3
      <3>2. w[i] = q[i] /\ w[i + 1] = q[i + 1] /\ (i > 1 => w[i - 1] = q[i - 1])
        BY <1>1, <3>1, Zenon
      <3> QED
        BY <2>3, <3>1, <3>2, Zenon DEF Paired
    <2> QED
      BY <1>1, <1>2, <2>1, <2>2, <2>3
  <1> QED
    BY <1>4, <1>5, Zenon DEF Paired, w

\* What follows a part of q that ends with no open call.
LEMMA PairedRest ==
  ASSUME NEW p \in Seq(Msg), NEW q \in Seq(Msg), Paired(p \o q), Closed(p)
  PROVE  Paired(q)
  <1> DEFINE w == p \o q
  <1>1. /\ Len(w) = Len(p) + Len(q)
        /\ \A i \in 1 .. Len(p) : w[i] = p[i]
        /\ \A i \in 1 .. Len(q) : w[Len(p) + i] = q[i]
    BY Joined, Zenon
  <1>2. Len(p) \in Nat /\ Len(q) \in Nat /\ (p = << >> <=> Len(p) = 0)
    BY Items, Zenon
  <1>3. Paired(w)
    BY Zenon
  <1> HIDE DEF w
  <1>4. SUFFICES ASSUME NEW i \in 1 .. Len(q)
                 PROVE  /\ q[i].kind = "call" => /\ q[i].of \in (SUBSET Ids) \ {{}}
                                                 /\ i < Len(q) => q[i + 1] = Result(q[i].of)
                        /\ q[i].kind = "result" => i > 1 /\ q[i - 1] = Call(q[i].of)
    BY Zenon DEF Paired
  <1>5. Len(p) + i \in 1 .. Len(w) /\ w[Len(p) + i] = q[i]
    BY <1>1, <1>2
  <1>6. i < Len(q) => Len(p) + i < Len(w) /\ w[(Len(p) + i) + 1] = q[i + 1]
    <2>0. Len(w) = Len(p) + Len(q)
      BY <1>1, Zenon
    <2>1. i < Len(q) => i + 1 \in 1 .. Len(q) /\ Len(p) + (i + 1) = (Len(p) + i) + 1 /\ Len(p) + i < Len(w)
      BY <1>2, <2>0
    <2> QED
      BY <1>1, <2>1
  <1>7. i > 1 => w[(Len(p) + i) - 1] = q[i - 1]
    <2>1. i > 1 => i - 1 \in 1 .. Len(q) /\ Len(p) + (i - 1) = (Len(p) + i) - 1
      BY <1>1, <1>2
    <2> QED
      BY <1>1, <2>1, Zenon
  <1>8. i = 1 => q[i].kind # "result"
    <2>1. SUFFICES ASSUME i = 1, q[i].kind = "result" PROVE FALSE
      BY Zenon
    <2>2. Len(p) + i > 1 /\ w[(Len(p) + i) - 1] = Call(q[i].of)
      BY <1>3, <1>5, <2>1, Zenon DEF Paired
    <2>3. Len(p) \in 1 .. Len(p) /\ (Len(p) + i) - 1 = Len(p) /\ p # << >>
      BY <1>2, <2>1, <2>2
    <2>4. p[Len(p)] = Call(q[i].of)
      BY <1>1, <2>2, <2>3, Zenon
    <2> QED
      BY <2>3, <2>4 DEF Closed, Call
  <1> QED
    BY <1>3, <1>5, <1>6, <1>7, <1>8, SMTT(30) DEF Paired

LEMMA ClosedJoin ==
  ASSUME NEW p \in Seq(Msg), NEW q \in Seq(Msg), q # << >>
  PROVE  Closed(p \o q) <=> Closed(q)
  <1>1. /\ p \o q \in Seq(Msg) /\ Len(p \o q) = Len(p) + Len(q)
        /\ \A i \in 1 .. Len(q) : (p \o q)[Len(p) + i] = q[i]
    BY Joined, Zenon
  <1>2. Len(p) \in Nat /\ Len(q) \in Nat /\ Len(q) # 0 /\ (p \o q = << >> <=> Len(p \o q) = 0)
    BY <1>1, Items, Zenon
  <1>3. (p \o q)[Len(p \o q)] = q[Len(q)] /\ p \o q # << >>
    BY <1>1, <1>2
  <1> QED
    BY <1>3, Zenon DEF Closed

\* Compaction cuts where nothing is open.
LEMMA CutIsClosed ==
  ASSUME NEW q \in Seq(Msg), Paired(q), NEW cut \in Cuts(q)
  PROVE  cut \in 1 .. Len(q) - 1 /\ Closed(SubSeq(q, 1, cut)) /\ SubSeq(q, 1, cut) # << >>
  <1>1. cut \in 1 .. Len(q) - 1 /\ Pending(q, cut) = {} /\ Len(q) \in Nat
    BY Items, Zenon DEF Cuts
  <1>2. cut \in 0 .. Len(q) /\ cut \in 1 .. Len(q) /\ cut \in 1 .. cut /\ \A k \in cut .. cut : k = cut
    BY <1>1
  <1>3. q[cut].kind # "call"
    <2>1. SUFFICES ASSUME q[cut].kind = "call" PROVE FALSE
      BY Zenon
    <2>5. cut \in 1 .. Len(q)
      BY <1>2, Zenon
    <2>6. q[cut].of \in (SUBSET Ids) \ {{}}
      BY <2>1, <2>5, Zenon DEF Paired
    <2>4. q[cut].of \in SUBSET Ids /\ q[cut].of # {}
      BY <2>6, Zenon
    <2>2. PICK id \in Ids : id \in q[cut].of
      BY <2>4, Zenon
    <2>3. id \in Pending(q, cut)
      BY <1>2, <2>1, <2>2, Zenon DEF Pending
    <2> QED
      BY <1>1, <2>3, Zenon
  <1>4. SubSeq(q, 1, cut) \in Seq(Msg) /\ Len(SubSeq(q, 1, cut)) = cut /\ SubSeq(q, 1, cut)[cut] = q[cut]
    BY <1>2, Prefix, Zenon
  <1> QED
    BY <1>1, <1>3, <1>4, Items DEF Closed

-----------------------------------------------------------------------------
\* Notes.

LEMMA NotedJoin ==
  ASSUME NEW p \in Seq(Msg), NEW q \in Seq(Msg), NEW m
  PROVE  /\ Noted(p \o q, m) # {} <=> Noted(p, m) # {} \/ Noted(q, m) # {}
         /\ /\ \A i, j \in Noted(p, m) : i = j
            /\ \A i, j \in Noted(q, m) : i = j
            /\ Noted(p, m) = {} \/ Noted(q, m) = {}
            => \A i, j \in Noted(p \o q, m) : i = j
  <1> DEFINE w == p \o q
             n == Len(p)
  <1>1. /\ Len(w) = n + Len(q)
        /\ \A i \in 1 .. n : w[i] = p[i]
        /\ \A i \in 1 .. Len(q) : w[n + i] = q[i]
        /\ \A i \in 1 .. Len(w) : i \in 1 .. n \/ i - n \in 1 .. Len(q)
    BY Joined, Zenon
  <1>2. n \in Nat /\ Len(q) \in Nat
    BY Items, Zenon
  <1> HIDE DEF w, n
  <1>3. \A i \in 1 .. n : i \in 1 .. Len(w)
    BY <1>1, <1>2
  <1>4. \A i \in 1 .. Len(q) : n + i \in 1 .. Len(w)
    BY <1>1, <1>2
  <1>5. \A i \in 1 .. Len(w) : i \in 1 .. n \/ \E k \in 1 .. Len(q) : i = n + k
    <2>1. \A i \in 1 .. Len(w) : i = n + (i - n)
      BY <1>1, <1>2
    <2> QED
      BY <1>1, <2>1, Zenon
  <1>6. \A i : i \in Noted(p, m) => i \in Noted(w, m)
    BY <1>1, <1>3, Zenon DEF Noted, n
  <1>7. \A k : k \in Noted(q, m) => n + k \in Noted(w, m)
    BY <1>1, <1>4, Zenon DEF Noted
  <1>8. ASSUME NEW i \in Noted(w, m) PROVE i \in Noted(p, m) \/ \E k \in Noted(q, m) : i = n + k
    <2>1. i \in 1 .. Len(w) /\ w[i].kind = "note" /\ m \in w[i].of
      BY Zenon DEF Noted
    <2>2. CASE i \in 1 .. n
      BY <1>1, <2>1, <2>2, Zenon DEF Noted, n
    <2>3. ASSUME NEW k \in 1 .. Len(q), i = n + k PROVE k \in Noted(q, m)
      BY <1>1, <2>1, <2>3, Zenon DEF Noted
    <2> QED
      BY <1>5, <2>1, <2>2, <2>3, Zenon
  <1>9. Noted(w, m) # {} <=> Noted(p, m) # {} \/ Noted(q, m) # {}
    <2>1. ASSUME NEW i \in Noted(p, m) PROVE Noted(w, m) # {}
      BY <1>6, Zenon
    <2>2. ASSUME NEW k \in Noted(q, m) PROVE Noted(w, m) # {}
      BY <1>7, Zenon
    <2>3. ASSUME NEW i \in Noted(w, m) PROVE Noted(p, m) # {} \/ Noted(q, m) # {}
      BY <1>8, Zenon
    <2> QED
      BY <2>1, <2>2, <2>3, Zenon
  <1>10. ASSUME \A i, j \in Noted(p, m) : i = j, \A i, j \in Noted(q, m) : i = j,
                Noted(p, m) = {} \/ Noted(q, m) = {}, NEW i \in Noted(w, m), NEW j \in Noted(w, m)
         PROVE  i = j
    <2>1. CASE Noted(q, m) = {}
      BY <1>8, <1>10, <2>1, Zenon
    <2>2. CASE Noted(p, m) = {}
      <3>1. PICK k \in Noted(q, m), l \in Noted(q, m) : i = n + k /\ j = n + l
        BY <1>8, <2>2, Zenon
      <3> QED
        BY <1>10, <3>1, Zenon
    <2> QED
      BY <1>10, <2>1, <2>2, Zenon
  <1> QED
    BY <1>9, <1>10, Zenon DEF w

LEMMA NotedOne ==
  ASSUME NEW x \in Msg, NEW m
  PROVE  /\ Noted(<<x>>, m) # {} <=> x.kind = "note" /\ m \in x.of
         /\ \A i, j \in Noted(<<x>>, m) : i = j
  <1> DEFINE u == <<x>>
  <1>1. Len(u) = 1 /\ u[1] = x
    BY Zenon
  <1> HIDE DEF u
  <1>2. 1 \in 1 .. Len(u) /\ \A i \in 1 .. Len(u) : i = 1
    BY <1>1
  <1>3. /\ Noted(u, m) # {} <=> x.kind = "note" /\ m \in x.of
        /\ \A i, j \in Noted(u, m) : i = j
    BY <1>1, <1>2, Zenon DEF Noted
  <1> QED
    BY <1>3, Zenon DEF u

-----------------------------------------------------------------------------
\* What a turn knows.

LEMMA Fields ==
  ASSUME NEW f \in Frame
  PROVE  /\ f.base \in Nat /\ f.revision \in Nat /\ f.loaded \in Nat /\ f.context \in Context
         /\ f.context.covered \in Nat /\ f.context.revision \in Nat /\ f.context.summary \in Seq(Msg)
         /\ f.view \in Seq(Msg) /\ f.transcript \in Seq(Msg) /\ f.seen \subseteq Ids
         /\ f.ran \in Seq(SUBSET Ids) /\ f.inbox_ids \subseteq Nat
  BY Zenon DEF Frame, Context

\* The conversation up to the prompt of a turn, and the turn after it.
LEMMA Told ==
  ASSUME NEW f \in Frame, NEW st \in Seq(Msg), NEW sv, StoreSound(st, sv), TurnSound(f, st, sv)
  PROVE  /\ SubSeq(st, 1, f.base) \in Seq(Msg) /\ Len(SubSeq(st, 1, f.base)) = f.base
         /\ Paired(SubSeq(st, 1, f.base)) /\ Closed(SubSeq(st, 1, f.base))
         /\ SubSeq(st, 1, f.loaded) \in Seq(Msg) /\ Paired(SubSeq(st, 1, f.loaded))
         /\ f.transcript # << >> /\ Len(f.transcript) \in Nat \ {0} /\ Paired(f.transcript)
         /\ Unanswered(f.transcript) \in Seq(Msg) /\ Paired(Unanswered(f.transcript))
  <1>1. f.base \in Nat /\ f.loaded \in Nat /\ f.base <= Len(st) /\ f.loaded <= f.base /\ Len(st) \in Nat
    BY Fields, Items, Zenon DEF TurnSound
  <1>2. f.base \in 0 .. Len(st) /\ f.loaded \in 0 .. Len(st)
    BY <1>1
  <1>3. Paired(st)
    BY Zenon DEF StoreSound
  <1>4. /\ SubSeq(st, 1, f.base) \in Seq(Msg) /\ Len(SubSeq(st, 1, f.base)) = f.base
        /\ \A i \in 1 .. f.base : SubSeq(st, 1, f.base)[i] = st[i]
        /\ Paired(SubSeq(st, 1, f.base))
    BY <1>2, <1>3, Prefix, PairedPrefix, Zenon
  <1>5. SubSeq(st, 1, f.loaded) \in Seq(Msg) /\ Paired(SubSeq(st, 1, f.loaded))
    BY <1>2, <1>3, Prefix, PairedPrefix, Zenon
  <1>6. Closed(SubSeq(st, 1, f.base))
    <2>1. CASE f.base = 0
      BY <1>4, <2>1, Items, Zenon DEF Closed
    <2>2. CASE f.base # 0
      <3>1. f.base > 0 /\ f.base \in 1 .. f.base
        BY <1>1, <2>2
      <3>2. SubSeq(st, 1, f.base)[f.base] = st[f.base] /\ st[f.base].kind = "answer"
        BY <1>4, <3>1, Zenon DEF TurnSound
      <3> QED
        BY <1>4, <3>2, Zenon DEF Closed
    <2> QED
      BY <2>1, <2>2, Zenon
  <1>7. f.transcript # << >> /\ Paired(f.transcript) /\ f.transcript \in Seq(Msg)
    BY Fields, Zenon DEF TurnSound, TranscriptSound
  <1>8. Len(f.transcript) \in Nat \ {0}
    BY <1>7, Items, Zenon
  <1>9. Unanswered(f.transcript) \in Seq(Msg) /\ Paired(Unanswered(f.transcript))
    <2>1. Len(f.transcript) - 1 \in 0 .. Len(f.transcript)
      BY <1>8
    <2> QED
      BY <1>7, <2>1, Prefix, PairedPrefix, Zenon DEF Unanswered
  <1> QED
    BY <1>4, <1>5, <1>6, <1>7, <1>8, <1>9, Zenon

LEMMA KnownPaired ==
  ASSUME NEW f \in Frame, NEW st \in Seq(Msg), NEW sv, StoreSound(st, sv), TurnSound(f, st, sv)
  PROVE  /\ KnownTo(f, st) \in Seq(Msg) /\ Paired(KnownTo(f, st))
         /\ Paired(f.view)
         /\ ~Loading(f) /\ f.pc \notin {"tools", "commit"} => Closed(KnownTo(f, st)) /\ Closed(f.view)
  <1> DEFINE K == KnownTo(f, st)
             B == SubSeq(st, 1, f.base)
  <1>1. /\ B \in Seq(Msg) /\ Paired(B) /\ Closed(B)
        /\ SubSeq(st, 1, f.loaded) \in Seq(Msg) /\ Paired(SubSeq(st, 1, f.loaded))
        /\ f.transcript # << >> /\ Paired(f.transcript) /\ f.transcript \in Seq(Msg)
        /\ Unanswered(f.transcript) \in Seq(Msg) /\ Paired(Unanswered(f.transcript))
    BY Told, Fields, Zenon
  <1> HIDE DEF B
  <1>2. /\ B \o f.transcript \in Seq(Msg) /\ Paired(B \o f.transcript)
        /\ B \o Unanswered(f.transcript) \in Seq(Msg) /\ Paired(B \o Unanswered(f.transcript))
    BY <1>1, Joined, PairedJoin, Zenon
  <1>3. K \in Seq(Msg) /\ Paired(K)
    BY <1>1, <1>2, Zenon DEF KnownTo, B
  <1>4. f.context.summary \in Seq(Msg) /\ f.view \in Seq(Msg) /\ f.context.summary \o f.view = K /\ Closed(f.context.summary)
    BY Fields, Zenon DEF TurnSound, CleanCut
  <1> HIDE DEF K
  <1>5. Paired(f.view)
    BY <1>3, <1>4, PairedRest, Zenon
  <1>6. ASSUME ~Loading(f), f.pc \notin {"tools", "commit"} PROVE Closed(K) /\ Closed(f.view)
    <2>1. K = B \o f.transcript
      BY <1>6, Zenon DEF KnownTo, B, K
    <2>2. Closed(f.transcript)
      BY <1>6, Zenon DEF TurnSound, TranscriptSound, Closed
    <2>3. Closed(K)
      BY <1>1, <2>1, <2>2, ClosedJoin, Zenon
    <2>4. Closed(f.view)
      <3>1. CASE f.view = << >>
        BY <3>1, Zenon DEF Closed
      <3>2. CASE f.view # << >>
        BY <1>4, <2>3, <3>2, ClosedJoin, Zenon
      <3> QED
        BY <3>1, <3>2, Zenon
    <2> QED
      BY <2>3, <2>4, Zenon
  <1> QED
    BY <1>3, <1>5, <1>6, Zenon DEF K

\* A message is added to the transcript of f, which becomes that of g.
LEMMA TranscriptGrows ==
  ASSUME NEW f \in Frame, NEW g \in Frame, NEW x \in Msg, TranscriptSound(f), f.pc # "commit",
         g.transcript = Append(f.transcript, x), g.base = f.base, ~Loading(g), x.kind # "user",
         x.kind = "answer" <=> g.pc = "commit",
         x.kind = "call" <=> g.pc = "tools",
         \/ f.pc # "tools" /\ x.kind # "result" /\ (x.kind = "call" => x.of \in (SUBSET Ids) \ {{}})
         \/ f.pc = "tools" /\ x = Result(f.transcript[Len(f.transcript)].of),
         IF x.kind = "note" THEN g.inbox_ids = f.inbox_ids \cup x.of /\ f.inbox_ids \cap x.of = {}
         ELSE g.inbox_ids = f.inbox_ids
  PROVE  TranscriptSound(g)
  <1> DEFINE t == f.transcript
             u == g.transcript
             n == Len(t)
  <1>1. /\ t \in Seq(Msg) /\ u \in Seq(Msg) /\ n \in Nat \ {0} /\ t # << >> /\ Paired(t) /\ t[1] = User(f.base)
        /\ \A i \in 1 .. n : t[i].kind = "user" => i = 1
        /\ \A i \in 1 .. n : t[i].kind # "answer"
        /\ t[n].kind = "call" <=> f.pc = "tools"
    BY Fields, Items, Zenon DEF TranscriptSound
  <1>2. /\ \A m \in Nat : m \in f.inbox_ids <=> Noted(t, m) # {}
        /\ \A m \in Nat : \A i, j \in Noted(t, m) : i = j
    BY Zenon DEF TranscriptSound
  <1>3. /\ u = t \o <<x>> /\ Len(u) = n + 1 /\ u[n + 1] = x /\ u # << >>
        /\ \A i \in 1 .. n : u[i] = t[i]
    <2>1. u = Append(t, x)
      BY Zenon
    <2> HIDE DEF u, t
    <2>2. Append(t, x) = t \o <<x>>
      BY <1>1, AppendIsConcat, Zenon
    <2>3. /\ Len(Append(t, x)) = n + 1 /\ Append(t, x)[n + 1] = x /\ Append(t, x) # << >>
          /\ \A i \in 1 .. n : Append(t, x)[i] = t[i]
      BY <1>1, AppendProperties
    <2> QED
      BY <2>1, <2>2, <2>3, Zenon
  <1>4. Paired(u)
    <2>1. CASE f.pc # "tools"
      <3>1. Closed(t)
        BY <1>1, <2>1, Zenon DEF Closed
      <3>2. Paired(<<x>>) /\ <<x>> \in Seq(Msg)
        BY <2>1, PairedOne, One, Zenon
      <3> QED
        BY <1>1, <1>3, <3>1, <3>2, PairedJoin, Zenon
    <2>2. CASE f.pc = "tools"
      <3> DEFINE ids == t[n].of
      <3>1. x = Result(ids)
        BY <2>2, Zenon
      <3>2. t[n] = Call(ids)
        <4>1. t[n] \in Msg /\ t[n].kind = "call"
          BY <1>1, <2>2, Items
        <4> QED
          BY <4>1, Zenon DEF Msg, Call
      <3> HIDE DEF ids
      <3>3. Paired(Append(t, Result(ids)))
        BY <1>1, <3>1, <3>2, PairedResult, Zenon
      <3> QED
        BY <3>1, <3>3, Zenon
    <2> QED
      BY <2>1, <2>2, Zenon
  <1>5. ASSUME NEW i \in 1 .. Len(u) PROVE i = n + 1 \/ (i \in 1 .. n /\ u[i] = t[i])
    BY <1>1, <1>3
  <1>6. \A i \in 1 .. Len(u) : u[i].kind = "user" => i = 1
    BY <1>1, <1>3, <1>5, Zenon
  <1>7. \A i \in 1 .. Len(u) : u[i].kind = "answer" <=> g.pc = "commit" /\ i = Len(u)
    <2>1. \A i \in 1 .. n : i # n + 1
      BY <1>1
    <2> QED
      BY <1>1, <1>3, <1>5, <2>1, Zenon
  <1>8. u[1] = User(g.base)
    BY <1>1, <1>3
  <1>9. u[Len(u)].kind = "call" <=> g.pc = "tools"
    BY <1>3, Zenon
  <1>10. ASSUME NEW m \in Nat
         PROVE  (m \in g.inbox_ids <=> Noted(u, m) # {}) /\ \A i, j \in Noted(u, m) : i = j
    <2>1. /\ Noted(<<x>>, m) # {} <=> x.kind = "note" /\ m \in x.of
          /\ \A i, j \in Noted(<<x>>, m) : i = j
      BY NotedOne, Zenon
    <2>2. /\ Noted(u, m) # {} <=> Noted(t, m) # {} \/ Noted(<<x>>, m) # {}
          /\ /\ \A i, j \in Noted(t, m) : i = j
             /\ \A i, j \in Noted(<<x>>, m) : i = j
             /\ Noted(t, m) = {} \/ Noted(<<x>>, m) = {}
             => \A i, j \in Noted(u, m) : i = j
      <3> HIDE DEF t, u, n
      <3>1. <<x>> \in Seq(Msg)
        BY One, Zenon
      <3>2. t \in Seq(Msg) /\ u = t \o <<x>>
        BY <1>1, <1>3, Zenon
      <3>3. /\ Noted(t \o <<x>>, m) # {} <=> Noted(t, m) # {} \/ Noted(<<x>>, m) # {}
            /\ /\ \A i, j \in Noted(t, m) : i = j
               /\ \A i, j \in Noted(<<x>>, m) : i = j
               /\ Noted(t, m) = {} \/ Noted(<<x>>, m) = {}
               => \A i, j \in Noted(t \o <<x>>, m) : i = j
        BY <3>1, <3>2, NotedJoin, Zenon
      <3> QED
        BY <3>2, <3>3, Zenon
    <2>3. Noted(t, m) = {} \/ Noted(<<x>>, m) = {}
      BY <1>2, <2>1, Zenon
    <2> QED
      BY <1>2, <2>1, <2>2, <2>3, Zenon
  <1> HIDE DEF t, u, n
  <1>11. TranscriptSound(g)
    BY <1>3, <1>4, <1>6, <1>7, <1>8, <1>9, <1>10, Zenon DEF TranscriptSound, u
  <1> QED
    BY <1>11, Zenon

\* A step that leaves the story of the turn as it is.
LEMMA SameStory ==
  ASSUME NEW f \in Frame, NEW g \in Frame, NEW st, NEW sv, TurnSound(f, st, sv),
         g.base = f.base, g.revision = f.revision, g.loaded = f.loaded, g.context = f.context,
         g.view = f.view, g.transcript = f.transcript, g.inbox_ids = f.inbox_ids,
         Loading(g) <=> Loading(f), g.pc = "commit" <=> f.pc = "commit", g.pc = "tools" <=> f.pc = "tools",
         g.pc = "fit" => g.then # "idle"
  PROVE  TurnSound(g, st, sv)
  <1>1. KnownTo(g, st) = KnownTo(f, st) /\ (Current(g, st, sv) <=> Current(f, st, sv))
    BY Zenon DEF KnownTo, Current
  <1>2. TranscriptSound(g)
    BY DEF TranscriptSound, TurnSound
  <1> QED
    BY <1>1, <1>2, Zenon DEF TurnSound

-----------------------------------------------------------------------------
\* Steps inside a turn.

\* A new frame touches nothing that the store or another turn rests on.
LEMMA FrameKeeps ==
  ASSUME Sound, NEW s \in Sessions, NEW g \in Frame, FrameSound(g, stored, saved),
         turn' = [turn EXCEPT ![s] = g], UNCHANGED <<stored, saved, acknowledged>>,
         prompts' \in Nat, mail' \in Nat,
         turn[s].pc # "committed", g.pc # "committed",
         g.inbox_ids # {} => s \in Readers /\ g.pc # "idle", g.inbox_ids \cap acknowledged = {}
  PROVE  Sound'
  <1>1. /\ turn \in [Sessions -> Frame] /\ UNCHANGED <<stored, saved, acknowledged>>
        /\ prompts' \in Nat /\ mail' \in Nat
    BY Zenon DEF Sound, Typed
  <1>2. turn' \in [Sessions -> Frame] /\ turn'[s] = g /\ \A r \in Sessions \ {s} : turn'[r] = turn[r]
    BY <1>1, Zenon
  <1>3. Typed'
    BY <1>1, <1>2, Zenon DEF Sound, Typed
  <1>4. StoreSound(stored, saved)'
    BY <1>1, Zenon DEF Sound
  <1>5. (\A r \in Sessions : FrameSound(turn[r], stored, saved))'
    BY <1>1, <1>2, Zenon DEF Sound
  <1>6. \A r \in Sessions : turn'[r].pc = "committed" <=> turn[r].pc = "committed"
    BY <1>2, Zenon
  <1>7. \A r \in Sessions : turn[r].pc = "committed" => turn'[r].inbox_ids = turn[r].inbox_ids
    BY <1>2, Zenon
  <1>8. Settled' = Settled
    BY <1>1, <1>6, <1>7, Zenon DEF Settled
  <1>9. MailSound'
    BY <1>1, <1>2, <1>8, Zenon DEF Sound, MailSound
  <1> QED
    BY <1>3, <1>4, <1>5, <1>9, Zenon DEF Sound

LEMMA StepKeeps ==
  ASSUME Sound, NEW s \in Sessions, NEW g \in Frame, Step(s, g), FrameSound(g, stored, saved),
         turn[s].pc # "committed", g.pc # "committed",
         g.inbox_ids # {} => s \in Readers /\ g.pc # "idle", g.inbox_ids \cap acknowledged = {}
  PROVE  Sound'
  <1>1. /\ turn' = [turn EXCEPT ![s] = g] /\ UNCHANGED <<stored, saved, acknowledged>>
        /\ prompts' \in Nat /\ mail' \in Nat
    BY Zenon DEF Step, Sound, Typed
  <1> QED
    BY <1>1, FrameKeeps, Zenon

\* What Sound says of one session.
LEMMA OneSession ==
  ASSUME Sound, NEW s \in Sessions
  PROVE  /\ turn[s] \in Frame /\ stored \in Seq(Msg) /\ saved \in Context /\ StoreSound(stored, saved)
         /\ OnceEach(turn[s])
         /\ Active(turn[s]) => TurnSound(turn[s], stored, saved)
         /\ turn[s].inbox_ids # {} => s \in Readers
         /\ turn[s].inbox_ids \cap acknowledged = {}
  BY Zenon DEF Sound, Typed, MailSound, FrameSound

\* A step of a turn that is neither loading nor compacting.
LEMMA StoryGoesOn ==
  ASSUME NEW f \in Frame, NEW g \in Frame, NEW st, NEW sv, TurnSound(f, st, sv),
         g.base = f.base, g.revision = f.revision, g.loaded = f.loaded, g.context = f.context,
         g.pc = "fit" => g.then # "idle",
         TranscriptSound(g), g.context.summary \o g.view = KnownTo(g, st)
  PROVE  TurnSound(g, st, sv)
  <1>1. Current(g, st, sv)
    BY Zenon DEF Current, TurnSound
  <1> QED
    BY <1>1, Zenon DEF TurnSound

\* A message enters transcript and view.
LEMMA BothGrow ==
  ASSUME NEW f \in Frame, NEW g \in Frame, NEW st \in Seq(Msg), NEW sv, NEW x \in Msg,
         StoreSound(st, sv), TurnSound(f, st, sv), ~Loading(f), ~Loading(g), f.pc # "commit", g.pc # "commit",
         g.base = f.base, g.context = f.context,
         g.transcript = Append(f.transcript, x), g.view = Append(f.view, x)
  PROVE  g.context.summary \o g.view = KnownTo(g, st)
  <1> DEFINE S == f.context.summary
             V == f.view
             B == SubSeq(st, 1, f.base)
             T == f.transcript
             X == <<x>>
  <1>1. S \in Seq(Msg) /\ V \in Seq(Msg) /\ B \in Seq(Msg) /\ T \in Seq(Msg) /\ X \in Seq(Msg)
    BY Fields, Told, One, Zenon
  <1>2. S \o V = B \o T
    BY Zenon DEF TurnSound, KnownTo
  <1>3. KnownTo(g, st) = B \o g.transcript
    BY Zenon DEF KnownTo
  <1>4. g.transcript = Append(T, x) /\ g.view = Append(V, x) /\ g.context.summary = S
    BY Zenon
  <1> HIDE DEF S, V, B, T, X
  <1>5. Append(T, x) = T \o X /\ Append(V, x) = V \o X
    BY <1>1, AppendIsConcat, Zenon DEF X
  <1>6. S \o (V \o X) = (S \o V) \o X
    <2>1. S \in Seq(Msg) /\ V \in Seq(Msg) /\ X \in Seq(Msg)
      BY <1>1, Zenon
    <2> QED
      BY <2>1, Associative, ZenonT(30)
  <1>7. B \o (T \o X) = (B \o T) \o X
    <2>1. B \in Seq(Msg) /\ T \in Seq(Msg) /\ X \in Seq(Msg)
      BY <1>1, Zenon
    <2> QED
      BY <2>1, Associative, ZenonT(30)
  <1> QED
    BY <1>2, <1>3, <1>4, <1>5, <1>6, <1>7, Zenon

LEMMA LoadMessageKeeps ==
  ASSUME Sound, NEW s \in Sessions, LoadMessage(s)
  PROVE  Sound'
  <1> DEFINE f == turn[s]
             x == stored[f.loaded + 1]
             g == [f EXCEPT !.view = Append(@, stored[f.loaded + 1]), !.loaded = @ + 1,
                            !.pc = "fit", !.then = "load"]
  <1>1. f.pc = "load" /\ f.loaded < f.base /\ Step(s, g)
    BY Zenon DEF LoadMessage, At
  <1>2. /\ f \in Frame /\ stored \in Seq(Msg) /\ StoreSound(stored, saved) /\ OnceEach(f)
        /\ f.inbox_ids # {} => s \in Readers
        /\ f.inbox_ids \cap acknowledged = {}
    BY OneSession, Zenon
  <1>3. TurnSound(f, stored, saved)
    BY <1>1, OneSession, Zenon DEF Active
  <1> HIDE DEF f
  <1>4. f.base \in Nat /\ f.loaded \in Nat /\ f.base <= Len(stored) /\ Len(stored) \in Nat
    BY <1>2, <1>3, Fields, Items, Zenon DEF TurnSound
  <1>5. f.loaded + 1 \in 1 .. Len(stored) /\ f.loaded + 1 <= f.base /\ f.loaded < Len(stored)
    BY <1>1, <1>4
  <1>6. x \in Msg
    BY <1>2, <1>5, Items, Zenon
  <1> HIDE DEF x
  <1>7. /\ g \in Frame
        /\ g.pc = "fit" /\ g.then = "load" /\ g.base = f.base /\ g.revision = f.revision
        /\ g.loaded = f.loaded + 1 /\ g.context = f.context /\ g.view = Append(f.view, x)
        /\ g.transcript = f.transcript /\ g.inbox_ids = f.inbox_ids /\ g.emitted = f.emitted
        /\ g.streams = f.streams /\ g.ran = f.ran /\ g.seen = f.seen
    <2>1. g = [f EXCEPT !.view = Append(@, x), !.loaded = @ + 1, !.pc = "fit", !.then = "load"]
      BY Zenon DEF x
    <2>2. Append(f.view, x) \in Seq(Msg)
      BY <1>2, <1>6, Fields, AppendProperties, Zenon
    <2>3. f.loaded + 1 \in Nat
      BY <1>4
    <2> DEFINE v == Append(f.view, x)
               n == f.loaded + 1
    <2>4. g = [f EXCEPT !.view = v, !.loaded = n, !.pc = "fit", !.then = "load"]
      BY <1>2, <2>1, Zenon DEF Frame
    <2>5. v \in Seq(Msg) /\ n \in Nat
      BY <2>2, <2>3, Zenon
    <2> HIDE DEF g, v, n
    <2>6. /\ g \in Frame
          /\ g.pc = "fit" /\ g.then = "load" /\ g.base = f.base /\ g.revision = f.revision
          /\ g.loaded = n /\ g.context = f.context /\ g.view = v
          /\ g.transcript = f.transcript /\ g.inbox_ids = f.inbox_ids /\ g.emitted = f.emitted
          /\ g.streams = f.streams /\ g.ran = f.ran /\ g.seen = f.seen
      BY <1>2, <2>4, <2>5, ZenonT(30) DEF Frame
    <2> QED
      BY <2>6, Zenon DEF v, n
  <1> HIDE DEF g
  <1>8. OnceEach(g)
    BY <1>2, <1>7, Zenon DEF OnceEach
  <1>9. Loading(f) /\ Loading(g)
    BY <1>1, <1>7, Zenon DEF Loading
  <1>10. TranscriptSound(g)
    <2>1. TranscriptSound(f)
      BY <1>3, Zenon DEF TurnSound
    <2> QED
      BY <1>1, <1>7, <1>9, <2>1 DEF TranscriptSound
  <1>11. g.context.summary \o g.view = KnownTo(g, stored)
    <2>1. KnownTo(g, stored) = SubSeq(stored, 1, f.loaded + 1) /\ f.context.summary \o f.view = SubSeq(stored, 1, f.loaded)
      BY <1>3, <1>7, <1>9, Zenon DEF KnownTo, TurnSound
    <2>2. SubSeq(stored, 1, f.loaded + 1) = SubSeq(stored, 1, f.loaded) \o <<x>>
      BY <1>2, <1>4, <1>5, PrefixGrows, ZenonT(30) DEF x
    <2>3. f.context.summary \in Seq(Msg) /\ f.view \in Seq(Msg) /\ <<x>> \in Seq(Msg)
      BY <1>2, <1>6, Fields, One, ZenonT(30)
    <2>4. Append(f.view, x) = f.view \o <<x>>
      BY <2>3, <1>6, AppendIsConcat, Zenon
    <2>5. f.context.summary \o (f.view \o <<x>>) = (f.context.summary \o f.view) \o <<x>>
      BY <2>3, Associative, ZenonT(30)
    <2> QED
      BY <1>7, <2>1, <2>2, <2>4, <2>5, Zenon
  <1>12. TurnSound(g, stored, saved)
    <2>1. Current(g, stored, saved)
      BY <1>3, <1>7, Zenon DEF Current, TurnSound
    <2> QED
      BY <1>3, <1>5, <1>7, <1>10, <1>11, <2>1, Zenon DEF TurnSound
  <1>13. FrameSound(g, stored, saved)
    BY <1>8, <1>12, Zenon DEF FrameSound
  <1>14. turn[s].pc # "committed"
    BY <1>1, Zenon DEF f
  <1> QED
    BY <1>1, <1>2, <1>7, <1>13, <1>14, StepKeeps, Zenon

LEMMA LoadEndsKeeps ==
  ASSUME Sound, NEW s \in Sessions, LoadEnds(s)
  PROVE  Sound'
  <1> DEFINE f == turn[s]
             g == [f EXCEPT !.view = @ \o f.transcript, !.iteration = 1, !.pc = "iterate"]
  <1>1. f.pc = "load" /\ f.loaded = f.base /\ Step(s, g)
    BY Zenon DEF LoadEnds, At
  <1>2. /\ f \in Frame /\ stored \in Seq(Msg) /\ StoreSound(stored, saved) /\ OnceEach(f)
        /\ f.inbox_ids # {} => s \in Readers
        /\ f.inbox_ids \cap acknowledged = {}
    BY OneSession, Zenon
  <1>3. TurnSound(f, stored, saved)
    BY <1>1, OneSession, Zenon DEF Active
  <1> HIDE DEF f
  <1>4. f.view \in Seq(Msg) /\ f.transcript \in Seq(Msg) /\ f.context.summary \in Seq(Msg)
    BY <1>2, Fields, Zenon
  <1>7. /\ g \in Frame
        /\ g.pc = "iterate" /\ g.base = f.base /\ g.revision = f.revision
        /\ g.loaded = f.loaded /\ g.context = f.context /\ g.view = f.view \o f.transcript
        /\ g.transcript = f.transcript /\ g.inbox_ids = f.inbox_ids /\ g.emitted = f.emitted
        /\ g.streams = f.streams /\ g.ran = f.ran /\ g.seen = f.seen
    <2>1. f.view \o f.transcript \in Seq(Msg)
      BY <1>4, ConcatProperties, Zenon
    <2> QED
      BY <1>2, <2>1, ZenonT(30) DEF Frame
  <1> HIDE DEF g
  <1>8. OnceEach(g)
    BY <1>1, <1>2, <1>7, Zenon DEF OnceEach
  <1>9. Loading(f) /\ ~Loading(g)
    BY <1>1, <1>7, Zenon DEF Loading
  <1>10. TranscriptSound(g)
    <2>1. TranscriptSound(f)
      BY <1>3, Zenon DEF TurnSound
    <2> QED
      BY <1>1, <1>7, <1>9, <2>1, SMTT(30) DEF TranscriptSound
  <1>11. g.context.summary \o g.view = KnownTo(g, stored)
    <2>1. /\ KnownTo(g, stored) = SubSeq(stored, 1, f.base) \o f.transcript
          /\ f.context.summary \o f.view = SubSeq(stored, 1, f.base)
      BY <1>1, <1>3, <1>7, <1>9, Zenon DEF KnownTo, TurnSound
    <2>2. f.context.summary \o (f.view \o f.transcript) = (f.context.summary \o f.view) \o f.transcript
      BY <1>4, Associative, Zenon
    <2> QED
      BY <1>7, <2>1, <2>2, Zenon
  <1>12. TurnSound(g, stored, saved)
    BY <1>2, <1>3, <1>7, <1>10, <1>11, StoryGoesOn, ZenonT(30)
  <1>13. FrameSound(g, stored, saved)
    BY <1>8, <1>12, Zenon DEF FrameSound
  <1>14. turn[s].pc # "committed"
    BY <1>1, Zenon DEF f
  <1> QED
    BY <1>1, <1>2, <1>7, <1>13, <1>14, StepKeeps, Zenon

\* The frame of a session that has no turn.
LEMMA EmptyFrame ==
  /\ NoTurn \in Frame /\ NoTurn.pc = "idle" /\ NoTurn.inbox_ids = {}
  /\ NoTurn.view = << >> /\ NoTurn.emitted = FALSE /\ NoTurn.streams = 0 /\ NoTurn.ran = << >>
  /\ \A st, sv : FrameSound(NoTurn, st, sv)
  <1>1. NoContext \in Context
    <2>1. << >> \in Seq(Msg)
      OBVIOUS
    <2> QED
      BY <2>1, Zenon DEF NoContext, Context
  <1>2. << >> \in Seq(Msg) /\ << >> \in Seq(SUBSET Ids)
    OBVIOUS
  <1>3. /\ NoTurn \in Frame /\ NoTurn.pc = "idle" /\ NoTurn.inbox_ids = {}
        /\ NoTurn.view = << >> /\ NoTurn.emitted = FALSE /\ NoTurn.streams = 0 /\ NoTurn.ran = << >>
    BY <1>1, <1>2, Zenon DEF NoTurn, Frame
  <1>4. OnceEach(NoTurn)
    BY <1>3 DEF OnceEach
  <1>5. ~Active(NoTurn)
    BY <1>3, Zenon DEF Active
  <1> QED
    BY <1>3, <1>4, <1>5, Zenon DEF FrameSound

LEMMA FailKeeps ==
  ASSUME Sound, NEW s \in Sessions, Fail(s)
  PROVE  Sound'
  <1>1. turn[s].pc # "committed" /\ Step(s, NoTurn)
    BY Zenon DEF Fail
  <1> QED
    BY <1>1, EmptyFrame, StepKeeps, Zenon

LEMMA BeginKeeps ==
  ASSUME Sound, NEW s \in Sessions, Begin(s)
  PROVE  Sound'
  <1> DEFINE n == Len(stored)
             x == User(n)
             g == [NoTurn EXCEPT !.pc = "load", !.base = Len(stored), !.revision = saved.revision,
                                 !.loaded = saved.covered, !.context = saved,
                                 !.transcript = <<User(Len(stored))>>]
  <1>1. /\ turn[s].pc = "idle" /\ turn' = [turn EXCEPT ![s] = g] /\ prompts' = prompts + 1
        /\ UNCHANGED <<stored, saved, mail, acknowledged>>
    BY Zenon DEF Begin, At
  <1>2. stored \in Seq(Msg) /\ saved \in Context /\ StoreSound(stored, saved) /\ prompts \in Nat /\ mail \in Nat
    BY Zenon DEF Sound, Typed
  <1>3. /\ n \in Nat /\ saved.covered \in Nat /\ saved.revision \in Nat /\ saved.summary \in Seq(Msg)
        /\ saved.covered <= n
    BY <1>2, Items, Zenon DEF Context, StoreSound
  <1>4. x \in Msg /\ x.kind = "user"
    BY <1>3, Zenon DEF User, Msg
  <1>5. <<x>> \in Seq(Msg) /\ Len(<<x>>) = 1 /\ <<x>>[1] = x /\ <<x>> # << >>
    BY <1>4, One, Zenon
  <1> DEFINE t == <<x>>
  <1>6. g = [NoTurn EXCEPT !.pc = "load", !.base = n, !.revision = saved.revision,
                           !.loaded = saved.covered, !.context = saved, !.transcript = t]
    BY Zenon
  <1>7. Paired(t)
    BY <1>4, PairedOne, Zenon
  <1>8. \A m \in Nat : Noted(t, m) = {}
    BY <1>4, NotedOne, Zenon
  <1>9. t \in Seq(Msg) /\ Len(t) = 1 /\ t[1] = User(n) /\ t # << >> /\ t[1].kind = "user" /\ t = <<User(n)>>
    BY <1>4, <1>5, Zenon
  <1> HIDE DEF n, x, g, t
  <1>10. /\ g \in Frame
         /\ g.pc = "load" /\ g.base = n /\ g.revision = saved.revision /\ g.loaded = saved.covered
         /\ g.context = saved /\ g.view = << >> /\ g.transcript = t /\ g.inbox_ids = {}
         /\ g.emitted = FALSE /\ g.streams = 0 /\ g.ran = << >>
    <2>1. /\ NoTurn \in Frame /\ NoTurn.view = << >> /\ NoTurn.emitted = FALSE /\ NoTurn.streams = 0
          /\ NoTurn.ran = << >> /\ NoTurn.inbox_ids = {}
      BY EmptyFrame, Zenon
    <2> QED
      BY <1>2, <1>3, <1>6, <1>9, <2>1, Zenon DEF Frame
  <1>11. OnceEach(g)
    BY <1>10 DEF OnceEach
  <1>12. TranscriptSound(g)
    <2>1. \A i \in 1 .. Len(t) : i = 1
      BY <1>9
    <2> QED
      BY <1>7, <1>8, <1>9, <1>10, <2>1, Zenon DEF TranscriptSound
  <1>13. g.context.summary \o g.view = KnownTo(g, stored)
    <2>1. Loading(g)
      BY <1>10, Zenon DEF Loading
    <2>2. KnownTo(g, stored) = SubSeq(stored, 1, saved.covered)
      BY <1>10, <2>1, Zenon DEF KnownTo
    <2>3. saved.summary = SubSeq(stored, 1, saved.covered)
      BY <1>2, Zenon DEF StoreSound
    <2>4. saved.summary \o << >> = saved.summary
      BY <1>3, ConcatEmptySeq, Zenon
    <2> QED
      BY <1>10, <2>2, <2>3, <2>4, Zenon
  <1>14. g.base > 0 => stored[g.base].kind = "answer"
    BY <1>2, <1>3, <1>10 DEF StoreSound, n
  <1>15. g.base <= Len(stored) /\ g.loaded <= g.base /\ g.revision <= g.context.revision
    BY <1>3, <1>10 DEF n
  <1>16. Current(g, stored, saved)
    BY <1>3, <1>10 DEF Current
  <1>17. CleanCut(g.context)
    BY <1>2, <1>10, Zenon DEF StoreSound
  <1>18. TurnSound(g, stored, saved)
    BY <1>10, <1>12, <1>13, <1>14, <1>15, <1>16, <1>17, ZenonT(30) DEF TurnSound
  <1>19. FrameSound(g, stored, saved)
    BY <1>11, <1>18, Zenon DEF FrameSound
  <1>20. prompts' \in Nat /\ mail' \in Nat
    BY <1>1, <1>2
  <1> QED
    BY <1>1, <1>10, <1>19, <1>20, FrameKeeps, Zenon

LEMMA FitsKeeps ==
  ASSUME Sound, NEW s \in Sessions, Fits(s)
  PROVE  Sound'
  <1> DEFINE f == turn[s]
             g == [f EXCEPT !.pc = f.then]
  <1>1. f.pc = "fit" /\ Step(s, g)
    BY Zenon DEF Fits, At
  <1>2. /\ f \in Frame /\ OnceEach(f)
        /\ f.inbox_ids # {} => s \in Readers
        /\ f.inbox_ids \cap acknowledged = {}
    BY OneSession, Zenon
  <1>3. TurnSound(f, stored, saved)
    BY <1>1, OneSession, Zenon DEF Active
  <1> HIDE DEF f
  <1>4. f.then \in {"load", "send"}
    BY <1>1, <1>2, <1>3, Zenon DEF TurnSound, Frame
  <1>5. /\ g \in Frame
        /\ g.pc = f.then /\ g.base = f.base /\ g.revision = f.revision
        /\ g.loaded = f.loaded /\ g.context = f.context /\ g.view = f.view
        /\ g.transcript = f.transcript /\ g.inbox_ids = f.inbox_ids /\ g.emitted = f.emitted
        /\ g.streams = f.streams /\ g.ran = f.ran /\ g.seen = f.seen
    BY <1>2, <1>4, ZenonT(30) DEF Frame
  <1> HIDE DEF g
  <1>6. OnceEach(g)
    BY <1>2, <1>4, <1>5, Zenon DEF OnceEach
  <1>7. Loading(g) <=> Loading(f)
    BY <1>1, <1>4, <1>5, Zenon DEF Loading
  <1>8. TurnSound(g, stored, saved)
    BY <1>1, <1>2, <1>3, <1>4, <1>5, <1>7, SameStory, SMTT(30)
  <1>9. FrameSound(g, stored, saved)
    BY <1>6, <1>8, Zenon DEF FrameSound
  <1>10. turn[s].pc # "committed"
    BY <1>1, Zenon DEF f
  <1> QED
    BY <1>1, <1>2, <1>4, <1>5, <1>9, <1>10, StepKeeps, Zenon

LEMMA EmitKeeps ==
  ASSUME Sound, NEW s \in Sessions, Emit(s)
  PROVE  Sound'
  <1> DEFINE f == turn[s]
             g == [f EXCEPT !.emitted = TRUE, !.streams = @ + 1]
  <1>1. f.pc = "send" /\ ~f.emitted /\ Step(s, g)
    BY Zenon DEF Emit, At
  <1>2. /\ f \in Frame /\ OnceEach(f)
        /\ f.inbox_ids # {} => s \in Readers
        /\ f.inbox_ids \cap acknowledged = {}
    BY OneSession, Zenon
  <1>3. TurnSound(f, stored, saved)
    BY <1>1, OneSession, Zenon DEF Active
  <1> HIDE DEF f
  <1>4. f.streams = 0
    BY <1>1, <1>2, Zenon DEF OnceEach
  <1>5. /\ g \in Frame
        /\ g.pc = f.pc /\ g.then = f.then /\ g.base = f.base /\ g.revision = f.revision
        /\ g.loaded = f.loaded /\ g.context = f.context /\ g.view = f.view
        /\ g.transcript = f.transcript /\ g.inbox_ids = f.inbox_ids /\ g.emitted = TRUE
        /\ g.streams = 1 /\ g.ran = f.ran /\ g.seen = f.seen
    <2>1. g = [f EXCEPT !.emitted = TRUE, !.streams = 1]
      BY <1>2, <1>4 DEF Frame
    <2> HIDE DEF g
    <2> QED
      BY <1>2, <2>1, ZenonT(30) DEF Frame
  <1> HIDE DEF g
  <1>6. OnceEach(g)
    BY <1>2, <1>5, Zenon DEF OnceEach
  <1>7. Loading(g) <=> Loading(f)
    BY <1>5, Zenon DEF Loading
  <1>8. TurnSound(g, stored, saved)
    BY <1>1, <1>2, <1>3, <1>5, <1>7, SameStory, ZenonT(30)
  <1>9. FrameSound(g, stored, saved)
    BY <1>6, <1>8, Zenon DEF FrameSound
  <1>10. turn[s].pc # "committed"
    BY <1>1, Zenon DEF f
  <1> QED
    BY <1>1, <1>2, <1>5, <1>9, <1>10, StepKeeps, Zenon

LEMMA AttemptFailsKeeps ==
  ASSUME Sound, NEW s \in Sessions, AttemptFails(s)
  PROVE  Sound'
  <1> DEFINE f == turn[s]
             a == IF f.attempt < MaxAttempts THEN f.attempt + 1 ELSE 1
             b == IF f.attempt < MaxAttempts THEN f.target ELSE f.target + 1
             g == [f EXCEPT !.emitted = FALSE, !.attempt = a, !.target = b]
  <1>1. f \in Frame /\ OnceEach(f) /\ (f.inbox_ids # {} => s \in Readers) /\ f.inbox_ids \cap acknowledged = {}
    BY OneSession, Zenon
  <1>2. f.pc = "send" /\ ~f.emitted /\ Step(s, g)
    BY Zenon DEF AttemptFails, At
  <1>3. TurnSound(f, stored, saved)
    BY <1>2, OneSession, Zenon DEF Active
  <1> HIDE DEF f
  <1>4. a \in Nat /\ b \in Nat
    BY <1>1, SMTT(30) DEF Frame
  <1> HIDE DEF a, b
  <1>5. /\ g \in Frame
        /\ g.pc = f.pc /\ g.then = f.then /\ g.base = f.base /\ g.revision = f.revision
        /\ g.loaded = f.loaded /\ g.context = f.context /\ g.view = f.view
        /\ g.transcript = f.transcript /\ g.inbox_ids = f.inbox_ids /\ g.emitted = FALSE
        /\ g.streams = f.streams /\ g.ran = f.ran /\ g.seen = f.seen
    BY <1>1, <1>4, ZenonT(30) DEF Frame
  <1> HIDE DEF g
  <1>6. OnceEach(g)
    BY <1>1, <1>2, <1>5, Zenon DEF OnceEach
  <1>7. Loading(g) <=> Loading(f)
    BY <1>5, Zenon DEF Loading
  <1>8. TurnSound(g, stored, saved)
    BY <1>1, <1>2, <1>3, <1>5, <1>7, SameStory, ZenonT(30)
  <1>9. FrameSound(g, stored, saved)
    BY <1>6, <1>8, Zenon DEF FrameSound
  <1>10. turn[s].pc # "committed"
    BY <1>2, Zenon DEF f
  <1> QED
    BY <1>1, <1>2, <1>5, <1>9, <1>10, StepKeeps, Zenon

\* What compaction makes of a context and a view.
LEMMA CompactedContext ==
  ASSUME NEW c \in Context, NEW V \in Seq(Msg), NEW cut \in Cuts(V), Paired(V), CleanCut(c)
  PROVE  LET S == c.summary \o SubSeq(V, 1, cut)
         IN /\ S \in Seq(Msg) /\ SubSeq(V, cut + 1, Len(V)) \in Seq(Msg) /\ cut \in Nat \ {0}
            /\ c.covered + cut = Len(S) /\ Closed(S)
            /\ S \o SubSeq(V, cut + 1, Len(V)) = c.summary \o V
  <1> DEFINE Q == c.summary
             P == SubSeq(V, 1, cut)
             R == SubSeq(V, cut + 1, Len(V))
  <1>1. Q \in Seq(Msg) /\ c.covered = Len(Q) /\ Len(Q) \in Nat /\ Len(V) \in Nat
    BY Items, Zenon DEF Context, CleanCut
  <1>2. cut \in 1 .. Len(V) - 1 /\ Closed(P) /\ P # << >>
    BY CutIsClosed, Zenon
  <1>3. cut \in 0 .. Len(V) /\ cut \in Nat \ {0}
    BY <1>1, <1>2
  <1>4. P \in Seq(Msg) /\ Len(P) = cut
    BY <1>3, Prefix, Zenon
  <1>5. P \o R = V /\ R \in Seq(Msg)
    BY <1>2, SplitAt, Zenon
  <1> HIDE DEF P, R, Q
  <1>6. Q \o P \in Seq(Msg) /\ Len(Q \o P) = Len(Q) + cut /\ Closed(Q \o P)
    BY <1>1, <1>2, <1>4, Joined, ClosedJoin, Zenon
  <1>7. Q \o (P \o R) = (Q \o P) \o R
    <2>1. Q \in Seq(Msg) /\ P \in Seq(Msg) /\ R \in Seq(Msg)
      BY <1>1, <1>4, <1>5, Zenon
    <2> QED
      BY <2>1, Associative, ZenonT(30)
  <1>8. /\ Q \o P \in Seq(Msg) /\ R \in Seq(Msg) /\ cut \in Nat \ {0}
        /\ c.covered + cut = Len(Q \o P) /\ Closed(Q \o P) /\ (Q \o P) \o R = Q \o V
    BY <1>1, <1>3, <1>5, <1>6, <1>7, Zenon
  <1> QED
    BY <1>8, Zenon DEF P, Q, R

LEMMA CompactKeeps ==
  ASSUME Sound, NEW s \in Sessions, Compact(s)
  PROVE  Sound'
  <1> DEFINE f == turn[s]
  <1>1. f.pc = "fit"
    BY Zenon DEF Compact, At
  <1>2. PICK cut \in Cuts(f.view) :
          Step(s, [f EXCEPT !.context = [covered |-> @.covered + cut, revision |-> @.revision + 1,
                                         summary |-> @.summary \o SubSeq(f.view, 1, cut)],
                            !.view = SubSeq(@, cut + 1, Len(@)), !.pc = f.then])
    BY Zenon DEF Compact
  <1>3. /\ f \in Frame /\ stored \in Seq(Msg) /\ StoreSound(stored, saved) /\ OnceEach(f) /\ saved \in Context
        /\ f.inbox_ids # {} => s \in Readers
        /\ f.inbox_ids \cap acknowledged = {}
    BY OneSession, Zenon
  <1>4. TurnSound(f, stored, saved)
    BY <1>1, OneSession, Zenon DEF Active
  <1> DEFINE S == f.context.summary \o SubSeq(f.view, 1, cut)
             V == SubSeq(f.view, cut + 1, Len(f.view))
             c == [covered |-> f.context.covered + cut, revision |-> f.context.revision + 1, summary |-> S]
             g == [f EXCEPT !.context = c, !.view = V, !.pc = f.then]
  <1>5. Step(s, g)
    BY <1>2, <1>3, Zenon DEF Frame
  <1> HIDE DEF f
  <1>6. f.view \in Seq(Msg) /\ f.context \in Context /\ f.context.covered \in Nat /\ f.context.revision \in Nat
    BY <1>3, Fields, Zenon
  <1>7. Paired(f.view) /\ CleanCut(f.context)
    BY <1>3, <1>4, KnownPaired, Zenon DEF TurnSound
  <1>8. /\ S \in Seq(Msg) /\ V \in Seq(Msg) /\ cut \in Nat \ {0}
        /\ f.context.covered + cut = Len(S) /\ Closed(S)
        /\ S \o V = f.context.summary \o f.view
    BY <1>2, <1>6, <1>7, CompactedContext, ZenonT(30)
  <1> HIDE DEF S, V
  <1>9. /\ c \in Context /\ c.covered = f.context.covered + cut /\ c.revision = f.context.revision + 1
        /\ c.summary = S
    BY <1>6, <1>8, SMTT(30) DEF Context
  <1> HIDE DEF c
  <1>10. f.then \in {"load", "send"}
    BY <1>1, <1>3, <1>4, Zenon DEF TurnSound, Frame
  <1>11. /\ g \in Frame
         /\ g.pc = f.then /\ g.base = f.base /\ g.revision = f.revision
         /\ g.loaded = f.loaded /\ g.context = c /\ g.view = V
         /\ g.transcript = f.transcript /\ g.inbox_ids = f.inbox_ids /\ g.emitted = f.emitted
         /\ g.streams = f.streams /\ g.ran = f.ran /\ g.seen = f.seen
    BY <1>3, <1>8, <1>9, <1>10, ZenonT(30) DEF Frame
  <1> HIDE DEF g
  <1>12. OnceEach(g)
    BY <1>3, <1>10, <1>11, Zenon DEF OnceEach
  <1>13. Loading(g) <=> Loading(f)
    BY <1>1, <1>10, <1>11, Zenon DEF Loading
  <1>14. TranscriptSound(g)
    <2>1. TranscriptSound(f)
      BY <1>4, Zenon DEF TurnSound
    <2> QED
      BY <1>1, <1>10, <1>11, <1>13, <2>1, SMTT(30) DEF TranscriptSound
  <1>15. g.context.summary \o g.view = KnownTo(g, stored)
    <2>1. KnownTo(g, stored) = KnownTo(f, stored)
      BY <1>1, <1>10, <1>11, <1>13, Zenon DEF KnownTo
    <2>2. f.context.summary \o f.view = KnownTo(f, stored)
      BY <1>4, Zenon DEF TurnSound
    <2> QED
      BY <1>8, <1>9, <1>11, <2>1, <2>2, Zenon
  <1>16. CleanCut(g.context)
    BY <1>8, <1>9, <1>11, Zenon DEF CleanCut
  <1>17. /\ g.revision <= g.context.revision
         /\ Current(g, stored, saved)
    <2>1. f.revision \in Nat /\ f.revision <= f.context.revision
      BY <1>3, <1>4, Fields, Zenon DEF TurnSound
    <2>2. Current(f, stored, saved)
      BY <1>4, Zenon DEF TurnSound
    <2>3. saved.covered \in Nat
      BY <1>3, Zenon DEF Context
    <2>4. c.revision > f.revision
      BY <1>6, <1>9, <2>1
    <2>5. saved.covered <= f.context.covered => saved.covered <= c.covered
      BY <1>6, <1>8, <1>9, <2>3, SMTT(30)
    <2>6. g.revision <= g.context.revision
      BY <1>6, <1>9, <1>11, <2>1, SMTT(30)
    <2> QED
      BY <1>11, <2>2, <2>4, <2>5, <2>6, Zenon DEF Current
  <1>18. TurnSound(g, stored, saved)
    BY <1>4, <1>10, <1>11, <1>14, <1>15, <1>16, <1>17, Zenon DEF TurnSound
  <1>19. FrameSound(g, stored, saved)
    BY <1>12, <1>18, Zenon DEF FrameSound
  <1>20. turn[s].pc # "committed"
    BY <1>1, Zenon DEF f
  <1> QED
    BY <1>3, <1>5, <1>10, <1>11, <1>19, <1>20, StepKeeps, ZenonT(30)

LEMMA AnsweredKeeps ==
  ASSUME Sound, NEW s \in Sessions, Answered(s)
  PROVE  Sound'
  <1> DEFINE f == turn[s]
             t == Append(f.transcript, Answer)
             g == [f EXCEPT !.attempt = 0, !.target = 0, !.emitted = FALSE, !.streams = 0,
                            !.transcript = t, !.pc = "commit"]
  <1>1. f.pc = "send"
    BY Zenon DEF Answered, At
  <1>2. /\ f \in Frame /\ stored \in Seq(Msg) /\ StoreSound(stored, saved) /\ OnceEach(f)
        /\ f.inbox_ids # {} => s \in Readers
        /\ f.inbox_ids \cap acknowledged = {}
    BY OneSession, Zenon
  <1>3. Step(s, g)
    BY <1>2, Zenon DEF Answered, Responded, Frame
  <1>4. TurnSound(f, stored, saved)
    BY <1>1, OneSession, Zenon DEF Active
  <1> HIDE DEF f
  <1>5. Answer \in Msg /\ Answer.kind = "answer"
    BY Zenon DEF Answer, Msg
  <1>6. f.transcript \in Seq(Msg) /\ t \in Seq(Msg)
    BY <1>2, <1>5, Fields, AppendProperties, Zenon
  <1>7. Unanswered(t) = f.transcript
    BY <1>5, <1>6, UnansweredBefore, Zenon
  <1>8. t = Append(f.transcript, Answer)
    BY Zenon
  <1> HIDE DEF t
  <1>9. /\ g \in Frame
        /\ g.pc = "commit" /\ g.base = f.base /\ g.revision = f.revision
        /\ g.loaded = f.loaded /\ g.context = f.context /\ g.view = f.view
        /\ g.transcript = t /\ g.inbox_ids = f.inbox_ids /\ g.emitted = FALSE
        /\ g.streams = 0 /\ g.ran = f.ran /\ g.seen = f.seen
    BY <1>2, <1>6, ZenonT(30) DEF Frame
  <1> HIDE DEF g
  <1>10. OnceEach(g)
    BY <1>2, <1>9, Zenon DEF OnceEach
  <1>11. ~Loading(f) /\ ~Loading(g)
    BY <1>1, <1>9, Zenon DEF Loading
  <1>12. TranscriptSound(g)
    <2>1. TranscriptSound(f)
      BY <1>4, Zenon DEF TurnSound
    <2> QED
      BY <1>1, <1>2, <1>5, <1>8, <1>9, <1>11, <2>1, TranscriptGrows, ZenonT(30)
  <1>13. g.context.summary \o g.view = KnownTo(g, stored)
    <2>1. KnownTo(g, stored) = KnownTo(f, stored)
      BY <1>1, <1>7, <1>9, <1>11, Zenon DEF KnownTo
    <2>2. f.context.summary \o f.view = KnownTo(f, stored)
      BY <1>4, Zenon DEF TurnSound
    <2> QED
      BY <1>9, <2>1, <2>2, Zenon
  <1>14. TurnSound(g, stored, saved)
    BY <1>2, <1>4, <1>9, <1>12, <1>13, StoryGoesOn, ZenonT(30)
  <1>15. FrameSound(g, stored, saved)
    BY <1>10, <1>14, Zenon DEF FrameSound
  <1>16. turn[s].pc # "committed"
    BY <1>1, Zenon DEF f
  <1> QED
    BY <1>2, <1>3, <1>9, <1>15, <1>16, StepKeeps, Zenon

LEMMA ToolUseKeeps ==
  ASSUME Sound, NEW s \in Sessions, ToolUse(s)
  PROVE  Sound'
  <1> DEFINE f == turn[s]
  <1>1. f.pc = "send"
    BY Zenon DEF ToolUse, At
  <1>2. PICK ids \in (SUBSET Ids) \ {{}} :
          /\ ids \cap f.seen = {}
          /\ Step(s, [Responded(s) EXCEPT !.seen = @ \cup ids, !.transcript = Append(@, Call(ids)),
                                          !.view = Append(@, Call(ids)), !.pc = "tools"])
    BY Zenon DEF ToolUse, Fresh
  <1> DEFINE x == Call(ids)
             t == Append(f.transcript, x)
             v == Append(f.view, x)
             n == f.seen \cup ids
             g == [f EXCEPT !.attempt = 0, !.target = 0, !.emitted = FALSE, !.streams = 0,
                            !.seen = n, !.transcript = t, !.view = v, !.pc = "tools"]
  <1>3. /\ f \in Frame /\ stored \in Seq(Msg) /\ StoreSound(stored, saved) /\ OnceEach(f)
        /\ f.inbox_ids # {} => s \in Readers
        /\ f.inbox_ids \cap acknowledged = {}
    BY OneSession, Zenon
  <1>4. Step(s, g)
    BY <1>2, <1>3, Zenon DEF Responded, Frame
  <1>5. TurnSound(f, stored, saved)
    BY <1>1, OneSession, Zenon DEF Active
  <1> HIDE DEF f
  <1>6. x \in Msg /\ x.kind = "call" /\ x.of = ids
    BY Zenon DEF Call, Msg
  <1> HIDE DEF x
  <1>7. f.transcript \in Seq(Msg) /\ f.view \in Seq(Msg) /\ t \in Seq(Msg) /\ v \in Seq(Msg) /\ n \subseteq Ids
    BY <1>3, <1>6, Fields, AppendProperties, Zenon
  <1>8. t[Len(t)] = x
    BY <1>6, <1>7, AppendProperties
  <1>9. t = Append(f.transcript, x) /\ v = Append(f.view, x) /\ f.seen \subseteq n /\ ids \subseteq n
    BY Zenon
  <1> HIDE DEF t, v, n
  <1>10. /\ g \in Frame
         /\ g.pc = "tools" /\ g.base = f.base /\ g.revision = f.revision
         /\ g.loaded = f.loaded /\ g.context = f.context /\ g.view = v
         /\ g.transcript = t /\ g.inbox_ids = f.inbox_ids /\ g.emitted = FALSE
         /\ g.streams = 0 /\ g.ran = f.ran /\ g.seen = n
    BY <1>3, <1>7, Zenon DEF Frame
  <1> HIDE DEF g
  <1>11. OnceEach(g)
    <2>1. /\ \A i \in 1 .. Len(f.ran) : f.ran[i] \subseteq f.seen
          /\ \A i, j \in 1 .. Len(f.ran) : i # j => f.ran[i] \cap f.ran[j] = {}
      BY <1>3, Zenon DEF OnceEach
    <2>2. \A i \in 1 .. Len(g.ran) : g.ran[i] \subseteq g.seen /\ g.ran[i] \cap ids = {}
      BY <1>2, <1>9, <1>10, <2>1, Zenon
    <2>3. g.transcript[Len(g.transcript)].of = ids
      BY <1>6, <1>8, <1>10, Zenon
    <2> QED
      BY <1>9, <1>10, <2>1, <2>2, <2>3, Zenon DEF OnceEach
  <1>12. ~Loading(f) /\ ~Loading(g)
    BY <1>1, <1>10, Zenon DEF Loading
  <1>13. TranscriptSound(g)
    <2>1. TranscriptSound(f)
      BY <1>5, Zenon DEF TurnSound
    <2> QED
      BY <1>1, <1>3, <1>6, <1>9, <1>10, <1>12, <2>1, TranscriptGrows, ZenonT(30)
  <1>14. g.context.summary \o g.view = KnownTo(g, stored)
    BY <1>1, <1>3, <1>5, <1>6, <1>9, <1>10, <1>12, BothGrow, ZenonT(30)
  <1>15. TurnSound(g, stored, saved)
    BY <1>3, <1>5, <1>10, <1>13, <1>14, StoryGoesOn, Zenon
  <1>16. FrameSound(g, stored, saved)
    BY <1>11, <1>15, Zenon DEF FrameSound
  <1>17. turn[s].pc # "committed"
    BY <1>1, Zenon DEF f
  <1> QED
    BY <1>3, <1>4, <1>10, <1>16, <1>17, StepKeeps, Zenon

LEMMA RunBatchKeeps ==
  ASSUME Sound, NEW s \in Sessions, RunBatch(s)
  PROVE  Sound'
  <1> DEFINE f == turn[s]
             ids == f.transcript[Len(f.transcript)].of
             x == Result(ids)
             t == Append(f.transcript, x)
             v == Append(f.view, x)
             r == Append(f.ran, ids)
             n == f.iteration + 1
             g == [f EXCEPT !.ran = r, !.transcript = t, !.view = v, !.iteration = n, !.pc = "iterate"]
  <1>1. f.pc = "tools"
    BY Zenon DEF RunBatch, At
  <1>2. /\ f \in Frame /\ stored \in Seq(Msg) /\ StoreSound(stored, saved) /\ OnceEach(f)
        /\ f.inbox_ids # {} => s \in Readers
        /\ f.inbox_ids \cap acknowledged = {}
    BY OneSession, Zenon
  <1>3. Step(s, g)
    BY <1>2, Zenon DEF RunBatch, Frame
  <1>4. TurnSound(f, stored, saved)
    BY <1>1, OneSession, Zenon DEF Active
  <1> HIDE DEF f
  <1>5. /\ ids \subseteq f.seen
        /\ \A i \in 1 .. Len(f.ran) : f.ran[i] \cap ids = {}
        /\ \A i \in 1 .. Len(f.ran) : f.ran[i] \subseteq f.seen
        /\ \A i, j \in 1 .. Len(f.ran) : i # j => f.ran[i] \cap f.ran[j] = {}
        /\ f.streams = IF f.emitted THEN 1 ELSE 0
    BY <1>1, <1>2, Zenon DEF OnceEach
  <1>6. f.seen \subseteq Ids /\ f.ran \in Seq(SUBSET Ids) /\ f.transcript \in Seq(Msg) /\ f.view \in Seq(Msg)
    BY <1>2, Fields, Zenon
  <1>7. ids = f.transcript[Len(f.transcript)].of /\ x = Result(f.transcript[Len(f.transcript)].of)
    BY Zenon
  <1>8. x \in Msg /\ x.kind = "result" /\ x.of = ids
    BY <1>5, <1>6, Zenon DEF Result, Msg
  <1>9. ids \in SUBSET Ids
    BY <1>5, <1>6, Zenon
  <1> HIDE DEF ids, x
  <1>10. t \in Seq(Msg) /\ v \in Seq(Msg) /\ r \in Seq(SUBSET Ids)
    BY <1>6, <1>8, <1>9, AppendProperties, Zenon
  <1>11. n \in Nat
    BY <1>2 DEF Frame
  <1>12. /\ Len(r) = Len(f.ran) + 1 /\ Len(f.ran) \in Nat /\ r[Len(f.ran) + 1] = ids
         /\ \A i \in 1 .. Len(f.ran) : r[i] = f.ran[i]
    BY <1>6, <1>9, AppendProperties, LenProperties
  <1>13. t = Append(f.transcript, x) /\ v = Append(f.view, x)
    BY Zenon
  <1> HIDE DEF t, v, r, n
  <1>14. /\ g \in Frame
         /\ g.pc = "iterate" /\ g.base = f.base /\ g.revision = f.revision
         /\ g.loaded = f.loaded /\ g.context = f.context /\ g.view = v
         /\ g.transcript = t /\ g.inbox_ids = f.inbox_ids /\ g.emitted = f.emitted
         /\ g.streams = f.streams /\ g.ran = r /\ g.seen = f.seen
    BY <1>2, <1>10, <1>11, Zenon DEF Frame
  <1> HIDE DEF g
  <1>15. OnceEach(g)
    <2>1. \A i \in 1 .. Len(r) : i = Len(f.ran) + 1 \/ i \in 1 .. Len(f.ran)
      BY <1>12
    <2>2. \A i \in 1 .. Len(r) : r[i] \subseteq f.seen
      BY <1>5, <1>12, <2>1, Zenon
    <2>3. ASSUME NEW i \in 1 .. Len(r), NEW j \in 1 .. Len(r), i # j
          PROVE  r[i] \cap r[j] = {}
      <3>1. CASE i \in 1 .. Len(f.ran) /\ j \in 1 .. Len(f.ran)
        BY <1>5, <1>12, <2>3, <3>1, Zenon
      <3>2. CASE i = Len(f.ran) + 1 /\ j \in 1 .. Len(f.ran)
        BY <1>5, <1>12, <3>2, Zenon
      <3>3. CASE j = Len(f.ran) + 1 /\ i \in 1 .. Len(f.ran)
        BY <1>5, <1>12, <3>3, Zenon
      <3> QED
        BY <2>1, <2>3, <3>1, <3>2, <3>3, Zenon
    <2> QED
      BY <1>5, <1>14, <2>2, <2>3, Zenon DEF OnceEach
  <1>16. ~Loading(f) /\ ~Loading(g)
    BY <1>1, <1>14, Zenon DEF Loading
  <1>17. TranscriptSound(g)
    <2>1. TranscriptSound(f)
      BY <1>4, Zenon DEF TurnSound
    <2> QED
      BY <1>1, <1>2, <1>7, <1>8, <1>13, <1>14, <1>16, <2>1, TranscriptGrows, SMTT(30)
  <1>18. g.context.summary \o g.view = KnownTo(g, stored)
    BY <1>1, <1>2, <1>4, <1>8, <1>13, <1>14, <1>16, BothGrow, ZenonT(30)
  <1>19. TurnSound(g, stored, saved)
    BY <1>2, <1>4, <1>14, <1>17, <1>18, StoryGoesOn, ZenonT(30)
  <1>20. FrameSound(g, stored, saved)
    BY <1>15, <1>19, Zenon DEF FrameSound
  <1>21. turn[s].pc # "committed"
    BY <1>1, Zenon DEF f
  <1> QED
    BY <1>2, <1>3, <1>14, <1>20, <1>21, StepKeeps, Zenon

\* An iteration without new mail, and one with it.
LEMMA IterateKeeps ==
  ASSUME Sound, NEW s \in Sessions, Iterate(s)
  PROVE  Sound'
  <1> DEFINE f == turn[s]
             ms == Inbox(s)
             note == IF ms = {} THEN << >> ELSE <<Note(ms)>>
             t == f.transcript \o note
             v == f.view \o note
             m == f.inbox_ids \cup ms
             g == [f EXCEPT !.transcript = t, !.view = v, !.inbox_ids = m, !.attempt = 1, !.target = 1,
                            !.streams = 0, !.emitted = FALSE, !.pc = "fit", !.then = "send"]
  <1>1. f.pc = "iterate"
    BY Zenon DEF Iterate, At
  <1>2. /\ f \in Frame /\ stored \in Seq(Msg) /\ StoreSound(stored, saved) /\ OnceEach(f)
        /\ f.inbox_ids # {} => s \in Readers
        /\ f.inbox_ids \cap acknowledged = {}
    BY OneSession, Zenon
  <1>3. Step(s, g)
    BY <1>2, Zenon DEF Iterate, Frame
  <1>4. TurnSound(f, stored, saved)
    BY <1>1, OneSession, Zenon DEF Active
  <1>5. /\ ms \subseteq Nat /\ ms \cap f.inbox_ids = {} /\ ms \cap acknowledged = {}
        /\ ms # {} => s \in Readers
    <2>1. mail \in Nat
      BY Zenon DEF Sound, Typed
    <2>2. \A k \in ms : k \in 1 .. mail /\ k \notin acknowledged /\ k \notin f.inbox_ids
      BY Zenon DEF Inbox
    <2>3. ms # {} => s \in Readers
      BY ZenonT(30) DEF Inbox
    <2> HIDE DEF ms
    <2> QED
      BY <2>1, <2>2, <2>3
  <1> HIDE DEF f, ms
  <1>6. f.transcript \in Seq(Msg) /\ f.view \in Seq(Msg) /\ f.inbox_ids \subseteq Nat
    BY <1>2, Fields, Zenon
  <1>7. Note(ms) \in Msg /\ Note(ms).kind = "note" /\ Note(ms).of = ms
    BY <1>5, Zenon DEF Note, Msg
  <1>8. CASE ms = {}
    <2>1. t = f.transcript /\ v = f.view /\ m = f.inbox_ids
      BY <1>6, <1>8, ConcatEmptySeq, Zenon
    <2> HIDE DEF t, v, m
    <2>2. /\ g \in Frame
          /\ g.pc = "fit" /\ g.then = "send" /\ g.base = f.base /\ g.revision = f.revision
          /\ g.loaded = f.loaded /\ g.context = f.context /\ g.view = f.view
          /\ g.transcript = f.transcript /\ g.inbox_ids = f.inbox_ids /\ g.emitted = FALSE
          /\ g.streams = 0 /\ g.ran = f.ran /\ g.seen = f.seen
      BY <1>2, <2>1, ZenonT(30) DEF Frame
    <2> HIDE DEF g
    <2>3. OnceEach(g)
      BY <1>2, <2>2, Zenon DEF OnceEach
    <2>4. Loading(g) <=> Loading(f)
      BY <1>1, <2>2, Zenon DEF Loading
    <2>5. TurnSound(g, stored, saved)
      BY <1>1, <1>2, <1>4, <2>2, <2>4, SameStory, ZenonT(30)
    <2>6. FrameSound(g, stored, saved)
      BY <2>3, <2>5, Zenon DEF FrameSound
    <2>7. turn[s].pc # "committed"
      BY <1>1, Zenon DEF f
    <2> QED
      BY <1>2, <1>3, <2>2, <2>6, <2>7, StepKeeps, Zenon
  <1>9. CASE ms # {}
    <2> DEFINE x == Note(ms)
    <2>1. note = <<x>>
      BY <1>9, Zenon
    <2> HIDE DEF x
    <2>2. x \in Msg /\ x.kind = "note" /\ x.of = ms
      BY <1>7, Zenon DEF x
    <2>3. t = Append(f.transcript, x) /\ v = Append(f.view, x)
      <3>1. t = f.transcript \o <<x>> /\ v = f.view \o <<x>>
        BY <2>1, Zenon
      <3> HIDE DEF t, v
      <3> QED
        BY <1>6, <2>2, <3>1, AppendIsConcat, Zenon
    <2>4. m = f.inbox_ids \cup x.of /\ m \subseteq Nat /\ m \cap acknowledged = {} /\ s \in Readers
      BY <1>2, <1>5, <1>6, <1>9, <2>2, Zenon
    <2> HIDE DEF t, v, m, note
    <2>5. t \in Seq(Msg) /\ v \in Seq(Msg)
      BY <1>6, <2>2, <2>3, AppendProperties, Zenon
    <2>6. /\ g \in Frame
          /\ g.pc = "fit" /\ g.then = "send" /\ g.base = f.base /\ g.revision = f.revision
          /\ g.loaded = f.loaded /\ g.context = f.context /\ g.view = v
          /\ g.transcript = t /\ g.inbox_ids = m /\ g.emitted = FALSE
          /\ g.streams = 0 /\ g.ran = f.ran /\ g.seen = f.seen
      BY <1>2, <2>4, <2>5 DEF Frame
    <2> HIDE DEF g
    <2>7. OnceEach(g)
      BY <1>2, <2>6, Zenon DEF OnceEach
    <2>8. ~Loading(f) /\ ~Loading(g)
      BY <1>1, <2>6, Zenon DEF Loading
    <2>9. TranscriptSound(g)
      <3>1. TranscriptSound(f)
        BY <1>4, Zenon DEF TurnSound
      <3>2. f.inbox_ids \cap x.of = {}
        BY <1>5, <2>2, Zenon
      <3> QED
        BY <1>1, <1>2, <2>2, <2>3, <2>4, <2>6, <2>8, <3>1, <3>2, TranscriptGrows, SMTT(30)
    <2>10. g.context.summary \o g.view = KnownTo(g, stored)
      BY <1>1, <1>2, <1>4, <2>2, <2>3, <2>6, <2>8, BothGrow, ZenonT(30)
    <2>11. TurnSound(g, stored, saved)
      BY <1>2, <1>4, <2>6, <2>9, <2>10, StoryGoesOn, ZenonT(30)
    <2>12. FrameSound(g, stored, saved)
      BY <2>7, <2>11, Zenon DEF FrameSound
    <2>13. turn[s].pc # "committed"
      BY <1>1, Zenon DEF f
    <2> QED
      BY <1>3, <2>4, <2>6, <2>12, <2>13, StepKeeps, Zenon
  <1> QED
    BY <1>8, <1>9, Zenon

-----------------------------------------------------------------------------
\* The commit.

\* To another turn a commit only adds what it was not given.
LEMMA OthersKept ==
  ASSUME NEW h \in Frame, NEW st \in Seq(Msg), NEW t \in Seq(Msg), t # << >>, NEW sv, NEW sw,
         TurnSound(h, st, sv)
  PROVE  TurnSound(h, st \o t, sw)
  <1> DEFINE w == st \o t
  <1>1. /\ h.base \in Nat /\ h.loaded \in Nat /\ h.base <= Len(st) /\ h.loaded <= h.base
        /\ Len(st) \in Nat /\ Len(t) \in Nat /\ Len(t) # 0
    BY Fields, Items, Zenon DEF TurnSound
  <1>2. w \in Seq(Msg) /\ Len(w) = Len(st) + Len(t) /\ \A i \in 1 .. Len(st) : w[i] = st[i]
    BY Joined, Zenon
  <1>3. h.base \in 0 .. Len(st) /\ h.loaded \in 0 .. Len(st)
    BY <1>1
  <1>4. SubSeq(w, 1, h.base) = SubSeq(st, 1, h.base) /\ SubSeq(w, 1, h.loaded) = SubSeq(st, 1, h.loaded)
    BY <1>3, PrefixOfLonger, Zenon
  <1> HIDE DEF w
  <1>5. KnownTo(h, w) = KnownTo(h, st)
    BY <1>4, Zenon DEF KnownTo
  <1>6. h.base <= Len(w) /\ Len(w) # h.base
    BY <1>1, <1>2
  <1>7. h.base > 0 => w[h.base].kind = "answer"
    BY <1>1, <1>2 DEF TurnSound
  <1>8. Current(h, w, sw)
    BY <1>6, Zenon DEF Current
  <1>9. TurnSound(h, w, sw)
    BY <1>5, <1>6, <1>7, <1>8, Zenon DEF TurnSound
  <1> QED
    BY <1>9, Zenon DEF w

\* The summary of a turn that commits stands for a prefix of the longer conversation.
LEMMA SummaryOfPrefix ==
  ASSUME NEW f \in Frame, NEW st \in Seq(Msg), NEW sv, StoreSound(st, sv), TurnSound(f, st, sv),
         f.pc = "commit", Len(st) = f.base
  PROVE  /\ f.context.covered <= Len(st \o f.transcript)
         /\ f.context.summary = SubSeq(st \o f.transcript, 1, f.context.covered)
  <1> DEFINE S == f.context.summary
             V == f.view
             T == f.transcript
             n == Len(T)
             F == Unanswered(T)
  <1>1. /\ S \in Seq(Msg) /\ V \in Seq(Msg) /\ T \in Seq(Msg) /\ n \in Nat \ {0} /\ F \in Seq(Msg)
        /\ f.context.covered = Len(S)
    BY Fields, Told, Zenon DEF TurnSound, CleanCut
  <1>2. S \o V = st \o F
    <2>1. ~Loading(f)
      BY Zenon DEF Loading
    <2>2. S \o V = SubSeq(st, 1, f.base) \o F
      BY <2>1, Zenon DEF TurnSound, KnownTo
    <2>3. SubSeq(st, 1, Len(st)) = st
      BY SubSeqFull, Zenon
    <2> QED
      BY <2>2, <2>3, Zenon
  <1>3. T = F \o <<T[n]>> /\ T[n] \in Msg
    <2>1. n - 1 \in Nat /\ n - 1 < n /\ (n - 1) + 1 = n /\ n \in 1 .. n
      BY <1>1
    <2>2. SubSeq(T, 1, (n - 1) + 1) = SubSeq(T, 1, n - 1) \o <<T[(n - 1) + 1]>>
      BY <1>1, <2>1, PrefixGrows, Zenon
    <2>3. SubSeq(T, 1, n) = T
      BY <1>1, SubSeqFull, Zenon
    <2>4. F = SubSeq(T, 1, n - 1)
      BY Zenon DEF Unanswered
    <2>5. T[n] \in Msg
      BY <1>1, <2>1, Items, Zenon
    <2> QED
      BY <2>1, <2>2, <2>3, <2>4, <2>5, Zenon
  <1> DEFINE X == <<T[n]>>
  <1>4. X \in Seq(Msg)
    BY <1>3, One, Zenon
  <1>5. T = F \o X
    BY <1>3, Zenon
  <1>6. Len(S) \in Nat /\ Len(V) \in Nat /\ Len(X) \in Nat
    BY <1>1, <1>4, Items, Zenon
  <1> HIDE DEF S, V, T, F, X, n
  <1>7. st \o T = (S \o V) \o X
    <2>1. st \in Seq(Msg) /\ F \in Seq(Msg) /\ X \in Seq(Msg)
      BY <1>1, <1>4, Zenon
    <2>2. st \o (F \o X) = (st \o F) \o X
      BY <2>1, Associative, Zenon
    <2> QED
      BY <1>2, <1>5, <2>2, Zenon
  <1>8. S \o V \in Seq(Msg) /\ Len(S \o V) = Len(S) + Len(V)
    BY <1>1, Joined, Zenon
  <1>9. Len((S \o V) \o X) = Len(S \o V) + Len(X)
    BY <1>4, <1>8, Joined, Zenon
  <1>10. Len(S) \in 0 .. Len(S) /\ Len(S) \in 0 .. Len(S \o V) /\ Len(S) <= Len((S \o V) \o X)
    BY <1>6, <1>8, <1>9
  <1>11. SubSeq((S \o V) \o X, 1, Len(S)) = SubSeq(S \o V, 1, Len(S))
    BY <1>4, <1>8, <1>10, PrefixOfLonger, Zenon
  <1>12. SubSeq(S \o V, 1, Len(S)) = SubSeq(S, 1, Len(S))
    BY <1>1, <1>10, PrefixOfLonger, Zenon
  <1>13. SubSeq(S, 1, Len(S)) = S
    BY <1>1, SubSeqFull, Zenon
  <1>14. Len(S) <= Len(st \o T) /\ S = SubSeq(st \o T, 1, Len(S))
    BY <1>7, <1>10, <1>11, <1>12, <1>13, Zenon
  <1> QED
    BY <1>1, <1>14, Zenon DEF S, T

\* The conversation after a commit is made of whole turns again.
LEMMA WholeTurns ==
  ASSUME NEW f \in Frame, NEW st \in Seq(Msg), NEW sv, StoreSound(st, sv), TurnSound(f, st, sv),
         f.pc = "commit", Len(st) = f.base
  PROVE  StoreSound(st \o f.transcript, f.context)
  <1> DEFINE T == f.transcript
             n == Len(st)
             k == Len(T)
             w == st \o T
  <1>1. T \in Seq(Msg) /\ k \in Nat \ {0} /\ n \in Nat /\ Paired(T) /\ Paired(st)
    BY Fields, Told, Items, Zenon DEF StoreSound
  <1>2. /\ w \in Seq(Msg) /\ Len(w) = n + k
        /\ \A i \in 1 .. n : w[i] = st[i]
        /\ \A i \in 1 .. k : w[n + i] = T[i]
        /\ \A i \in 1 .. Len(w) : i \in 1 .. n \/ i - n \in 1 .. k
    BY <1>1, Joined, Zenon
  <1>3. /\ T[1] = User(n)
        /\ \A i \in 1 .. k : T[i].kind = "user" => i = 1
        /\ \A i \in 1 .. k : T[i].kind = "answer" <=> i = k
    BY Zenon DEF TurnSound, TranscriptSound
  <1>4. \A i \in 1 .. n : /\ st[i].kind = "user" => st[i].of = {i - 1}
                          /\ (i = 1 \/ st[i - 1].kind = "answer") <=> st[i].kind = "user"
                          /\ i = n => st[i].kind = "answer"
    BY Zenon DEF StoreSound
  <1>5. f.context.covered <= Len(w) /\ f.context.summary = SubSeq(w, 1, f.context.covered)
    BY SummaryOfPrefix, Zenon
  <1>6. CleanCut(f.context)
    BY Zenon DEF TurnSound
  <1>7. Paired(w)
    <2>1. st # << >> => n \in 1 .. n
      BY <1>1, Items
    <2>2. Closed(st)
      BY <1>4, <2>1, Zenon DEF Closed
    <2> QED
      BY <1>1, <2>2, PairedJoin, Zenon
  <1> HIDE DEF T, n, k, w
  <1>8. ASSUME NEW i \in 1 .. Len(w)
        PROVE  /\ w[i].kind = "user" => w[i].of = {i - 1}
               /\ (i = 1 \/ w[i - 1].kind = "answer") <=> w[i].kind = "user"
               /\ i = Len(w) => w[i].kind = "answer"
    <2>1. CASE i \in 1 .. n
      <3>1. w[i] = st[i] /\ i # Len(w)
        BY <1>1, <1>2, <2>1
      <3>2. i # 1 => i - 1 \in 1 .. n
        BY <1>1, <2>1
      <3>3. i # 1 => w[i - 1] = st[i - 1]
        BY <1>2, <3>2, Zenon
      <3> QED
        BY <1>4, <2>1, <3>1, <3>3
    <2>2. CASE i - n \in 1 .. k
      <3> DEFINE j == i - n
      <3>1. j \in 1 .. k /\ i = n + j /\ i - 1 = n + (j - 1) /\ (i = Len(w) <=> j = k) /\ i - 1 \in Nat
        BY <1>1, <1>2, <2>2
      <3> HIDE DEF j
      <3>2. w[i] = T[j]
        BY <1>2, <3>1, Zenon
      <3>3. CASE j = 1
        <4>1. i - 1 = n /\ (i # 1 => n \in 1 .. n)
          BY <1>1, <3>1, <3>3
        <4>2. User(n).kind = "user" /\ User(n).of = {n}
          BY Zenon DEF User
        <4>3. w[i].kind = "user" /\ w[i].of = {i - 1}
          BY <1>3, <3>2, <3>3, <4>1, <4>2, Zenon
        <4>4. i # 1 => w[i - 1].kind = "answer"
          BY <1>2, <1>4, <4>1, Zenon
        <4>5. i = Len(w) => w[i].kind = "answer"
          BY <1>3, <3>1, <3>2, Zenon
        <4> QED
          BY <4>3, <4>4, <4>5, Zenon
      <3>4. CASE j # 1
        <4>1. j - 1 \in 1 .. k /\ j - 1 # k /\ i # 1
          BY <1>1, <3>1, <3>4
        <4>2. w[i - 1] = T[j - 1]
          BY <1>2, <3>1, <4>1, Zenon
        <4>3. w[i - 1].kind # "answer" /\ w[i].kind # "user"
          BY <1>3, <3>1, <3>2, <3>4, <4>1, <4>2, SMTT(30)
        <4>4. i = Len(w) => w[i].kind = "answer"
          BY <1>3, <3>1, <3>2, Zenon
        <4> QED
          BY <4>1, <4>3, <4>4, Zenon
      <3> QED
        BY <3>3, <3>4, Zenon
    <2> QED
      BY <1>2, <2>1, <2>2, Zenon
  <1>9. StoreSound(w, f.context)
    BY <1>5, <1>6, <1>7, <1>8, Zenon DEF StoreSound
  <1> QED
    BY <1>9, Zenon DEF w, T

LEMMA CommitKeeps ==
  ASSUME Sound, NEW s \in Sessions, Commit(s)
  PROVE  Sound'
  <1> DEFINE f == turn[s]
             T == f.transcript
             g == [NoTurn EXCEPT !.pc = "committed", !.inbox_ids = f.inbox_ids]
  <1>1. /\ f.pc = "commit" /\ Len(stored) = f.base
        /\ stored' = stored \o T /\ saved' = f.context /\ turn' = [turn EXCEPT ![s] = g]
        /\ UNCHANGED <<prompts, mail, acknowledged>>
    BY Zenon DEF Commit, At, Unchanged
  <1>2. /\ f \in Frame /\ stored \in Seq(Msg) /\ StoreSound(stored, saved)
        /\ f.inbox_ids # {} => s \in Readers
        /\ f.inbox_ids \cap acknowledged = {}
    BY OneSession, Zenon
  <1>3. TurnSound(f, stored, saved)
    BY <1>1, OneSession, Zenon DEF Active
  <1>4. /\ T \in Seq(Msg) /\ T # << >> /\ f.context \in Context /\ f.inbox_ids \subseteq Nat
        /\ turn \in [Sessions -> Frame]
    BY <1>2, <1>3, Fields, Told, ZenonT(30) DEF Sound, Typed
  <1>5. /\ g \in Frame /\ g.pc = "committed" /\ g.inbox_ids = f.inbox_ids
        /\ g.emitted = FALSE /\ g.streams = 0 /\ g.ran = << >>
    <2>1. NoTurn \in Frame /\ NoTurn.emitted = FALSE /\ NoTurn.streams = 0 /\ NoTurn.ran = << >>
      BY EmptyFrame, Zenon
    <2> HIDE DEF f
    <2> QED
      BY <1>4, <2>1, ZenonT(30) DEF Frame
  <1>6. FrameSound(g, stored', saved')
    BY <1>5 DEF FrameSound, OnceEach, Active
  <1> HIDE DEF g
  <1>7. turn' \in [Sessions -> Frame] /\ turn'[s] = g /\ \A r \in Sessions \ {s} : turn'[r] = turn[r]
    BY <1>1, <1>4, <1>5, Zenon
  <1>8. Typed'
    <2>1. stored \o T \in Seq(Msg)
      BY <1>2, <1>4, Joined, Zenon
    <2> QED
      BY <1>1, <1>4, <1>7, <2>1, Zenon DEF Sound, Typed
  <1>9. StoreSound(stored, saved)'
    <2>1. StoreSound(stored \o T, f.context)
      BY <1>1, <1>2, <1>3, WholeTurns, Zenon
    <2> QED
      BY <1>1, <2>1, Zenon
  <1>10. ASSUME NEW r \in Sessions \ {s}
         PROVE  FrameSound(turn'[r], stored', saved')
    <2>1. turn[r] \in Frame /\ OnceEach(turn[r]) /\ (Active(turn[r]) => TurnSound(turn[r], stored, saved))
      BY OneSession, Zenon
    <2>2. Active(turn[r]) => TurnSound(turn[r], stored \o T, f.context)
      BY <1>2, <1>4, <2>1, OthersKept, Zenon
    <2>3. FrameSound(turn[r], stored \o T, f.context)
      BY <2>1, <2>2, Zenon DEF FrameSound
    <2> QED
      BY <1>1, <1>7, <2>3, Zenon
  <1>11. \A r \in Sessions : FrameSound(turn'[r], stored', saved')
    BY <1>6, <1>7, <1>10, Zenon
  <1>12. Settled' = Settled \cup f.inbox_ids
    <2>1. \A r \in Sessions : turn'[r].pc = "committed" <=> turn[r].pc = "committed" \/ r = s
      BY <1>5, <1>7, Zenon
    <2>2. \A r \in Sessions : turn'[r].inbox_ids = turn[r].inbox_ids
      BY <1>5, <1>7, Zenon
    <2>3. turn[s].inbox_ids = f.inbox_ids /\ acknowledged' = acknowledged
      BY <1>1, Zenon
    <2> HIDE DEF f
    <2> QED
      BY <2>1, <2>2, <2>3, SMTT(30) DEF Settled
  <1>13. \A m \in Nat : (m \in f.inbox_ids <=> Noted(T, m) # {}) /\ \A i, j \in Noted(T, m) : i = j
    BY <1>3, ZenonT(30) DEF TurnSound, TranscriptSound
  <1>14. Settled \cap f.inbox_ids = {}
    <2>1. SUFFICES ASSUME NEW m \in Settled, m \in f.inbox_ids PROVE FALSE
      BY Zenon
    <2>2. PICK r \in Sessions : turn[r].pc = "committed" /\ m \in turn[r].inbox_ids
      BY <1>2, <2>1, ZenonT(30) DEF Settled
    <2>3. r \in Readers /\ s \in Readers
      BY <1>2, <2>1, <2>2, OneSession, Zenon
    <2> QED
      BY <1>1, <2>2, <2>3, OneReader, Zenon
  <1>15. ASSUME NEW m \in Nat
         PROVE  /\ m \in Settled' <=> Noted(stored', m) # {}
                /\ \A i, j \in Noted(stored', m) : i = j
    <2>1. (m \in Settled <=> Noted(stored, m) # {}) /\ \A i, j \in Noted(stored, m) : i = j
      BY Zenon DEF Sound, MailSound
    <2>2. (m \in f.inbox_ids <=> Noted(T, m) # {}) /\ \A i, j \in Noted(T, m) : i = j
      BY <1>13, Zenon
    <2>3. Noted(stored, m) = {} \/ Noted(T, m) = {}
      BY <1>14, <2>1, <2>2, Zenon
    <2> HIDE DEF f, T
    <2>4. /\ Noted(stored \o T, m) # {} <=> Noted(stored, m) # {} \/ Noted(T, m) # {}
          /\ /\ \A i, j \in Noted(stored, m) : i = j
             /\ \A i, j \in Noted(T, m) : i = j
             /\ Noted(stored, m) = {} \/ Noted(T, m) = {}
             => \A i, j \in Noted(stored \o T, m) : i = j
      BY <1>2, <1>4, NotedJoin, Zenon
    <2> QED
      BY <1>1, <1>12, <2>1, <2>2, <2>3, <2>4, Zenon
  <1>16. \A r \in Sessions :
           /\ turn'[r].inbox_ids # {} => r \in Readers /\ turn'[r].pc # "idle"
           /\ turn'[r].inbox_ids \cap acknowledged' = {}
    <2>1. \A r \in Sessions : /\ turn[r].inbox_ids # {} => r \in Readers /\ turn[r].pc # "idle"
                              /\ turn[r].inbox_ids \cap acknowledged = {}
      BY Zenon DEF Sound, MailSound
    <2> QED
      BY <1>1, <1>2, <1>5, <1>7, <2>1, Zenon
  <1>17. MailSound'
    BY <1>15, <1>16, Zenon DEF MailSound
  <1> QED
    BY <1>8, <1>9, <1>11, <1>17, Zenon DEF Sound

LEMMA AcknowledgeKeeps ==
  ASSUME Sound, NEW s \in Sessions, Acknowledge(s)
  PROVE  Sound'
  <1>1. /\ turn[s].pc = "committed" /\ acknowledged' = acknowledged \cup turn[s].inbox_ids
        /\ turn' = [turn EXCEPT ![s] = NoTurn] /\ UNCHANGED <<stored, saved, prompts, mail>>
    BY Zenon DEF Acknowledge, At
  <1>2. NoTurn \in Frame /\ NoTurn.pc = "idle" /\ NoTurn.inbox_ids = {} /\ FrameSound(NoTurn, stored, saved)
    BY EmptyFrame, Zenon
  <1>3. turn \in [Sessions -> Frame] /\ acknowledged \subseteq Nat /\ turn[s].inbox_ids \subseteq Nat
    BY OneSession, Fields, Zenon DEF Sound, Typed
  <1>4. turn' \in [Sessions -> Frame] /\ turn'[s] = NoTurn /\ \A r \in Sessions \ {s} : turn'[r] = turn[r]
    BY <1>1, <1>2, <1>3, Zenon
  <1>5. Typed'
    BY <1>1, <1>3, <1>4, ZenonT(30) DEF Sound, Typed
  <1>6. StoreSound(stored, saved)'
    BY <1>1, Zenon DEF Sound
  <1>7. (\A r \in Sessions : FrameSound(turn[r], stored, saved))'
    BY <1>1, <1>2, <1>4, Zenon DEF Sound
  <1>8. Settled' = Settled
    <2>1. \A r \in Sessions : turn'[r].pc = "committed" <=> turn[r].pc = "committed" /\ r # s
      BY <1>2, <1>4, Zenon
    <2>2. \A r \in Sessions \ {s} : turn'[r].inbox_ids = turn[r].inbox_ids
      BY <1>4, Zenon
    <2> QED
      BY <1>1, <2>1, <2>2, SMTT(30) DEF Settled
  <1>9. ASSUME NEW r \in Sessions
        PROVE  /\ turn'[r].inbox_ids # {} => r \in Readers /\ turn'[r].pc # "idle"
               /\ turn'[r].inbox_ids \cap acknowledged' = {}
    <2>1. \A q \in Sessions : /\ turn[q].inbox_ids # {} => q \in Readers /\ turn[q].pc # "idle"
                              /\ turn[q].inbox_ids \cap acknowledged = {}
      BY Zenon DEF Sound, MailSound
    <2>2. CASE r = s
      BY <1>2, <1>4, <2>2, Zenon
    <2>3. CASE r # s
      <3>1. turn'[r] = turn[r]
        BY <1>4, <2>3, Zenon
      <3>2. turn[r].inbox_ids = {} \/ turn[s].inbox_ids = {}
        BY <2>1, <2>3, OneReader, Zenon
      <3> QED
        BY <1>1, <2>1, <3>1, <3>2, Zenon
    <2> QED
      BY <2>2, <2>3, Zenon
  <1>10. MailSound'
    BY <1>1, <1>8, <1>9, Zenon DEF Sound, MailSound
  <1> QED
    BY <1>5, <1>6, <1>7, <1>10, Zenon DEF Sound

-----------------------------------------------------------------------------
\* The invariant and what follows from it.

LEMMA SendKeeps ==
  ASSUME Sound, Send
  PROVE  Sound'
  <1>1. mail' \in Nat /\ UNCHANGED <<stored, saved, turn, prompts, acknowledged>>
    BY DEF Send, Sound, Typed
  <1>2. Typed'
    BY <1>1, Zenon DEF Sound, Typed
  <1>3. StoreSound(stored, saved)' /\ (\A s \in Sessions : FrameSound(turn[s], stored, saved))'
    BY <1>1, Zenon DEF Sound
  <1>4. MailSound'
    BY <1>1 DEF Sound, MailSound, Settled
  <1> QED
    BY <1>2, <1>3, <1>4, Zenon DEF Sound

LEMMA Stutters ==
  ASSUME Sound, UNCHANGED vars
  PROVE  Sound'
  <1>1. UNCHANGED <<stored, saved, turn, prompts, mail, acknowledged>>
    BY Zenon DEF vars
  <1>2. Typed' /\ StoreSound(stored, saved)' /\ (\A s \in Sessions : FrameSound(turn[s], stored, saved))'
    BY <1>1, Zenon DEF Sound, Typed
  <1>3. MailSound'
    BY <1>1 DEF Sound, MailSound, Settled
  <1> QED
    BY <1>2, <1>3, Zenon DEF Sound

LEMMA SoundInit == Init => Sound
  <1> SUFFICES ASSUME Init PROVE Sound
    BY Zenon
  <1>1. /\ stored = << >> /\ saved = NoContext /\ turn = [s \in Sessions |-> NoTurn]
        /\ prompts = 0 /\ mail = 0 /\ acknowledged = {}
    BY Zenon DEF Init
  <1>2. << >> \in Seq(Msg) /\ Len(<< >>) = 0
    OBVIOUS
  <1>3. NoContext \in Context /\ NoContext.covered = 0 /\ NoContext.summary = << >>
    BY <1>2, Zenon DEF NoContext, Context
  <1>4. NoTurn \in Frame /\ NoTurn.pc = "idle" /\ NoTurn.inbox_ids = {} /\ FrameSound(NoTurn, stored, saved)
    BY EmptyFrame, Zenon
  <1>5. \A s \in Sessions : turn[s] = NoTurn
    BY <1>1, Zenon
  <1>6. Typed
    BY <1>1, <1>2, <1>3, <1>4, Zenon DEF Typed
  <1>7. StoreSound(stored, saved)
    <2>1. SubSeq(<< >>, 1, 0) = << >>
      BY <1>2, SubSeqFull, Zenon
    <2>2. \A i \in 1 .. Len(stored) : FALSE
      BY <1>1, <1>2, SMTT(30)
    <2>3. Paired(stored)
      BY <2>2, Zenon DEF Paired
    <2>4. CleanCut(saved)
      BY <1>1, <1>2, <1>3, Zenon DEF CleanCut, Closed
    <2>5. saved.covered <= Len(stored) /\ saved.summary = SubSeq(stored, 1, saved.covered)
      BY <1>1, <1>2, <1>3, <2>1, SMTT(30)
    <2> QED
      BY <2>2, <2>3, <2>4, <2>5, Zenon DEF StoreSound
  <1>8. MailSound
    <2>1. Settled = {}
      BY <1>1, <1>4, <1>5, Zenon DEF Settled
    <2>2. \A m : Noted(stored, m) = {}
      BY <1>1, <1>2 DEF Noted
    <2> QED
      BY <1>4, <1>5, <2>1, <2>2, Zenon DEF MailSound
  <1> QED
    BY <1>4, <1>5, <1>6, <1>7, <1>8, Zenon DEF Sound

LEMMA SoundNext == Sound /\ [Next]_vars => Sound'
  <1> SUFFICES ASSUME Sound, [Next]_vars PROVE Sound'
    BY Zenon
  <1>1. CASE UNCHANGED vars
    BY <1>1, Stutters, Zenon
  <1>2. CASE Send
    BY <1>2, SendKeeps, Zenon
  <1>3. ASSUME NEW s \in Sessions,
               \/ Begin(s) \/ LoadMessage(s) \/ LoadEnds(s) \/ Fail(s)
               \/ Fits(s) \/ Compact(s) \/ Iterate(s)
               \/ Emit(s) \/ AttemptFails(s) \/ Answered(s) \/ ToolUse(s) \/ RunBatch(s)
               \/ Commit(s) \/ Acknowledge(s)
        PROVE  Sound'
    <2>1. CASE Begin(s) \/ LoadMessage(s) \/ LoadEnds(s) \/ Fail(s)
      BY <2>1, BeginKeeps, LoadMessageKeeps, LoadEndsKeeps, FailKeeps, Zenon
    <2>2. CASE Fits(s) \/ Compact(s) \/ Iterate(s)
      BY <2>2, FitsKeeps, CompactKeeps, IterateKeeps, Zenon
    <2>3. CASE Emit(s) \/ AttemptFails(s) \/ Answered(s) \/ ToolUse(s) \/ RunBatch(s)
      BY <2>3, EmitKeeps, AttemptFailsKeeps, AnsweredKeeps, ToolUseKeeps, RunBatchKeeps, Zenon
    <2>4. CASE Commit(s) \/ Acknowledge(s)
      BY <2>4, CommitKeeps, AcknowledgeKeeps, Zenon
    <2> QED
      BY <1>3, <2>1, <2>2, <2>3, <2>4, Zenon
  <1> QED
    BY <1>1, <1>2, <1>3, Zenon DEF Next

\* The store consists of whole turns and every frame fits the store, in every
\* reachable state: run_prompt, run_turn, fit_context, the retries and the commit
\* of the session repository keep Sound, however turns of sessions interleave.
THEOREM TurnInvariant == Spec => []Sound
  BY SoundInit, SoundNext, PTL DEF Spec

\* Calls that are followed by their results are not open.
LEMMA NothingPending ==
  ASSUME NEW q \in Seq(Msg), Paired(q), Closed(q)
  PROVE  Pending(q, Len(q)) = {}
  <1>1. SUFFICES ASSUME NEW id \in Ids, NEW j \in 1 .. Len(q), q[j].kind = "call", id \in q[j].of,
                        \A k \in j .. Len(q) : ~(q[k].kind = "result" /\ id \in q[k].of)
                 PROVE  FALSE
    BY Zenon DEF Pending
  <1>2. Len(q) \in Nat /\ q # << >>
    BY Items
  <1>3. j # Len(q)
    BY <1>1, <1>2, Zenon DEF Closed
  <1>4. j < Len(q) /\ j + 1 \in j .. Len(q)
    BY <1>2, <1>3
  <1>5. q[j + 1] = Result(q[j].of)
    BY <1>1, <1>4, Zenon DEF Paired
  <1>6. Result(q[j].of).kind = "result" /\ Result(q[j].of).of = q[j].of
    BY Zenon DEF Result
  <1> QED
    BY <1>1, <1>4, <1>5, <1>6, Zenon

\* A request shows the model the whole conversation once, as summary and view,
\* and calls only with their results (load_context, fit_context, run_turn).
THEOREM ContextStaysWhole == Spec => []ContextWhole
  <1>1. Sound => ContextWhole
    <2> SUFFICES ASSUME Sound, NEW s \in Sessions, turn[s].pc \notin {"idle", "committed"}
                 PROVE  /\ turn[s].context.summary \o turn[s].view = Known(s)
                        /\ turn[s].context.covered = Len(turn[s].context.summary)
                        /\ At(s, "send") =>
                             LET q == turn[s].view
                             IN /\ Pending(q, Len(q)) = {}
                                /\ \A i \in 1 .. Len(q) : q[i].kind = "result" => i > 1 /\ q[i - 1] = Call(q[i].of)
      BY ZenonT(30) DEF ContextWhole
    <2>1. /\ turn[s] \in Frame /\ stored \in Seq(Msg) /\ StoreSound(stored, saved)
          /\ TurnSound(turn[s], stored, saved)
      BY OneSession, Zenon DEF Active
    <2>2. Known(s) = KnownTo(turn[s], stored)
      BY Zenon DEF Known, KnownTo, Loading, At
    <2>3. turn[s].context.summary \o turn[s].view = Known(s)
      BY <2>1, <2>2, Zenon DEF TurnSound
    <2>4. turn[s].context.covered = Len(turn[s].context.summary)
      BY <2>1, Zenon DEF TurnSound, CleanCut
    <2>5. ASSUME At(s, "send")
          PROVE  /\ Pending(turn[s].view, Len(turn[s].view)) = {}
                 /\ \A i \in 1 .. Len(turn[s].view) :
                      turn[s].view[i].kind = "result" =>
                        i > 1 /\ turn[s].view[i - 1] = Call(turn[s].view[i].of)
      <3>1. ~Loading(turn[s]) /\ turn[s].pc \notin {"tools", "commit"}
        BY <2>5, Zenon DEF At, Loading
      <3>2. turn[s].view \in Seq(Msg) /\ Paired(turn[s].view) /\ Closed(turn[s].view)
        BY <2>1, <3>1, Fields, KnownPaired, ZenonT(30)
      <3>3. Pending(turn[s].view, Len(turn[s].view)) = {}
        BY <3>2, NothingPending, Zenon
      <3> QED
        BY <3>2, <3>3, Zenon DEF Paired
    <2> QED
      BY <2>3, <2>4, <2>5, Zenon
  <1> QED
    BY <1>1, TurnInvariant, PTL

\* Turns commit one after the other, each on everything before it, and the saved
\* context is one the next turn can load and no conflict-free commit is refused
\* (SessionRepository::commit_turn, load_context).
THEOREM TurnsAreSerialized == Spec => []TurnsSerialized
  <1>1. Sound => TurnsSerialized
    <2> SUFFICES ASSUME Sound PROVE TurnsSerialized
      BY Zenon
    <2>1. stored \in Seq(Msg) /\ saved \in Context /\ StoreSound(stored, saved)
      BY Zenon DEF Sound, Typed
    <2>2. Len(stored) \in Nat /\ saved.covered \in Nat /\ saved.summary \in Seq(Msg)
      BY <2>1, Items, Zenon DEF Context
    <2>3. ASSUME NEW i \in 1 .. Len(stored)
          PROVE  /\ stored[i].kind = "user" => stored[i].of = {i - 1}
                 /\ (i = 1 \/ stored[i - 1].kind = "answer") <=> stored[i].kind = "user"
                 /\ stored[i].kind = "call" => i < Len(stored) /\ stored[i + 1] = Result(stored[i].of)
                 /\ i = Len(stored) => stored[i].kind = "answer"
      <3>1. /\ stored[i].kind = "user" => stored[i].of = {i - 1}
            /\ (i = 1 \/ stored[i - 1].kind = "answer") <=> stored[i].kind = "user"
            /\ i = Len(stored) => stored[i].kind = "answer"
        BY <2>1, Zenon DEF StoreSound
      <3>2. stored[i].kind = "call" => (i < Len(stored) => stored[i + 1] = Result(stored[i].of))
        BY <2>1, Zenon DEF StoreSound, Paired
      <3>3. i # Len(stored) => i < Len(stored)
        BY <2>2
      <3> QED
        BY <3>1, <3>2, <3>3, Zenon
    <2>4. /\ saved.covered <= Len(stored) /\ saved.summary = SubSeq(stored, 1, saved.covered)
          /\ saved.covered = Len(saved.summary)
      BY <2>1, Zenon DEF StoreSound, CleanCut
    <2>5. Loadable
      <3>1. saved.summary = << >> => saved.covered = 0
        BY <2>4, Zenon
      <3>2. saved.covered > 0 => saved.covered # 0
        BY <2>2
      <3>3. saved.covered > 0 => saved.summary # << >>
        BY <3>1, <3>2, Zenon
      <3> QED
        BY <2>4, <3>3, Zenon DEF Loadable
    <2>6. ASSUME NEW s \in Sessions, At(s, "commit"), Unchanged(s)
          PROVE  Acceptable(s)
      <3>1. turn[s].pc = "commit" /\ Len(stored) = turn[s].base
        BY <2>6, Zenon DEF At, Unchanged
      <3>2. turn[s] \in Frame /\ TurnSound(turn[s], stored, saved)
        BY <3>1, OneSession, Zenon DEF Active
      <3>3. Current(turn[s], stored, saved)
        BY <3>2, Zenon DEF TurnSound
      <3>4. turn[s].context.covered <= Len(stored \o turn[s].transcript)
        BY <2>1, <3>1, <3>2, SummaryOfPrefix, Zenon
      <3>5. Len(stored \o turn[s].transcript) = Len(stored) + Len(turn[s].transcript)
        BY <2>1, <3>2, Fields, Joined, Zenon
      <3> QED
        BY <3>1, <3>3, <3>4, <3>5, Zenon DEF Acceptable, Current
    <2> QED
      BY <2>3, <2>4, <2>5, <2>6, Zenon DEF TurnsSerialized
  <1> QED
    BY <1>1, TurnInvariant, PTL

\* A message of the inbox is acknowledged, or about to be, exactly when one
\* committed turn has it (run_turn's inbox_ids, the acknowledgement after the
\* commit).
THEOREM MailIsKept == Spec => []MailKept
  <1>1. Sound => MailKept
    <2> SUFFICES ASSUME Sound, NEW m \in 1 .. MaxMail
                 PROVE  Cardinality(Noted(stored, m)) =
                          (IF m \in acknowledged \/ \E s \in Sessions : At(s, "committed") /\ m \in turn[s].inbox_ids
                           THEN 1 ELSE 0)
      BY Zenon DEF MailKept, Noted
    <2>1. m \in Nat
      BY TurnBounds
    <2>2. (m \in Settled <=> Noted(stored, m) # {}) /\ \A i, j \in Noted(stored, m) : i = j
      BY <2>1, Zenon DEF Sound, MailSound
    <2>3. m \in Settled <=> m \in acknowledged \/ \E s \in Sessions : At(s, "committed") /\ m \in turn[s].inbox_ids
      BY Zenon DEF Settled, At
    <2>4. CASE m \in Settled
      <3>1. PICK i : Noted(stored, m) = {i}
        BY <2>2, <2>4, Zenon
      <3>2. Cardinality({i}) = 1
        BY FS_Singleton, Zenon
      <3> QED
        BY <2>3, <2>4, <3>1, <3>2, Zenon
    <2>5. CASE m \notin Settled
      BY <2>2, <2>3, <2>5, FS_EmptySet, Zenon
    <2> QED
      BY <2>4, <2>5, Zenon
  <1> QED
    BY <1>1, TurnInvariant, PTL

\* No tool call of a turn is executed twice and no request streams twice to the
\* user (the seen ids of run_turn, the streaming guard of the retries).
THEOREM EffectsHappenOnce == Spec => []EffectsOnce
  <1>1. Sound => EffectsOnce
    <2> SUFFICES ASSUME Sound, NEW s \in Sessions
                 PROVE  /\ turn[s].streams <= 1
                        /\ \A i, j \in 1 .. Len(turn[s].ran) : i # j => turn[s].ran[i] \cap turn[s].ran[j] = {}
      BY Zenon DEF EffectsOnce
    <2>1. OnceEach(turn[s])
      BY OneSession, Zenon
    <2>2. turn[s].streams = 0 \/ turn[s].streams = 1
      BY <2>1, Zenon DEF OnceEach
    <2>3. turn[s].streams <= 1
      BY <2>2
    <2> QED
      BY <2>1, <2>3, Zenon DEF OnceEach
  <1> QED
    BY <1>1, TurnInvariant, PTL
=============================================================================
