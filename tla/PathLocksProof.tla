--------------------------- MODULE PathLocksProof ---------------------------
(***************************************************************************)
(* LockInv is inductive, for any finite set of dispatches and any set of   *)
(* paths; mutual exclusion and service in order follow from it.            *)
(***************************************************************************)
EXTENDS PathLocks, FiniteSetTheorems, SequenceTheorems, TLAPS

\* The initial table is empty and no call is inside it.
LEMMA InitLockInv == Init => LockInv
<1> SUFFICES ASSUME Init PROVE LockInv
  BY Zenon
<1>1. NoRequest \in [path : Paths, mode : Modes]
  BY PathsNonempty, Zenon DEF NoRequest, Modes
<1>2. TypeOK
  BY <1>1 DEF Init, TypeOK, Locations
<1>3. PermitsCounted
  <2>1. \A p \in Paths : SharedPermits(p) = {}
    BY Zenon DEF Init, SharedPermits, Permit
  <2>2. QED
    BY <2>1, FS_EmptySet, Zenon DEF Init, PermitsCounted, Permit
<1>4. QueuesExact /\ EntriesLive
  BY DEF Init, QueuesExact, EntriesLive, Queued
<1>5. QED
  BY <1>2, <1>3, <1>4, Zenon DEF LockInv

\* Adding n distinct new elements, listed by a sequence, to a finite set adds n
\* to its cardinality.
LEMMA CountGranted ==
  ASSUME NEW S, IsFiniteSet(S), NEW T, NEW q \in Seq(T), NEW n \in 0 .. Len(q),
         \A i, j \in 1 .. n : q[i] = q[j] => i = j,
         \A i \in 1 .. n : q[i] \notin S
  PROVE  Cardinality(S \cup {q[i] : i \in 1 .. n}) = Cardinality(S) + n
<1> DEFINE G == {q[i] : i \in 1 .. n}
           f == [i \in 1 .. n |-> q[i]]
<1>1. f \in Bijection(1 .. n, G)
  BY Zenon DEF Bijection, Injection, Surjection, IsInjective
<1>2. ExistsBijection(1 .. n, G)
  BY <1>1, Zenon DEF ExistsBijection
<1>3. n \in Nat /\ IsFiniteSet(1 .. n)
  BY FS_Interval
<1>4. IsFiniteSet(G) /\ Cardinality(G) = n
  BY <1>2, <1>3, FS_Bijection, FS_CountingElements, Zenon
<1>5. S \cap G = {}
  BY Zenon
<1>6. Cardinality(S) \in Nat
  BY FS_CardinalityType, Zenon
<1>7. Cardinality(S \cup G) = Cardinality(S) + Cardinality(G) - Cardinality(S \cap G)
  BY <1>4, FS_Union, Zenon
<1>8. Cardinality(S \cap G) = 0
  BY <1>5, FS_EmptySet, Zenon
<1>9. QED
  BY <1>4, <1>6, <1>7, <1>8

\* Permits of the calls other than c: what is left of the path's permits when c
\* withdraws or gives its own back.
OtherShared(p, c) == {d \in Calls \ {c} : Permit(d, p) /\ Shared(d)}

\* r, w and q are what path p has when the call c is not counted: the permits
\* and the queue of the other calls.
Others(c, p, r, w, q) ==
  /\ p \in Paths /\ p = req[c].path /\ p \in present
  /\ pc[c] # "idle"
  /\ r \in Nat /\ w \in BOOLEAN /\ q \in Seq(Calls)
  /\ r = Cardinality(OtherShared(p, c))
  /\ w <=> \E d \in Calls \ {c} : Permit(d, p) /\ ~Shared(d)
  /\ \A d \in Calls \ {c} : Queued(d, p) <=> \E i \in 1 .. Len(q) : q[i] = d
  /\ \A i \in 1 .. Len(q) : q[i] # c
  /\ \A i, j \in 1 .. Len(q) : q[i] = q[j] => i = j

\* What is left of a queue without its first n elements.
LEMMA SuffixFacts ==
  ASSUME NEW T, NEW q \in Seq(T), NEW n \in 0 .. Len(q)
  PROVE  /\ n \in Nat /\ Len(q) \in Nat
         /\ SubSeq(q, n + 1, Len(q)) \in Seq(T)
         /\ Len(SubSeq(q, n + 1, Len(q))) = Len(q) - n
         /\ \A i \in 1 .. Len(SubSeq(q, n + 1, Len(q))) :
              SubSeq(q, n + 1, Len(q))[i] = q[n + i] /\ n + i \in 1 .. Len(q)
         /\ \A i \in 1 .. Len(q) :
              i > n => /\ i - n \in 1 .. Len(SubSeq(q, n + 1, Len(q)))
                       /\ q[i] = SubSeq(q, n + 1, Len(q))[i - n]
<1> DEFINE q2 == SubSeq(q, n + 1, Len(q))
<1>1. n \in Nat /\ Len(q) \in Nat /\ n <= Len(q)
  OBVIOUS
<1>2. q2 \in Seq(T) /\ Len(q2) = Len(q) - n
  BY <1>1
<1>3. \A i \in 1 .. Len(q) - n : q2[i] = q[n + i]
  BY <1>1
<1> HIDE DEF q2
<1>4. \A i \in 1 .. Len(q2) : q2[i] = q[n + i] /\ n + i \in 1 .. Len(q)
  BY <1>1, <1>2, <1>3
<1>5. ASSUME NEW i \in 1 .. Len(q), i > n
      PROVE  i - n \in 1 .. Len(q2) /\ q[i] = q2[i - n]
  <2>1. i - n \in 1 .. Len(q2) /\ n + (i - n) = i
    BY <1>1, <1>2, <1>5
  <2>2. q2[i - n] = q[n + (i - n)]
    BY <1>4, <2>1, Zenon
  <2>3. QED
    BY <2>1, <2>2, Zenon
<1>6. QED
  BY <1>1, <1>2, <1>4, <1>5, Zenon DEF q2

\* A call that leaves the table restores the invariant by advancing its path,
\* provided the counters and the queue it hands to `advance` are those of the
\* other calls.
LEMMA AdvanceRestores ==
  ASSUME LockInv, NEW c \in Calls, NEW p, NEW r, NEW w, NEW q,
         Others(c, p, r, w, q), Advance(c, p, r, w, q), Finish(c)
  PROVE  LockInv'
<1> /\ p \in Paths /\ p = req[c].path /\ p \in present
    /\ pc[c] # "idle"
    /\ r \in Nat /\ w \in BOOLEAN /\ q \in Seq(Calls)
    /\ r = Cardinality(OtherShared(p, c))
    /\ w <=> \E d \in Calls \ {c} : Permit(d, p) /\ ~Shared(d)
    /\ \A d \in Calls \ {c} : Queued(d, p) <=> \E i \in 1 .. Len(q) : q[i] = d
    /\ \A i \in 1 .. Len(q) : q[i] # c
    /\ \A i, j \in 1 .. Len(q) : q[i] = q[j] => i = j
  BY Zenon DEF Others
<1>0. TypeOK /\ PermitsCounted /\ QueuesExact /\ EntriesLive
  BY Zenon DEF LockInv
<1>1. PICK n \in 0 .. Len(q) :
        /\ Wakes(r, w, q, n)
        /\ readers' = [readers EXCEPT ![p] = IF n > 0 /\ Shared(q[1]) THEN r + n ELSE r]
        /\ writer' = [writer EXCEPT ![p] = w \/ (n > 0 /\ ~Shared(q[1]))]
        /\ waiters' = [waiters EXCEPT ![p] = SubSeq(q, n + 1, Len(q))]
        /\ woken' = [d \in Calls |-> \/ \E i \in 1 .. n : q[i] = d
                                     \/ woken[d] /\ d # c]
        /\ present' = IF readers'[p] = 0 /\ ~writer'[p] /\ waiters'[p] = << >>
                      THEN present \ {p} ELSE present
  BY Zenon DEF Advance
<1> DEFINE G == {q[i] : i \in 1 .. n}
           q2 == SubSeq(q, n + 1, Len(q))
<1>2. NoRequest \in [path : Paths, mode : Modes]
  BY PathsNonempty, Zenon DEF NoRequest, Modes
<1>3. /\ n \in Nat /\ Len(q) \in Nat
      /\ q2 \in Seq(Calls)
      /\ Len(q2) = Len(q) - n
      /\ \A i \in 1 .. Len(q2) : q2[i] = q[n + i] /\ n + i \in 1 .. Len(q)
      /\ \A i \in 1 .. Len(q) : i > n => i - n \in 1 .. Len(q2) /\ q[i] = q2[i - n]
  BY SuffixFacts, ZenonT(30)
<1> HIDE DEF q2
<1>4. TypeOK'
  <2>1. woken' \in [Calls -> BOOLEAN]
    BY <1>1, Zenon
  <2>2. /\ readers' \in [Paths -> Nat]
        /\ waiters' \in [Paths -> Seq(Calls)]
        /\ present' \subseteq Paths
    <3>1. readers' \in [Paths -> Nat]
      <4>1. (IF n > 0 /\ Shared(q[1]) THEN r + n ELSE r) \in Nat
        BY <1>3
      <4>2. QED
        BY <1>0, <1>1, <4>1, Zenon DEF TypeOK
    <3>2. waiters' \in [Paths -> Seq(Calls)]
      BY <1>0, <1>1, <1>3, Zenon DEF TypeOK, q2
    <3>3. present' \subseteq Paths
      BY <1>0, <1>1, Zenon DEF TypeOK
    <3>4. QED
      BY <3>1, <3>2, <3>3, Zenon
  <2>3. writer' \in [Paths -> BOOLEAN]
    BY <1>0, <1>1, Zenon DEF TypeOK
  <2>4. /\ req' \in [Calls -> [path : Paths, mode : Modes]]
        /\ pc' \in [Calls -> Locations]
        /\ cancelled' \in [Calls -> BOOLEAN]
    BY <1>0, <1>2, Zenon DEF TypeOK, Finish, Locations
  <2>5. QED
    BY <1>0, <2>1, <2>2, <2>3, <2>4, Zenon DEF TypeOK
<1>5. /\ req' = [req EXCEPT ![c] = NoRequest]
      /\ pc' = [pc EXCEPT ![c] = "idle"]
  BY Zenon DEF Finish
<1>6. G \subseteq Calls /\ c \notin G
  BY SMTT(30)
<1>7. \A d \in G : pc[d] = "waiting" /\ ~woken[d] /\ req[d].path = p
  BY <1>6 DEF Queued
<1>8. \A d \in Calls \ {c} : req'[d] = req[d] /\ pc'[d] = pc[d]
  BY <1>0, <1>5, Zenon DEF TypeOK
<1>9. req'[c] = NoRequest /\ pc'[c] = "idle" /\ ~woken'[c]
  <2>1. ~woken'[c]
    BY <1>1, <1>6, Zenon
  <2>2. QED
    BY <1>0, <1>5, <2>1, Zenon DEF TypeOK
<1>10. \A d \in Calls \ {c} : woken'[d] <=> d \in G \/ woken[d]
  BY <1>1, Zenon
\* Who holds a permit after the step.
<1>11. \A d \in Calls \ {c}, x \in Paths :
          Permit(d, x)' <=> Permit(d, x) \/ (x = p /\ d \in G)
  BY <1>0, <1>7, <1>8, <1>10, SMTT(30) DEF Permit, TypeOK
<1>12. \A x \in Paths : ~Permit(c, x)'
  BY <1>9, Zenon DEF Permit
<1>13. \A d \in Calls \ {c} : Shared(d)' = Shared(d)
  BY <1>8, Zenon DEF Shared
<1>14. QueuesExact'
  <2>1. ASSUME NEW x \in Paths, NEW d \in Calls
        PROVE  Queued(d, x)' <=> \E i \in 1 .. Len(waiters'[x]) : waiters'[x][i] = d
    <3>1. CASE x # p
      <4>1. waiters'[x] = waiters[x]
        BY <1>0, <1>1, <3>1, Zenon DEF TypeOK
      <4>2. Queued(d, x)' <=> Queued(d, x)
        BY <1>0, <1>7, <1>8, <1>9, <1>10, <3>1, ZenonT(30) DEF Queued, TypeOK
      <4>3. QED
        BY <1>0, <4>1, <4>2 DEF QueuesExact
    <3>2. CASE x = p /\ d = c
      <4>1. ~Queued(d, x)'
        BY <1>9, <3>2, Zenon DEF Queued
      <4>2. waiters'[x] = q2
        BY <1>0, <1>1, <3>2, ZenonT(30) DEF TypeOK, q2
      <4>3. \A i \in 1 .. Len(q2) : q2[i] # c
        BY <1>3, SMTT(30)
      <4>4. QED
        BY <4>1, <4>2, <4>3, <3>2, ZenonT(30)
    <3>3. CASE x = p /\ d # c
      <4>1. waiters'[x] = q2
        BY <1>0, <1>1, <3>3, Zenon DEF TypeOK, q2
      <4>2. Queued(d, x)' <=> Queued(d, x) /\ d \notin G
        BY <1>0, <1>8, <1>10, <3>3, ZenonT(30) DEF Queued, TypeOK
      <4>3. (\E i \in 1 .. Len(q2) : q2[i] = d)
              <=> (\E i \in 1 .. Len(q) : q[i] = d) /\ d \notin G
        <5>1. ASSUME NEW i \in 1 .. Len(q2), q2[i] = d
              PROVE  (\E k \in 1 .. Len(q) : q[k] = d) /\ d \notin G
          <6>1. n + i \in 1 .. Len(q) /\ q[n + i] = d
            BY <1>3, <5>1, Zenon
          <6>2. \A k \in 1 .. n : k # n + i /\ k \in 1 .. Len(q)
            BY <1>3
          <6>3. d \notin G
            BY <6>1, <6>2, Zenon
          <6>4. QED
            BY <6>1, <6>3, Zenon
        <5>2. ASSUME NEW i \in 1 .. Len(q), q[i] = d, d \notin G
              PROVE  \E k \in 1 .. Len(q2) : q2[k] = d
          <6>1. i > n
            BY <1>3, <5>2
          <6>2. QED
            BY <1>3, <5>2, <6>1, ZenonT(30)
        <5>3. QED
          BY <5>1, <5>2, ZenonT(30)
      <4>4. Queued(d, x) <=> \E i \in 1 .. Len(q) : q[i] = d
        BY <3>3, Zenon
      <4>5. QED
        BY <4>1, <4>2, <4>3, <4>4, ZenonT(30)
    <3>4. QED
      BY <3>1, <3>2, <3>3, Zenon
  <2>2. ASSUME NEW x \in Paths, NEW i \in 1 .. Len(waiters'[x]),
               NEW j \in 1 .. Len(waiters'[x]), waiters'[x][i] = waiters'[x][j]
        PROVE  i = j
    <3>1. CASE x # p
      BY <1>0, <1>1, <2>2, <3>1, SMTT(30) DEF TypeOK, QueuesExact
    <3>2. CASE x = p
      <4>1. waiters'[x] = q2
        BY <1>0, <1>1, <3>2, ZenonT(30) DEF TypeOK, q2
      <4>2. q[n + i] = q[n + j] /\ n + i \in 1 .. Len(q) /\ n + j \in 1 .. Len(q)
        BY <1>3, <2>2, <4>1, Zenon
      <4>3. n + i = n + j
        BY <4>2, Zenon
      <4>4. QED
        BY <1>3, <4>1, <4>3
    <3>3. QED
      BY <3>1, <3>2, Zenon
  <2>3. QED
    BY <1>0, <2>1, <2>2, Zenon DEF QueuesExact
\* What the woken calls asked for.
<1>15. n > 0 => q # << >> /\ q[1] \in G /\ ~w
  BY <1>1, <1>3, SMTT(30) DEF Wakes
<1>16. n > 0 /\ Shared(q[1]) => \A d \in G : Shared(d)
  BY <1>1, <1>3, SMTT(30) DEF Wakes
<1>17. n > 0 /\ ~Shared(q[1]) => n = 1 /\ G = {q[1]} /\ r = 0
  BY <1>1, <1>3 DEF Wakes
<1>18. n = 0 => G = {}
  OBVIOUS
<1>19. IsFiniteSet(OtherShared(p, c))
  <2>1. OtherShared(p, c) \in SUBSET Calls
    BY Zenon DEF OtherShared
  <2>2. QED
    BY <2>1, CallsFinite, FS_Subset, Zenon
<1>20. r = 0 <=> OtherShared(p, c) = {}
  BY <1>19, FS_EmptySet, Zenon
<1>21. PermitsCounted'
  <2>1. ASSUME NEW x \in Paths
        PROVE  readers'[x] = Cardinality(SharedPermits(x)')
    <3>1. CASE x # p
      <4>1. SharedPermits(x)' = SharedPermits(x)
        BY <1>11, <1>12, <1>13, <3>1, SMTT(30) DEF SharedPermits, Permit
      <4>2. QED
        BY <1>0, <1>1, <3>1, <4>1, ZenonT(30) DEF TypeOK, PermitsCounted
    <3>2. CASE x = p
      <4>1. SharedPermits(p)' = {d \in Calls \ {c} : (Permit(d, p) \/ d \in G) /\ Shared(d)}
        BY <1>11, <1>12, <1>13, ZenonT(30) DEF SharedPermits
      <4>2. CASE n > 0 /\ Shared(q[1])
        <5>1. SharedPermits(p)' = OtherShared(p, c) \cup G
          BY <1>6, <1>16, <4>1, <4>2, Zenon DEF OtherShared
        <5>2. \A i \in 1 .. n : q[i] \notin OtherShared(p, c)
          BY <1>7, Zenon DEF OtherShared, Permit
        <5>3. Cardinality(OtherShared(p, c) \cup G) = r + n
          <6>1. \A i, j \in 1 .. n : q[i] = q[j] => i = j
            BY <1>3
          <6>2. IsFiniteSet(OtherShared(p, c))
            BY <1>19, Zenon
          <6>3. Cardinality(OtherShared(p, c) \cup {q[i] : i \in 1 .. n})
                  = Cardinality(OtherShared(p, c)) + n
            BY <5>2, <6>1, <6>2, CountGranted, SMTT(30)
          <6>4. QED
            BY <6>3, Zenon
        <5>4. readers'[p] = r + n
          BY <1>0, <1>1, <4>2, Zenon DEF TypeOK
        <5>5. QED
          BY <5>1, <5>3, <5>4, <3>2, ZenonT(30)
      <4>3. CASE ~(n > 0 /\ Shared(q[1]))
        <5>1. \A d \in G : ~Shared(d)
          BY <1>3, <1>17, <1>18, <4>3, SMTT(30)
        <5>2. SharedPermits(p)' = OtherShared(p, c)
          BY <4>1, <5>1, Zenon DEF OtherShared
        <5>3. readers'[p] = r
          BY <1>0, <1>1, <4>3, Zenon DEF TypeOK
        <5>4. QED
          BY <5>2, <5>3, <3>2, ZenonT(30)
      <4>4. QED
        BY <4>2, <4>3, Zenon
    <3>3. QED
      BY <3>1, <3>2, Zenon
  <2>2. ASSUME NEW x \in Paths
        PROVE  writer'[x] <=> \E d \in Calls : Permit(d, x)' /\ ~Shared(d)'
    <3>1. CASE x # p
      <4>1. \A d \in Calls : Permit(d, x)' /\ ~Shared(d)' <=> Permit(d, x) /\ ~Shared(d)
        BY <1>11, <1>12, <1>13, <3>1, SMTT(30) DEF Permit
      <4>2. writer'[x] = writer[x]
        BY <1>0, <1>1, <3>1, Zenon DEF TypeOK
      <4>3. QED
        BY <1>0, <4>1, <4>2, ZenonT(30) DEF PermitsCounted
    <3>2. CASE x = p
      <4>1. writer'[p] <=> w \/ (n > 0 /\ ~Shared(q[1]))
        BY <1>0, <1>1, ZenonT(30) DEF TypeOK
      <4>2. (\E d \in Calls : Permit(d, p)' /\ ~Shared(d)')
              <=> w \/ (\E d \in G : ~Shared(d))
        BY <1>6, <1>11, <1>12, <1>13, ZenonT(30)
      <4>3. (\E d \in G : ~Shared(d)) <=> n > 0 /\ ~Shared(q[1])
        <5>1. n = 0 \/ n > 0
          BY <1>3, SMTT(30)
        <5>2. (\E d \in G : ~Shared(d)) => n > 0 /\ ~Shared(q[1])
          BY <1>16, <1>18, <5>1, Zenon
        <5>3. n > 0 /\ ~Shared(q[1]) => \E d \in G : ~Shared(d)
          BY <1>15, Zenon
        <5>4. QED
          BY <5>2, <5>3, ZenonT(30)
      <4>4. QED
        BY <4>1, <4>2, <4>3, <3>2, Zenon
    <3>3. QED
      BY <3>1, <3>2, Zenon
  <2>3. ASSUME NEW x \in Paths, NEW d \in Calls, NEW e \in Calls,
               Permit(d, x)', ~Shared(d)', Permit(e, x)'
        PROVE  d = e
    <3>1. d # c /\ e # c /\ ~Shared(d)
      BY <1>12, <1>13, <2>3, SMTT(30)
    <3>2. CASE x # p
      BY <1>0, <1>11, <2>3, <3>1, <3>2, SMTT(30) DEF PermitsCounted
    <3>3. CASE x = p
      <4>1. CASE Permit(d, p)
        <5>1. w
          BY <3>1, <4>1, Zenon
        <5>2. n = 0
          BY <1>3, <1>15, <5>1, SMTT(30)
        <5>3. Permit(e, p)
          BY <1>11, <1>18, <2>3, <3>1, <3>3, <5>2, ZenonT(30)
        <5>4. QED
          BY <1>0, <3>1, <4>1, <5>3, Zenon DEF PermitsCounted
      <4>2. CASE ~Permit(d, p)
        <5>1. d \in G
          BY <1>11, <2>3, <3>1, <3>3, <4>2, ZenonT(30)
        <5>2. n > 0 /\ ~Shared(q[1])
          BY <1>3, <1>16, <1>18, <3>1, <5>1, SMTT(30)
        <5>3. G = {d} /\ r = 0 /\ ~w
          BY <1>15, <1>17, <5>1, <5>2, Zenon
        <5>4. ~Permit(e, p)
          BY <1>20, <3>1, <5>3, Zenon DEF OtherShared
        <5>5. QED
          BY <1>11, <2>3, <3>1, <3>3, <5>3, <5>4, ZenonT(30)
      <4>3. QED
        BY <4>1, <4>2, Zenon
    <3>4. QED
      BY <3>2, <3>3, Zenon
  <2>4. QED
    BY <1>0, <2>1, <2>2, <2>3, Zenon DEF PermitsCounted
<1>22. EntriesLive'
  <2>1. ASSUME NEW x \in Paths
        PROVE  x \in present' <=> readers'[x] # 0 \/ writer'[x] \/ waiters'[x] # << >>
    BY <1>0, <1>1, Zenon DEF TypeOK, EntriesLive
  <2>2. \A d \in Calls : pc'[d] # "vanished"
    BY <1>0, <1>8, <1>9 DEF EntriesLive
  <2>3. \A d \in Calls : woken'[d] => pc'[d] = "waiting"
    BY <1>0, <1>7, <1>8, <1>9, <1>10, ZenonT(30) DEF EntriesLive
  <2>4. QED
    BY <1>0, <2>1, <2>2, <2>3, Zenon DEF EntriesLive
<1>23. QED
  BY <1>4, <1>14, <1>21, <1>22, Zenon DEF LockInv

\* Counters and permits that a step leaves alone still agree.
LEMMA SamePermits ==
  ASSUME PermitsCounted, readers' = readers, writer' = writer,
         \A d \in Calls, x \in Paths :
           (Permit(d, x)' <=> Permit(d, x)) /\ (Permit(d, x) => (Shared(d)' <=> Shared(d)))
  PROVE  PermitsCounted'
<1>1. ASSUME NEW x \in Paths PROVE SharedPermits(x)' = SharedPermits(x)
  BY Zenon DEF SharedPermits
<1>2. QED
  BY <1>1, Zenon DEF PermitsCounted

\* A step that leaves the table and the requests alone keeps the permits and the
\* queues; it may only change the cancellation state.
LEMMA CancellationSteps ==
  ASSUME LockInv, NEW c \in Calls, AcquireCancelled(c) \/ Cancel(c)
  PROVE  LockInv'
<1>1. /\ UNCHANGED <<present, readers, writer, waiters, req, pc, woken>>
      /\ cancelled' \in [Calls -> BOOLEAN]
  BY Zenon DEF AcquireCancelled, Cancel, table, LockInv, TypeOK
<1>2. TypeOK'
  BY <1>1, Zenon DEF LockInv, TypeOK
<1>3. PermitsCounted'
  <2>1. \A d \in Calls, x \in Paths :
           (Permit(d, x)' <=> Permit(d, x)) /\ (Shared(d)' <=> Shared(d))
    BY <1>1, Zenon DEF Permit, Shared
  <2>2. QED
    BY <1>1, <2>1, SamePermits, Zenon DEF LockInv
<1>4. QueuesExact'
  BY <1>1 DEF LockInv, QueuesExact, Queued
<1>5. EntriesLive'
  BY <1>1, Zenon DEF LockInv, EntriesLive
<1>6. QED
  BY <1>2, <1>3, <1>4, <1>5, Zenon DEF LockInv

\* Taking a free path counts the new permit.
LEMMA AcquireNowStep ==
  ASSUME LockInv, NEW c \in Calls, NEW p \in Paths, NEW m \in Modes,
         AcquireNow(c, p, m)
  PROVE  LockInv'
<1>0. TypeOK /\ PermitsCounted /\ QueuesExact /\ EntriesLive
  BY Zenon DEF LockInv
<1>1. TypeOK'
  BY <1>0 DEF AcquireNow, TypeOK, Locations
<1>2. /\ pc[c] = "idle" /\ pc'[c] = "holding"
      /\ req'[c].path = p /\ req'[c].mode = m
      /\ \A d \in Calls \ {c} : req'[d] = req[d] /\ pc'[d] = pc[d]
      /\ woken' = woken /\ waiters' = waiters
  BY <1>0, Zenon DEF AcquireNow, TypeOK
<1>3. \A d \in Calls \ {c}, x \in Paths : Permit(d, x)' <=> Permit(d, x)
  BY <1>2, Zenon DEF Permit
<1>4. \A d \in Calls \ {c} : Shared(d)' <=> Shared(d)
  BY <1>2, Zenon DEF Shared
<1>5. \A x \in Paths : ~Permit(c, x) /\ (Permit(c, x)' <=> x = p)
  BY <1>2, Zenon DEF Permit
<1>6. Shared(c)' <=> m = "shared"
  BY <1>2, Zenon DEF Shared
<1>7. PermitsCounted'
  <2>1. ASSUME NEW x \in Paths
        PROVE  readers'[x] = Cardinality(SharedPermits(x)')
    <3>1. IsFiniteSet(SharedPermits(x)) /\ c \notin SharedPermits(x)
      <4>1. SharedPermits(x) \in SUBSET Calls
        BY Zenon DEF SharedPermits
      <4>2. QED
        BY <1>5, <4>1, CallsFinite, FS_Subset, Zenon DEF SharedPermits
    <3>2. CASE x = p /\ m = "shared"
      <4>1. SharedPermits(x)' = SharedPermits(x) \cup {c}
        BY <1>3, <1>4, <1>5, <1>6, <3>2, Zenon DEF SharedPermits
      <4>2. readers'[x] = readers[x] + 1
        BY <1>0, <3>2, Zenon DEF AcquireNow, TypeOK
      <4>3. QED
        <5>1. Cardinality(SharedPermits(x) \cup {c}) = Cardinality(SharedPermits(x)) + 1
          BY <3>1, FS_AddElement, ZenonT(30)
        <5>2. readers[x] = Cardinality(SharedPermits(x))
          BY <1>0, Zenon DEF PermitsCounted
        <5>3. QED
          BY <4>1, <4>2, <5>1, <5>2, Zenon
    <3>3. CASE ~(x = p /\ m = "shared")
      <4>1. SharedPermits(x)' = SharedPermits(x)
        BY <1>3, <1>4, <1>5, <1>6, <3>3, Zenon DEF SharedPermits
      <4>2. readers'[x] = readers[x]
        BY <1>0, <3>3, Zenon DEF AcquireNow, TypeOK
      <4>3. QED
        BY <1>0, <4>1, <4>2, Zenon DEF PermitsCounted
    <3>4. QED
      BY <3>2, <3>3, Zenon
  <2>2. ASSUME NEW x \in Paths
        PROVE  writer'[x] <=> \E d \in Calls : Permit(d, x)' /\ ~Shared(d)'
    <3>1. writer'[x] <=> writer[x] \/ (x = p /\ m # "shared")
      BY <1>0, ZenonT(30) DEF AcquireNow, TypeOK, Modes
    <3>2. QED
      BY <1>0, <1>3, <1>4, <1>5, <1>6, <3>1, SMTT(30) DEF PermitsCounted
  <2>3. ASSUME NEW x \in Paths, NEW d \in Calls, NEW e \in Calls,
               Permit(d, x)', ~Shared(d)', Permit(e, x)'
        PROVE  d = e
    <3>1. CASE d # c /\ e # c
      BY <1>0, <1>3, <1>4, <2>3, <3>1, ZenonT(30) DEF PermitsCounted
    <3>2. CASE d = c /\ e # c
      <4>1. x = p /\ m # "shared" /\ Permit(e, p)
        BY <1>3, <1>5, <1>6, <2>3, <3>2, ZenonT(30)
      <4>2. readers[p] = 0 /\ ~writer[p]
        BY <4>1, Zenon DEF AcquireNow, CanTakeNow
      <4>3. SharedPermits(p) = {}
        <5>1. SharedPermits(p) \in SUBSET Calls
          BY Zenon DEF SharedPermits
        <5>2. IsFiniteSet(SharedPermits(p))
          BY <5>1, CallsFinite, FS_Subset, Zenon
        <5>3. QED
          BY <1>0, <4>2, <5>2, FS_EmptySet, Zenon DEF PermitsCounted
      <4>4. QED
        BY <1>0, <4>1, <4>2, <4>3, Zenon DEF PermitsCounted, SharedPermits
    <3>3. CASE d # c /\ e = c
      <4>1. x = p /\ Permit(d, p) /\ ~Shared(d)
        BY <1>3, <1>4, <1>5, <2>3, <3>3, ZenonT(30)
      <4>2. ~writer[p]
        BY Zenon DEF AcquireNow, CanTakeNow
      <4>3. QED
        BY <1>0, <4>1, <4>2, Zenon DEF PermitsCounted
    <3>4. QED
      BY <3>1, <3>2, <3>3, Zenon
  <2>4. QED
    BY <2>1, <2>2, <2>3, Zenon DEF PermitsCounted
<1>8. QueuesExact'
  BY <1>0, <1>2 DEF QueuesExact, Queued
<1>9. EntriesLive'
  <2>1. ASSUME NEW x \in Paths
        PROVE  x \in present' <=> readers'[x] # 0 \/ writer'[x] \/ waiters'[x] # << >>
    <3>1. CASE x = p
      <4>1. p \in present' /\ (readers'[p] # 0 \/ writer'[p])
        <5>1. p \in present'
          BY Zenon DEF AcquireNow
        <5>2. CASE m = "shared"
          <6>1. readers'[p] = readers[p] + 1 /\ readers[p] \in Nat
            BY <1>0, <5>2, Zenon DEF AcquireNow, TypeOK
          <6>2. QED
            BY <5>1, <6>1
        <5>3. CASE m = "exclusive"
          <6>1. writer'[p]
            BY <1>0, <5>3, Zenon DEF AcquireNow, TypeOK
          <6>2. QED
            BY <5>1, <6>1, Zenon
        <5>4. QED
          BY <5>2, <5>3, Zenon DEF Modes
      <4>2. QED
        BY <3>1, <4>1, Zenon
    <3>2. CASE x # p
      BY <1>0, <1>2, <3>2, ZenonT(30) DEF AcquireNow, TypeOK, EntriesLive
    <3>3. QED
      BY <3>1, <3>2, Zenon
  <2>2. QED
    BY <1>0, <1>2, <2>1, Zenon DEF EntriesLive
<1>10. QED
  BY <1>1, <1>7, <1>8, <1>9, Zenon DEF LockInv

\* A call that queues is the last of a queue whose entry exists.
LEMMA AcquireWaitStep ==
  ASSUME LockInv, NEW c \in Calls, NEW p \in Paths, NEW m \in Modes,
         AcquireWait(c, p, m)
  PROVE  LockInv'
<1>0. TypeOK /\ PermitsCounted /\ QueuesExact /\ EntriesLive
  BY Zenon DEF LockInv
<1>1. TypeOK'
  BY <1>0 DEF AcquireWait, TypeOK, Locations
<1>2. /\ pc[c] = "idle" /\ pc'[c] = "waiting"
      /\ req'[c].path = p
      /\ \A d \in Calls \ {c} : req'[d] = req[d] /\ pc'[d] = pc[d]
      /\ woken' = woken /\ ~woken[c]
      /\ readers' = readers /\ writer' = writer
  BY <1>0, Zenon DEF AcquireWait, TypeOK, EntriesLive
<1>3. PermitsCounted'
  <2>1. \A d \in Calls, x \in Paths :
           (Permit(d, x)' <=> Permit(d, x)) /\ (Permit(d, x) => (Shared(d)' <=> Shared(d)))
    BY <1>2, Zenon DEF Permit, Shared
  <2>2. QED
    BY <1>0, <1>2, <2>1, SamePermits, Zenon
<1>4. /\ \A x \in Paths \ {p} : waiters'[x] = waiters[x]
      /\ Len(waiters'[p]) = Len(waiters[p]) + 1
      /\ \A i \in 1 .. Len(waiters[p]) : waiters'[p][i] = waiters[p][i]
      /\ waiters'[p][Len(waiters[p]) + 1] = c
      /\ Len(waiters[p]) \in Nat
  BY <1>0 DEF AcquireWait, TypeOK
<1>5. QueuesExact'
  <2>1. \A d \in Calls \ {c}, x \in Paths : Queued(d, x)' <=> Queued(d, x)
    BY <1>2, Zenon DEF Queued
  <2>2. \A x \in Paths : ~Queued(c, x) /\ (Queued(c, x)' <=> x = p)
    BY <1>2, Zenon DEF Queued
  <2>3. ASSUME NEW x \in Paths, NEW d \in Calls
        PROVE  Queued(d, x)' <=> \E i \in 1 .. Len(waiters'[x]) : waiters'[x][i] = d
    <3>1. CASE x # p
      BY <1>0, <1>4, <2>1, <2>2, <3>1, SMTT(30) DEF QueuesExact
    <3>2. CASE x = p
      <4>1. (\E i \in 1 .. Len(waiters'[p]) : waiters'[p][i] = d)
              <=> d = c \/ \E i \in 1 .. Len(waiters[p]) : waiters[p][i] = d
        BY <1>4, SMTT(30)
      <4>2. QED
        BY <1>0, <2>1, <2>2, <3>2, <4>1, SMTT(30) DEF QueuesExact
    <3>3. QED
      BY <3>1, <3>2, Zenon
  <2>4. ASSUME NEW x \in Paths, NEW i \in 1 .. Len(waiters'[x]),
               NEW j \in 1 .. Len(waiters'[x]), waiters'[x][i] = waiters'[x][j]
        PROVE  i = j
    <3>1. CASE x # p
      BY <1>0, <1>4, <2>4, <3>1, ZenonT(30) DEF QueuesExact
    <3>2. CASE x = p
      <4>1. \A k \in 1 .. Len(waiters[p]) : waiters[p][k] # c
        BY <1>0, <2>2, Zenon DEF QueuesExact
      <4>2. QED
        BY <1>0, <1>4, <2>4, <3>2, <4>1, SMTT(30) DEF QueuesExact
    <3>3. QED
      BY <3>1, <3>2, Zenon
  <2>5. QED
    BY <2>3, <2>4, Zenon DEF QueuesExact
<1>6. EntriesLive'
  <2>1. ASSUME NEW x \in Paths
        PROVE  x \in present' <=> readers'[x] # 0 \/ writer'[x] \/ waiters'[x] # << >>
    <3>1. CASE x = p
      BY <1>4, <3>1, SMTT(30) DEF AcquireWait
    <3>2. CASE x # p
      BY <1>0, <1>2, <1>4, <3>2, Zenon DEF AcquireWait, EntriesLive
    <3>3. QED
      BY <3>1, <3>2, Zenon
  <2>2. QED
    BY <1>0, <1>2, <2>1, ZenonT(30) DEF EntriesLive
<1>7. QED
  BY <1>1, <1>3, <1>5, <1>6, Zenon DEF LockInv

\* A reservation that becomes a guard is the same permit; its entry is there.
LEMMA ResumeGrantedStep ==
  ASSUME LockInv, NEW c \in Calls, ResumeGranted(c)
  PROVE  LockInv'
<1>0. TypeOK /\ PermitsCounted /\ QueuesExact /\ EntriesLive
  BY Zenon DEF LockInv
<1>1. Permit(c, req[c].path) /\ req[c].path \in Paths
  BY <1>0, Zenon DEF ResumeGranted, Permit, TypeOK
<1>2. req[c].path \in present
  <2>1. CASE Shared(c)
    <3>1. SharedPermits(req[c].path) \in SUBSET Calls /\ c \in SharedPermits(req[c].path)
      BY <1>1, <2>1, Zenon DEF SharedPermits
    <3>2. IsFiniteSet(SharedPermits(req[c].path))
      BY <3>1, CallsFinite, FS_Subset, Zenon
    <3>3. Cardinality(SharedPermits(req[c].path)) # 0
      BY <3>1, <3>2, FS_EmptySet, Zenon
    <3>4. QED
      BY <1>0, <1>1, <3>3, Zenon DEF PermitsCounted, EntriesLive
  <2>2. CASE ~Shared(c)
    BY <1>0, <1>1, <2>2, Zenon DEF PermitsCounted, EntriesLive
  <2>3. QED
    BY <2>1, <2>2, Zenon
<1>3. /\ UNCHANGED <<present, readers, writer, waiters, req, cancelled>>
      /\ pc' = [pc EXCEPT ![c] = "holding"]
      /\ woken' = [woken EXCEPT ![c] = FALSE]
      /\ pc[c] = "waiting" /\ woken[c]
  BY <1>2, Zenon DEF ResumeGranted, table
<1>4. TypeOK'
  BY <1>0, <1>3, Zenon DEF TypeOK, Locations
<1>5. PermitsCounted'
  <2>1. \A d \in Calls, x \in Paths :
           (Permit(d, x)' <=> Permit(d, x)) /\ (Permit(d, x) => (Shared(d)' <=> Shared(d)))
    BY <1>0, <1>3, Zenon DEF Permit, Shared, TypeOK
  <2>2. QED
    BY <1>0, <1>3, <2>1, SamePermits, Zenon
<1>6. QueuesExact'
  <2>1. \A d \in Calls, x \in Paths : Queued(d, x)' <=> Queued(d, x)
    BY <1>0, <1>3, Zenon DEF Queued, TypeOK
  <2>2. QED
    BY <1>0, <1>3, <2>1, Zenon DEF QueuesExact
<1>7. EntriesLive'
  BY <1>0, <1>3, Zenon DEF EntriesLive, TypeOK
<1>8. QED
  BY <1>4, <1>5, <1>6, <1>7, Zenon DEF LockInv

\* What is left of a queue without its i-th element.
LEMMA RemoveAtFacts ==
  ASSUME NEW T, NEW q \in Seq(T), NEW i \in 1 .. Len(q)
  PROVE  /\ RemoveAt(q, i) \in Seq(T)
         /\ Len(q) \in Nat /\ Len(RemoveAt(q, i)) = Len(q) - 1
         /\ \A k \in 1 .. i - 1 : RemoveAt(q, i)[k] = q[k]
         /\ \A k \in i .. Len(q) - 1 : RemoveAt(q, i)[k] = q[k + 1]
<1> DEFINE a == SubSeq(q, 1, i - 1)
           b == SubSeq(q, i + 1, Len(q))
           q1 == RemoveAt(q, i)
<1>1. Len(q) \in Nat /\ i \in Nat /\ i >= 1 /\ i =< Len(q)
  OBVIOUS
<1>2. a \in Seq(T) /\ Len(a) = i - 1 /\ \A k \in 1 .. i - 1 : a[k] = q[k]
  BY <1>1
<1>3. b \in Seq(T) /\ Len(b) = Len(q) - i /\ \A k \in 1 .. Len(q) - i : b[k] = q[k + i]
  BY <1>1
<1>4. q1 = a \o b
  BY Zenon DEF RemoveAt
<1> HIDE DEF a, b, q1
<1>5. /\ q1 \in Seq(T) /\ Len(q1) = Len(a) + Len(b)
      /\ \A k \in 1 .. Len(a) + Len(b) : q1[k] = IF k <= Len(a) THEN a[k] ELSE b[k - Len(a)]
  <2>1. /\ a \o b \in Seq(T) /\ Len(a \o b) = Len(a) + Len(b)
        /\ \A k \in 1 .. Len(a) + Len(b) :
             (a \o b)[k] = IF k <= Len(a) THEN a[k] ELSE b[k - Len(a)]
    BY <1>2, <1>3, ConcatProperties, Zenon
  <2>2. QED
    BY <1>4, <2>1, Zenon
<1>6. Len(q1) = Len(q) - 1
  BY <1>1, <1>2, <1>3, <1>5, SMTT(30)
<1>7. ASSUME NEW k \in 1 .. i - 1 PROVE q1[k] = q[k]
  <2>1. k \in 1 .. Len(a) + Len(b) /\ k <= Len(a)
    BY <1>1, <1>2, <1>3
  <2>2. q1[k] = a[k]
    BY <1>5, <2>1, Zenon
  <2>3. QED
    BY <1>2, <2>2, Zenon
<1>8. ASSUME NEW k \in i .. Len(q) - 1 PROVE q1[k] = q[k + 1]
  <2>1. k - Len(a) \in 1 .. Len(q) - i /\ (k - Len(a)) + i = k + 1 /\ ~(k <= Len(a))
    BY <1>1, <1>2
  <2>2. k \in 1 .. Len(a) + Len(b)
    BY <1>1, <1>2, <1>3
  <2>3. q1[k] = b[k - Len(a)]
    BY <1>5, <2>1, <2>2, Zenon
  <2>4. QED
    BY <1>3, <2>1, <2>3, Zenon
<1>9. QED
  BY <1>1, <1>5, <1>6, <1>7, <1>8, ZenonT(30) DEF q1

\* Removing the i-th element of a queue without repetitions removes exactly that
\* element.
LEMMA WithoutElement ==
  ASSUME NEW q \in Seq(Calls), NEW i \in 1 .. Len(q),
         \A k, l \in 1 .. Len(q) : q[k] = q[l] => k = l
  PROVE  /\ RemoveAt(q, i) \in Seq(Calls)
         /\ \A k \in 1 .. Len(RemoveAt(q, i)) : RemoveAt(q, i)[k] # q[i]
         /\ \A k, l \in 1 .. Len(RemoveAt(q, i)) :
               RemoveAt(q, i)[k] = RemoveAt(q, i)[l] => k = l
         /\ \A d \in Calls :
               d # q[i] => ((\E l \in 1 .. Len(q) : q[l] = d)
                            <=> \E k \in 1 .. Len(RemoveAt(q, i)) : RemoveAt(q, i)[k] = d)
<1> DEFINE at(k) == IF k < i THEN k ELSE k + 1
           q1 == RemoveAt(q, i)
<1>1. /\ q1 \in Seq(Calls) /\ Len(q) \in Nat /\ Len(q1) = Len(q) - 1
      /\ \A k \in 1 .. i - 1 : q1[k] = q[k]
      /\ \A k \in i .. Len(q) - 1 : q1[k] = q[k + 1]
  BY RemoveAtFacts, Zenon
<1> HIDE DEF q1
<1>2. ASSUME NEW k \in 1 .. Len(q1)
      PROVE  q1[k] = q[at(k)] /\ at(k) \in 1 .. Len(q) /\ at(k) # i
  <2>1. CASE k < i
    <3>1. k \in 1 .. i - 1
      BY <1>1, <2>1
    <3>2. QED
      BY <1>1, <2>1, <3>1
  <2>2. CASE ~(k < i)
    <3>1. k \in i .. Len(q) - 1
      BY <1>1, <2>2
    <3>2. QED
      BY <1>1, <2>2, <3>1
  <2>3. QED
    BY <2>1, <2>2, Zenon
<1>3. \A k, l \in 1 .. Len(q1) : at(k) = at(l) => k = l
  BY <1>1
<1>4. ASSUME NEW d \in Calls, d # q[i], NEW l \in 1 .. Len(q), q[l] = d
      PROVE  \E k \in 1 .. Len(q1) : q1[k] = d
  <2>1. l # i
    BY <1>4, Zenon
  <2>2. CASE l < i
    BY <1>1, <1>4, <2>2
  <2>3. CASE l > i
    <3>1. l - 1 \in i .. Len(q) - 1 /\ (l - 1) + 1 = l /\ l - 1 \in 1 .. Len(q1)
      BY <1>1, <2>3
    <3>2. q1[l - 1] = q[(l - 1) + 1]
      BY <1>1, <3>1, Zenon
    <3>3. q1[l - 1] = d
      BY <1>4, <3>1, <3>2, Zenon
    <3>4. QED
      BY <3>1, <3>3, Zenon
  <2>4. QED
    BY <2>1, <2>2, <2>3
<1>5. \A k \in 1 .. Len(q1) : q1[k] # q[i]
  BY <1>2, Zenon
<1> HIDE DEF at
<1>6. \A k, l \in 1 .. Len(q1) : q1[k] = q1[l] => k = l
  BY <1>2, <1>3, Zenon
<1>7. ASSUME NEW d \in Calls PROVE (\E k \in 1 .. Len(q1) : q1[k] = d) => \E l \in 1 .. Len(q) : q[l] = d
  BY <1>2, Zenon
<1>8. QED
  BY <1>1, <1>4, <1>5, <1>6, <1>7, ZenonT(30) DEF q1

\* A cancelled waiter that leaves the queue hands `advance` the others' queue.
LEMMA ResumeWithdrawStep ==
  ASSUME LockInv, NEW c \in Calls, ResumeWithdraw(c)
  PROVE  LockInv'
<1>0. TypeOK /\ PermitsCounted /\ QueuesExact /\ EntriesLive
  BY Zenon DEF LockInv
<1> DEFINE p == req[c].path
           q == waiters[p]
<1>1. PICK i \in 1 .. Len(q) :
        q[i] = c /\ Advance(c, p, readers[p], writer[p], RemoveAt(q, i))
  BY Zenon DEF ResumeWithdraw
<1> DEFINE q1 == RemoveAt(q, i)
<1>2. p \in Paths
  BY <1>0, Zenon DEF TypeOK
<1>3. Others(c, p, readers[p], writer[p], q1)
  <2>1. /\ readers[p] \in Nat /\ writer[p] \in BOOLEAN /\ q \in Seq(Calls)
        /\ pc[c] # "idle" /\ pc[c] = "waiting"
    BY <1>0, <1>2, Zenon DEF TypeOK, ResumeWithdraw
  <2>2. /\ \A k, l \in 1 .. Len(q) : q[k] = q[l] => k = l
        /\ \A d \in Calls : Queued(d, p) <=> \E l \in 1 .. Len(q) : q[l] = d
    BY <1>0, <1>2, Zenon DEF QueuesExact
  <2>3. q # << >> /\ p \in present
    BY <1>0, <1>1, <1>2, <2>1, SMTT(30) DEF EntriesLive
  <2>4. ~Permit(c, p)
    BY <1>1, <2>2, Zenon DEF Queued, Permit
  <2>5. readers[p] = Cardinality(OtherShared(p, c))
    <3>1. OtherShared(p, c) = SharedPermits(p)
      BY <2>4, Zenon DEF OtherShared, SharedPermits
    <3>2. QED
      BY <1>0, <1>2, <3>1, Zenon DEF PermitsCounted
  <2>6. writer[p] <=> \E d \in Calls \ {c} : Permit(d, p) /\ ~Shared(d)
    BY <1>0, <1>2, <2>4, Zenon DEF PermitsCounted
  <2>7. /\ q1 \in Seq(Calls)
        /\ \A k \in 1 .. Len(q1) : q1[k] # c
        /\ \A k, l \in 1 .. Len(q1) : q1[k] = q1[l] => k = l
        /\ \A d \in Calls \ {c} : (\E l \in 1 .. Len(q) : q[l] = d)
                                  <=> \E k \in 1 .. Len(q1) : q1[k] = d
    <3>1. PICK s \in Seq(Calls) : s = q
      BY <2>1, Zenon
    <3>2. i \in 1 .. Len(s) /\ s[i] = c /\ \A k, l \in 1 .. Len(s) : s[k] = s[l] => k = l
      BY <1>1, <2>2, <3>1, Zenon
    <3>3. /\ RemoveAt(s, i) \in Seq(Calls)
          /\ \A k \in 1 .. Len(RemoveAt(s, i)) : RemoveAt(s, i)[k] # s[i]
          /\ \A k, l \in 1 .. Len(RemoveAt(s, i)) :
                RemoveAt(s, i)[k] = RemoveAt(s, i)[l] => k = l
          /\ \A d \in Calls :
                d # s[i] => ((\E l \in 1 .. Len(s) : s[l] = d)
                             <=> \E k \in 1 .. Len(RemoveAt(s, i)) : RemoveAt(s, i)[k] = d)
      BY <3>2, WithoutElement, Zenon
    <3>4. q1 = RemoveAt(s, i)
      BY <3>1, Zenon
    <3>5. \A d \in Calls \ {c} : (\E l \in 1 .. Len(s) : s[l] = d)
                                 <=> \E k \in 1 .. Len(RemoveAt(s, i)) : RemoveAt(s, i)[k] = d
      BY <3>2, <3>3, Zenon
    <3>6. /\ q1 \in Seq(Calls)
          /\ \A k, l \in 1 .. Len(q1) : q1[k] = q1[l] => k = l
      BY <3>3, <3>4, Zenon
    <3>7. \A k \in 1 .. Len(q1) : q1[k] # c
      BY <3>2, <3>3, <3>4, Zenon
    <3>8. QED
      BY <3>1, <3>4, <3>5, <3>6, <3>7, ZenonT(30)
  <2>8. \A d \in Calls \ {c} : Queued(d, p) <=> \E k \in 1 .. Len(q1) : q1[k] = d
    BY <2>2, <2>7, Zenon
  <2>9. QED
    BY <1>2, <2>1, <2>3, <2>5, <2>6, <2>7, <2>8, ZenonT(30) DEF Others
<1>4. Finish(c)
  BY Zenon DEF ResumeWithdraw
<1>5. QED
  BY <1>1, <1>3, <1>4, AdvanceRestores, ZenonT(30)

\* A call that gives its permit back, whether a guard or a reservation, hands
\* `advance` the counters of the others.
LEMMA ReleaseStep ==
  ASSUME LockInv, NEW c \in Calls, Permit(c, req[c].path), Release(c), Finish(c)
  PROVE  LockInv'
<1>0. TypeOK /\ PermitsCounted /\ QueuesExact /\ EntriesLive
  BY Zenon DEF LockInv
<1> DEFINE p == req[c].path
           q == waiters[p]
<1>1. p \in Paths
  BY <1>0, Zenon DEF TypeOK
<1>2. /\ q \in Seq(Calls) /\ readers[p] \in Nat /\ writer[p] \in BOOLEAN
      /\ pc[c] # "idle" /\ Permit(c, p) /\ ~Queued(c, p)
  BY <1>0, <1>1, ZenonT(30) DEF TypeOK, Permit, Queued
<1>3. /\ \A d \in Calls \ {c} : Queued(d, p) <=> \E i \in 1 .. Len(q) : q[i] = d
      /\ \A i \in 1 .. Len(q) : q[i] # c
      /\ \A i, j \in 1 .. Len(q) : q[i] = q[j] => i = j
  BY <1>0, <1>1, <1>2 DEF QueuesExact
<1>4. IsFiniteSet(SharedPermits(p))
  <2>1. SharedPermits(p) \in SUBSET Calls
    BY Zenon DEF SharedPermits
  <2>2. QED
    BY <2>1, CallsFinite, FS_Subset, Zenon
<1>5. /\ readers[p] = Cardinality(SharedPermits(p))
      /\ writer[p] <=> \E d \in Calls : Permit(d, p) /\ ~Shared(d)
      /\ \A d, e \in Calls : Permit(d, p) /\ ~Shared(d) /\ Permit(e, p) => d = e
  BY <1>0, <1>1, Zenon DEF PermitsCounted
<1>6. CASE Shared(c)
  <2>1. c \in SharedPermits(p) /\ OtherShared(p, c) = SharedPermits(p) \ {c}
    BY <1>2, <1>6, Zenon DEF SharedPermits, OtherShared
  <2>2. Cardinality(OtherShared(p, c)) = Cardinality(SharedPermits(p)) - 1
    BY <1>4, <2>1, FS_RemoveElement, ZenonT(30)
  <2>3. Cardinality(SharedPermits(p)) # 0
    BY <1>4, <2>1, FS_EmptySet, ZenonT(30)
  <2>4. readers[p] > 0 /\ p \in present
    BY <1>0, <1>1, <1>2, <1>5, <2>3, SMTT(30) DEF EntriesLive
  <2>5. readers[p] - 1 \in Nat /\ readers[p] - 1 = Cardinality(OtherShared(p, c))
    BY <1>2, <1>5, <2>2, <2>4, SMTT(30)
  <2>6. writer[p] <=> \E d \in Calls \ {c} : Permit(d, p) /\ ~Shared(d)
    BY <1>5, <1>6, Zenon
  <2>7. Others(c, p, readers[p] - 1, writer[p], q)
    <3> DEFINE r == readers[p] - 1
    <3>1. r \in Nat /\ r = Cardinality(OtherShared(p, c))
      BY <2>5, Zenon
    <3> HIDE DEF r
    <3>2. Others(c, p, r, writer[p], q)
      BY <1>1, <1>2, <1>3, <2>4, <2>6, <3>1, ZenonT(60) DEF Others
    <3>3. QED
      BY <3>2, Zenon DEF r
  <2>8. Advance(c, p, IF readers[p] > 0 THEN readers[p] - 1 ELSE 0, writer[p], q)
    BY <1>6, <2>4, Zenon DEF Release
  <2>9. Others(c, p, IF readers[p] > 0 THEN readers[p] - 1 ELSE 0, writer[p], q)
    BY <2>4, <2>7, Zenon
  <2>10. QED
    BY <2>8, <2>9, AdvanceRestores, ZenonT(30)
<1>7. CASE ~Shared(c)
  <2>1. p \in present
    BY <1>0, <1>1, <1>2, <1>5, <1>7, ZenonT(30) DEF EntriesLive
  <2>2. \A d \in Calls \ {c} : ~Permit(d, p)
    BY <1>2, <1>5, <1>7, Zenon
  <2>3. OtherShared(p, c) = SharedPermits(p)
    BY <1>7, <2>2, Zenon DEF OtherShared, SharedPermits
  <2>4. readers[p] = Cardinality(OtherShared(p, c))
    BY <1>5, <2>3, Zenon
  <2>5. Others(c, p, readers[p], FALSE, q)
    BY <1>1, <1>2, <1>3, <2>1, <2>2, <2>4, ZenonT(30) DEF Others
  <2>6. Advance(c, p, readers[p], FALSE, q)
    BY <1>7, <2>1, Zenon DEF Release
  <2>7. QED
    BY <2>5, <2>6, AdvanceRestores, ZenonT(30)
<1>8. QED
  BY <1>6, <1>7, Zenon

\* The two ways a permit is given back: the cancelled call that `advance` popped
\* owns a reservation, the finished dispatch a guard.
LEMMA LeavingSteps ==
  ASSUME LockInv, NEW c \in Calls, ResumeReturn(c) \/ GuardReset(c)
  PROVE  LockInv'
<1>0. TypeOK /\ QueuesExact
  BY Zenon DEF LockInv
<1>1. CASE ResumeReturn(c)
  <2>1. req[c].path \in Paths
    BY <1>0, Zenon DEF TypeOK
  <2>2. ~Queued(c, req[c].path)
    BY <1>0, <1>1, <2>1, Zenon DEF ResumeReturn, QueuesExact
  <2>3. Permit(c, req[c].path)
    BY <1>1, <2>2, Zenon DEF ResumeReturn, Queued, Permit
  <2>4. QED
    BY <1>1, <2>3, ReleaseStep, Zenon DEF ResumeReturn
<1>2. CASE GuardReset(c)
  <2>1. Permit(c, req[c].path)
    BY <1>2, Zenon DEF GuardReset, Permit
  <2>2. QED
    BY <1>2, <2>1, ReleaseStep, Zenon DEF GuardReset
<1>3. QED
  BY <1>1, <1>2, Zenon

\* Every step of the system preserves what the table and the calls know of each
\* other.
LEMMA LockStep == LockInv /\ [Next]_vars => LockInv'
<1> SUFFICES ASSUME LockInv, [Next]_vars PROVE LockInv'
  BY Zenon
<1>1. CASE UNCHANGED vars
  <2>1. PermitsCounted'
    BY <1>1, SamePermits, Zenon DEF vars, LockInv, Permit, Shared
  <2>2. TypeOK' /\ QueuesExact' /\ EntriesLive'
    BY <1>1 DEF vars, LockInv, TypeOK, QueuesExact, EntriesLive, Queued
  <2>3. QED
    BY <2>1, <2>2, Zenon DEF LockInv
<1>2. ASSUME NEW c \in Calls, AcquireCancelled(c) \/ Cancel(c)
      PROVE  LockInv'
  BY <1>2, CancellationSteps, Zenon
<1>3. ASSUME NEW c \in Calls, NEW p \in Paths, NEW m \in Modes, AcquireNow(c, p, m)
      PROVE  LockInv'
  BY <1>3, AcquireNowStep, Zenon
<1>4. ASSUME NEW c \in Calls, NEW p \in Paths, NEW m \in Modes, AcquireWait(c, p, m)
      PROVE  LockInv'
  BY <1>4, AcquireWaitStep, Zenon
<1>5. ASSUME NEW c \in Calls, ResumeGranted(c) PROVE LockInv'
  BY <1>5, ResumeGrantedStep, Zenon
<1>6. ASSUME NEW c \in Calls, ResumeWithdraw(c) PROVE LockInv'
  BY <1>6, ResumeWithdrawStep, ZenonT(30)
<1>7. ASSUME NEW c \in Calls, ResumeReturn(c) \/ GuardReset(c) PROVE LockInv'
  BY <1>7, LeavingSteps, Zenon
<1>8. QED
  BY <1>1, <1>2, <1>3, <1>4, <1>5, <1>6, <1>7, ZenonT(30) DEF Next, Resume

\* The counters, queues and entries of the lock table agree with the coroutines
\* that hold or await a path, in every state the strand can reach.
THEOREM LockInvariant == Spec => []LockInv
<1>1. QED
  BY InitLockInv, LockStep, PTL DEF Spec

\* Every variable of the lock table keeps its type.
THEOREM TypeCorrect == Spec => []TypeOK
<1>1. LockInv => TypeOK
  BY Zenon DEF LockInv
<1>2. QED
  BY <1>1, LockInvariant, PTL

\* A dispatch that holds a path exclusively is alone on it, however acquires,
\* cancellations, wake-ups and releases interleave.
THEOREM MutualExclusion == Spec => []Exclusion
<1>1. LockInv => Exclusion
  <2> SUFFICES ASSUME LockInv,
                      NEW c \in Calls, NEW d \in Calls, c # d,
                      pc[c] = "holding", pc[d] = "holding", req[c].path = req[d].path
               PROVE  Shared(c) /\ Shared(d)
    BY Zenon DEF Exclusion
  <2>1. req[c].path \in Paths
    BY Zenon DEF LockInv, TypeOK
  <2>2. Permit(c, req[c].path) /\ Permit(d, req[c].path)
    BY Zenon DEF Permit
  <2>3. QED
    BY <2>1, <2>2, Zenon DEF LockInv, PermitsCounted
<1>2. QED
  BY <1>1, LockInvariant, PTL

\* q lists calls of the queue s in the order they have there.
Ordered(q, s) ==
  \A k, l \in 1 .. Len(q) : k < l =>
    \E i, j \in 1 .. Len(s) : i < j /\ s[i] = q[k] /\ s[j] = q[l]

\* What is left of a queue without one call keeps the order of the others.
LEMMA RemoveAtOrdered ==
  ASSUME NEW T, NEW q \in Seq(T), NEW i \in 1 .. Len(q)
  PROVE  Ordered(RemoveAt(q, i), q)
<1> DEFINE q1 == RemoveAt(q, i)
           at(k) == IF k < i THEN k ELSE k + 1
<1>1. /\ Len(q) \in Nat /\ Len(q1) = Len(q) - 1
      /\ \A k \in 1 .. i - 1 : q1[k] = q[k]
      /\ \A k \in i .. Len(q) - 1 : q1[k] = q[k + 1]
  BY RemoveAtFacts, Zenon
<1> HIDE DEF q1
<1>2. ASSUME NEW k \in 1 .. Len(q1) PROVE at(k) \in 1 .. Len(q) /\ q1[k] = q[at(k)]
  BY <1>1
<1>3. ASSUME NEW k \in 1 .. Len(q1), NEW l \in 1 .. Len(q1), k < l PROVE at(k) < at(l)
  BY <1>1, <1>3
<1> HIDE DEF at
<1>4. QED
  BY <1>2, <1>3, Zenon DEF Ordered, q1

\* No new permit, no order to keep.
LEMMA NothingGranted ==
  ASSUME \A d \in Calls, p \in Paths : Permit(d, p)' => Permit(d, p)
  PROVE  GrantsInOrder
BY Zenon DEF GrantsInOrder

\* `advance` wakes the front of the queue it is given, and leaves the rest there.
LEMMA AdvanceInOrder ==
  ASSUME LockInv, QueuesExact', NEW c \in Calls, NEW r, NEW w, NEW q \in Seq(Calls),
         Ordered(q, waiters[req[c].path]),
         \A k \in 1 .. Len(q) : Queued(q[k], req[c].path),
         Advance(c, req[c].path, r, w, q), Finish(c)
  PROVE  GrantsInOrder
<1> DEFINE p == req[c].path
<1>1. /\ p \in Paths /\ waiters \in [Paths -> Seq(Calls)]
      /\ pc \in [Calls -> Locations] /\ req \in [Calls -> [path : Paths, mode : Modes]]
  BY DEF LockInv, TypeOK
<1>2. PICK n \in 0 .. Len(q) :
        /\ waiters' = [waiters EXCEPT ![p] = SubSeq(q, n + 1, Len(q))]
        /\ woken' = [d \in Calls |-> (\E i \in 1 .. n : q[i] = d) \/ (woken[d] /\ d # c)]
  BY Zenon DEF Advance
<1>3. waiters'[p] = SubSeq(q, n + 1, Len(q))
  BY <1>1, <1>2, Zenon
<1>4. /\ n \in Nat /\ Len(q) \in Nat
      /\ \A i \in 1 .. Len(waiters'[p]) : waiters'[p][i] = q[n + i] /\ n + i \in 1 .. Len(q)
      /\ Len(waiters'[p]) = Len(q) - n
  <2> DEFINE q2 == SubSeq(q, n + 1, Len(q))
  <2>1. /\ n \in Nat /\ Len(q) \in Nat /\ Len(q2) = Len(q) - n
        /\ \A i \in 1 .. Len(q2) : q2[i] = q[n + i] /\ n + i \in 1 .. Len(q)
    BY SuffixFacts, Zenon
  <2> HIDE DEF q2
  <2>2. QED
    BY <1>3, <2>1, Zenon DEF q2
<1>5. \A d \in Calls \ {c} : pc'[d] = pc[d] /\ req'[d] = req[d]
  BY <1>1, Zenon DEF Finish
<1>6. pc'[c] # "holding" /\ pc'[c] # "waiting"
  BY <1>1, Zenon DEF Finish
<1> SUFFICES ASSUME NEW s \in Paths, NEW x \in Calls, NEW d \in Calls,
                    Queued(x, s), Queued(x, s)', ~Permit(d, s), Permit(d, s)'
             PROVE  \E i, j \in 1 .. Len(waiters[s]) : i < j /\ waiters[s][i] = d /\ waiters[s][j] = x
  BY DEF GrantsInOrder
<1>7. d # c
  BY <1>6, Zenon DEF Permit
<1>8. woken'[d] /\ ~woken[d] /\ req[d].path = s
  BY <1>5, <1>7 DEF Permit
<1>9. PICK k \in 1 .. n : q[k] = d
  BY <1>2, <1>8, ZenonT(30)
<1>10. k \in 1 .. Len(q)
  BY <1>4
<1>11. s = p
  BY <1>8, <1>9, <1>10, Zenon DEF Queued
<1>12. PICK l \in 1 .. Len(waiters'[p]) : waiters'[p][l] = x
  BY <1>11, Zenon DEF QueuesExact
<1>13. n + l \in 1 .. Len(q) /\ q[n + l] = x
  BY <1>4, <1>12, ZenonT(30)
<1>14. k < n + l
  BY <1>4
<1>15. QED
  <2>1. \E i, j \in 1 .. Len(waiters[p]) : i < j /\ waiters[p][i] = q[k] /\ waiters[p][j] = q[n + l]
    BY <1>10, <1>13, <1>14, ZenonT(30) DEF Ordered
  <2>2. QED
    BY <1>9, <1>11, <1>13, <2>1, ZenonT(30)

\* Every step that gives a permit gives it to the front of the queue.
LEMMA StepInOrder == LockInv /\ [Next]_vars => [GrantsInOrder]_vars
<1> SUFFICES ASSUME LockInv, Next PROVE GrantsInOrder
  BY Zenon
<1>1. TypeOK /\ QueuesExact /\ EntriesLive /\ QueuesExact'
  BY LockStep, Zenon DEF LockInv
<1>2. /\ waiters \in [Paths -> Seq(Calls)]
      /\ pc \in [Calls -> Locations] /\ req \in [Calls -> [path : Paths, mode : Modes]]
      /\ woken \in [Calls -> BOOLEAN]
  BY <1>1, Zenon DEF TypeOK
<1>3. ASSUME NEW c \in Calls, AcquireCancelled(c) \/ Cancel(c) PROVE GrantsInOrder
  BY <1>3, NothingGranted, Zenon DEF AcquireCancelled, Cancel, Permit
<1>4. ASSUME NEW c \in Calls, NEW p \in Paths, NEW m \in Modes, AcquireNow(c, p, m) PROVE GrantsInOrder
  <2>1. waiters[p] = << >> /\ \A x \in Calls : ~Queued(x, p)
    <3>1. waiters[p] = << >>
      BY <1>4, Zenon DEF AcquireNow, CanTakeNow
    <3>2. QED
      BY <1>1, <3>1 DEF QueuesExact
  <2>2. \A d \in Calls \ {c} : pc'[d] = pc[d] /\ req'[d] = req[d] /\ woken'[d] = woken[d]
    BY <1>2, <1>4, Zenon DEF AcquireNow
  <2>3. req'[c].path = p
    BY <1>2, <1>4 DEF AcquireNow
  <2>4. QED
    BY <2>1, <2>2, <2>3, Zenon DEF GrantsInOrder, Permit
<1>5. ASSUME NEW c \in Calls, NEW p \in Paths, NEW m \in Modes, AcquireWait(c, p, m) PROVE GrantsInOrder
  <2>1. \A d \in Calls \ {c} : pc'[d] = pc[d] /\ req'[d] = req[d] /\ woken'[d] = woken[d]
    BY <1>2, <1>5, Zenon DEF AcquireWait
  <2>2. pc'[c] = "waiting" /\ ~woken'[c]
    BY <1>1, <1>2, <1>5, Zenon DEF AcquireWait, EntriesLive
  <2>3. QED
    BY <2>1, <2>2, NothingGranted, Zenon DEF Permit
<1>6. ASSUME NEW c \in Calls, ResumeGranted(c) PROVE GrantsInOrder
  <2>1. \A d \in Calls \ {c} : pc'[d] = pc[d] /\ req'[d] = req[d] /\ woken'[d] = woken[d]
    BY <1>2, <1>6, Zenon DEF ResumeGranted
  <2>2. req'[c] = req[c] /\ pc[c] = "waiting" /\ woken[c]
    BY <1>6, Zenon DEF ResumeGranted
  <2>3. QED
    BY <2>1, <2>2, NothingGranted, Zenon DEF Permit
<1>7. ASSUME NEW c \in Calls, ResumeWithdraw(c) PROVE GrantsInOrder
  <2> DEFINE p == req[c].path
             q == waiters[p]
  <2>1. PICK i \in 1 .. Len(q) :
          q[i] = c /\ Advance(c, p, readers[p], writer[p], RemoveAt(q, i))
    BY <1>7, Zenon DEF ResumeWithdraw
  <2>2. p \in Paths /\ q \in Seq(Calls)
    BY <1>2
  <2>3. /\ RemoveAt(q, i) \in Seq(Calls) /\ Len(q) \in Nat /\ Len(RemoveAt(q, i)) = Len(q) - 1
        /\ \A k \in 1 .. i - 1 : RemoveAt(q, i)[k] = q[k]
        /\ \A k \in i .. Len(q) - 1 : RemoveAt(q, i)[k] = q[k + 1]
    BY <2>2, RemoveAtFacts, ZenonT(30)
  <2>4. \A k \in 1 .. Len(q) : q[k] \in Calls /\ Queued(q[k], p)
    BY <1>1, <2>2, SMTT(30) DEF QueuesExact
  <2> DEFINE q1 == RemoveAt(q, i)
  <2>5. \A k \in 1 .. Len(q1) : \E l \in 1 .. Len(q) : q1[k] = q[l]
    <3> HIDE DEF q1, q
    <3>1. /\ Len(q) \in Nat /\ Len(q1) = Len(q) - 1
          /\ \A k \in 1 .. i - 1 : q1[k] = q[k]
          /\ \A k \in i .. Len(q) - 1 : q1[k] = q[k + 1]
      BY <2>3, Zenon DEF q1
    <3>2. QED
      BY <3>1
  <2>6. \A k \in 1 .. Len(q1) : Queued(q1[k], p)
    BY <2>4, <2>5, Zenon
  <2>7. Ordered(q1, q) /\ Finish(c)
    BY <1>7, <2>2, RemoveAtOrdered, Zenon DEF ResumeWithdraw
  <2>8. QED
    BY <1>1, <2>1, <2>3, <2>6, <2>7, AdvanceInOrder, ZenonT(30)
<1>8. ASSUME NEW c \in Calls, ResumeReturn(c) \/ GuardReset(c) PROVE GrantsInOrder
  <2> DEFINE p == req[c].path
             q == waiters[p]
  <2>1. Release(c) /\ Finish(c)
    BY <1>8, Zenon DEF ResumeReturn, GuardReset
  <2>2. p \in Paths /\ q \in Seq(Calls)
    BY <1>2
  <2>3. Ordered(q, q) /\ \A k \in 1 .. Len(q) : Queued(q[k], p)
    <3>1. Ordered(q, q)
      BY Zenon DEF Ordered
    <3>2. QED
      BY <1>1, <2>2, <3>1 DEF QueuesExact
  <2>4. CASE p \notin present
    <3>1. \A d \in Calls \ {c} : pc'[d] = pc[d] /\ req'[d] = req[d] /\ woken'[d] = woken[d]
      BY <1>2, <2>1, <2>4, Zenon DEF Release, Finish
    <3>2. pc'[c] # "holding" /\ pc'[c] # "waiting"
      BY <1>2, <2>1, Zenon DEF Finish
    <3>3. QED
      BY <3>1, <3>2, NothingGranted, Zenon DEF Permit
  <2>5. CASE p \in present
    <3>1. PICK r, w : Advance(c, p, r, w, q)
      BY <2>1, <2>5, Zenon DEF Release
    <3>2. QED
      BY <1>1, <2>1, <2>2, <2>3, <3>1, AdvanceInOrder, ZenonT(30)
  <2>6. QED
    BY <2>4, <2>5, Zenon
<1>9. QED
  BY <1>3, <1>4, <1>5, <1>6, <1>7, <1>8, ZenonT(30) DEF Next, Resume

\* First come, first served on every path: a permit goes to a dispatch only when
\* nobody who queued before it stays behind, whichever of an acquire, a release, a
\* withdrawal or a returned reservation gives it (path-locks.cpp, `advance`).
THEOREM LocksServeInOrder == Spec => NoOvertaking
<1>1. QED
  BY StepInOrder, LockInvariant, PTL DEF Spec, NoOvertaking
=============================================================================
