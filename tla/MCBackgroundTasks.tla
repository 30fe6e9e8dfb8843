-------------------------- MODULE MCBackgroundTasks --------------------------
(* Two team tasks of two members that compete for one record more than they   *)
(* leave, and a replaced team; beside them an ordinary job, or two leader turns *)
(* that claim completions, or one and a record whose retention passes.  The    *)
(* host delivers automatically.  Keys and members are interchangeable.         *)
EXTENDS BackgroundTasks, TLC

MCInit ==
    \E u \in {[starts |-> 0, claims |-> MaxClaims, aged |-> MaxAged],
              [starts |-> MaxStarts, claims |-> 0, aged |-> MaxAged],
              [starts |-> MaxStarts, claims |-> 1, aged |-> 0]} : Created(u)

MCSpec == MCInit /\ [][Next]_vars /\ Fairness

Symmetry == Permutations(Tasks) \cup Permutations(Members)
=============================================================================
