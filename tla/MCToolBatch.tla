----------------------------- MODULE MCToolBatch -----------------------------
\* Two turns share a scheduler.  The first has a batch of two calls on one path,
\* run one at a time, so that the second call waits for admission; the second
\* turn writes the same path.
EXTENDS ToolBatch, TLC

CONSTANTS b1, b2, c1, c2, d1, p1

MCCallsOf == (b1 :> <<c1, c2>>) @@ (b2 :> <<d1>>)
MCPathOf == [c \in {c1, c2, d1} |-> p1]
=============================================================================
