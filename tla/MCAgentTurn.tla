----------------------------- MODULE MCAgentTurn -----------------------------
\* Two sessions on one conversation, one of them with an inbox.
EXTENDS AgentTurn, TLC

IdsAlike == Permutations(Ids)
=============================================================================
