--------------------------- MODULE MCAgentSession ---------------------------
(* Two turns over two projects: one to leave a conversation behind, one to *)
(* be in flight while it is cleared.  Two commands of the rail: a selection *)
(* and what overtakes it.                                                  *)
EXTENDS AgentSession, TLC

CONSTANTS t1, t2, pA, pB, c1, c2

MCTurns == {t1, t2}
MCProjects == {pA, pB}
MCCommands == {c1, c2}
Symmetric == Permutations(MCTurns) \cup Permutations(MCProjects)
             \cup Permutations(MCCommands)

\* Until it is at its limit, a turn makes at most two tool calls, in one stream
\* or in two.
TwoCalls ==
  \A t \in Turns : iteration'[t] < MaxIterations => Len(ran'[t]) + Len(pending'[t]) <= 2
=============================================================================
