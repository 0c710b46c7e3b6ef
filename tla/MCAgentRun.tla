----------------------------- MODULE MCAgentRun -----------------------------
(***************************************************************************)
(* AgentRun with two coroutines, which is enough for two loops on one run, *)
(* for two decisions on one approval and for a decision beside a loop.     *)
(***************************************************************************)
EXTENDS AgentRun, TLC

CONSTANTS read, ask, r1, r2, t1, t2

BothCalls == {read, ask}
OneCall   == {ask}
OneRun    == {r1}
TwoRuns   == {r1, r2}
TwoTasks  == {t1, t2}

\* Either both calls are used in one run, or one call in two runs.
Bounded == (\E r \in TwoRuns : run[r] = "absent")
             \/ \E c \in BothCalls : call[c] = "absent"

Symmetry == Permutations(TwoTasks) \cup Permutations(TwoRuns)

=============================================================================
