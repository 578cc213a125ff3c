--------------------------- MODULE MCAgentJudgment ---------------------------
(* Small instances of AgentJudgment: three interchangeable tasks. *)
EXTENDS AgentJudgment, TLC

CONSTANTS t1, t2, t3, k1

TaskSymmetry == Permutations(Tasks)
=============================================================================
