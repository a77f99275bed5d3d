-------------------------- MODULE MCAgentExecutor --------------------------
(* Model-checking instances of AgentExecutor. *)
EXTENDS AgentExecutor, TLC

CONSTANTS c1, c2

\* Callers are interchangeable; used only where no liveness is checked.
CallerSymmetry == Permutations(Callers)
============================================================================
