-------------------------- MODULE MCAgentRegistry --------------------------
(* TLC instances of AgentRegistry.                                         *)
EXTENDS AgentRegistry, TLC

Symmetry == Permutations(Agents)
=============================================================================
