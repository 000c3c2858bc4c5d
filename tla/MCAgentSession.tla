---------------------------- MODULE MCAgentSession ----------------------------
(* AgentSession for TLC: the callers of an embedded agent are alike. *)
EXTENDS AgentSession, TLC

AlikeCallers == Permutations(Callers)

=============================================================================
