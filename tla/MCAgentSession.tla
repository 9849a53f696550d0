--------------------------- MODULE MCAgentSession ---------------------------
(***************************************************************************)
(* AgentSession for TLC: the calls of one turn as model values, and the    *)
(* symmetry of calls and approvals nothing tells apart.                    *)
(***************************************************************************)
EXTENDS AgentSession, TLC

CallSymmetry ==
  Permutations(PlainCalls) \cup Permutations(GatedCalls) \cup
  Permutations(JoinedCalls) \cup Permutations(HostedApprovals)

=============================================================================
