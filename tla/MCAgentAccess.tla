--------------------------- MODULE MCAgentAccess ---------------------------
(* A small instance of AgentAccess.                                        *)
EXTENDS AgentAccess, TLC

CONSTANTS a1, a2, i1, c1, e1, r1, r2

MCAgents == {a1, a2}
MCIdentities == {i1, c1}
MCCli == {c1}
MCEntries == {e1}
MCRequests == {r1, r2}
MCExisting == {a1}

MCSymmetry == Permutations(MCRequests)

=============================================================================
