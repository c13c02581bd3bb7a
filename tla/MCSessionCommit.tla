-------------------------- MODULE MCSessionCommit --------------------------
EXTENDS SessionCommit, TLC

MCConnector == {2}
MCDependsOn == [s \in Step |-> 1 .. s - 1]
Alike == Permutations(Req)
=============================================================================
