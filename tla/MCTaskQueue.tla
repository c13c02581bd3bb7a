---------------------------- MODULE MCTaskQueue ----------------------------
EXTENDS TaskQueue, TLC

\* One task is delayed, the others are not.
CONSTANT late
MCDue == [t \in Task |-> IF t = late THEN {4} ELSE {0}]
NoDelay == [t \in Task |-> {0}]

\* Nothing tells tasks apart before they are scheduled.
Alike == Permutations(Task)
=============================================================================
