\* Three requests of any kind on a session of a form and a connector.
SPECIFICATION Spec
CONSTANTS
  Req = {r1, r2, r3}
  N = 2
  Connector <- MCConnector
  DependsOn <- MCDependsOn
  Gone = Gone
  NoCall = NoCall
  MaxFaults = 1
SYMMETRY Alike
\* The requests are used once each: when all have ended the run is over.
CHECK_DEADLOCK FALSE
INVARIANTS TypeOK OneLeafPerStep CommittedWhole ProcessingExplained OutputIsCommitted
