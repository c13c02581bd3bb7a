\* Two tasks of a route that runs one at a time, delayed or not, one fault.
SPECIFICATION Spec
CONSTANTS
  late = t1
  Task = {t1, t2}
  Proc = {p1}
  MaxPending = 1
  MaxRunning = 1
  Due <- MCDue
  MaxDelay = 1
  CacheTtl = 1
  None = None
  MaxTime = 4
  Faults = {"outage", "crash", "twice"}
  MaxFaults = 1
\* Tasks are scheduled once each: when all have ended the run is over.
CHECK_DEADLOCK FALSE
INVARIANTS TypeOK NotEarly RunningLimit
PROPERTIES StatusForward TasksSettle
