\* Two requests on a function that may exist, one thing may go wrong.
SPECIFICATION Spec
CONSTANTS
  Req = {1, 2}
  code1 = code1
  code2 = code2
  conf1 = conf1
  conf2 = conf2
  hourly = hourly
  daily = daily
  route = route
  other = other
  Code = {code1, code2}
  Slow = {code2}
  Conf = {conf1, conf2}
  Cron = {hourly, daily}
  Route = {route, other}
  Wanted <- MCWanted
  Deployed <- MCDeployed
  None = None
  Faults = {"build", "final", "delete", "crash"}
  MaxFaults = 1
\* The requests are used once each: when all have ended the run is over.
CHECK_DEADLOCK FALSE
INVARIANTS TypeOK AtRestConsistent NewestStays RecordedWasPublished
PROPERTIES ImplementsContract BuildsSettle
