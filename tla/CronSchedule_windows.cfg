SPECIFICATION Spec
CONSTANTS
    hourly = hourly  often = often  b1 = b1  b2 = b2
    Schedules <- MCSchedules
    Occurrences <- MCOccurrences
    Builds <- MCBuilds
    Off = Off
    Window = 5
    Eighth = 4
    MaxExecutions = 1
    MaxDelay = 7
    End = 8
    MaxBuilds = 2
    MaxCopies = 2
    MaxFaults = 1
INVARIANTS TypeOK NoGap RanOnce KeysMatchSpec
SYMMETRY MCSymmetry
CHECK_DEADLOCK FALSE
