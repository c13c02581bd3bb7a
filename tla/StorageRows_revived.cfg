SPECIFICATION Spec
CONSTANTS
    c1 = c1  c2 = c2  c3 = c3  i1 = i1  i2 = i2
    Client = {c1, c2, c3}
    Item = {i1, i2}
    NoRow = NoRow
    Idle = Idle
    MaxRequests = 3
    MaxFaults = 1
PROPERTY PutMatches
CHECK_DEADLOCK FALSE
