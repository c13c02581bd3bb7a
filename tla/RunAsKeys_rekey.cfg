SPECIFICATION Spec
CONSTANTS
    executor = executor  server = server  r1 = r1  r2 = r2
    Signers = {executor}
    Verifiers = {server}
    Requests = {r1, r2}
    MaxKeyTtl = 6
    RekeyInterval = 2
    JwtValid = 1
    MaxPut = 1
    MaxLate = 1
    Lag = 0
    End = 6
    MaxKeys = 3
    MaxTokens = 2
    MaxFaults = 1
INVARIANTS TypeOK TokenInKeyLife RefusedOnlyFresh
SYMMETRY MCSymmetry
CHECK_DEADLOCK FALSE
