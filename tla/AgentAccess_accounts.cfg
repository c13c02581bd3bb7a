SPECIFICATION Spec
CONSTANTS
    a1 = a1  a2 = a2  i1 = i1  c1 = c1  e1 = e1
    r1 = r1  r2 = r2
    None = None  Keep = Keep
    Agents <- MCAgents
    Identities <- MCIdentities
    Cli <- MCCli
    Entries <- MCEntries
    Existing <- MCExisting
    Requests <- MCRequests
    MaxRequests = 3
    MaxTokens = 2
    MaxFaults = 1
INVARIANTS TypeOK AgentExact TokenSingleUse CliIssuerThere
CHECK_DEADLOCK FALSE
SYMMETRY MCSymmetry
