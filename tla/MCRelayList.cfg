CONSTANTS
    r1 = r1  r2 = r2  r3 = r3  c1 = c1
    NaN = NaN  None = None
    Peers <- MCPeers
    Callers <- MCCallers
    Scores <- MCScores
    MaxAges <- MCMaxAges
    MaxTime = 1

SPECIFICATION LSpec

INVARIANT ListSortedByHealth
