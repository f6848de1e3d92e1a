CONSTANTS
    r1 = r1  r2 = r2  c1 = c1  c2 = c2
    NaN = NaN  None = None
    Peers <- MCPeers
    Callers <- MCCallers
    Scores <- MCScores
    MaxAges <- MCMaxAges
    MaxTime = 3

SPECIFICATION Spec

PROPERTY LastSeenNeverRegresses
