CONSTANTS
    d1 = d1  d2 = d2
    h1 = h1  h2 = h2  h3 = h3
    s1 = s1  s2 = s2
    p1 = p1
    NoFile = NoFile  None = None  Partial = Partial
    Data <- MCData
    Hashes <- MCHashes
    Digest <- MCDigest
    Sources <- MCSources
    Disk <- MCDisk
    Paths <- MCPaths
    IngestPairs <- MCIngestHonest
    DrainMax <- MCDrainMax
    MaxAttempts = 3
    HistCap = 2
    CounterMax = 3
    CmdCap = 2
    EventCap = 2
    MaxCmds = 3

SPECIFICATION FairSpec

INVARIANT TypeOK
INVARIANT AttemptHistoryWellFormed
INVARIANT CountersMatchAttempts
INVARIANT RecentIsNewestWindow
INVARIANT EventsFollowSubmissionOrder
INVARIANT DownloadedBytesMatchHash
PROPERTY EveryCommandProcessed
