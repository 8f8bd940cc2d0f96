SPECIFICATION PartsSpec
CONSTANTS
    Worker = {v1, v2}
    Stopper = {r1, r2}
    Kind = {"stream", "poll"}
    NoWorker = NoWorker
    Proposal = {q1, q2}
    Request = {h1, h2}
    AutoWired = TRUE
    NoRequest = NoRequest
    Target = 3
    FillTime = {1, 2}
    Excess = 1
    Domain = {d1}
    Day = {1, 2}
    Cap = 2
    Notional = {1, 2}
    NoDay = NoDay
    MaxSpent = 3
    Level = {1, 2}
    LevelQty = {0, 1, 2}
    MaxUpdates = 4
    Depth = 1
    BatchMax = 2
    Interval = 2
    MaxRows = 4
    MaxFile = 8
    MaxStamp = 3
    Consumer = {1, 2}
    KeyHash = {0, 1}
    MaxEntries = 3
    MaxBatch = 2
    Retention = {"none", "count", "age"}
    MaxMessages = 2
    MaxPublishes = 4
    Partition = {0, 1, 2}
    Member = {1, 2}
    MaxLog = 2
    MaxOffset = 2
    MaxMoves = 1
CHECK_DEADLOCK FALSE
INVARIANTS
    PumpsAreStoppable
    DecisionsAreFinal
    QueueIsProjection
    FillsCountOnce
    CapsHold
    BookIsTheVenues
    RowsReachTheFile
    NothingPassedBy
    OnlyCallersSkip
    AgreedGroupsPartition
PROPERTIES
    SignalledPumpsEnd
    ImplementsQueue
