SPECIFICATION SysSpec
CONSTANTS
    Scheduler = Scheduler
    None = None
    Broken = Broken
    OnlineWindow = 0
    QueueTimeout = 1
    ClaimTimeout = 2
    ReconnectWindow = 0
    Interval = 2
    Node = {n1}
    Repo = {r1}
    Task = {k1}
    Thread = {t1}
    Host = {h1, h2}
    MaxCmd = 1
    MaxRestarts = 1
    MaxLost = 0
    OpsLimit = 1
SYMMETRY SystemSymmetry
INVARIANTS RepeatedOnlyAfterLoss RecordedIsSaved
PROPERTIES ImplementsAgent
