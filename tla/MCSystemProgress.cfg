SPECIFICATION SysFairSpec
CONSTANTS
    Scheduler = Scheduler
    None = None
    Broken = Broken
    OnlineWindow = 0
    QueueTimeout = 1
    ClaimTimeout = 2
    ReconnectWindow = 0
    Interval = 2
    Node = {n1}
    Repo = {r1}
    Task = {k1}
    Thread = {t1}
    Host = {h1}
    MaxCmd = 1
    MaxRestarts = 0
    MaxLost = 1
    OpsLimit = 1
PROPERTIES QueuedIsSettled RunningIsSettled ImplementsController
