SPECIFICATION Spec
CONSTANTS
    Scheduler = Scheduler
    None = None
    OnlineWindow = 0
    QueueTimeout = 1
    ClaimTimeout = 2
    ReconnectWindow = 0
    Interval = 2
    Node = {n1}
    Repo = {r1}
    Task = {k1}
    Thread = {t1}
    MaxCmd = 2
    MaxRestarts = 0
    OpsLimit = 1
INVARIANTS OpMatchesCommand QueuedPlanHasCommand
PROPERTIES TerminalStatusFinal
