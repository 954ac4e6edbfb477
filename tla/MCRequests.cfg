SPECIFICATION Spec
CONSTANTS
    Scheduler = Scheduler
    None = None
    OnlineWindow = 0
    QueueTimeout = 1
    ClaimTimeout = 2
    ReconnectWindow = 0
    Interval = 2
    Node = {n1}
    Repo = {r1}
    Task = {k1}
    Thread = {t1, t2}
    MaxCmd = 1
    MaxRestarts = 1
    OpsLimit = 1
SYMMETRY Symmetry
INVARIANTS TypeOK OneRecordPerCommand 
PROPERTIES StoppedNeverDelivered DeletedBackupStaysDeleted ImplementsLifecycle
