SPECIFICATION Spec
CONSTANTS
    Docker = {docker}
    Database = {mysql}
    Application = {nginx}
    Project = {site}
    Dump = {sql}
INVARIANTS SuccessIsComplete NothingSilentlyStopped QuietWhileCopied DatabasesFirst
