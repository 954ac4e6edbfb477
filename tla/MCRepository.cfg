SPECIFICATION RepositoryFairSpec
CONSTANTS
    Base <- RootBase
    Host = {h1, h2}
    Command = {c1}
    NoCmd = NoCmd
    Status = {"success", "failed"}
    NoResult = NoResult
    NoObject = NoObject
    Request = {d1, d2}
    MaxLost = 1
INVARIANTS RepeatedOnlyAfterLoss ListedIsStored OrphansAreLosses UsageIsComplete
PROPERTIES SavedResultStands DeletionCompletes
