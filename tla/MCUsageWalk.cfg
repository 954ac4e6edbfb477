SPECIFICATION RepositorySpec
CONSTANTS
    Base <- PathBase
    Host = {h1}
    Command = {c1}
    NoCmd = NoCmd
    Status = {"success", "failed"}
    NoResult = NoResult
    NoObject = NoObject
    Request = {d1}
    MaxLost = 0
INVARIANTS FallbackIsCompatible
