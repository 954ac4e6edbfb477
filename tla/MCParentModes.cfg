SPECIFICATION Spec
CONSTANTS
    Path <- AllPaths
    Mode <- Modes
    DiskTrees <- Trees
    RootSets <- Roots
    Excluded <- Prefixes1
    DockerRoot <- docker
    Volumes <- volumes
    Size <- Sizes
    MaxEvents = 1
    HostTrees <- Hosts
    Protected <- HostPrefixes
INVARIANTS DirectoriesKeepTheirModes
