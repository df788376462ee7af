SPECIFICATION Spec
CONSTANTS
    Projects = {p1, p2}
    Default = p1
    Memories = {m1}
    MaxAgents = 3
    DepthCap = 2
    MaxMerges = 2
    MaxCrashes = 1
    None = None
INVARIANTS
    LinkIsMutual
    MergeIsComplete
    DepthCapped
