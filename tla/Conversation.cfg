\* Spawns and merges are bounded: no deadlock check.
SPECIFICATION ConversationSpec
CONSTANTS
    Projects = {p1, p2, p3}
    Default = p1
    Memories = {m1}
    Words = {w}
    MaxAgents = 3
    DepthCap = 2
    MaxMerges = 1
    MaxCrashes = 0
    None = None
CHECK_DEADLOCK FALSE
INVARIANTS
    KinReadOnly
    TagIsLive
    BrainNoSurer
PROPERTY MergeKeepsReaders
SYMMETRY Interchangeable
