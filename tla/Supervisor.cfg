SPECIFICATION FairSpec
CONSTANTS
    MaxCalls = 2
    Streaming = {1, 2}
    Pipe = 1
    Buffer = 1
    MayExit = TRUE
INVARIANTS
    OwnAnswer
    SlotsAreLive
PROPERTIES
    CallsReturn
\* Calls are bounded: when all have returned and the brain idles nothing is left.
CHECK_DEADLOCK FALSE
