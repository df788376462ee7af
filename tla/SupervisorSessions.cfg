SPECIFICATION Spec
CONSTANTS
    MaxCalls = 2
    Streaming = {1, 2}
    Pipe = 2
    Buffer = 2
    MayExit = FALSE
INVARIANTS
    NotesKeepSession
\* Calls are bounded: when all have returned and the brain idles nothing is left.
CHECK_DEADLOCK FALSE
