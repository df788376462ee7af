\* Connections and commands are bounded: no deadlock check.
CONSTANTS
    Runs = {r1}
    NoRun = NoRun
    MaxId = 8
    MaxAttach = 2
SPECIFICATION BrowserSpec
CHECK_DEADLOCK FALSE
INVARIANTS
    OpenMeansRead
    NoStrayConnection
    CapturesKept
PROPERTY
    RequestsReturn
