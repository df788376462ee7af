SPECIFICATION FairSpec
CONSTANTS
    r1 = r1
    r2 = r2
    NoToken = NoToken
    Runs <- TwoRuns
    Life <- MCLife
    Copies = 2
INVARIANTS
    MapIsHeld
PROPERTIES
    TasksEnd
\* Each run's life is finite: when it is over nothing is left to do.
CHECK_DEADLOCK FALSE
