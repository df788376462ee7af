SPECIFICATION Spec
CONSTANTS
    r1 = r1
    r2 = r2
    NoToken = NoToken
    Runs <- OneRun
    Life <- ShortLife
    Copies = 1
INVARIANTS
    EndedRunsSleep
\* Each run's life is finite: when it is over nothing is left to do.
CHECK_DEADLOCK FALSE
