SPECIFICATION FairSpec
CONSTANTS
    Schedules = {s1, s2}
    Period = 3
    Drift = 1
    Poll = 1
    MaxTime = 6
    MaxFailures = 1
    Nobody = Nobody
INVARIANTS
    FewRefires
    DeletedStops
PROPERTIES
    DueFires
\* The clock and the failures are bounded: a behaviour that used them up is over.
CHECK_DEADLOCK FALSE
