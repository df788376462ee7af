SPECIFICATION FairSpec
CONSTANTS
    MaxRuns = 2
    DepthCap = 1
    MaxClicks = 2
    MaxCrashes = 1
    wide = wide
    bare = bare
    NoPlan = NoPlan
    Plans <- MCPlans
    SubSteps <- MCSubSteps
INVARIANTS
    ExecutionNeedsGrant
    CompletedIsTrue
    GateShownIsOpen
    UnfinishedIsDrivenOrGated
    WorkersNest
PROPERTIES
    StartedRunsSettle
    DecisionsTakeEffect
    BootEnds
\* Every counter is bounded: a behaviour that has used them up is over.
CHECK_DEADLOCK FALSE
