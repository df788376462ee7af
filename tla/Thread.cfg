SPECIFICATION Spec
CONSTANTS
    MaxSends = 3
    MaxCrashes = 1
    Kinds = {"direct", "action", "staged", "delegated"}
    DigestBudget = 1
    BatchSize = 2
    MinTurns = 1
INVARIANTS
    AnsweredIsDurable
    GatedOnce
    TurnComesFirst
    DigestCoverage
PROPERTIES
    AtomicExchange
    TurnsDigestedOnce
\* Sends and crashes are bounded: a behaviour that has used them up is over.
CHECK_DEADLOCK FALSE
