\* Every source of work is bounded: no deadlock check.
CONSTANTS
    Connectors = {slack}
    Tools = {read, post}
    Sensitive = {post}
    Accounts = {acct}
    Drafts = {d1, d2}
    None = None
    MaxLost = 1
    MaxCrashes = 1
SPECIFICATION Spec
CHECK_DEADLOCK FALSE
INVARIANTS
    SensitiveNeedsOptIn
    SessionNeedsInstall
    OneCopyPerClick
PROPERTY
    RemovedIsSilent
