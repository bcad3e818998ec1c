CONSTANTS
    plain = plain  requiring = requiring  strict = strict
    Lock = {plain, requiring, strict}
    Requiring = {requiring}
    Strict = {strict}
    LockFaults = {"unsupported", "error"}
    None = None
    Intrusions = 2
SPECIFICATION FairRunSpec
INVARIANTS GuardedRunsExclusive HoldReported RequiredNeverUnguarded NothingSwapped
PROPERTIES OpenedInPrivate LockComesFree
