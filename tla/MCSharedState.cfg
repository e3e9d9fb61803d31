SPECIFICATION SharedSpec
CONSTANTS
    k1 = k1
    k2 = k2
    k3 = k3
    r1 = r1
    r2 = r2
    t1 = t1
    t2 = t2
    f1 = f1
    f2 = f2
    one = one
    Users = {k1, k2, k3}
    Requests = {r1, r2}
    GrantedRoles = {"owner", "admin", "member"}
    Sources = {one}
    Batches = {r1, r2}
    Admins = {t1, t2}
    RecommendAt = 3
    ActivateAt = 4
    MaxRefs = 4
    MaxContracts = 2
    Documents = {t1, t2}
    Paths = {f1, f2}
    Workers = {r1, r2}
    Cleaners = {one}
    Accounts = {one}
    Events <- AccountEvents
    Deliveries = {k1, k2, k3}
    Briefs = {f1, f2}
    GlobalBriefs = {f2}
    Refreshers = {r1, r2}
    MaxRefreshes = 2
    Cooldown = 2
    StaleAfter = 3
    MaxPasses = 1
    Callers = {k1, k2, k3}
    Bodies = {t1, t2}
    MaxPolls = 2
    Calls = {r1, r2}
    FailureThreshold = 2
    SuccessThreshold = 2
    RecoveryTimeout = 1
    MaxCount = 3
    Getters = {k1, k2, k3}
    LockTimeout = 3
    WaitMax = 1
SYMMETRY Symmetry
INVARIANTS
    OwnerlessOnlyIfOvertaken
    RecommendedIsEarned
    SecondContractExplained
    RunningHasWorker
    FileLostOnlyToSharedPath
    LoginsNotOvercounted
    ProcessedOrFailed
    LimitedIsRefreshed
    OneEffect
    OrphanedOnlyIfCut
    StuckOpenExplained
    OneUnderLock
PROPERTIES
    RemovalIsFinal
    RefreshesApart
CHECK_DEADLOCK FALSE
