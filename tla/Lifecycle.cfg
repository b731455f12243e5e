SPECIFICATION FairSpec
CONSTANTS
    Threads = {t1, t2}
    Configs <- FullAndTraced
    Env <- Traced
    MaxCalls = 3
    NoConfig = NoConfig
    NoProvider = NoProvider
    NoThread = NoThread
INVARIANTS PoliciesFollowSnapshot ProvidersAreHeld SetupIsWhole
PROPERTIES StaleNeverInstalled EveryCallReturns
CHECK_DEADLOCK FALSE
