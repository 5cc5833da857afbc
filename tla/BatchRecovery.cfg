SPECIFICATION FairSpec
CONSTANTS
    t1 = t1
    t2 = t2
    t3 = t3
    Targets = {t1, t2, t3}
    Plan <- MCPausedPlan
    Paused = {t3}
    NoTarget = NoTarget
    MaxWorkers = 2
    MaxAttempts = 2
    RetryFailed = TRUE
    MaxInvocations = 2
    MaxFaults = 1
    MaxSignals = 1
INVARIANTS AttemptsAccounted NothingLeftToRetry
PROPERTIES SettledKept InterruptSticky CompletedIsBacked Termination
CHECK_DEADLOCK FALSE
