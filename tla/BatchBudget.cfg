SPECIFICATION Spec
CONSTANTS
    t1 = t1
    t2 = t2
    t3 = t3
    Targets = {t1}
    Plan <- MCOnePlan
    Paused = {}
    NoTarget = NoTarget
    MaxWorkers = 1
    MaxAttempts = 1
    RetryFailed = TRUE
    MaxInvocations = 2
    MaxFaults = 0
    MaxSignals = 1
INVARIANTS ExecutionsBounded
CHECK_DEADLOCK FALSE
