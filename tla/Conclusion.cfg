SPECIFICATION Spec
CONSTANTS
    p1 = p1
    p2 = p2
    e1 = e1
    e2 = e2
    Paths <- TwoPaths
    Entries <- TwoEntries
    Inputs <- AllInputs
    MaxRuns = 2
INVARIANTS
    DeterminateIsProven
    FormalIsVerifiable
    FailuresExplained

    
    
CHECK_DEADLOCK FALSE
