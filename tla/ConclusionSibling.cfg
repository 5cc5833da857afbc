SPECIFICATION Spec
CONSTANTS
    p1 = p1
    p2 = p2
    e1 = e1
    e2 = e2
    Paths <- TwoPaths
    Entries <- TwoEntries
    Inputs <- OnlyPathInputs
    MaxRuns = 1
INVARIANT
    PartialSiblingIsUnknown
CHECK_DEADLOCK FALSE
