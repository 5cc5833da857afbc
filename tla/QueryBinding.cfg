\* Drift that the output binding finds after the commit.
SPECIFICATION Spec
CONSTANTS
    f1 = f1
    Foreign = {f1}
    MaxFaults = 1
    MaxEdits = 0
INVARIANT DriftAfterReplacementHides
CHECK_DEADLOCK FALSE
