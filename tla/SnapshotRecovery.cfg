SPECIFICATION Spec
CONSTANTS
    Roots = {i1, i2}
    Files <- MCFiles
    Versions = {v1, v2}
    Foreign = {f1}
    Runs = {r1, r2, r3}
    MaxStale = 2
    MaxMishaps = 3
SYMMETRY MCSymmetry
INVARIANT DescriptorsReturned
PROPERTY ImplementsPrivateCopy
PROPERTY ForeignKept
CHECK_DEADLOCK FALSE
