SPECIFICATION Spec
CONSTANTS
    Procs = {a1, a2}
    Names = {1, 2, 3}
    Formats = {"p0", "historical"}
    Files <- MCFiles
    NoFile = NoFile
    Alien = Alien
    NoProc = NoProc
    MaxRuns = 3
    MaxVersions = 1
    MaxFaults = 1
    MaxEdits = 1
INVARIANTS
    ViewIsOneGeneration
    RefusalsAreExplained
PROPERTIES
    ViewBeforePointer
    NewFilesKept
CHECK_DEADLOCK FALSE
