SPECIFICATION Spec
CONSTANTS
    Procs = {a1}
    Names = {1, 2, 3}
    Formats = {"p0"}
    Files <- MCFiles
    NoFile = NoFile
    Alien = Alien
    NoProc = NoProc
    MaxRuns = 2
    MaxVersions = 0
    MaxFaults = 1
    MaxEdits = 0
INVARIANT CrashIsRecoverable
CHECK_DEADLOCK FALSE
