\* Two processes on one output directory, two stages, two paths: the report
\* configuration changes, a fault anywhere.
SPECIFICATION FairSpec
CONSTANTS
    Procs = {p1, p2}
    N = 2
    Paths = {1, 2}
    Private = {2}
    c1 = c1
    c2 = c2
    Contents = {c1, c2}
    NoFile = NoFile
    Outputs <- MCTwoPathOutputs
    Bases = {b1}
    Models = {m1}
    Reports = {r1, r2}
    Unused = Unused
    NoProc = NoProc
    MaxInvocations = 2
    MaxFaults = 1
INVARIANTS TypeOK RecordedChain ResumeReexecutesOnlyChanged RollbackRestores ExitAgrees
PROPERTIES CompletedIsVerified Termination
CHECK_DEADLOCK FALSE
