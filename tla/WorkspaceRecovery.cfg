SPECIFICATION Spec
CONSTANTS
    q1 = q1
    q2 = q2
    leader = leader
    child = child
    Plan <- MCPlan
    Sidecars = {q2}
    Modes = {"family", "formal", "exploratory"}
    Leader = leader
    Children = {child}
    Streams = {"stdout", "stderr"}
    MaxChunks = 1
    MaxMishaps = 2
INVARIANTS FormalIsComplete KeptIsWhatWasRead NothingUntold SuccessIsQuiet
PROPERTIES StageEnds
CHECK_DEADLOCK FALSE
