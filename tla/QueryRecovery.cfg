\* One call with up to three failures and a rename by somebody else.
SPECIFICATION Spec
CONSTANTS
    f1 = f1
    Foreign = {f1}
    MaxFaults = 3
    MaxEdits = 1
INVARIANTS FailureHides ReturnedIsPublished ForeignKept NothingLeaks
CHECK_DEADLOCK FALSE
