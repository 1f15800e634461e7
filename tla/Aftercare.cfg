SPECIFICATION Spec
CONSTANTS
    MaxRuns = 5
    Faults = {"read", "early", "long", "send", "write", "kill"}
INVARIANT NoIssueIsLost
INVARIANT ToldOnce
CHECK_DEADLOCK FALSE
