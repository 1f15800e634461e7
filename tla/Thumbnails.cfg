SPECIFICATION Spec
CONSTANTS
    Photos = {1, 2, 3}
    Max = 2
    MaxRounds = 3
    Faults = {"limit", "write", "remove", "photo", "full", "time", "kill", "human"}
INVARIANT TypeOK
INVARIANT NoWrongPhoto
INVARIANT ReportFitsImages
INVARIANT NoHollowDirectory
INVARIANT PromiseExplained
CHECK_DEADLOCK FALSE
