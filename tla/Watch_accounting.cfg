SPECIFICATION FairSpec
CONSTANTS
    KeepDays = 1
    MinimumKept = 2
    MaxDeletePerRun = 1
    ForeignNames = {}
    Files = {f1}
    TicksPerDay = 1
    MaxDay = 2
    MaxManual = 0
    Faults = {"config", "early", "read", "list", "prefix", "diff", "parse", "filter",
              "snapshot", "destroy", "send", "ack", "state", "kill", "power", "human"}
INVARIANT TypeOK
INVARIANT Accounted
INVARIANT NoSilentFailure
INVARIANT FirstRunOnlyOnce
PROPERTY KeepsTheBooks
PROPERTY FailureHeard
PROPERTY DeletionReported
CHECK_DEADLOCK FALSE
