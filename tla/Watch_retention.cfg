SPECIFICATION Spec
CONSTANTS
    KeepDays = 3
    MinimumKept = 2
    MaxDeletePerRun = 1
    ForeignNames = {}
    Files = {}
    TicksPerDay = 2
    MaxDay = 6
    MaxManual = 1
    Faults = {"destroy"}
PROPERTY PreviousKept
PROPERTY PromiseKept
PROPERTY HistoryKept
CHECK_DEADLOCK FALSE
