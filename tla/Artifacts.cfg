SPECIFICATION Spec
CONSTANTS
    KeepDays = 2
    MinimumKept = 2
    MaxDeletePerRun = 2
    ForeignNames = {}
    KeepDaysReport = 2
    ArtifactDayMargin = 1
    MinimumReports = 1
    MinimumRestore = 1
    MinimumDayDirs = 1
    MaxCleanupPerRun = 2
    MaxRunsPerDay = 2
    TicksPerDay = 2
    MaxDay = 5
    MaxRuns = 3
    Faults = {"mount", "slot", "write", "destroy", "send", "remove", "human", "kill"}
INVARIANT TypeOK
INVARIANT HumanThingsStay
INVARIANT PromiseHolds
PROPERTY OneRunPerSlot
CHECK_DEADLOCK FALSE
