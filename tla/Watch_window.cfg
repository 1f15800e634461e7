SPECIFICATION Spec
CONSTANTS
    KeepDays = 1
    MinimumKept = 2
    MaxDeletePerRun = 1
    ForeignNames = {}
    Files = {f1, f2}
    TicksPerDay = 1
    MaxDay = 3
    MaxManual = 0
    Faults = {}
SYMMETRY PhotoSymmetry
INVARIANT EveryDeletionReported
CHECK_DEADLOCK FALSE
