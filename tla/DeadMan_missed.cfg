SPECIFICATION Spec
CONSTANTS
    Mornings <- MCMornings
    Others <- MCOthers
    Noon = 720
    Limit = 1800
    MaxDay = 2
INVARIANT MissedDayIsCaught
CHECK_DEADLOCK FALSE
