SPECIFICATION FairSpec
CONSTANTS
    MaxAttempts = 3
    AttemptTimeout = 10
    Backoffs <- MCBackoffs
    Ages = {0, 1500}
    FreshFor = 1800
    Texts = {failed}
    MaxSends = 2
    MaxOverdue = 2
    Faults = {"connect", "lost", "server", "refuse", "deaf", "late", "term"}
INVARIANT TypeOK
INVARIANT ReportedAlarmRang
INVARIANT RingsOnce
PROPERTY Delivers
PROPERTY SendEnds
CHECK_DEADLOCK FALSE
