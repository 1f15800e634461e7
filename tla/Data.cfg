SPECIFICATION Spec
CONSTANTS
    KeepDays = 1
    MinimumKept = 2
    MaxDeletePerRun = 1
    ForeignNames = {9}
    Names = {1, 2, 3, 4, 9}
    Times <- MCTimes
    MaxSnaps = 5
    SampleMax = 3
    Alphabets <- MCAlphabets
    MaxText = 5
    DiffLines <- MCDiffLines
    MaxLines = 3
    PathPrefixes <- MCPrefixes
INVARIANT SameChoice
INVARIANT OldestGoFirst
INVARIANT SameLatest
INVARIANT EvenGaps
INVARIANT RoundTripIsExact
INVARIANT EveryLineCounts
INVARIANT OrderDoesNotMatter
INVARIANT CountsWhatIsWithin
CHECK_DEADLOCK FALSE
