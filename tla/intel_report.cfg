SPECIFICATION FairSpec
CONSTANTS
    File = {f, g}
    MaxRuns = 2
    MaxUser = 3
INVARIANTS TypeOK MarkHasRunner RowHasReport ReportMatchesFiles
PROPERTIES ReportIsFinished
CHECK_DEADLOCK FALSE
