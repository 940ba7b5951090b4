CONSTANTS
    Var = {x, fig}
    Hidden = {fig}
    File = {f}
    Pkg = {p}
    MaxVm = 3
    MaxWork = 2
    MaxFaults = 2
SPECIFICATION Spec
INVARIANTS
    TypeOK
    RestoreReportsTruth
    PackagesAreNotForgotten
PROPERTIES
    RestoredStateIsLatest
CHECK_DEADLOCK FALSE
