CONSTANTS
    NCells = 2
    MaxVm = 2
    MaxMounts = 2
SPECIFICATION FairSpec
INVARIANTS TypeOK RunInTurn RunningIsTrue
PROPERTIES TabFollowsSession
CHECK_DEADLOCK FALSE
