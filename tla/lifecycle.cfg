SPECIFICATION Spec
CONSTANTS
    Modes = {"checkpoint", "eternal"}
    Lifetime = 7
    Idle = 3
    Margin = 1
    MinLead = 2
    MinDelay = 1
    Buffer = 2
    MinRest = 1
    RestoredIdle = 5
    Young = 2
    Lag = 1
    MaxVm = 2
    MaxDowns = 2
INVARIANTS TypeOK NoTimerForTerminated EveryTimerRings RousedStaysAwake
PROPERTY RestartRoutes
