CONSTANTS
    Req = {r1}
    MaxVm = 3
    Faults <- RotationFaults
SPECIFICATION FairSpec
INVARIANTS
    RunsOncePerSend
    QuiescedStateIsCarried
PROPERTIES
    QuiesceEnds
    RequestsAreAnswered
CHECK_DEADLOCK FALSE
