CONSTANTS
    Remote = {s3}
    File = {f}
    MaxUploads = 1
    MaxVms = 3
SPECIFICATION Spec
INVARIANTS
    TypeOK
    CompleteIsWhole
PROPERTIES
    NothingStaysPending
CHECK_DEADLOCK FALSE
