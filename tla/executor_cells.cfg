SPECIFICATION FairSpec
CONSTANTS
    Cell = {c1, c2}
    Looping = {c1}
    Upload = {u}
    Query = {q}
    Var = {x}
    MaxJobs = 2
    MaxOthers = 1
    None = None
INVARIANTS TypeOK 
PROPERTIES CellsAreAnswered ImplementsSandbox
CHECK_DEADLOCK FALSE
