SPECIFICATION Spec
CONSTANTS
    Entity = {a, b}
    Local = {a}
    Weak = {a}
    Twins = {}
    Runs = {r1, r2}
    Forced = {r2}
    Workers = 1
    Viewed = {b}
    MaxChanges = 2
INVARIANTS TypeOK SkippedIsCurrent ServedIsOwn
CHECK_DEADLOCK FALSE
