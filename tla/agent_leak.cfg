SPECIFICATION Spec
CONSTANTS
    Session = {a, b}
    Pool = {p1, p2}
    MaxCalls = 1
INVARIANT SessionsDoNotLeak
