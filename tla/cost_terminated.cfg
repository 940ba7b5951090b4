SPECIFICATION Spec
CONSTANTS
    Vm = {v1}
    MaxTime = 4
    MaxRestarts = 1
PROPERTY TerminatedIsNotBilled
