CONSTANTS
    Req = {r1, r2}
    MaxVm = 2
    Faults <- TrueGateway
SPECIFICATION Spec
SYMMETRY RequestSymmetry
INVARIANTS
    TypeOK
    RoutedVmIsActive
    RotatorAndRegistryAgree
PROPERTIES
    ImplementsService
CHECK_DEADLOCK FALSE
