SPECIFICATION Spec
CONSTANTS
    c1 = c1
    c2 = c2
    c3 = c3
    Cpus = {c1, c2, c3}
    SpawnsFail = FALSE
PROPERTIES
    RunReturns
CHECK_DEADLOCK FALSE
