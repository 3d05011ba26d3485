SPECIFICATION Spec
CONSTANTS
    c1 = c1
    c2 = c2
    c3 = c3
    Cpus = {c1, c2, c3}
    Elems = {1, 2, 3, 4, 5, 6, 7, 8, 9, 10, 11, 12}
    LocalSize = 4
    SharedSize = 8
    Bulk = 3
    Multiplier = 2
    Preallocs = {0, 6}
    SlabFails = TRUE
VIEW Sizes
INVARIANTS
    TypeOK
    OnePlace
    LocalqNeverDies
PROPERTIES
    NothingForgotten
CHECK_DEADLOCK FALSE
