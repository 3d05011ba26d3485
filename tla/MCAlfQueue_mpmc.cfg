SPECIFICATION Spec
CONSTANTS
    p1 = p1
    p2 = p2
    c1 = c1
    c2 = c2
    o1 = o1
    Producers = {p1, p2}
    Consumers = {c1, c2}
    Observers = {}
    MultiProducer = TRUE
    MultiConsumer = TRUE
    Size = 2
    W = 6
    MaxBulk = 1
    Serials = 3
SYMMETRY TwoOfEach
INVARIANTS
    TypeOK
    CountersOrdered
    SlotsExclusive
PROPERTIES
    RefusedOnlyIfFull
    ZeroOnlyIfEmpty
    ImplementsFifo
