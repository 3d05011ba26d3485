SPECIFICATION Spec
CONSTANTS
    p1 = p1
    p2 = p2
    c1 = c1
    c2 = c2
    r1 = r1
    Null = Null
    Free = Free
    Producers = {p1, p2}
    Consumers = {c1, c2}
    Resizers = {r1}
    Sizes = {1, 3}
    Serials = 1
    Exclusive = TRUE
    PastEnd = FALSE
INVARIANTS
    TypeOK
PROPERTIES
    ImplementsPtrFifo
    CallsReturn
