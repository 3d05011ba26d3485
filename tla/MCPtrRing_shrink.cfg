SPECIFICATION Spec
CONSTANTS
    p1 = p1
    p2 = p2
    c1 = c1
    c2 = c2
    r1 = r1
    Null = Null
    Free = Free
    Producers = {p1}
    Consumers = {c1}
    Resizers = {r1}
    Sizes = {1, 2}
    Serials = 2
    Exclusive = TRUE
    PastEnd = TRUE
PROPERTIES
    ImplementsPtrFifo
