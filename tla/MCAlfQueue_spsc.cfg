SPECIFICATION FairSpec
CONSTANTS
    p1 = p1
    p2 = p2
    c1 = c1
    c2 = c2
    o1 = o1
    Producers = {p1}
    Consumers = {c1}
    Observers = {o1}
    MultiProducer = FALSE
    MultiConsumer = FALSE
    Size = 2
    W = 6
    MaxBulk = 3
    Serials = 3
PROPERTIES
    ImplementsFifo
    CallsReturn
    EmptyIsTrue
    CountsNeverLow
