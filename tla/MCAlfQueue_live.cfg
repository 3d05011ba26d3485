SPECIFICATION FairSpec
CONSTANTS
    p1 = p1
    p2 = p2
    c1 = c1
    c2 = c2
    o1 = o1
    Producers = {p1, p2}
    Consumers = {c1}
    Observers = {}
    MultiProducer = TRUE
    MultiConsumer = TRUE
    Size = 2
    W = 6
    MaxBulk = 2
    Serials = 2
PROPERTIES
    ReservationsComplete
    SomeoneGetsThrough
