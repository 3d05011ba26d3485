SPECIFICATION Spec
CONSTANTS
    p1 = p1
    p2 = p2
    c1 = c1
    c2 = c2
    Producers = {p1, p2}
    Consumers = {c1, c2}
    Observers = {p1, c1}
    Solo = {p1, c1}
    Size = 4
    W = 12
    FixedCounts = {2}
    BurstCounts = {3}
    Serials = 1
    WaterMarks = {2}
    FlagChoices = {{"SP_ENQ"}, {"SC_DEQ"}, {"SP_ENQ", "SC_DEQ"}}
INVARIANTS
    TypeOK
    SlotsExclusive
PROPERTIES
    ImplementsFifo
    QuotaNeverMissed
    ReadingsKept
