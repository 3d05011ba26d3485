SPECIFICATION SpecAll
CONSTANTS
    c1 = c1
    c2 = c2
    c3 = c3
    Cpus = {c1, c2, c3}
    Even = {c1, c3}
    Two = {c1, c2}
    SpawnsFail = TRUE
    Benches = {"skb_array", "alf_queue", "alf_bulk", "ptr_ring", "alloc_put",
               "experiment1", "experiment3", "locks", "order0", "fastpath",
               "pattern"}
    Pages = {1, 2, 3, 4, 5, 6, 7, 8, 9, 10}
    Fake = Fake
    None = None
    QSize = 6
    Prefill = 3
    Loops = 4
    Bulk = 2
INVARIANTS
    TypeOK
    StartTogether
    StoppedAfterBench
    PagesCounted
PROPERTIES
    BenchesRun
CHECK_DEADLOCK FALSE
