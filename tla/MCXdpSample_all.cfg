SPECIFICATION Spec
CONSTANTS
    None = None
    Samples = {"rxhash", "bench01", "bench02", "ttl", "tail_calls", "napi"}
    Cpus = {0, 1}
    MaxRuns <- Runs
    MaxFailed = 1
    Patterns = {0, 1, 2}
    Overrides = {"none", "tx"}
INVARIANTS
    TotalsOrdered
    VerdictsAsAsked
    NothingLeft
    CallsAsMeant
CHECK_DEADLOCK FALSE
