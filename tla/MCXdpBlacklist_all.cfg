SPECIFICATION Spec
CONSTANTS
    m1 = m1
    m2 = m2
    l1 = l1
    None = None
    Ips = {1, 2, 3}
    TestIp = 1
    ZeroIp = 2
    Ports = {80}
    TestPort = 80
    Ids = {1, 2}
    SymTab <- Shuffled
    MaxMishaps = 2
    Modifiers = {m1}
    Listers = {l1}
INVARIANTS
    FilesOfProgram
    RulesKept
    ListComplete
