SPECIFICATION Spec
CONSTANTS
    q1 = q1
    q2 = q2
    n1 = n1
    n2 = n2
    n3 = n3
    e1 = e1
    c1 = c1
    c2 = c2
    s1 = s1
    Null = Null
    Queues = {q1, q2}
    Nodes = {n1, n2}
    Enqueuers = {e1, c1, c2}
    Takers = {c1, c2}
    Splicers = {c1, c2}
INVARIANTS
    TypeOK
    NodesConserved
PROPERTIES
    ImplementsSpliceFifo
    CallsReturn
