CONSTANTS
    q1 = q1
    q2 = q2
    Objects = {o1, o2}
    Clients = {c1, c2}
    Queues = {q1, q2, q3, q4}
    Bound <- MCBound
    RoundRobin = {q4}
    Subscribable = {q3, q4}
    MaxResponses = 2
SPECIFICATION PayloadSpec
SYMMETRY Symmetry
INVARIANTS RefcountExact PayloadAlive
