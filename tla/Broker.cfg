CONSTANTS
    Clients = {c1, c2}
    Queues = {q1, q2}
    Routes = {r1, r2}
    Keys = {k1, k2}
    QueueNames = {a, b}
    RouteNames = {x, y}
SPECIFICATION Spec
SYMMETRY Symmetry
INVARIANTS Mirrored NoDangling ListedOnce
PROPERTIES QueueAutoDelete RouteAutoDelete
