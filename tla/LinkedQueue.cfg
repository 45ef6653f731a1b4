CONSTANTS
    Nodes = {n1, n2, n3, n4, n5}
    Values = {v1, v2}
    NULL = NULL
SPECIFICATION Spec
SYMMETRY Symmetry
INVARIANT WellLinked
PROPERTY ImplementsDeque
CHECK_DEADLOCK FALSE
