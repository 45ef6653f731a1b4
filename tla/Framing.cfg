CONSTANTS
    Kinds <- MCKinds
    Header = 2
    BufSize = 6
    MaxBody = 3
    MaxRequests = 3
SPECIFICATION Spec
INVARIANTS SameRequests WholeRequests AnswersInStep
CHECK_DEADLOCK FALSE
