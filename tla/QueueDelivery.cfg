CONSTANTS
    Clients = {}
    max_msg = 2
    force_push = FALSE
    round_robin = FALSE
    Modulus = 16
    Expirations = {0, 2}
    Timeouts = {0, 1, 2}
    Steps = {1, 2}
    Purging = TRUE
    MaxPushes = 3
    Horizon = 2
    MaxTime = 6
SPECIFICATION Spec
INVARIANTS
    TypeOK
    HeldOnce
    ExpireIndex
    NoExpiredVisible
    NoOverdue
    NotLost
    OldestFirst
    UniqueTags
    NotBeforeDeadline
CHECK_DEADLOCK FALSE
