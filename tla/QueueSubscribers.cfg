CONSTANTS
    Clients = {c1, c2, c3}
    max_msg = 2
    force_push = TRUE
    round_robin = TRUE
    Modulus = 16
    Expirations = {2}
    Timeouts = {1}
    Steps = {1, 2}
    Purging = FALSE
    MaxPushes = 3
    Horizon = 1
    MaxTime = 3
SPECIFICATION FairSpec
INVARIANT Balanced
PROPERTIES LeavesAsOldest Resolved ExpiryHappens
CHECK_DEADLOCK FALSE
