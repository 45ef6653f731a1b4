CONSTANTS
    Addrs = {c1, c2}
    FirstFd = 5
    max_clients = 6
    client_timeout = 1
    Sizes = {0, 2}
    Null = Null
    MaxResponses = 2
SPECIFICATION FairSpec
INVARIANTS Armed RightConnection NextByte
PROPERTIES ActiveAgain
