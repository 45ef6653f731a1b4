CONSTANTS
    Clients = {c1, c2, c3}
    Channels = {h1, h2}
    Names = {a, b}
    Topics <- MCTopics
    Patterns <- MCPatterns
    Matches <- MCMatches
    Null = Null
    MaxSubscriptions = 4
SPECIFICATION Spec
SYMMETRY Symmetry
INVARIANTS Mirrored NoDangling DeliveredToSubscribers
PROPERTIES InTurn ChannelAutoDelete
