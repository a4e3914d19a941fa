SPECIFICATION FairSpec
CONSTANTS
    None = None
    Conns = {c1, c2}
    Broadcasters = {b1}
    MAX_REGISTERED_BROADCASTER = 1
    MaxDescriptors = 2
PROPERTIES
    DeadIsUnlisted
    DroppedIsTold
    RequestServed
