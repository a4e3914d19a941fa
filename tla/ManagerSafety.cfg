SPECIFICATION Spec
CONSTANTS
    None = None
    Conns = {c1, c2, c3}
    Broadcasters = {b1}
    MAX_REGISTERED_BROADCASTER = 2
    MaxDescriptors = 3
SYMMETRY Symmetry
INVARIANTS
    TypeOK
    SlotOwnership
    CopiesAreItems
    OnlineIsListed
    HeartbeatPaired
    ListReplyComplete
PROPERTY
    ImplementsRegistry
