SPECIFICATION FairSpec
CONSTANTS
    None = None
    s1 = s1
    s2 = s2
    s3 = s3
    here = here
    there = there
    Streamers <- MCStreamers
    Relays = {r1}
    address <- MCAddress
    reads <- MCReads
    Capacity = 2
CHECK_DEADLOCK FALSE
INVARIANTS
    TypeOK
    OncePerEntry
    RelayedToAll
PROPERTY
    RelayEnds
