SPECIFICATION FairSpec
CONSTANTS
    MaxAsked = 4
    MaxListed = 4
    Cuts <- AllCuts
INVARIANTS
    TypeOK
    LastIsWhole
    ListIsReply
    LastErrorIsCut
PROPERTIES
    CallReturns
