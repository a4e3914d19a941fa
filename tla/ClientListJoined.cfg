SPECIFICATION Spec
CONSTANTS
    MaxAsked = 1
    MaxListed = 2
    Cuts <- NoCut
INVARIANTS
    ListIsReturned
