SPECIFICATION Spec
CONSTANTS
    MaxAsked = 2
    MaxListed = 1
    Cuts <- NoCut
INVARIANTS
    StaysInArray
