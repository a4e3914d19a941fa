SPECIFICATION Spec
CONSTANTS
    None = None
    Blank = Blank
    author = author
    Conns = {c1, c2}
    Authors = {author}
    InitialPosts <- MCInitialPosts
    ImageFile <- NoImages
    ClientTexts = {"plain", "sharp", "blank"}
    RingSize = 3
    MAX_NUM_MESS = 4
    MaxLast = 2
    Window = 1
    NetworkFails = TRUE
SYMMETRY Symmetry
INVARIANTS
    TypeOK
    RingIsRecent
    NumbersDistinct
    RingLeadsByOne
    AnswerIsRecent
PROPERTIES
    DatagramsConsecutive
    ImplementsFeed
