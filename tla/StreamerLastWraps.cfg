SPECIFICATION FairSpec
CONSTANTS
    None = None
    Blank = Blank
    author = author
    Conns = {c1}
    Authors = {author}
    InitialPosts <- OnePost
    ImageFile <- NoImages
    ClientTexts = {"plain"}
    RingSize = 3
    MAX_NUM_MESS = 4
    MaxLast = 2
    Window = 1
    NetworkFails = FALSE
INVARIANTS
    LastIsAnswered
