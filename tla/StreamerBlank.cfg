SPECIFICATION FairSpec
CONSTANTS
    None = None
    Blank = Blank
    author = author
    Conns = {c1}
    Authors = {author}
    InitialPosts <- OnePost
    ClientTexts = {"plain", "blank"}
    ImageFile <- NoImages
    RingSize = 3
    MAX_NUM_MESS = 3
    MaxLast = 2
    Window = 1
    NetworkFails = FALSE
PROPERTY
    AddedIsBroadcast
