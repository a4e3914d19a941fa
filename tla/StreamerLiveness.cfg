SPECIFICATION FairSpec
CONSTANTS
    None = None
    Blank = Blank
    author = author
    Conns = {c1, c2}
    Authors = {author}
    InitialPosts <- OnePost
    ImageFile <- ThreeImages
    ClientTexts = {"sharp", "blank"}
    RingSize = 3
    MAX_NUM_MESS = 3
    MaxLast = 2
    Window = 1
    NetworkFails = FALSE
PROPERTIES
    AckedIsBroadcast
    RequestEnds
    ImagesAreBroadcast
