SPECIFICATION Spec
CONSTANTS
    MSG_ID_SIZE = 2
    MSG_MESS_SIZE = 3
    INT_MAX = 131071
    ULONG_MAX = 4194303
    USHRT_MAX = 65535
    MaxDelay = 86400
    None = None
    Posts <- MCPosts
    FilePosts <- MCFilePosts
    Registrations <- MCRegistrations
    Asked <- MCAsked
    Arguments <- MCArguments
CHECK_DEADLOCK FALSE
INVARIANTS
    TypeOK
    PostKept
    RelayTransparent
    VerifyAccepts
    MuteIsBlank
    ReachedAsRegistered
    LastRead
    OptionsAsTyped
    ListIsAnnounced
PROPERTY
    OldmRepeatsDiff
