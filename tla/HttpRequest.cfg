\* Every allocation failure, chunking, network failure and reply, call after call.
CONSTANTS
    MaxResponseBytes = 3
    ChunkSizes = {1, 2}
    Timeouts = {0, 5}
    MaxLost = 2
    Exact = 9
    Rounded <- MCRounded
    Member <- MCMember
    Nested <- MCNested
    Replies <- MCReplies
    NotFoundTexts <- MCNotFoundTexts
SPECIFICATION FairSpec
INVARIANTS
    TypeOK
    HandleReleased
    RequestIsComplete
    LeaksOnlyOnFailedAppend
    ResponseCapped
    VerdictNeedsWholeReply
PROPERTY EveryCallEnds
