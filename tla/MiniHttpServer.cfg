\* Two requests, two responses, and a stop() at any point.
CONSTANTS
    get = get
    post = post
    Clients = {get, post}
    Nobody = Nobody
    HeadSize = 2
    Size <- MCSize
    Statuses = {200, 503}
    BodyOf <- MCBodyOf
    FirstStatus = 200
    NoReply = NoReply
SPECIFICATION FairSpec
INVARIANTS
    TypeOK
    AnswerMeansCaptured
    NoTornAnswer
    StopIsQuiet
PROPERTY StopReturns
CHECK_DEADLOCK FALSE
