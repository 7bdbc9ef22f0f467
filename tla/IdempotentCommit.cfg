\* Two callers, one key between them, a crash, every loss and delay.
CONSTANTS
    Callers = {c1, c2}
    Batches = {put, delete, batch}
    Puts = {put}
    Deletes = {delete}
    Keys = {k1}
    KeyArgs = {k1, none}
    NoKey = none
    Empty = empty
    MaxLog = 3
    MaxCrashes = 1
SPECIFICATION FairSpec
\* The system stops once every caller has its answer.
CHECK_DEADLOCK FALSE
INVARIANTS
    TypeOK
    AtMostOncePerKey
    ReturnedMeansApplied
PROPERTIES
    ImplementsExactlyOnce
    KeyedCallsAreAnswered
