SPECIFICATION Spec
CONSTANTS
    Callers = {c1, c2}
    Windows = {1, 3}
    FirstWindow = 3
    FirstEpoch = 3
    Radix = 2
    MaxCalls = 3
    Top = 4
    Member <- MCMember
    Exact = 2
    Rounded <- MCRounded
SYMMETRY AnyCaller
INVARIANTS TypeOK WholeAnswersAreTrue NothingComesBack BrokenOffPairs
CHECK_DEADLOCK FALSE
