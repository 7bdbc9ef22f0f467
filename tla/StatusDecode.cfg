\* Every reply of up to three members, whole or cut off.
CONSTANTS
    MaxMembers = 3
    Word = 4
    QueryIds = {"", "q1"}
    Exact = 4
    Rounded <- MCRounded
    Member <- MCMember
    Nested <- MCNested
    Bodies <- MCBodies
SPECIFICATION Spec
INVARIANTS
    TypeOK
    PresentFieldsAreReported
    CutBodyInventsNothing
    CountersAreNotBorrowed
    CommitHlcPrecedence
    SerializationPrecedence
