\* Every reply of up to two rows or two names, whole, cut off, or with a token missing.
CONSTANTS
    Strings <- MCStrings
    CutString = "cut"
    Numbers <- MCNumbers
    Words <- MCWords
    Replies <- MCReplies
SPECIFICATION Spec
INVARIANTS
    TypeOK
    WholeRepliesAreReported
    NeverInPart
    NothingMoves
PROPERTY EveryTurnAdvances
