\* A reply that breaks off before its rows is an empty answer.
CONSTANTS
    Strings <- MCStrings
    CutString = "cut"
    Numbers <- MCNumbers
    Words <- MCWords
    Replies <- MCReplies
SPECIFICATION Spec
INVARIANT MalformedThrows
