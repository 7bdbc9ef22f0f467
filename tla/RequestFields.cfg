\* The fields that are set by a caller and sent by nobody.
CONSTANTS
    Calls <- MCCalls
    NonFinite <- MCNonFinite
    DigitsOf <- MCDigitsOf
    GoldenSeed = 77
SPECIFICATION Spec
INVARIANT EveryFieldIsSent
