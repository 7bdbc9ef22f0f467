SPECIFICATION Spec
CONSTANTS
    Literals <- MCLiterals
    Numerals <- MCNumerals
    HalfWord = 64
    Mantissa = 8
    Doubles <- MCDoubles
    MaxUnits = 3
    MaxBytes = 3
INVARIANTS TypeOK StringsAsMeant IntegersAsMeant
CHECK_DEADLOCK FALSE
