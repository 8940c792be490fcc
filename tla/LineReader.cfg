\* Reader: byte conservation over all arrival orders.
CONSTANTS
    a = a
    b = b
    nl = nl
    Chars <- MCChars
    NL <- nl
    MaxInput = 6
    Chunk = 2
    BlankLines = TRUE
SPECIFICATION Spec
INVARIANT TypeOK
INVARIANT ByteConservation
CHECK_DEADLOCK FALSE
