CONSTANTS
    F = F
    S = S
    Nil = Nil
    HWM = 2
    MaxFlips = 3
SPECIFICATION Spec
INVARIANT NoNullUnlink
CHECK_DEADLOCK FALSE
