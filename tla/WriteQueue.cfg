CONSTANTS
    HWM = 3
    LineLens = {1, 2}
    MaxLines = 4
SPECIFICATION Spec
INVARIANT TypeOK
CHECK_DEADLOCK FALSE
