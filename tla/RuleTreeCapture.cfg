\* Every tree of up to four nodes of every type, every outcome of its
\* MATCH and MATCHALL nodes on a line.  Evaluation of the bounded lines
\* ends, so the final states have no successor.
CONSTANTS
    MaxNodes = 4
    NodeTypes = {"PASSTHROUGH", "ASSIGN", "BREAK", "MATCH", "MATCHALL", "MELSE", "WRITE"}
    MaxLines = 1
SPECIFICATION Spec
INVARIANT CapturesFromEnclosingMatch
CHECK_DEADLOCK FALSE
