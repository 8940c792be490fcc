------------------------------- MODULE MCRotLog -------------------------------
EXTENDS RotLog

CONSTANTS r1, w1, w2

\* A file source opened first, then two rotating sinks.
MCDescs == {r1, w1, w2}
MCKind == [d \in MCDescs |-> IF d = r1 THEN "filer" ELSE "rotlog"]
MCOrder == <<r1, w1, w2>>
=============================================================================
