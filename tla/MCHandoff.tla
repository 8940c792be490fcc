------------------------------ MODULE MCHandoff ------------------------------
EXTENDS Handoff

CONSTANTS ino, lsn, r1, r2, w1

\* The inotify descriptor, the listening socket, two file sources and a
\* file sink, in the order main opens them.
MCDescs == {ino, lsn, r1, r2, w1}
MCKind == [d \in MCDescs |->
             CASE d = ino -> "inotify" [] d = lsn -> "listen"
               [] d \in {r1, r2} -> "filer" [] OTHER -> "filew"]
MCOrder == <<ino, lsn, r1, w1, r2>>
MCResidues == {"", "p"}
=============================================================================
