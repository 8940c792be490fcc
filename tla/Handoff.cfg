CONSTANTS
    ino = ino
    lsn = lsn
    r1 = r1
    r2 = r2
    w1 = w1
    Nil = Nil
    Descs <- MCDescs
    Kind <- MCKind
    Order <- MCOrder
    Residues <- MCResidues
    Daemon = FALSE
SPECIFICATION Spec
INVARIANT HandoffSendsAllReaders
CHECK_DEADLOCK FALSE
