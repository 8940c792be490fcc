---------------------------- MODULE MCConnections ----------------------------
EXTENDS Connections

CONSTANTS c1, c2

MCClients == {c1, c2}

=============================================================================
