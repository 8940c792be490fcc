---------------------------- MODULE MCWriteQueue ----------------------------
EXTENDS WriteQueue
=============================================================================
