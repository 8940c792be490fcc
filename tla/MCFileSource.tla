---------------------------- MODULE MCFileSource ----------------------------
EXTENDS FileSource
=============================================================================
