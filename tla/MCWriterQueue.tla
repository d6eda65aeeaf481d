--------------------------- MODULE MCWriterQueue ---------------------------
\* An instance of WriterQueue for TLC: a premarket run and its child beside
\* another writer.
EXTENDS WriterQueue
CONSTANTS p, c, v
OneChild == [q \in Parents |-> c]
=============================================================================
