--------------------------- MODULE MCResourceLocks ---------------------------
\* An instance of ResourceLocks: three tool calls over two files.
EXTENDS ResourceLocks
CONSTANTS p1, p2, p3, e1, e2
MCKeys == 1..2
=============================================================================
