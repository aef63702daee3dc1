--------------------------- MODULE MCSnapshotStore ---------------------------
\* Instances of SnapshotStore: one file of each kind, two contents.
EXTENDS SnapshotStore
CONSTANTS chat, memory, soul, a, b
=============================================================================
