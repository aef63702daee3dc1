------------------------- MODULE MCHeartbeatEvents -------------------------
\* Instances of HeartbeatEvents: an event of each mode, a wakeup of each kind.
EXTENDS HeartbeatEvents
CONSTANTS urgent, routine, once, daily
=============================================================================
