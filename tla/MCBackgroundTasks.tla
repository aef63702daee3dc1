------------------------- MODULE MCBackgroundTasks -------------------------
\* Instances of BackgroundTasks: two workers of one channel, of the same
\* session or, with scope "user", of two.
EXTENDS BackgroundTasks, TLC
CONSTANTS t1, t2, k1, k2, c1
MCKeyOf == t1 :> k1 @@ t2 :> k2
MCChannelOf == [k \in Keys |-> c1]
=============================================================================
