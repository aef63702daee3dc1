------------------------- MODULE MCDiscordSessions -------------------------
(***************************************************************************)
(* Instances of DiscordSessions.  A name such as u1 is the event, and its  *)
(* kind and channel are given by the functions below.                      *)
(***************************************************************************)
EXTENDS DiscordSessions, FiniteSets, TLC

CONSTANTS c1, c2, s1, s2, s3, u1, u2, hb, nw, st, cp, bg

AllKinds ==
  u1 :> "user" @@ u2 :> "user" @@ hb :> "heartbeat" @@ bg :> "background"
    @@ nw :> "new" @@ st :> "stop" @@ cp :> "compact"

MCKindOf == [e \in Events |-> AllKinds[e]]
\* Everything happens in one channel
MCKeyOf  == [e \in Events |-> c1]

MCSymmetry == Permutations(Sessions)
=============================================================================
