---------------------------- MODULE LockService ----------------------------
(***************************************************************************)
(* What the keyed locks promise to a tool (Acquire in                       *)
(* src/internal/tools/locks.go, by its callers): it gets all the keys it    *)
(* asked for in one step, at a moment when nobody has any of them, and      *)
(* gives them up in one step.  ResourceLocks implements this.               *)
(***************************************************************************)
CONSTANTS Procs, Keys

VARIABLE holds   \* per call, the keys it holds

Init == holds = [p \in Procs |-> {}]

Grant(p, W) ==
  /\ holds[p] = {}
  /\ \A q \in Procs : holds[q] \cap W = {}
  /\ holds' = [holds EXCEPT ![p] = W]

Release(p) ==
  /\ holds[p] # {}
  /\ holds' = [holds EXCEPT ![p] = {}]

Next == \E p \in Procs : Release(p) \/ \E W \in SUBSET Keys : Grant(p, W)

Spec == Init /\ [][Next]_holds
=============================================================================
