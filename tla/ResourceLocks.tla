--------------------------- MODULE ResourceLocks ---------------------------
(***************************************************************************)
(* The keyed locks that serialise tools working on the same file, server   *)
(* or store (src/internal/tools/locks.go).  An entry of the table is a     *)
(* one-token channel and a reference count; it is created by the first     *)
(* call that asks for its key and deleted with the last reference.  A call *)
(* first registers for all its keys under the manager's mutex and then     *)
(* waits for the tokens one by one, in the order of the keys.              *)
(*                                                                         *)
(* An entry is named by its key and a slot: while anybody still refers to  *)
(* an entry its slot is not used again, whatever the table says by then.   *)
(***************************************************************************)
EXTENDS Integers, FiniteSets

CONSTANTS
  Procs,   \* goroutines that execute tool calls
  Keys,    \* resource keys, numbered in their sort order
  Slots,   \* identities of lock entries
  NoSlot

ASSUME LocksAssumption ==
  /\ IsFiniteSet(Procs)
  /\ Keys \subseteq Nat
  /\ NoSlot \notin Slots

VARIABLES
  table,   \* resourceLockManager.entries
  token,   \* resourceLockEntry.ch holds its token
  refs,    \* resourceLockEntry.refs
  pc,
  mine,    \* the entry a call refers to, per key
  got,     \* the keys whose token a call has taken and not given back
  later    \* after a cancelled wait: the keys of the second releaseRefs

vars == <<table, token, refs, pc, mine, got, later>>

\* The keys a call still counts for.
Refd(p) == {k \in Keys : mine[p][k] # NoSlot}

Init ==
  /\ table = [k \in Keys |-> NoSlot]
  /\ token = [k \in Keys |-> [s \in Slots |-> FALSE]]
  /\ refs  = [k \in Keys |-> [s \in Slots |-> 0]]
  /\ pc    = [p \in Procs |-> "idle"]
  /\ mine  = [p \in Procs |-> [k \in Keys |-> NoSlot]]
  /\ got   = [p \in Procs |-> {}]
  /\ later = [p \in Procs |-> {}]

----------------------------------------------------------------------------
(* Acquire                                                                 *)

Fresh(k) == {s \in Slots : \A q \in Procs : mine[q][k] # s}

\* Under the mutex: the entry of every key is found or made, and counted.
\* normalizeResourceKeys has made a sorted set of the keys.
Register(p, W) ==
  /\ pc[p] = "idle"
  /\ \E f \in [W -> Slots] :
       /\ \A k \in W : IF table[k] = NoSlot THEN f[k] \in Fresh(k)
                                            ELSE f[k] = table[k]
       /\ table' = [k \in Keys |-> IF k \in W THEN f[k] ELSE table[k]]
       /\ token' = [k \in Keys |-> [s \in Slots |->
                      token[k][s] \/ (k \in W /\ table[k] = NoSlot /\ s = f[k])]]
       /\ refs' = [k \in Keys |-> [s \in Slots |->
                     IF k \in W /\ s = f[k]
                       THEN IF table[k] = NoSlot THEN 1 ELSE refs[k][s] + 1
                       ELSE refs[k][s]]]
       /\ mine' = [mine EXCEPT ![p] = [k \in Keys |-> IF k \in W THEN f[k] ELSE NoSlot]]
  /\ pc' = [pc EXCEPT ![p] = "waiting"]
  /\ UNCHANGED <<got, later>>

\* Variant: the tokens are taken in any order.
AnyNext(p, k) == k \in Refd(p) \ got[p]

\* The first key, in sort order, whose token is still to be taken.
IsNext(p, k) ==
  /\ k \in Refd(p) \ got[p]
  /\ \A j \in Refd(p) \ got[p] : k <= j

TakeToken(p) ==
  /\ pc[p] = "waiting"
  /\ \E k \in Keys :
       /\ IsNext(p, k) /\ token[k][mine[p][k]]
       /\ token' = [token EXCEPT ![k][mine[p][k]] = FALSE]
       /\ got' = [got EXCEPT ![p] = @ \cup {k}]
       /\ pc' = [pc EXCEPT ![p] = IF Refd(p) \subseteq got[p] \cup {k}
                                    THEN "holding" ELSE "waiting"]
  /\ UNCHANGED <<table, refs, mine, later>>

\* Variant: a cancelled wait keeps the tokens it has.
AbortKeepsTokens(p) ==
  /\ pc[p] = "waiting"
  /\ pc' = [pc EXCEPT ![p] = "giving"]
  /\ later' = [later EXCEPT ![p] = Refd(p) \ got[p]]
  /\ got' = [got EXCEPT ![p] = {}]
  /\ UNCHANGED <<table, token, refs, mine>>

\* The call's context is done while it waits.
Abort(p) ==
  /\ pc[p] = "waiting"
  /\ pc' = [pc EXCEPT ![p] = "giving"]
  /\ later' = [later EXCEPT ![p] = Refd(p) \ got[p]]
  /\ UNCHANGED <<table, token, refs, mine, got>>

----------------------------------------------------------------------------
(* Release, after the tool has run or after a cancelled wait               *)

Release(p) ==
  /\ pc[p] = "holding"
  /\ pc' = [pc EXCEPT ![p] = "giving"]
  /\ UNCHANGED <<table, token, refs, mine, got, later>>

\* releaseEntries: the tokens go back in reverse order.  The send blocks
\* while the channel is full.
GiveToken(p) ==
  /\ pc[p] = "giving"
  /\ \E k \in got[p] :
       /\ \A j \in got[p] : j <= k
       /\ ~token[k][mine[p][k]]
       /\ token' = [token EXCEPT ![k][mine[p][k]] = TRUE]
       /\ got' = [got EXCEPT ![p] = @ \ {k}]
  /\ UNCHANGED <<table, refs, pc, mine, later>>

\* Variant: an entry is deleted by whoever is done with it.
UnrefAlwaysDeletes(p, D) ==
  /\ refs' = [k \in Keys |-> [s \in Slots |->
                IF k \in D /\ s = mine[p][k] THEN refs[k][s] - 1 ELSE refs[k][s]]]
  /\ table' = [k \in Keys |-> IF k \in D THEN NoSlot ELSE table[k]]
  /\ mine' = [mine EXCEPT ![p] = [k \in Keys |-> IF k \in D THEN NoSlot ELSE @[k]]]

\* releaseRefs: whoever takes the count to zero deletes the key.
Unref(p, D) ==
  /\ refs' = [k \in Keys |-> [s \in Slots |->
                IF k \in D /\ s = mine[p][k] THEN refs[k][s] - 1 ELSE refs[k][s]]]
  /\ table' = [k \in Keys |-> IF k \in D /\ refs[k][mine[p][k]] <= 1
                                THEN NoSlot ELSE table[k]]
  /\ mine' = [mine EXCEPT ![p] = [k \in Keys |-> IF k \in D THEN NoSlot ELSE @[k]]]

DropRefs(p) ==
  /\ pc[p] = "giving" /\ got[p] = {}
  /\ Unref(p, Refd(p) \ later[p])
  /\ pc' = [pc EXCEPT ![p] = IF later[p] = {} THEN "idle" ELSE "dropping"]
  /\ UNCHANGED <<token, got, later>>

DropLater(p) ==
  /\ pc[p] = "dropping"
  /\ Unref(p, later[p])
  /\ pc' = [pc EXCEPT ![p] = "idle"]
  /\ later' = [later EXCEPT ![p] = {}]
  /\ UNCHANGED <<token, got>>

Next ==
  \E p \in Procs :
    \/ \E W \in (SUBSET Keys) \ {{}} : Register(p, W)
    \/ TakeToken(p) \/ Abort(p) \/ Release(p)
    \/ GiveToken(p) \/ DropRefs(p) \/ DropLater(p)

Spec == Init /\ [][Next]_vars

(***************************************************************************)
(* Tools end, and a channel serves its waiting receivers in the order they *)
(* came; contexts need never be cancelled.                                 *)
(***************************************************************************)
Fairness ==
  \A p \in Procs :
    /\ SF_vars(TakeToken(p))
    /\ WF_vars(Release(p) \/ GiveToken(p) \/ DropRefs(p) \/ DropLater(p))

FairSpec == Spec /\ Fairness

----------------------------------------------------------------------------
(* Properties                                                              *)

Phases == {"idle", "waiting", "holding", "giving", "dropping"}

\* Every variable keeps its type, and what a call has got and has still to
\* drop is among what it registered for.
TypeOK ==
  /\ table \in [Keys -> Slots \cup {NoSlot}]
  /\ token \in [Keys -> [Slots -> BOOLEAN]]
  /\ refs  \in [Keys -> [Slots -> Int]]
  /\ pc    \in [Procs -> Phases]
  /\ mine  \in [Procs -> [Keys -> Slots \cup {NoSlot}]]
  /\ got   \in [Procs -> SUBSET Keys]
  /\ later \in [Procs -> SUBSET Keys]
  /\ \A p \in Procs : got[p] \cup later[p] \subseteq Refd(p)

\* Two tools never work on the same resource at once.
MutualExclusion ==
  \A p, q \in Procs : p # q => got[p] \cap got[q] = {}

\* A tool at work has every key it asked for, and its entries cannot be
\* deleted under it: all who refer to a key refer to the entry in the table.
OneEntryPerKey ==
  \A p \in Procs :
    /\ \A k \in Refd(p) : table[k] = mine[p][k]
    /\ pc[p] = "holding" => got[p] = Refd(p)

Referrers(k) == {p \in Procs : mine[p][k] # NoSlot}

\* The table does not grow with the files ever touched: an entry in it has a
\* reference, and its count is the number of calls that refer to it.
EntriesCounted ==
  \A k \in Keys : table[k] # NoSlot =>
    /\ Referrers(k) # {}
    /\ refs[k][table[k]] = Cardinality(Referrers(k))

\* A token is in its channel exactly when nobody has it, so giving one back
\* never blocks and none gets lost in a cancelled wait.
TokenIsConserved ==
  \A k \in Keys : table[k] # NoSlot =>
    (token[k][table[k]] <=> \A p \in Procs : k \notin got[p])

\* The table's books are right: entries are counted, and tokens conserved.
BooksAreRight == EntriesCounted /\ TokenIsConserved

\* The keys of the calls that are at work.
Holding == [p \in Procs |-> IF pc[p] = "holding" THEN Refd(p) ELSE {}]

Service == INSTANCE LockService WITH holds <- Holding

\* Taking the tokens one by one and counting references comes to the same as
\* taking all keys at once when nobody has any of them: to a tool, the locks
\* are the LockService.
ImplementsLockService == Service!Spec

\* A call that waits gets its locks, or is cancelled; in particular calls that
\* ask for overlapping sets of keys never wait for each other in a circle.
AcquireReturns ==
  \A p \in Procs : pc[p] = "waiting" ~> pc[p] # "waiting"
=============================================================================
