------------------------ MODULE ResourceLocks_proofs ------------------------
(***************************************************************************)
(* Mutual exclusion of the keyed locks, for any number of calls and keys.  *)
(*                                                                         *)
(* The argument rests on the reference count: it equals the number of      *)
(* calls that refer to the key, so an entry stays in the table while       *)
(* anybody refers to it, so all who wait for a key wait at one channel,    *)
(* and that channel has one token.                                         *)
(***************************************************************************)
EXTENDS ResourceLocks, FiniteSetTheorems, TLAPS

USE DEF Phases

\* The inductive invariant: the five invariants of the specification, and
\* what the phases of a call mean.
PhasesOK ==
  \A p \in Procs :
    /\ pc[p] = "idle" => Refd(p) = {}
    /\ pc[p] \in {"idle", "dropping"} => got[p] = {}
    /\ pc[p] \in {"idle", "waiting", "holding"} => later[p] = {}
    /\ got[p] \cap later[p] = {}
    /\ pc[p] = "dropping" => Refd(p) = later[p]

IInv ==
  /\ TypeOK
  /\ PhasesOK
  /\ OneEntryPerKey
  /\ EntriesCounted
  /\ TokenIsConserved
  /\ MutualExclusion

\* Nobody refers to anything at first.
LEMMA InitIInv == Init => IInv
BY LocksAssumption DEF Init, IInv, TypeOK, PhasesOK, OneEntryPerKey, EntriesCounted,
   TokenIsConserved, MutualExclusion, Refd, Referrers

\* The calls that refer to a key are finitely many.
LEMMA ReferrersFinite ==
  ASSUME NEW k \in Keys
  PROVE  IsFiniteSet(Referrers(k))
BY LocksAssumption, FS_Subset DEF Referrers

\* A mapped key whose count is at most one is referred to by one call alone.
LEMMA LastReference ==
  ASSUME IInv, NEW p \in Procs, NEW k \in Refd(p), refs[k][mine[p][k]] <= 1
  PROVE  Referrers(k) = {p}
<1>1. table[k] = mine[p][k] /\ table[k] # NoSlot /\ p \in Referrers(k) /\ k \in Keys
  BY DEF IInv, OneEntryPerKey, Refd, Referrers
<1>2. Cardinality(Referrers(k)) <= 1
  BY <1>1 DEF IInv, EntriesCounted
<1>3. /\ IsFiniteSet(Referrers(k) \ {p})
      /\ Cardinality(Referrers(k) \ {p}) = Cardinality(Referrers(k)) - 1
      /\ Cardinality(Referrers(k)) \in Nat
  BY <1>1, ReferrersFinite, FS_RemoveElement, FS_CardinalityType
<1>4. Cardinality(Referrers(k) \ {p}) = 0
  <2>1. Cardinality(Referrers(k) \ {p}) \in Nat
    BY <1>3, FS_CardinalityType
  <2> QED
    BY <1>2, <1>3, <2>1
<1>5. Referrers(k) \ {p} = {}
  BY <1>3, <1>4, FS_EmptySet
<1> QED
  BY <1>1, <1>5

\* One more call refers to a key.
LEMMA OneMoreReference ==
  ASSUME IInv, NEW p \in Procs, NEW k \in Keys, mine[p][k] = NoSlot,
         \A q \in Procs : mine'[q][k] = NoSlot <=> (mine[q][k] = NoSlot /\ q # p)
  PROVE  /\ Referrers(k)' = Referrers(k) \cup {p}
         /\ Cardinality(Referrers(k)') = Cardinality(Referrers(k)) + 1
<1>1. Referrers(k)' = Referrers(k) \cup {p} /\ p \notin Referrers(k)
  BY DEF Referrers
<1> QED
  BY <1>1, ReferrersFinite, FS_AddElement

\* One call fewer refers to a key.
LEMMA OneReferenceLess ==
  ASSUME IInv, NEW p \in Procs, NEW k \in Keys, mine[p][k] # NoSlot,
         \A q \in Procs : mine'[q][k] = NoSlot <=> (mine[q][k] = NoSlot \/ q = p)
  PROVE  /\ Referrers(k)' = Referrers(k) \ {p}
         /\ Cardinality(Referrers(k)') = Cardinality(Referrers(k)) - 1
<1>1. Referrers(k)' = Referrers(k) \ {p} /\ p \in Referrers(k)
  BY DEF Referrers
<1> QED
  BY <1>1, ReferrersFinite, FS_RemoveElement

\* A key that is not in the table has no referrer.
LEMMA UnmappedIsUnused ==
  ASSUME IInv, NEW k \in Keys, table[k] = NoSlot
  PROVE  Referrers(k) = {} /\ \A q \in Procs : k \notin Refd(q) /\ k \notin got[q]
BY DEF IInv, TypeOK, OneEntryPerKey, Referrers, Refd

\* Registering keeps the invariant: new entries get their first reference,
\* old ones one more.
LEMMA RegisterStep ==
  ASSUME IInv, NEW p \in Procs, NEW W \in SUBSET Keys, Register(p, W)
  PROVE  IInv'
<1>1. PICK f \in [W -> Slots] :
        /\ \A k \in W : table[k] # NoSlot => f[k] = table[k]
        /\ table' = [k \in Keys |-> IF k \in W THEN f[k] ELSE table[k]]
        /\ token' = [k \in Keys |-> [s \in Slots |->
                       token[k][s] \/ (k \in W /\ table[k] = NoSlot /\ s = f[k])]]
        /\ refs' = [k \in Keys |-> [s \in Slots |->
                      IF k \in W /\ s = f[k]
                        THEN IF table[k] = NoSlot THEN 1 ELSE refs[k][s] + 1
                        ELSE refs[k][s]]]
        /\ mine' = [mine EXCEPT ![p] = [k \in Keys |-> IF k \in W THEN f[k] ELSE NoSlot]]
  BY DEF Register
<1>2. /\ pc[p] = "idle" /\ pc' = [pc EXCEPT ![p] = "waiting"]
      /\ got' = got /\ later' = later
  BY DEF Register
<1>3. Refd(p) = {} /\ got[p] = {} /\ later[p] = {}
  BY <1>2 DEF IInv, PhasesOK
<1>4. /\ \A k \in Keys : mine'[p][k] = IF k \in W THEN f[k] ELSE NoSlot
      /\ \A q \in Procs : q # p => mine'[q] = mine[q]
      /\ \A k \in Keys : table'[k] = IF k \in W THEN f[k] ELSE table[k]
      /\ \A k \in Keys : mine[p][k] = NoSlot
  BY <1>1, <1>3 DEF IInv, TypeOK, Refd
<1>5. /\ Refd(p)' = W
      /\ \A q \in Procs : q # p => Refd(q)' = Refd(q)
  <2>1. \A k \in W : f[k] # NoSlot
    BY LocksAssumption
  <2> QED
    BY <1>4, <2>1 DEF Refd
<1>6. TypeOK'
  <2>1. /\ table' \in [Keys -> Slots \cup {NoSlot}]
        /\ token' \in [Keys -> [Slots -> BOOLEAN]]
    BY <1>1 DEF IInv, TypeOK
  <2>2. refs' \in [Keys -> [Slots -> Int]]
    BY <1>1 DEF IInv, TypeOK
  <2>3. /\ pc' \in [Procs -> Phases]
        /\ mine' \in [Procs -> [Keys -> Slots \cup {NoSlot}]]
        /\ got' \in [Procs -> SUBSET Keys] /\ later' \in [Procs -> SUBSET Keys]
    BY <1>1, <1>2 DEF IInv, TypeOK
  <2>4. ASSUME NEW q \in Procs PROVE got'[q] \cup later'[q] \subseteq Refd(q)'
    <3>1. CASE q = p
      BY <1>2, <1>3, <3>1
    <3>2. CASE q # p
      <4>1. got[q] \cup later[q] \subseteq Refd(q)
        BY DEF IInv, TypeOK
      <4>2. Refd(q)' = Refd(q)
        BY <1>5, <3>2
      <4> QED
        BY <1>2, <4>1, <4>2
    <3> QED
      BY <3>1, <3>2
  <2> QED
    BY <2>1, <2>2, <2>3, <2>4 DEF TypeOK
<1>7. PhasesOK'
  BY <1>2, <1>3, <1>5 DEF IInv, TypeOK, PhasesOK
<1>8. OneEntryPerKey'
  <2>1. ASSUME NEW q \in Procs, NEW k \in Refd(q)' PROVE table'[k] = mine'[q][k]
    <3>1. CASE q = p
      BY <1>4, <1>5, <2>1, <3>1
    <3>2. CASE q # p
      <4>1. k \in Refd(q) /\ k \in Keys /\ table[k] = mine[q][k] /\ table[k] # NoSlot
        BY <1>5, <2>1, <3>2 DEF IInv, OneEntryPerKey, Refd
      <4> QED
        BY <1>1, <1>4, <3>2, <4>1
    <3> QED
      BY <3>1, <3>2
  <2>2. ASSUME NEW q \in Procs, pc'[q] = "holding" PROVE got'[q] = Refd(q)'
    BY <1>2, <1>5, <2>2 DEF IInv, TypeOK, OneEntryPerKey
  <2> QED
    BY <2>1, <2>2 DEF OneEntryPerKey
<1>9. EntriesCounted'
  <2>1. ASSUME NEW k \in Keys, table'[k] # NoSlot
        PROVE  /\ Referrers(k)' # {}
               /\ refs'[k][table'[k]] = Cardinality(Referrers(k)')
    <3>1. CASE k \notin W
      <4>1. Referrers(k)' = Referrers(k)
        BY <1>4, <3>1 DEF Referrers
      <4>2. table'[k] = table[k] /\ table[k] \in Slots
        BY <1>4, <2>1, <3>1 DEF IInv, TypeOK
      <4>3. refs'[k][table[k]] = refs[k][table[k]]
        BY <1>1, <3>1, <4>2
      <4> QED
        BY <2>1, <4>1, <4>2, <4>3 DEF IInv, EntriesCounted
    <3>2. CASE k \in W
      <4>1. table'[k] = f[k] /\ f[k] \in Slots /\ f[k] # NoSlot
        BY <1>4, <3>2, LocksAssumption
      <4>2. \A q \in Procs : mine'[q][k] = NoSlot <=> (mine[q][k] = NoSlot /\ q # p)
        BY <1>4, <3>2, <4>1
      <4>3. /\ Referrers(k)' = Referrers(k) \cup {p}
            /\ Cardinality(Referrers(k)') = Cardinality(Referrers(k)) + 1
        BY <1>4, <4>2, OneMoreReference
      <4>4. CASE table[k] = NoSlot
        <5>1. Referrers(k) = {}
          BY <4>4, UnmappedIsUnused
        <5>2. refs'[k][f[k]] = 1
          BY <1>1, <3>2, <4>1, <4>4
        <5> QED
          BY <4>1, <4>3, <5>1, <5>2, FS_EmptySet
      <4>5. CASE table[k] # NoSlot
        <5>1. refs'[k][f[k]] = refs[k][f[k]] + 1 /\ f[k] = table[k]
          BY <1>1, <3>2, <4>1, <4>5
        <5> QED
          BY <4>1, <4>3, <4>5, <5>1 DEF IInv, EntriesCounted
      <4> QED
        BY <4>4, <4>5
    <3> QED
      BY <3>1, <3>2
  <2> QED
    BY <2>1 DEF EntriesCounted
<1>10. TokenIsConserved'
  <2>1. ASSUME NEW k \in Keys, table'[k] # NoSlot
        PROVE  token'[k][table'[k]] <=> \A q \in Procs : k \notin got[q]
    <3>1. CASE table[k] # NoSlot
      <4>1. table'[k] = table[k] /\ table[k] \in Slots
        BY <1>1, <1>4, <3>1 DEF IInv, TypeOK
      <4>2. token'[k][table[k]] = token[k][table[k]]
        BY <1>1, <3>1, <4>1 DEF IInv, TypeOK
      <4> QED
        BY <3>1, <4>1, <4>2 DEF IInv, TokenIsConserved
    <3>2. CASE table[k] = NoSlot
      <4>1. k \in W /\ table'[k] = f[k] /\ f[k] \in Slots
        BY <1>4, <2>1, <3>2
      <4>2. token'[k][f[k]]
        BY <1>1, <3>2, <4>1
      <4> QED
        BY <3>2, <4>1, <4>2, UnmappedIsUnused
    <3> QED
      BY <3>1, <3>2
  <2> QED
    BY <1>2, <2>1 DEF TokenIsConserved
<1>11. MutualExclusion'
  BY <1>2 DEF IInv, MutualExclusion
<1> QED
  BY <1>6, <1>7, <1>8, <1>9, <1>10, <1>11 DEF IInv

\* Taking a token keeps the invariant: it was in its channel, so nobody has it.
LEMMA TakeTokenStep ==
  ASSUME IInv, NEW p \in Procs, TakeToken(p)
  PROVE  IInv'
<1>1. PICK k \in Keys :
        /\ k \in Refd(p) /\ k \notin got[p] /\ token[k][mine[p][k]]
        /\ token' = [token EXCEPT ![k][mine[p][k]] = FALSE]
        /\ got' = [got EXCEPT ![p] = @ \cup {k}]
        /\ pc' = [pc EXCEPT ![p] = IF Refd(p) \subseteq got[p] \cup {k}
                                     THEN "holding" ELSE "waiting"]
  BY DEF TakeToken, IsNext
<1>2. pc[p] = "waiting" /\ UNCHANGED <<table, refs, mine, later>>
  BY DEF TakeToken
<1>3. /\ \A q \in Procs : Refd(q)' = Refd(q)
      /\ \A j \in Keys : Referrers(j)' = Referrers(j)
  BY <1>2 DEF Refd, Referrers
<1>4. /\ got'[p] = got[p] \cup {k} /\ \A q \in Procs : q # p => got'[q] = got[q]
      /\ later[p] = {} /\ pc'[p] \in {"holding", "waiting"}
      /\ \A q \in Procs : q # p => pc'[q] = pc[q]
  BY <1>1, <1>2 DEF IInv, TypeOK, PhasesOK
<1>5. /\ table[k] = mine[p][k] /\ table[k] # NoSlot /\ table[k] \in Slots
      /\ \A q \in Procs : k \notin got[q]
  <2>1. table[k] = mine[p][k] /\ table[k] # NoSlot
    BY <1>1 DEF IInv, OneEntryPerKey, Refd
  <2> QED
    BY <1>1, <2>1 DEF IInv, TypeOK, TokenIsConserved
<1>6. TypeOK'
  <2>1. token' \in [Keys -> [Slots -> BOOLEAN]]
    BY <1>1 DEF IInv, TypeOK
  <2>2. pc' \in [Procs -> Phases] /\ got' \in [Procs -> SUBSET Keys]
    BY <1>1 DEF IInv, TypeOK
  <2>3. \A q \in Procs : got'[q] \cup later'[q] \subseteq Refd(q)'
    BY <1>1, <1>2, <1>3, <1>4 DEF IInv, TypeOK
  <2> QED
    BY <1>2, <2>1, <2>2, <2>3 DEF IInv, TypeOK
<1>7. PhasesOK'
  BY <1>2, <1>3, <1>4 DEF IInv, PhasesOK
<1>8. OneEntryPerKey'
  <2>1. pc'[p] = "holding" => got'[p] = Refd(p)
    BY <1>1, <1>4 DEF IInv, TypeOK
  <2>2. \A q \in Procs : q # p /\ pc'[q] = "holding" => got'[q] = Refd(q)
    BY <1>4 DEF IInv, OneEntryPerKey
  <2> QED
    BY <1>2, <1>3, <2>1, <2>2 DEF IInv, OneEntryPerKey
<1>9. EntriesCounted'
  BY <1>2, <1>3 DEF IInv, EntriesCounted
<1>10. TokenIsConserved'
  <2>1. ASSUME NEW j \in Keys, table[j] # NoSlot
        PROVE  token'[j][table[j]] <=> \A q \in Procs : j \notin got'[q]
    <3>1. CASE j = k
      <4>1. ~token'[k][table[k]]
        BY <1>1, <1>5 DEF IInv, TypeOK
      <4> QED
        BY <1>4, <3>1, <4>1
    <3>2. CASE j # k
      <4>1. token'[j] = token[j]
        BY <1>1, <3>2 DEF IInv, TypeOK
      <4>2. \A q \in Procs : j \in got'[q] <=> j \in got[q]
        BY <1>4, <3>2
      <4> QED
        BY <2>1, <4>1, <4>2 DEF IInv, TokenIsConserved
    <3> QED
      BY <3>1, <3>2
  <2> QED
    BY <1>2, <2>1 DEF TokenIsConserved
<1>11. MutualExclusion'
  BY <1>4, <1>5 DEF IInv, MutualExclusion
<1> QED
  BY <1>6, <1>7, <1>8, <1>9, <1>10, <1>11 DEF IInv

\* Giving a token back keeps the invariant.
LEMMA GiveTokenStep ==
  ASSUME IInv, NEW p \in Procs, GiveToken(p)
  PROVE  IInv'
<1>1. PICK k \in got[p] :
        /\ token' = [token EXCEPT ![k][mine[p][k]] = TRUE]
        /\ got' = [got EXCEPT ![p] = @ \ {k}]
  BY DEF GiveToken
<1>2. pc[p] = "giving" /\ UNCHANGED <<table, refs, pc, mine, later>>
  BY DEF GiveToken
<1>3. /\ \A q \in Procs : Refd(q)' = Refd(q)
      /\ \A j \in Keys : Referrers(j)' = Referrers(j)
  BY <1>2 DEF Refd, Referrers
<1>4. got'[p] = got[p] \ {k} /\ \A q \in Procs : q # p => got'[q] = got[q]
  BY <1>1 DEF IInv, TypeOK
<1>5. /\ k \in Keys /\ k \in Refd(p)
      /\ table[k] = mine[p][k] /\ table[k] # NoSlot /\ table[k] \in Slots
      /\ \A q \in Procs : q # p => k \notin got[q]
  <2>1. k \in Keys /\ k \in Refd(p)
    BY DEF IInv, TypeOK
  <2> QED
    BY <2>1 DEF IInv, TypeOK, OneEntryPerKey, MutualExclusion, Refd
<1>6. TypeOK'
  <2>1. token' \in [Keys -> [Slots -> BOOLEAN]]
    BY <1>1 DEF IInv, TypeOK
  <2>2. got' \in [Procs -> SUBSET Keys]
    BY <1>1 DEF IInv, TypeOK
  <2>3. \A q \in Procs : got'[q] \cup later'[q] \subseteq Refd(q)'
    BY ZenonT(60), <1>2, <1>3, <1>4 DEF IInv, TypeOK
  <2> QED
    BY <1>2, <2>1, <2>2, <2>3 DEF IInv, TypeOK
<1>7. PhasesOK'
  BY <1>2, <1>3, <1>4 DEF IInv, PhasesOK
<1>8. OneEntryPerKey'
  BY <1>2, <1>3, <1>4 DEF IInv, OneEntryPerKey
<1>9. EntriesCounted'
  BY <1>2, <1>3 DEF IInv, EntriesCounted
<1>10. TokenIsConserved'
  <2>1. ASSUME NEW j \in Keys, table[j] # NoSlot
        PROVE  token'[j][table[j]] <=> \A q \in Procs : j \notin got'[q]
    <3>1. CASE j = k
      <4>1. token'[k][table[k]]
        BY <1>1, <1>5 DEF IInv, TypeOK
      <4> QED
        BY <1>4, <1>5, <3>1, <4>1
    <3>2. CASE j # k
      <4>1. token'[j] = token[j]
        BY <1>1, <1>5, <3>2 DEF IInv, TypeOK
      <4>2. \A q \in Procs : j \in got'[q] <=> j \in got[q]
        BY <1>4, <3>2
      <4> QED
        BY <2>1, <4>1, <4>2 DEF IInv, TokenIsConserved
    <3> QED
      BY <3>1, <3>2
  <2> QED
    BY <1>2, <2>1 DEF TokenIsConserved
<1>11. MutualExclusion'
  BY <1>4 DEF IInv, MutualExclusion
<1> QED
  BY <1>6, <1>7, <1>8, <1>9, <1>10, <1>11 DEF IInv

\* Dropping references to keys whose token is not held keeps what the entries
\* promise: an entry goes with its last reference and not before.
LEMMA UnrefStep ==
  ASSUME IInv, NEW p \in Procs, NEW D \in SUBSET Refd(p), D \cap got[p] = {},
         Unref(p, D), UNCHANGED <<token, got>>
  PROVE  /\ table' \in [Keys -> Slots \cup {NoSlot}]
         /\ refs' \in [Keys -> [Slots -> Int]]
         /\ mine' \in [Procs -> [Keys -> Slots \cup {NoSlot}]]
         /\ Refd(p)' = Refd(p) \ D
         /\ \A q \in Procs : q # p => Refd(q)' = Refd(q)
         /\ \A q \in Procs : \A k \in Refd(q)' : table'[k] = mine'[q][k]
         /\ EntriesCounted' /\ TokenIsConserved'
<1>1. /\ refs' = [k \in Keys |-> [s \in Slots |->
                   IF k \in D /\ s = mine[p][k] THEN refs[k][s] - 1 ELSE refs[k][s]]]
      /\ table' = [k \in Keys |-> IF k \in D /\ refs[k][mine[p][k]] <= 1
                                   THEN NoSlot ELSE table[k]]
      /\ mine' = [mine EXCEPT ![p] = [k \in Keys |-> IF k \in D THEN NoSlot ELSE mine[p][k]]]
  BY DEF Unref, IInv, TypeOK
<1>2. /\ table' \in [Keys -> Slots \cup {NoSlot}]
      /\ mine' \in [Procs -> [Keys -> Slots \cup {NoSlot}]]
  BY <1>1 DEF IInv, TypeOK
<1>3. refs' \in [Keys -> [Slots -> Int]]
  BY <1>1 DEF IInv, TypeOK
<1>4. /\ \A k \in Keys : mine'[p][k] = IF k \in D THEN NoSlot ELSE mine[p][k]
      /\ \A q \in Procs : q # p => mine'[q] = mine[q]
  BY <1>1 DEF IInv, TypeOK
<1>5. /\ Refd(p)' = Refd(p) \ D
      /\ \A q \in Procs : q # p => Refd(q)' = Refd(q)
  BY <1>4 DEF Refd
<1>6. \A k \in D : k \in Keys /\ table[k] = mine[p][k] /\ mine[p][k] # NoSlot
                   /\ table[k] \in Slots
  BY DEF IInv, TypeOK, OneEntryPerKey, Refd
<1>7. ASSUME NEW q \in Procs, NEW k \in Refd(q)' PROVE table'[k] = mine'[q][k]
  <2>1. k \in Refd(q) /\ k \in Keys /\ table[k] = mine[q][k] /\ mine'[q][k] = mine[q][k]
    BY <1>4, <1>5, <1>7 DEF IInv, OneEntryPerKey, Refd
  <2>2. CASE k \in D /\ refs[k][mine[p][k]] <= 1
    <3>1. Referrers(k) = {p}
      BY <2>2, LastReference
    <3>2. q = p
      BY <2>1, <3>1 DEF Referrers, Refd
    <3> QED
      BY <1>5, <2>2, <3>2
  <2>3. CASE ~(k \in D /\ refs[k][mine[p][k]] <= 1)
    BY <1>1, <2>1, <2>3
  <2> QED
    BY <2>2, <2>3
<1>8. ASSUME NEW k \in Keys, table'[k] # NoSlot
      PROVE  /\ table'[k] = table[k] /\ table[k] # NoSlot
             /\ Referrers(k)' # {}
             /\ refs'[k][table'[k]] = Cardinality(Referrers(k)')
  <2>1. table'[k] = table[k] /\ table[k] # NoSlot /\ table[k] \in Slots
        /\ ~(k \in D /\ refs[k][mine[p][k]] <= 1)
    BY <1>1, <1>8 DEF IInv, TypeOK
  <2>2. Referrers(k) # {} /\ refs[k][table[k]] = Cardinality(Referrers(k))
    BY <2>1 DEF IInv, EntriesCounted
  <2>3. CASE k \notin D
    <3>1. Referrers(k)' = Referrers(k)
      BY <1>4, <2>3 DEF Referrers
    <3>2. refs'[k][table[k]] = refs[k][table[k]]
      BY <1>1, <2>1, <2>3
    <3> QED
      BY <2>1, <2>2, <3>1, <3>2
  <2>4. CASE k \in D
    <3>1. \A q \in Procs : mine'[q][k] = NoSlot <=> (mine[q][k] = NoSlot \/ q = p)
      BY <1>4, <2>4
    <3>2. Cardinality(Referrers(k)') = Cardinality(Referrers(k)) - 1
      BY <1>6, <2>4, <3>1, OneReferenceLess
    <3>3. refs'[k][table[k]] = refs[k][table[k]] - 1
      BY <1>1, <1>6, <2>1, <2>4
    <3>4. Cardinality(Referrers(k)) > 1 /\ Cardinality(Referrers(k)) \in Nat
      BY <1>6, <2>1, <2>2, <2>4, ReferrersFinite, FS_CardinalityType DEF IInv, TypeOK
    <3>5. Referrers(k)' # {}
      BY <3>2, <3>4, FS_EmptySet
    <3> QED
      BY <2>1, <2>2, <3>2, <3>3, <3>5
  <2> QED
    BY <2>3, <2>4
<1>9. EntriesCounted'
  BY <1>8 DEF EntriesCounted
<1>10. TokenIsConserved'
  BY <1>8 DEF IInv, TokenIsConserved
<1> QED
  BY <1>2, <1>3, <1>5, <1>7, <1>9, <1>10

\* The rest of an action that drops references.
LEMMA DropStep ==
  ASSUME IInv, NEW p \in Procs, DropRefs(p) \/ DropLater(p)
  PROVE  IInv'
<1> DEFINE D == IF pc[p] = "giving" THEN Refd(p) \ later[p] ELSE later[p]
<1>1. /\ Unref(p, D) /\ UNCHANGED <<token, got>> /\ got[p] = {}
      /\ pc[p] \in {"giving", "dropping"}
      /\ \/ pc' = [pc EXCEPT ![p] = "idle"] /\ later' = [later EXCEPT ![p] = {}]
            /\ Refd(p) \subseteq D
         \/ pc' = [pc EXCEPT ![p] = "dropping"] /\ later' = later
            /\ D = Refd(p) \ later[p]
  BY DEF DropRefs, DropLater, IInv, PhasesOK, TypeOK
<1>2. D \in SUBSET Refd(p) /\ D \cap got[p] = {}
  BY <1>1 DEF IInv, TypeOK
<1> HIDE DEF D
<1>3. /\ table' \in [Keys -> Slots \cup {NoSlot}]
      /\ refs' \in [Keys -> [Slots -> Int]]
      /\ mine' \in [Procs -> [Keys -> Slots \cup {NoSlot}]]
      /\ Refd(p)' = Refd(p) \ D
      /\ \A q \in Procs : q # p => Refd(q)' = Refd(q)
      /\ \A q \in Procs : \A k \in Refd(q)' : table'[k] = mine'[q][k]
      /\ EntriesCounted' /\ TokenIsConserved'
  BY <1>1, <1>2, UnrefStep
<1>4. /\ \A q \in Procs : q # p => pc'[q] = pc[q] /\ later'[q] = later[q]
      /\ got' = got
      /\ pc' \in [Procs -> Phases] /\ later' \in [Procs -> SUBSET Keys]
      /\ \/ pc'[p] = "idle" /\ later'[p] = {} /\ Refd(p)' = {}
         \/ pc'[p] = "dropping" /\ later'[p] = later[p] /\ Refd(p)' = later[p]
  BY <1>1, <1>3 DEF IInv, TypeOK
<1>5. TypeOK'
  <2>1. ASSUME NEW q \in Procs PROVE got'[q] \cup later'[q] \subseteq Refd(q)'
    <3>1. got[q] \cup later[q] \subseteq Refd(q)
      BY DEF IInv, TypeOK
    <3>2. CASE q = p
      BY <1>1, <1>4, <3>2
    <3>3. CASE q # p
      <4>1. Refd(q)' = Refd(q) /\ got'[q] = got[q] /\ later'[q] = later[q]
        BY <1>3, <1>4, <3>3
      <4> QED
        BY <3>1, <4>1
    <3> QED
      BY <3>2, <3>3
  <2> QED
    BY <1>1, <1>3, <1>4, <2>1 DEF IInv, TypeOK
<1>6. PhasesOK'
  BY ZenonT(60), <1>1, <1>3, <1>4 DEF IInv, PhasesOK
<1>7. OneEntryPerKey'
  BY <1>3, <1>4 DEF IInv, OneEntryPerKey
<1>8. MutualExclusion'
  BY <1>4 DEF IInv, MutualExclusion
<1> QED
  BY <1>3, <1>5, <1>6, <1>7, <1>8 DEF IInv

\* Giving up and finishing move nothing but the phase of the call.
LEMMA PhaseStep ==
  ASSUME IInv, NEW p \in Procs, Abort(p) \/ Release(p)
  PROVE  IInv'
<1>1. /\ UNCHANGED <<table, token, refs, mine, got>>
      /\ pc' = [pc EXCEPT ![p] = "giving"] /\ pc[p] \in {"waiting", "holding"}
      /\ later' = [later EXCEPT ![p] = Refd(p) \ got[p]] \/ later' = later
  BY DEF Abort, Release
<1>2. /\ \A q \in Procs : Refd(q)' = Refd(q)
      /\ \A j \in Keys : Referrers(j)' = Referrers(j)
  BY <1>1 DEF Refd, Referrers
<1>3. TypeOK'
  <2>1. Refd(p) \subseteq Keys
    BY DEF Refd
  <2>2. /\ table' \in [Keys -> Slots \cup {NoSlot}]
        /\ token' \in [Keys -> [Slots -> BOOLEAN]]
        /\ refs' \in [Keys -> [Slots -> Int]]
        /\ mine' \in [Procs -> [Keys -> Slots \cup {NoSlot}]]
        /\ got' \in [Procs -> SUBSET Keys]
    BY <1>1 DEF IInv, TypeOK
  <2>3. pc' \in [Procs -> Phases] /\ later' \in [Procs -> SUBSET Keys]
    BY <1>1, <2>1 DEF IInv, TypeOK
  <2>4. ASSUME NEW q \in Procs PROVE got'[q] \cup later'[q] \subseteq Refd(q)'
    <3>1. got[q] \cup later[q] \subseteq Refd(q)
      BY DEF IInv, TypeOK
    <3>2. later'[q] = later[q] \/ later'[q] \subseteq Refd(q)
      BY <1>1 DEF IInv, TypeOK
    <3> QED
      BY <1>1, <1>2, <3>1, <3>2
  <2> QED
    BY <2>2, <2>3, <2>4 DEF TypeOK
<1>4. PhasesOK'
  BY <1>1, <1>2 DEF IInv, TypeOK, PhasesOK
<1>5. OneEntryPerKey'
  BY <1>1, <1>2 DEF IInv, TypeOK, OneEntryPerKey
<1>6. EntriesCounted' /\ TokenIsConserved' /\ MutualExclusion'
  BY <1>1, <1>2 DEF IInv, EntriesCounted, TokenIsConserved, MutualExclusion
<1> QED
  BY <1>3, <1>4, <1>5, <1>6 DEF IInv

\* IInv holds in every reachable state.
THEOREM LocksInvariance == Spec => []IInv
<1>1. IInv /\ [Next]_vars => IInv'
  <2> SUFFICES ASSUME IInv, [Next]_vars PROVE IInv'
    OBVIOUS
  <2>1. CASE UNCHANGED vars
    <3>1. /\ table' = table /\ token' = token /\ refs' = refs /\ pc' = pc
          /\ mine' = mine /\ got' = got /\ later' = later
      BY <2>1 DEF vars
    <3>2. /\ \A q \in Procs : Refd(q)' = Refd(q)
          /\ \A k \in Keys : Referrers(k)' = Referrers(k)
      BY <3>1 DEF Refd, Referrers
    <3>3. TypeOK'
      BY <3>1, <3>2 DEF IInv, TypeOK
    <3>4. PhasesOK'
      BY <3>1, <3>2 DEF IInv, PhasesOK
    <3>5. OneEntryPerKey'
      BY <3>1, <3>2 DEF IInv, OneEntryPerKey
    <3>6. EntriesCounted' /\ TokenIsConserved' /\ MutualExclusion'
      BY <3>1, <3>2 DEF IInv, EntriesCounted, TokenIsConserved, MutualExclusion
    <3> QED
      BY <3>3, <3>4, <3>5, <3>6 DEF IInv
  <2>2. CASE Next
    BY <2>2, RegisterStep, TakeTokenStep, GiveTokenStep, DropStep, PhaseStep DEF Next
  <2> QED
    BY <2>1, <2>2
<1> QED
  BY InitIInv, <1>1, PTL DEF Spec

\* No two tool calls have the lock of the same resource.
THEOREM LocksExclude == Spec => []MutualExclusion
BY LocksInvariance, PTL DEF IInv

\* All calls that use a key use the entry that the table has for it.
THEOREM LocksShareOneEntry == Spec => []OneEntryPerKey
BY LocksInvariance, PTL DEF IInv

\* The count of an entry is the number of its users, and it goes with the last.
THEOREM LocksAreCollected == Spec => []EntriesCounted
BY LocksInvariance, PTL DEF IInv

\* No token is lost or doubled, so releasing never blocks.
THEOREM TokensAreConserved == Spec => []TokenIsConserved
BY LocksInvariance, PTL DEF IInv

\* Types are kept.
THEOREM LocksTyped == Spec => []TypeOK
BY LocksInvariance, PTL DEF IInv

\* The count of an entry is the number of its users, and no token is lost.
THEOREM BooksStayRight == Spec => []BooksAreRight
BY LocksInvariance, PTL DEF IInv, BooksAreRight

----------------------------------------------------------------------------
(* The refinement: a step of a call is a step of the LockService, or none  *)

\* The step that takes the last token is the one that grants all keys.
LEMMA TakeTokenGrants ==
  ASSUME IInv, IInv', NEW p \in Procs, TakeToken(p)
  PROVE  [Service!Next]_Holding
<1>1. /\ pc[p] = "waiting" /\ UNCHANGED mine
      /\ \/ pc' = [pc EXCEPT ![p] = "holding"]
         \/ pc' = [pc EXCEPT ![p] = "waiting"]
  BY DEF TakeToken
<1>2. \A q \in Procs : Refd(q)' = Refd(q)
  BY <1>1 DEF Refd
<1>3. CASE pc' = [pc EXCEPT ![p] = "waiting"]
  BY <1>1, <1>2, <1>3 DEF Holding, IInv, TypeOK
<1>4. CASE pc' = [pc EXCEPT ![p] = "holding"]
  <2>1. pc'[p] = "holding" /\ \A q \in Procs : q # p => pc'[q] = pc[q]
    BY <1>4 DEF IInv, TypeOK
  <2>2. Holding' = [Holding EXCEPT ![p] = Refd(p)] /\ Holding[p] = {}
    BY <1>1, <1>2, <2>1 DEF Holding
  <2>3. ASSUME NEW q \in Procs PROVE Holding[q] \cap Refd(p) = {}
    <3>1. CASE q = p \/ pc[q] # "holding"
      BY <1>1, <3>1 DEF Holding
    <3>2. CASE q # p /\ pc[q] = "holding"
      <4>1. got'[q] = Refd(q)' /\ got'[p] = Refd(p)' /\ got'[p] \cap got'[q] = {}
        BY <2>1, <3>2 DEF IInv, OneEntryPerKey, MutualExclusion
      <4>2. Holding[q] = Refd(q)
        BY <3>2 DEF Holding
      <4> QED
        BY <1>2, <4>1, <4>2
    <3> QED
      BY <3>1, <3>2
  <2>4. Refd(p) \in SUBSET Keys
    BY DEF Refd
  <2>5. Service!Grant(p, Refd(p))
    BY <2>2, <2>3 DEF Service!Grant
  <2> QED
    BY <2>4, <2>5 DEF Service!Next
<1> QED
  BY <1>1, <1>3, <1>4

\* A call that is at work holds its keys until it begins to give them back.
LEMMA ReleaseReleases ==
  ASSUME IInv, NEW p \in Procs, Release(p)
  PROVE  [Service!Next]_Holding
<1>1. pc[p] = "holding" /\ pc' = [pc EXCEPT ![p] = "giving"] /\ UNCHANGED mine
  BY DEF Release
<1>2. \A q \in Procs : Refd(q)' = Refd(q)
  BY <1>1 DEF Refd
<1>3. pc'[p] = "giving" /\ \A q \in Procs : q # p => pc'[q] = pc[q]
  BY <1>1 DEF IInv, TypeOK
<1>4. Holding' = [Holding EXCEPT ![p] = {}]
  BY <1>2, <1>3 DEF Holding
<1>5. CASE Holding[p] = {}
  BY <1>4, <1>5 DEF Holding
<1>6. CASE Holding[p] # {}
  BY <1>4, <1>6 DEF Service!Next, Service!Release
<1> QED
  BY <1>5, <1>6

\* Every other step is of a call that is not at work.
LEMMA OtherStepsStutter ==
  ASSUME IInv, NEW p \in Procs,
         \/ \E W \in (SUBSET Keys) \ {{}} : Register(p, W)
         \/ Abort(p) \/ GiveToken(p) \/ DropRefs(p) \/ DropLater(p)
  PROVE  Holding' = Holding
<1>1. /\ pc[p] # "holding"
      /\ pc' = pc \/ \E x \in {"idle", "waiting", "giving", "dropping"} : pc' = [pc EXCEPT ![p] = x]
      /\ mine' = mine \/ \E m : mine' = [mine EXCEPT ![p] = m]
  BY DEF Register, Abort, GiveToken, DropRefs, DropLater, Unref
<1>2. /\ pc'[p] # "holding"
      /\ \A q \in Procs : q # p => pc'[q] = pc[q] /\ mine'[q] = mine[q]
  BY <1>1 DEF IInv, TypeOK
<1>3. \A q \in Procs : q # p => Refd(q)' = Refd(q)
  BY <1>2 DEF Refd
<1> QED
  BY <1>1, <1>2, <1>3 DEF Holding

\* The keyed locks implement the LockService.
THEOREM LocksImplementService == Spec => ImplementsLockService
<1>1. Init => Service!Init
  BY DEF Init, Service!Init, Holding
<1>2. IInv /\ IInv' /\ [Next]_vars => [Service!Next]_Holding
  <2> SUFFICES ASSUME IInv, IInv', [Next]_vars PROVE [Service!Next]_Holding
    OBVIOUS
  <2>1. CASE UNCHANGED vars
    BY <2>1 DEF vars, Holding, Refd
  <2>2. CASE Next
    BY <2>2, TakeTokenGrants, ReleaseReleases, OtherStepsStutter DEF Next
  <2> QED
    BY <2>1, <2>2
<1> QED
  BY LocksInvariance, <1>1, <1>2, PTL DEF Spec, Service!Spec, ImplementsLockService
=============================================================================
