--------------------------- MODULE AgentTurn_proofs ---------------------------
(***************************************************************************)
(* Theorems about AgentTurn: for any limits, any budgets and sizes, any    *)
(* lists of tools a response may call, and any number of turns.            *)
(*                                                                         *)
(* First what the operators on histories do to them, then the invariant    *)
(* and the steps, an action at a time.                                     *)
(***************************************************************************)
EXTENDS AgentTurn, SequenceTheorems, FiniteSetTheorems, WellFoundedInduction, TLAPS

\* The calls a message makes and the one it answers.
IdsIn(m) == Ids(m) \cup ({m.call} \ {NoCall})

TodoIds == {todo[i].id : i \in DOMAIN todo}

\* A call of an earlier turn, or of an earlier round of this one.
Past(id) == id[1] < turn \/ (id[1] = turn /\ id[2] < rounds)

\* Every call in h has its result behind it or is one of T.
Open(h, T) ==
  \A i \in DOMAIN h : \A id \in Ids(h[i]) :
    id \in T \/ \E j \in i + 1..Len(h) : h[j].role = "tool" /\ h[j].call = id

\* A result stands behind every message that makes its call.
Ordered(h) ==
  \A i, j \in DOMAIN h : h[i].role = "tool" /\ h[i].call \in Ids(h[j]) => j < i

\* Behind a message that is no result there are only results of its calls; the
\* calls in T are its calls, too.
EndsInResults(h, T) ==
  \E a \in DOMAIN h :
    /\ h[a].role # "tool" /\ T \subseteq Ids(h[a])
    /\ \A j \in a + 1..Len(h) : h[j].role = "tool" /\ h[j].call \in Ids(h[a])

\* The limits hold because of where the counters are looked at; nothing is to be
\* collected outside of "tools", and nothing is told before the turn is settled.
LimitsHold ==
  /\ pc \in {"stream", "attempt", "backoff"} => rounds < MaxRounds
  /\ pc = "backoff" => attempts < MaxAttempts
  /\ pc # "tools" => todo = <<>>
  /\ pc # "idle" => told = <<"nothing">>

\* The calls in the histories are of rounds that are over, so a new one is new.
CallsArePast ==
  /\ \A i \in DOMAIN stored : \A id \in IdsIn(stored[i]) : id[1] <= turn
  /\ \A i \in DOMAIN hist : \A id \in IdsIn(hist[i]) : Past(id)
  /\ \A id \in TodoIds : Past(id)

\* The histories can be cut anywhere: calls come before their results.
HistoriesAreSound ==
  /\ Ordered(stored) /\ Open(stored, {})
  /\ Ordered(hist) /\ (pc # "idle" => Open(hist, TodoIds))

\* What this turn has added stands behind what was kept, and a turn that has not
\* compacted its history ends in the results of its last calls.
TurnIsBehind ==
  /\ pc # "idle" => \A i \in DOMAIN hist : i > Len(stored) => hist[i].turn = turn
  /\ pc \notin {"idle", "failed"} /\ ~squeezed =>
       EndsInResults(hist, TodoIds) /\ Len(hist) > Len(stored)
  /\ pc = "ended" =>
       /\ hist[Len(hist)].role = "assistant" /\ hist[Len(hist)].calls = <<>>
       /\ hist[Len(hist)].text = gave.text

IInv ==
  /\ TypeOK /\ LimitsHold /\ CallsArePast /\ HistoriesAreSound /\ TurnIsBehind
  /\ RequestIsPaired /\ NewestIsShown /\ ReplyIsOwn /\ LastWordIsTold
----------------------------------------------------------------------------
(* Numbers and sequences                                                   *)

\* A non-empty set of numbers has a least one.
LEMMA LeastNumber ==
  ASSUME NEW T \in SUBSET Nat, T # {}
  PROVE  \E x \in T : \A y \in T : x <= y
<1> DEFINE R == {ss \in Nat \X Nat : ss[1] < ss[2]}
<1>1. IsWellFoundedOn(R, Nat)
  BY NatLessThanWellFounded, Zenon DEF OpToRel
<1> HIDE DEF R
<1>2. PICK x \in T : \A y \in T : ~(<<y, x>> \in R)
  BY <1>1, WFMin
<1>3. \A y \in T : ~(y < x)
  BY <1>2 DEF R
<1> QED BY <1>3

\* Min and Max of the community modules do what they are named for.
LEMMA MinIsLeast ==
  ASSUME NEW T \in SUBSET Nat, T # {}
  PROVE  Min(T) \in T /\ \A y \in T : Min(T) <= y
BY LeastNumber, Zenon DEF Min

LEMMA MaxIsGreatest ==
  ASSUME NEW N \in Nat, NEW T \in SUBSET (0..N), T # {}
  PROVE  Max(T) \in T /\ \A y \in T : y <= Max(T)
<1> DEFINE U == {N - x : x \in T}
<1>0. \A x \in T : x \in Int /\ N - x \in Nat
  OBVIOUS
<1>1. U \in SUBSET Nat /\ U # {}
  BY <1>0
<1> HIDE DEF U
<1>2. PICK u \in U : \A y \in U : u <= y
  BY <1>1, LeastNumber
<1> USE DEF U
<1>3. PICK x \in T : u = N - x
  BY <1>2
<1>4. \A y \in T : y <= x
  <2> TAKE y \in T
  <2>1. N - x <= N - y
    BY <1>2, <1>3
  <2> QED BY <1>0, <2>1
<1>5. \E z \in T : \A y \in T : z >= y
  BY <1>4
<1>6. Max(T) \in T /\ \A y \in T : Max(T) >= y
  BY <1>5, Zenon DEF Max
<1> QED BY <1>6

\* InOrder enumerates a set of positions from below.
LEMMA InOrderEnumerates ==
  ASSUME NEW N \in Nat, NEW K \in SUBSET (1..N)
  PROVE  /\ Cardinality(K) \in Nat
         /\ InOrder[K] \in [1..Cardinality(K) -> K]
         /\ \A n \in 1..Cardinality(K) : n <= InOrder[K][n]
         /\ \A m, n \in 1..Cardinality(K) : m < n => InOrder[K][m] < InOrder[K][n]
         /\ \A i \in K : \E n \in 1..Cardinality(K) : InOrder[K][n] = i
<1> DEFINE upto(i) == {j \in K : j <= i}
           c       == Cardinality(K)
           q       == InOrder[K]
<1>0. /\ \A i \in K : i \in Int /\ i >= 1
      /\ \A i, j \in K : i < j \/ i = j \/ j < i
      /\ \A i, j \in K : j <= i => j \in 1..i
      /\ \A i, j, k \in K : i <= j /\ j < k => i <= k
      /\ \A i, j \in K : i < j => ~(j <= i)
      /\ \A i \in K : i <= i
  OBVIOUS
<1>1. IsFiniteSet(1..N) /\ IsFiniteSet(K) /\ c \in Nat
  <2>1. IsFiniteSet(1..N)
    BY FS_Interval
  <2>2. IsFiniteSet(K)
    BY <2>1, FS_Subset
  <2> QED BY <2>1, <2>2, FS_CardinalityType
<1>2. ASSUME NEW i \in K
      PROVE  /\ IsFiniteSet(upto(i)) /\ Cardinality(upto(i)) \in Nat
             /\ Cardinality(upto(i)) <= c /\ Cardinality(upto(i)) <= i
             /\ Cardinality(upto(i)) > 0
  <2>1. upto(i) \in SUBSET K /\ upto(i) \in SUBSET (1..i) /\ i \in upto(i) /\ i \in Int /\ i >= 1
    BY <1>0, Zenon
  <2>2. IsFiniteSet(upto(i)) /\ Cardinality(upto(i)) <= c
    BY <1>1, <2>1, FS_Subset
  <2>3. IsFiniteSet(1..i) /\ Cardinality(1..i) = i
    BY <2>1, FS_Interval
  <2>4. Cardinality(upto(i)) <= i
    BY <2>1, <2>3, FS_Subset
  <2>5. Cardinality(upto(i)) \in Nat /\ Cardinality(upto(i)) # 0
    BY <2>1, <2>2, FS_CardinalityType, FS_EmptySet
  <2> QED BY <2>2, <2>4, <2>5
<1>3. ASSUME NEW i \in K, NEW j \in K, i < j
      PROVE  Cardinality(upto(i)) < Cardinality(upto(j))
  <2>1. upto(i) \in SUBSET upto(j) /\ j \in upto(j) /\ j \notin upto(i)
    BY <1>0, <1>3, Zenon
  <2>2. upto(i) # upto(j)
    BY <2>1
  <2>3. /\ Cardinality(upto(i)) <= Cardinality(upto(j))
        /\ Cardinality(upto(j)) = Cardinality(upto(i)) => upto(j) = upto(i)
    BY <1>2, <2>1, FS_Subset
  <2> QED BY <1>2, <2>2, <2>3
<1> DEFINE r == [i \in K |-> Cardinality(upto(i))]
<1>4. r \in Surjection(K, 1..c)
  <2>1. r \in [K -> 1..c]
    BY <1>1, <1>2
  <2>2. \A i, j \in K : r[i] = r[j] => i = j
    <3> SUFFICES ASSUME NEW i \in K, NEW j \in K, i # j PROVE r[i] # r[j]
      OBVIOUS
    <3>1. i < j \/ j < i
      OBVIOUS
    <3> QED BY <1>2, <1>3, <3>1
  <2>3. r \in Injection(K, 1..c)
    <3> HIDE DEF r
    <3> QED BY <2>1, <2>2 DEF Injection, IsInjective
  <2>4. IsFiniteSet(1..c) /\ Cardinality(1..c) = c
    BY <1>1, FS_Interval
  <2> HIDE DEF r, upto
  <2> QED BY <2>3, <2>4, FS_Injection
<1>5. \A n \in 1..c : \E i \in K : Cardinality(upto(i)) = n
  <2>1. \A n \in 1..c : \E i \in K : r[i] = n
    <3> HIDE DEF r, c
    <3> QED BY <1>4 DEF Surjection
  <2> QED BY <2>1
<1>6. q = [n \in 1..c |-> CHOOSE i \in K : Cardinality(upto(i)) = n]
  <2>1. K \in SUBSET Nat
    OBVIOUS
  <2> QED BY <2>1 DEF InOrder
<1>7. \A n \in 1..c : q[n] \in K /\ Cardinality(upto(q[n])) = n
  <2> SUFFICES ASSUME NEW n \in 1..c PROVE q[n] \in K /\ Cardinality(upto(q[n])) = n
    OBVIOUS
  <2>1. q[n] = CHOOSE i \in K : Cardinality(upto(i)) = n
    BY <1>6
  <2> HIDE DEF upto, q, c
  <2> QED BY <1>5, <2>1
<1> HIDE DEF q
<1>8. q \in [1..c -> K]
  BY <1>6, <1>7
<1>9. \A n \in 1..c : n <= q[n]
  BY <1>2, <1>7
<1>10. \A m, n \in 1..c : m < n => q[m] < q[n]
  <2> SUFFICES ASSUME NEW m \in 1..c, NEW n \in 1..c, m < n PROVE q[m] < q[n]
    OBVIOUS
  <2>1. q[m] \in K /\ q[n] \in K /\ Cardinality(upto(q[m])) = m /\ Cardinality(upto(q[n])) = n
    BY <1>7
  <2>2. q[m] < q[n] \/ q[m] = q[n] \/ q[n] < q[m]
    BY <1>0, <2>1, Zenon
  <2>3. ~(q[n] < q[m])
    <3>1. q[n] < q[m] => n < m
      BY <1>3, <2>1, Zenon
    <3> QED BY <3>1
  <2> QED BY <2>1, <2>2, <2>3
<1>11. \A i \in K : \E n \in 1..c : q[n] = i
  <2> SUFFICES ASSUME NEW i \in K PROVE \E n \in 1..c : q[n] = i
    OBVIOUS
  <2> DEFINE n == Cardinality(upto(i))
  <2>1. n \in 1..c
    BY <1>1, <1>2
  <2>2. q[n] \in K /\ Cardinality(upto(q[n])) = n
    BY <1>7, <2>1
  <2>3. ~(q[n] < i) /\ ~(i < q[n])
    <3>1. \A k, l \in K : k < l => Cardinality(upto(k)) # Cardinality(upto(l))
      BY <1>2, <1>3
    <3> HIDE DEF upto
    <3> QED BY <2>2, <3>1
  <2>4. q[n] = i
    BY <1>0, <2>2, <2>3, Zenon
  <2> QED BY <2>1, <2>4
<1> HIDE DEF upto
<1> QED BY <1>1, <1>8, <1>9, <1>10, <1>11 DEF q

----------------------------------------------------------------------------
(* Messages and histories                                                  *)

\* Only the model makes calls, and a result is known by the call it answers.
LEMMA MessageFacts ==
  ASSUME NEW m \in Messages
  PROVE  /\ m.calls \in Seq(Calls) /\ Ids(m) = {m.calls[i].id : i \in DOMAIN m.calls}
         /\ Ids(m) \subseteq CallIds
         /\ m.role # "assistant" => Ids(m) = {} /\ m.text = "none"
         /\ m.role = "tool" => m.call \in CallIds
         /\ m.role # "tool" => m.call = NoCall
         /\ m.calls = <<>> <=> Ids(m) = {}
<1>1. /\ m.calls \in Seq(Calls) /\ m.call \in CallIds \cup {NoCall}
      /\ m.role = "tool" <=> m.call # NoCall
      /\ m.role # "assistant" => m.text = "none" /\ m.calls = <<>>
  BY DEF Messages
<1>2. Ids(m) = {m.calls[i].id : i \in DOMAIN m.calls}
  BY DEF Ids, ToSet
<1>3. \A i \in DOMAIN m.calls : m.calls[i].id \in CallIds
  <2>1. \A i \in DOMAIN m.calls : m.calls[i] \in Calls
    BY <1>1
  <2>2. \A c \in Calls : c.id \in CallIds
    BY DEF Calls
  <2> QED BY <2>1, <2>2
<1>4. m.calls = <<>> <=> DOMAIN m.calls = {}
  <2> DEFINE s == m.calls
  <2>1. s \in Seq(Calls)
    BY <1>1
  <2> HIDE DEF s
  <2>2. s = <<>> <=> DOMAIN s = {}
    BY <2>1
  <2> QED BY <2>2 DEF s
<1>5. m.calls = <<>> <=> Ids(m) = {}
  BY <1>2, <1>4
<1> QED BY <1>1, <1>2, <1>3, <1>5

\* What is left of h when messages are left out: they keep their order, and none
\* moves back.
Thinned(s, h) ==
  \E p \in [DOMAIN s -> DOMAIN h] :
    /\ \A n \in DOMAIN s : s[n] = h[p[n]] /\ n <= p[n]
    /\ \A m, n \in DOMAIN s : m < n => p[m] < p[n]

CalledIn(h)   == UNION {Ids(h[i]) : i \in DOMAIN h}
AnsweredIn(h) == {h[i].call : i \in {j \in DOMAIN h : h[j].role = "tool"}}

\* The message at i has what it needs in h.
Stays(h, i) ==
  Ids(h[i]) \subseteq AnsweredIn(h) /\ (h[i].role = "tool" => h[i].call \in CalledIn(h))

\* normalizeToolCallHistory keeps these messages, in their order.
LEMMA NormalizeKeeps ==
  ASSUME NEW h \in Seq(Messages)
  PROVE  /\ Normalize[h] \in Seq(Messages)
         /\ \E p \in [DOMAIN Normalize[h] -> DOMAIN h] :
              /\ \A n \in DOMAIN Normalize[h] :
                   Normalize[h][n] = h[p[n]] /\ n <= p[n] /\ Stays(h, p[n])
              /\ \A m, n \in DOMAIN Normalize[h] : m < n => p[m] < p[n]
              /\ \A i \in DOMAIN h : Stays(h, i) => \E n \in DOMAIN Normalize[h] : p[n] = i
<1> DEFINE K == {i \in DOMAIN h : Stays(h, i)}
           p == InOrder[K]
           s == Normalize[h]
<1>1. DOMAIN h = 1..Len(h) /\ Len(h) \in Nat /\ \A i \in DOMAIN h : h[i] \in Messages
  OBVIOUS
<1>2. K \in SUBSET (1..Len(h)) /\ \A i \in K : Stays(h, i) /\ i \in DOMAIN h
  BY <1>1
<1>3. s = [n \in DOMAIN p |-> h[p[n]]]
  BY Zenon DEF Normalize, Stays, CalledIn, AnsweredIn
<1>4. \A i \in DOMAIN h : Stays(h, i) => i \in K
  OBVIOUS
<1> HIDE DEF K, s
<1>5. /\ Cardinality(K) \in Nat /\ p \in [1..Cardinality(K) -> K]
      /\ \A n \in 1..Cardinality(K) : n <= p[n]
      /\ \A m, n \in 1..Cardinality(K) : m < n => p[m] < p[n]
      /\ \A i \in K : \E n \in 1..Cardinality(K) : p[n] = i
  BY <1>1, <1>2, InOrderEnumerates
<1> HIDE DEF p
<1>6. DOMAIN s = 1..Cardinality(K) /\ \A n \in 1..Cardinality(K) : s[n] = h[p[n]]
  BY <1>3, <1>5
<1>7. s \in Seq(Messages)
  <2>1. \A n \in 1..Cardinality(K) : s[n] \in Messages
    BY <1>1, <1>2, <1>5, <1>6
  <2>2. s = [n \in 1..Cardinality(K) |-> s[n]]
    BY <1>3, <1>5, <1>6
  <2> QED BY <1>5, <2>1, <2>2
<1>8. p \in [DOMAIN s -> DOMAIN h]
  BY <1>2, <1>5, <1>6
<1>9. /\ \A n \in DOMAIN s : s[n] = h[p[n]] /\ n <= p[n] /\ Stays(h, p[n])
      /\ \A m, n \in DOMAIN s : m < n => p[m] < p[n]
      /\ \A i \in DOMAIN h : Stays(h, i) => \E n \in DOMAIN s : p[n] = i
  BY <1>2, <1>4, <1>5, <1>6
<1>10. s \in Seq(Messages) /\ \E pp \in [DOMAIN s -> DOMAIN h] :
         /\ \A n \in DOMAIN s : s[n] = h[pp[n]] /\ n <= pp[n] /\ Stays(h, pp[n])
         /\ \A m, n \in DOMAIN s : m < n => pp[m] < pp[n]
         /\ \A i \in DOMAIN h : Stays(h, i) => \E n \in DOMAIN s : pp[n] = i
  BY <1>7, <1>8, <1>9
<1> QED BY <1>10 DEF s

\* The calls and results of what is left are in pairs.
LEMMA NormalizePairs ==
  ASSUME NEW h \in Seq(Messages), Ordered(h)
  PROVE  /\ Thinned(Normalize[h], h) /\ Open(Normalize[h], {})
         /\ Open(h, {}) => Called(Normalize[h])
<1> DEFINE s == Normalize[h]
<1>0. /\ DOMAIN h = 1..Len(h) /\ Len(h) \in Nat /\ \A i \in DOMAIN h : h[i] \in Messages
      /\ s \in Seq(Messages) /\ DOMAIN s = 1..Len(s) /\ Len(s) \in Nat
  BY NormalizeKeeps
<1>1. PICK p \in [DOMAIN s -> DOMAIN h] :
        /\ \A n \in DOMAIN s : s[n] = h[p[n]] /\ n <= p[n] /\ Stays(h, p[n])
        /\ \A m, n \in DOMAIN s : m < n => p[m] < p[n]
        /\ \A i \in DOMAIN h : Stays(h, i) => \E n \in DOMAIN s : p[n] = i
  BY NormalizeKeeps
<1> HIDE DEF s
<1>2. \A m, n \in DOMAIN s : p[m] < p[n] => m < n
  <2> SUFFICES ASSUME NEW m \in DOMAIN s, NEW n \in DOMAIN s, p[m] < p[n] PROVE m < n
    OBVIOUS
  <2>1. p[m] \in Nat /\ p[n] \in Nat /\ m \in Nat /\ n \in Nat
    BY <1>0
  <2>2. ~(n < m) /\ n # m
    BY <1>1, <2>1
  <2> QED BY <2>1, <2>2
<1>3. Thinned(s, h)
  BY <1>1 DEF Thinned
<1>4. Open(s, {})
  <2> SUFFICES ASSUME NEW n \in DOMAIN s, NEW id \in Ids(s[n])
               PROVE  \E m \in n + 1..Len(s) : s[m].role = "tool" /\ s[m].call = id
    BY DEF Open
  <2>1. id \in Ids(h[p[n]]) /\ p[n] \in DOMAIN h /\ id \in AnsweredIn(h)
    BY <1>1 DEF Stays
  <2>2. PICK j \in DOMAIN h : h[j].role = "tool" /\ h[j].call = id
    BY <2>1 DEF AnsweredIn
  <2>3. p[n] < j
    BY <2>1, <2>2 DEF Ordered
  <2>4. Stays(h, j)
    <3>1. Ids(h[j]) = {}
      BY <1>0, <2>2, MessageFacts
    <3> QED BY <2>1, <2>2, <3>1 DEF Stays, CalledIn
  <2>5. PICK m \in DOMAIN s : p[m] = j
    BY <1>1, <2>4
  <2>6. n < m
    BY <1>2, <2>3, <2>5
  <2>7. m \in n + 1..Len(s)
    BY <1>0, <2>6
  <2> QED BY <1>1, <2>2, <2>5, <2>7
<1>5. ASSUME Open(h, {}) PROVE Called(s)
  <2> SUFFICES ASSUME NEW n \in DOMAIN s, s[n].role = "tool"
               PROVE  \E m \in 1..n - 1 : s[n].call \in Ids(s[m])
    BY DEF Called
  <2>1. s[n] = h[p[n]] /\ p[n] \in DOMAIN h /\ h[p[n]].call \in CalledIn(h)
    BY <1>1 DEF Stays
  <2>2. PICK j \in DOMAIN h : h[p[n]].call \in Ids(h[j])
    BY <2>1 DEF CalledIn
  <2>3. j < p[n]
    BY <2>1, <2>2 DEF Ordered
  <2>4. Stays(h, j)
    <3>1. h[j].role # "tool"
      BY <1>0, <2>2, MessageFacts
    <3>2. \A id \in Ids(h[j]) : id \in AnsweredIn(h)
      <4> TAKE id \in Ids(h[j])
      <4>1. PICK k \in j + 1..Len(h) : h[k].role = "tool" /\ h[k].call = id
        BY <1>5 DEF Open
      <4>2. k \in DOMAIN h
        BY <1>0, <4>1
      <4> QED BY <4>1, <4>2 DEF AnsweredIn
    <3> QED BY <3>1, <3>2 DEF Stays
  <2>5. PICK m \in DOMAIN s : p[m] = j
    BY <1>1, <2>4
  <2>6. m < n
    BY <1>2, <2>3, <2>5
  <2>7. m \in 1..n - 1
    BY <1>0, <2>6
  <2> QED BY <1>1, <2>1, <2>2, <2>5, <2>7
<1> QED BY <1>3, <1>4, <1>5 DEF s

\* A newest message that stays is the newest of what is left.
LEMMA NormalizeKeepsLast ==
  ASSUME NEW h \in Seq(Messages), h # <<>>, Stays(h, Len(h))
  PROVE  Normalize[h] # <<>> /\ Normalize[h][Len(Normalize[h])] = h[Len(h)]
<1> DEFINE s == Normalize[h]
<1>0. /\ DOMAIN h = 1..Len(h) /\ Len(h) \in Nat \ {0} /\ Len(h) \in DOMAIN h
      /\ s \in Seq(Messages) /\ DOMAIN s = 1..Len(s) /\ Len(s) \in Nat
  BY NormalizeKeeps
<1>1. PICK p \in [DOMAIN s -> DOMAIN h] :
        /\ \A n \in DOMAIN s : s[n] = h[p[n]] /\ n <= p[n] /\ Stays(h, p[n])
        /\ \A m, n \in DOMAIN s : m < n => p[m] < p[n]
        /\ \A i \in DOMAIN h : Stays(h, i) => \E n \in DOMAIN s : p[n] = i
  BY NormalizeKeeps
<1> HIDE DEF s
<1>2. PICK n \in DOMAIN s : p[n] = Len(h)
  BY <1>0, <1>1
<1>3. Len(s) \in DOMAIN s /\ n \in 1..Len(s) /\ s # <<>>
  BY <1>0, <1>2
<1>4. n = Len(s)
  <2>1. ~(n < Len(s))
    <3>1. p[Len(s)] \in 1..Len(h)
      BY <1>0, <1>3
    <3> QED BY <1>0, <1>1, <1>2, <1>3, <3>1
  <2> QED BY <1>0, <1>3, <2>1
<1> QED BY <1>1, <1>2, <1>3, <1>4 DEF s

\* The end of h from position k on.
LEMMA FromIsSuffix ==
  ASSUME NEW h \in Seq(Messages), NEW k \in 1..Len(h)
  PROVE  /\ From(h, k) \in Seq(Messages) /\ Len(From(h, k)) = Len(h) - k + 1
         /\ DOMAIN From(h, k) = 1..(Len(h) - k + 1)
         /\ \A n \in 1..(Len(h) - k + 1) : From(h, k)[n] = h[k + n - 1] /\ k + n - 1 \in 1..Len(h)
         /\ From(h, k)[Len(From(h, k))] = h[Len(h)]
         /\ Thinned(From(h, k), h)
<1> DEFINE s == From(h, k)
<1>1. /\ Len(h) \in Nat /\ DOMAIN h = 1..Len(h) /\ k \in Nat /\ k >= 1
      /\ \A i \in 1..Len(h) : h[i] \in Messages
  OBVIOUS
<1>2. \A i \in k..Len(h) : h[i] \in Messages
  BY <1>1
<1>3. /\ s \in Seq(Messages) /\ Len(s) = Len(h) - k + 1
      /\ \A n \in 1..(Len(h) - k + 1) : s[n] = h[k + n - 1]
  BY <1>1, <1>2, SubSeqProperties DEF From
<1> HIDE DEF s
<1>4. DOMAIN s = 1..(Len(h) - k + 1)
  BY <1>3
<1>5. \A n \in 1..(Len(h) - k + 1) : k + n - 1 \in 1..Len(h)
  BY <1>1
<1>6. s[Len(s)] = h[Len(h)]
  <2>1. Len(s) \in 1..(Len(h) - k + 1) /\ k + Len(s) - 1 = Len(h)
    BY <1>1, <1>3
  <2> QED BY <1>3, <2>1
<1>7. Thinned(s, h)
  <2> DEFINE p == [n \in DOMAIN s |-> k + n - 1]
  <2>1. p \in [DOMAIN s -> DOMAIN h]
    BY <1>1, <1>4, <1>5
  <2>2. \A n \in DOMAIN s : s[n] = h[p[n]] /\ n <= p[n]
    BY <1>1, <1>3, <1>4
  <2>3. \A m, n \in DOMAIN s : m < n => p[m] < p[n]
    BY <1>1, <1>4
  <2> HIDE DEF p
  <2> QED BY <2>1, <2>2, <2>3 DEF Thinned
<1> QED BY <1>3, <1>4, <1>5, <1>6, <1>7 DEF s

\* Thinning a history out keeps the order of calls and results, what its
\* messages are, and what stands behind a position.
LEMMA ThinnedKeeps ==
  ASSUME NEW h \in Seq(Messages), NEW s \in Seq(Messages), Thinned(s, h)
  PROVE  /\ Ordered(h) => Ordered(s)
         /\ \A n \in DOMAIN s : \E i \in DOMAIN h : s[n] = h[i] /\ n <= i
<1>1. PICK p \in [DOMAIN s -> DOMAIN h] :
        /\ \A n \in DOMAIN s : s[n] = h[p[n]] /\ n <= p[n]
        /\ \A m, n \in DOMAIN s : m < n => p[m] < p[n]
  BY DEF Thinned
<1>2. ASSUME Ordered(h) PROVE Ordered(s)
  <2> SUFFICES ASSUME NEW i \in DOMAIN s, NEW j \in DOMAIN s,
                      s[i].role = "tool", s[i].call \in Ids(s[j])
               PROVE  j < i
    BY DEF Ordered
  <2>1. p[j] < p[i]
    BY <1>1, <1>2 DEF Ordered
  <2>2. p[i] \in Nat /\ p[j] \in Nat /\ i \in Nat /\ j \in Nat
    OBVIOUS
  <2>3. ~(i < j) /\ i # j
    BY <1>1, <2>1, <2>2
  <2> QED BY <2>2, <2>3
<1> QED BY <1>1, <1>2

\* The end of a history has the results of its calls.
LEMMA SuffixOpen ==
  ASSUME NEW h \in Seq(Messages), NEW k \in 1..Len(h), NEW T, Open(h, T)
  PROVE  Open(From(h, k), T)
<1> DEFINE s == From(h, k)
<1>1. /\ s \in Seq(Messages) /\ Len(s) = Len(h) - k + 1 /\ DOMAIN s = 1..(Len(h) - k + 1)
      /\ \A n \in 1..(Len(h) - k + 1) : s[n] = h[k + n - 1] /\ k + n - 1 \in 1..Len(h)
      /\ DOMAIN h = 1..Len(h) /\ Len(h) \in Nat /\ k \in Nat /\ k >= 1
  BY FromIsSuffix
<1> HIDE DEF s
<1> SUFFICES ASSUME NEW n \in DOMAIN s, NEW id \in Ids(s[n]), id \notin T
             PROVE  \E m \in n + 1..Len(s) : s[m].role = "tool" /\ s[m].call = id
  BY DEF Open, s
<1>2. PICK j \in (k + n - 1) + 1..Len(h) : h[j].role = "tool" /\ h[j].call = id
  BY ZenonT(60), <1>1 DEF Open
<1> DEFINE m == j - k + 1
<1>3. m \in n + 1..Len(s) /\ m \in 1..(Len(h) - k + 1) /\ k + m - 1 = j
  BY <1>1
<1> HIDE DEF m
<1>4. s[m] = h[j]
  BY <1>1, <1>3
<1> QED BY <1>2, <1>3, <1>4

\* historyTail.
LEMMA Tail1IsSuffix ==
  ASSUME NEW h \in Seq(Messages), h # <<>>, NEW n \in Nat \ {0}
  PROVE  \E k \in 1..Len(h) : Tail1(h, n) = From(h, k)
<1>1. Len(h) \in Nat \ {0}
  OBVIOUS
<1>2. CASE n >= Len(h)
  <2>1. From(h, 1) = h
    <3>1. /\ From(h, 1) \in Seq(Messages) /\ Len(From(h, 1)) = Len(h)
          /\ \A i \in 1..Len(h) : From(h, 1)[i] = h[i]
      BY <1>1, FromIsSuffix
    <3> QED BY <3>1, SeqEqual
  <2> QED BY <1>1, <1>2, <2>1 DEF Tail1
<1>3. CASE ~(n >= Len(h))
  <2>1. Len(h) - n + 1 \in 1..Len(h)
    BY <1>1, <1>3
  <2> QED BY <1>3, <2>1 DEF Tail1
<1> QED BY <1>2, <1>3

\* Where trimHistoryForContext cuts.
LEMMA CutIsPlace ==
  ASSUME NEW h \in Seq(Messages), h # <<>>, NEW room
  PROVE  Min({Len(h)} \cup {i \in DOMAIN h : Tokens(From(h, i)) <= room}) \in 1..Len(h)
<1> DEFINE F == {i \in DOMAIN h : Tokens(From(h, i)) <= room}
           C == {Len(h)} \cup F
<1>1. Len(h) \in Nat \ {0} /\ Len(h) \in 1..Len(h) /\ DOMAIN h = 1..Len(h)
  OBVIOUS
<1>2. \A x \in C : x \in 1..Len(h) /\ x \in Nat
  BY <1>1
<1>3. C # {} /\ C \in SUBSET Nat
  BY <1>2, Zenon
<1> HIDE DEF C
<1>4. Min(C) \in C
  BY <1>3, MinIsLeast
<1> QED BY <1>2, <1>4 DEF C

\* trimHistoryForContext: what it sends is one message, or has its calls and
\* results in pairs.
LEMMA TrimIsPaired ==
  ASSUME NEW h \in Seq(Messages), h # <<>>, Ordered(h), Open(h, {}), NEW room \in Int
  PROVE  /\ Trim(h, room) \in Seq(Messages)
         /\ Len(Trim(h, room)) > 1 => Open(Trim(h, room), {}) /\ Called(Trim(h, room))
<1> DEFINE F == {i \in DOMAIN h : Tokens(From(h, i)) <= room}
           k == Min({Len(h)} \cup F)
           kept == Normalize[From(h, k)]
<1>1. k \in 1..Len(h)
  BY CutIsPlace
<1>2. Trim(h, room) = IF room <= 0 \/ kept = <<>> THEN Tail1(h, 1) ELSE kept
  BY DEF Trim
<1> HIDE DEF k
<1>3. From(h, k) \in Seq(Messages) /\ Ordered(From(h, k)) /\ Open(From(h, k), {})
  BY <1>1, FromIsSuffix, ThinnedKeeps, SuffixOpen
<1>4. kept \in Seq(Messages) /\ Open(kept, {}) /\ Called(kept)
  BY <1>3, NormalizeKeeps, NormalizePairs
<1>5. Tail1(h, 1) \in Seq(Messages) /\ Len(Tail1(h, 1)) = 1
  <2>1. Len(h) \in 1..Len(h) /\ Len(h) \in Nat
    OBVIOUS
  <2>2. Tail1(h, 1) = From(h, Len(h))
    <3>1. CASE 1 >= Len(h)
      <4>0. Len(h) \in Nat /\ Len(h) # 0
        OBVIOUS
      <4>1. Len(h) = 1
        BY <3>1, <4>0
      <4>2. /\ From(h, 1) \in Seq(Messages) /\ Len(From(h, 1)) = Len(h)
            /\ \A i \in 1..Len(h) : From(h, 1)[i] = h[i]
        BY <4>1, FromIsSuffix
      <4>3. From(h, 1) = h
        BY <4>2, SeqEqual
      <4> QED BY <3>1, <4>1, <4>3 DEF Tail1
    <3>2. CASE ~(1 >= Len(h))
      BY <2>1, <3>2 DEF Tail1
    <3> QED BY <3>1, <3>2
  <2>3. From(h, Len(h)) \in Seq(Messages) /\ Len(From(h, Len(h))) = Len(h) - Len(h) + 1
    BY <2>1, FromIsSuffix
  <2>4. Len(h) - Len(h) + 1 = 1
    BY <2>1
  <2> QED BY <2>2, <2>3, <2>4
<1> HIDE DEF kept
<1>6. CASE room <= 0 \/ kept = <<>>
  <2>1. Trim(h, room) = Tail1(h, 1)
    BY <1>2, <1>6
  <2>2. Trim(h, room) \in Seq(Messages) /\ Len(Trim(h, room)) = 1
    BY <1>5, <2>1, Zenon
  <2>3. ~(1 > 1)
    OBVIOUS
  <2> QED BY <2>2, <2>3, Zenon
<1>7. CASE ~(room <= 0 \/ kept = <<>>)
  <2>1. Trim(h, room) = kept
    BY <1>2, <1>7
  <2> QED BY <1>4, <2>1
<1> QED BY <1>6, <1>7

\* ... and the newest message is in it.
LEMMA TrimShowsNewest ==
  ASSUME NEW h \in Seq(Messages), Ordered(h), Open(h, {}), EndsInResults(h, {}), NEW room \in Int
  PROVE  Trim(h, room) # <<>> /\ Trim(h, room)[Len(Trim(h, room))] = h[Len(h)]
<1> DEFINE F == {i \in DOMAIN h : Tokens(From(h, i)) <= room}
           k == Min({Len(h)} \cup F)
           fit == From(h, k)
           kept == Normalize[fit]
<1>0. PICK a \in DOMAIN h :
        /\ h[a].role # "tool"
        /\ \A j \in a + 1..Len(h) : h[j].role = "tool" /\ h[j].call \in Ids(h[a])
  BY DEF EndsInResults
<1>1. /\ k \in 1..Len(h) /\ Len(h) \in Nat \ {0} /\ DOMAIN h = 1..Len(h) /\ a \in 1..Len(h)
      /\ h # <<>> /\ \A i \in DOMAIN h : h[i] \in Messages
  <2>1. h # <<>> /\ Len(h) \in Nat \ {0} /\ DOMAIN h = 1..Len(h)
    BY <1>0
  <2>2. k \in 1..Len(h)
    BY <2>1, CutIsPlace
  <2> QED BY <1>0, <2>1, <2>2
<1>2. Trim(h, room) = IF room <= 0 \/ kept = <<>> THEN Tail1(h, 1) ELSE kept
  BY DEF Trim
<1> HIDE DEF k
<1>3. Tail1(h, 1) # <<>> /\ Tail1(h, 1)[Len(Tail1(h, 1))] = h[Len(h)]
  <2>1. PICK j \in 1..Len(h) : Tail1(h, 1) = From(h, j)
    BY <1>1, Tail1IsSuffix
  <2>2. Len(From(h, j)) = Len(h) - j + 1 /\ From(h, j)[Len(From(h, j))] = h[Len(h)]
    BY FromIsSuffix
  <2>3. Len(h) - j + 1 # 0
    BY <1>1
  <2> QED BY <2>1, <2>2, <2>3
<1>4. /\ fit \in Seq(Messages) /\ Len(fit) = Len(h) - k + 1 /\ DOMAIN fit = 1..Len(fit)
      /\ \A n \in 1..Len(fit) : fit[n] = h[k + n - 1] /\ k + n - 1 \in 1..Len(h)
      /\ fit[Len(fit)] = h[Len(h)] /\ fit # <<>> /\ Len(fit) \in 1..Len(fit)
  <2>1. /\ fit \in Seq(Messages) /\ Len(fit) = Len(h) - k + 1 /\ DOMAIN fit = 1..Len(fit)
        /\ \A n \in 1..Len(fit) : fit[n] = h[k + n - 1] /\ k + n - 1 \in 1..Len(h)
        /\ fit[Len(fit)] = h[Len(h)]
    BY <1>1, FromIsSuffix
  <2> HIDE DEF fit
  <2> QED BY <1>1, <2>1
<1>5. CASE k <= a
  <2> DEFINE b == a - k + 1
  <2>1. b \in 1..Len(fit) /\ k + b - 1 = a /\ fit[b] = h[a]
    <3>1. b \in 1..(Len(h) - k + 1) /\ k + b - 1 = a
      BY <1>1, <1>5
    <3> QED BY <1>4, <3>1
  <2>2. Stays(fit, Len(fit))
    <3>1. CASE a = Len(h)
      <4>1. Ids(h[a]) = {}
        <5> SUFFICES ASSUME NEW id \in Ids(h[a]) PROVE FALSE
          OBVIOUS
        <5>1. \E j \in a + 1..Len(h) : h[j].role = "tool" /\ h[j].call = id
          BY DEF Open
        <5> QED BY <1>1, <3>1, <5>1
      <4> QED BY <1>0, <1>4, <3>1, <4>1 DEF Stays
    <3>2. CASE a # Len(h)
      <4>1. Len(h) \in a + 1..Len(h)
        BY <1>1, <3>2
      <4>2. h[Len(h)].role = "tool" /\ h[Len(h)].call \in Ids(h[a])
        BY <1>0, <4>1
      <4>3. Ids(h[Len(h)]) = {}
        BY <1>1, <4>2, MessageFacts
      <4>4. fit[Len(fit)].call \in CalledIn(fit)
        BY <1>4, <2>1, <4>2 DEF CalledIn
      <4> QED BY <1>4, <4>3, <4>4 DEF Stays
    <3> QED BY <3>1, <3>2
  <2>3. kept # <<>> /\ kept[Len(kept)] = h[Len(h)]
    BY <1>4, <2>2, NormalizeKeepsLast
  <2> HIDE DEF kept
  <2> QED BY <1>2, <1>3, <2>3
<1>6. CASE ~(k <= a)
  <2>1. \A n \in 1..Len(fit) : fit[n].role = "tool" /\ Ids(fit[n]) = {} /\ fit[n] \in Messages
    <3> TAKE n \in 1..Len(fit)
    <3>1. k + n - 1 \in a + 1..Len(h)
      BY <1>1, <1>4, <1>6
    <3>2. fit[n].role = "tool" /\ fit[n] \in Messages
      BY <1>0, <1>1, <1>4, <3>1
    <3> QED BY <3>2, MessageFacts
  <2>2. CalledIn(fit) = {}
    BY <1>4, <2>1 DEF CalledIn
  <2>3. \A n \in DOMAIN fit : ~Stays(fit, n)
    BY <1>4, <2>1, <2>2 DEF Stays
  <2>4. kept = <<>>
    <3>1. kept \in Seq(Messages) /\ \A n \in DOMAIN kept : \E i \in DOMAIN fit : Stays(fit, i)
      BY <1>4, NormalizeKeeps
    <3> HIDE DEF kept, fit
    <3>2. kept # <<>> => 1 \in DOMAIN kept
      BY <3>1
    <3> QED BY <2>3, <3>1, <3>2
  <2> HIDE DEF kept
  <2> QED BY <1>2, <1>3, <2>4
<1> QED BY <1>1, <1>5, <1>6

\* resolveCompactionTailStart leaves something for the tail.
LEMMA HeadIsShort ==
  ASSUME NEW h \in Seq(Messages), Len(h) > Preserve
  PROVE  HeadLength(h) \in 0..(Len(h) - 1)
<1> DEFINE N == Len(h) - 1
           start == Max({1, Len(h) - Preserve})
           B == {0} \cup {i \in 1..start : h[i + 1].role # "tool"}
           H == {0} \cup {i \in 1..Max(B) : h[i].calls = <<>>}
<1>1. N \in Nat /\ Len(h) - Preserve \in 1..N /\ 1 \in 1..N
  BY TurnAssumption
<1>2. start \in 1..N
  <2>1. {1, Len(h) - Preserve} \in SUBSET (0..N)
    BY <1>1
  <2>2. start \in {1, Len(h) - Preserve}
    BY <1>1, <2>1, MaxIsGreatest
  <2> QED BY <1>1, <2>2
<1> HIDE DEF start
<1>3. Max(B) \in 0..N
  <2>1. \A x \in B : x \in 0..N
    BY <1>1, <1>2
  <2>2. B # {} /\ B \in SUBSET (0..N)
    BY <2>1, Zenon
  <2> HIDE DEF B
  <2>3. Max(B) \in B
    BY <1>1, <2>2, MaxIsGreatest
  <2> QED BY <2>1, <2>3
<1> HIDE DEF B
<1>4. Max(H) \in 0..N
  <2>1. \A x \in H : x \in 0..N
    BY <1>1, <1>3
  <2>2. H # {} /\ H \in SUBSET (0..N)
    BY <2>1, Zenon
  <2> HIDE DEF H
  <2>3. Max(H) \in H
    BY <1>1, <2>2, MaxIsGreatest
  <2> QED BY <2>1, <2>3
<1>5. HeadLength(h) = Max(H)
  BY DEF HeadLength, H, B, start
<1> QED BY <1>4, <1>5

Summary == Message("system", "none", <<>>, NoCall, 1)

\* What compaction makes of a history: its messages, never moved back, and
\* perhaps a summary in front of them.
Abridged(s, h) ==
  \A n \in DOMAIN s : (n = 1 /\ s[n] = Summary) \/ \E i \in DOMAIN h : s[n] = h[i] /\ n <= i

LEMMA SummaryFacts ==
  ASSUME turn \in 0..MaxTurns
  PROVE  /\ Summary \in Messages /\ Summary.role = "system" /\ Summary.turn = turn
         /\ Summary.call = NoCall /\ Ids(Summary) = {}
<1>1. /\ Summary = [role |-> "system", text |-> "none", calls |-> <<>>, call |-> NoCall,
                    size |-> 1, turn |-> turn]
  BY DEF Summary, Message
<1>2. <<>> \in Seq(Calls) /\ NoCall \in CallIds \cup {NoCall} /\ 1 \in Nat \ {0}
  OBVIOUS
<1>3. Summary \in Messages
  BY <1>1, <1>2 DEF Messages, Texts
<1>4. Ids(Summary) = {}
  BY <1>1, <1>3, MessageFacts
<1> QED BY <1>1, <1>3, <1>4

\* The end of a history behind a summary of the rest.
LEMMA SummarizedKeeps ==
  ASSUME NEW h \in Seq(Messages), NEW k \in 2..Len(h), Ordered(h), turn \in 0..MaxTurns
  PROVE  LET g == <<Summary>> \o From(h, k)
         IN  /\ g \in Seq(Messages) /\ g # <<>> /\ 1 \in DOMAIN g /\ Stays(g, 1)
             /\ Ordered(g) /\ Abridged(g, h)
<1> DEFINE f == From(h, k)
           g == <<Summary>> \o f
<1>1. /\ Len(h) \in Nat /\ DOMAIN h = 1..Len(h) /\ k \in Nat /\ k >= 2 /\ k \in 1..Len(h)
      /\ \A i \in DOMAIN h : h[i] \in Messages
  OBVIOUS
<1>2. /\ f \in Seq(Messages) /\ Len(f) = Len(h) - k + 1
      /\ \A n \in 1..(Len(h) - k + 1) : f[n] = h[k + n - 1] /\ k + n - 1 \in 1..Len(h)
  BY <1>1, FromIsSuffix
<1> HIDE DEF f
<1>3. /\ g \in Seq(Messages) /\ Len(g) = Len(h) - k + 2 /\ DOMAIN g = 1..(Len(h) - k + 2)
      /\ g[1] = Summary
      /\ \A n \in 2..(Len(h) - k + 2) : g[n] = f[n - 1]
  <2> DEFINE a == <<Summary>>
  <2>1. a \in Seq(Messages) /\ Len(a) = 1 /\ a[1] = Summary
    BY SummaryFacts
  <2> HIDE DEF a
  <2>2. /\ a \o f \in Seq(Messages) /\ Len(a \o f) = 1 + Len(f)
        /\ \A i \in 1..(1 + Len(f)) : (a \o f)[i] = IF i <= 1 THEN a[i] ELSE f[i - 1]
    <3>1. /\ a \o f \in Seq(Messages) /\ Len(a \o f) = Len(a) + Len(f)
          /\ \A i \in 1..(Len(a) + Len(f)) :
               (a \o f)[i] = IF i <= Len(a) THEN a[i] ELSE f[i - Len(a)]
      BY <1>2, <2>1, ConcatProperties, Zenon
    <3> QED BY <2>1, <3>1
  <2>3. g = a \o f
    BY DEF a, g
  <2> HIDE DEF g
  <2> QED BY SMTT(30), <1>1, <1>2, <2>1, <2>2, <2>3
<1> HIDE DEF g
<1>4. \A n \in 2..(Len(h) - k + 2) :
        k + n - 2 \in DOMAIN h /\ g[n] = h[k + n - 2] /\ n <= k + n - 2
  <2> TAKE n \in 2..(Len(h) - k + 2)
  <2>1. n - 1 \in 1..(Len(h) - k + 1) /\ k + (n - 1) - 1 = k + n - 2 /\ n <= k + n - 2
    BY <1>1
  <2>2. f[n - 1] = h[k + (n - 1) - 1] /\ k + (n - 1) - 1 \in 1..Len(h)
    BY <1>2, <2>1
  <2> QED BY <1>1, <1>3, <2>1, <2>2
<1>5. g # <<>> /\ 1 \in DOMAIN g
  BY <1>1, <1>3
<1>6. Stays(g, 1)
  BY <1>3, SummaryFacts DEF Stays
<1>7. Abridged(g, h)
  <2> SUFFICES ASSUME NEW n \in DOMAIN g, n # 1
               PROVE  \E i \in DOMAIN h : g[n] = h[i] /\ n <= i
    BY <1>3 DEF Abridged
  <2>1. n \in 2..(Len(h) - k + 2)
    BY <1>1, <1>3
  <2> QED BY <1>4, <2>1
<1>8. Ordered(g)
  <2> SUFFICES ASSUME NEW i \in DOMAIN g, NEW j \in DOMAIN g,
                      g[i].role = "tool", g[i].call \in Ids(g[j])
               PROVE  j < i
    BY DEF Ordered
  <2>1. i # 1 /\ j # 1
    BY <1>3, SummaryFacts
  <2>2. i \in 2..(Len(h) - k + 2) /\ j \in 2..(Len(h) - k + 2)
    BY <1>1, <1>3, <2>1
  <2>3. h[k + i - 2].role = "tool" /\ h[k + i - 2].call \in Ids(h[k + j - 2])
    BY <1>4, <2>2
  <2>4. k + j - 2 < k + i - 2
    BY <1>4, <2>2, <2>3 DEF Ordered
  <2> QED BY <1>1, <2>2, <2>4
<1> QED BY <1>3, <1>5, <1>6, <1>7, <1>8 DEF g, f

\* compactHistoryForStorage.
LEMMA CompactedKeeps ==
  ASSUME NEW h \in Seq(Messages), h # <<>>, Ordered(h), turn \in 0..MaxTurns
  PROVE  /\ Compacted(h) \in Seq(Messages) /\ Compacted(h) # <<>>
         /\ Ordered(Compacted(h)) /\ Abridged(Compacted(h), h)
         /\ \A T : Open(h, T) => Open(Compacted(h), T)
<1>1. Len(h) \in Nat \ {0} /\ DOMAIN h = 1..Len(h) /\ Preserve \in Nat \ {0}
  BY TurnAssumption
<1>2. CASE Tokens(h) <= Trigger \/ Len(h) <= Preserve
  <2>1. Compacted(h) = h
    BY <1>2 DEF Compacted
  <2>2. \A n \in DOMAIN h : n <= n
    BY <1>1
  <2>3. Abridged(h, h)
    BY <2>2 DEF Abridged
  <2> QED BY <2>1, <2>3
<1>3. CASE ~(Tokens(h) <= Trigger \/ Len(h) <= Preserve) /\ HeadLength(h) \in {0, Len(h)}
  <2>1. Compacted(h) = Tail1(h, Preserve)
    BY <1>3 DEF Compacted
  <2>2. PICK k \in 1..Len(h) : Tail1(h, Preserve) = From(h, k)
    BY <1>1, Tail1IsSuffix
  <2>3. /\ From(h, k) \in Seq(Messages) /\ Len(From(h, k)) = Len(h) - k + 1
        /\ Thinned(From(h, k), h)
    BY FromIsSuffix
  <2>4. From(h, k) # <<>>
    BY <1>1, <2>3
  <2>5. Ordered(From(h, k)) /\ Abridged(From(h, k), h)
    BY <2>3, ThinnedKeeps DEF Abridged
  <2>6. \A T : Open(h, T) => Open(From(h, k), T)
    BY SuffixOpen
  <2> QED BY <2>1, <2>2, <2>3, <2>4, <2>5, <2>6
<1>4. CASE ~(Tokens(h) <= Trigger \/ Len(h) <= Preserve) /\ HeadLength(h) \notin {0, Len(h)}
  <2> DEFINE k == HeadLength(h) + 1
             g == <<Summary>> \o From(h, k)
             s == Normalize[g]
  <2>1. Compacted(h) = s
    BY <1>4 DEF Compacted, Summary
  <2>2. k \in 2..Len(h)
    <3>1. Len(h) > Preserve
      BY <1>1, <1>4
    <3> QED BY <1>1, <1>4, <3>1, HeadIsShort
  <2> HIDE DEF k
  <2>3. /\ g \in Seq(Messages) /\ g # <<>> /\ 1 \in DOMAIN g /\ Stays(g, 1)
        /\ Ordered(g) /\ Abridged(g, h)
    BY <2>2, SummarizedKeeps
  <2> HIDE DEF g
  <2>4. /\ s \in Seq(Messages) /\ Thinned(s, g) /\ Open(s, {})
    BY <2>3, NormalizeKeeps, NormalizePairs
  <2>5. s # <<>>
    <3>1. \E n \in DOMAIN s : TRUE
      BY <2>3, NormalizeKeeps
    <3> HIDE DEF s
    <3> QED BY <3>1
  <2> HIDE DEF s
  <2>6. Ordered(s) /\ \A n \in DOMAIN s : \E i \in DOMAIN g : s[n] = g[i] /\ n <= i
    BY <2>3, <2>4, ThinnedKeeps
  <2>7. Abridged(s, h)
    <3> SUFFICES ASSUME NEW n \in DOMAIN s
                 PROVE  (n = 1 /\ s[n] = Summary) \/ \E i \in DOMAIN h : s[n] = h[i] /\ n <= i
      BY DEF Abridged
    <3>1. PICK m \in DOMAIN g : s[n] = g[m] /\ n <= m
      BY <2>6
    <3>2. n \in Nat /\ m \in Nat /\ n >= 1
      BY <2>3, <2>4
    <3>3. CASE m = 1 /\ g[m] = Summary
      BY <3>1, <3>2, <3>3
    <3>4. CASE \E i \in DOMAIN h : g[m] = h[i] /\ m <= i
      <4>1. PICK i \in DOMAIN h : g[m] = h[i] /\ m <= i
        BY <3>4
      <4>2. i \in Nat
        BY <1>1
      <4> QED BY <3>1, <3>2, <4>1, <4>2
    <3> QED BY <2>3, <3>3, <3>4 DEF Abridged
  <2>8. \A T : Open(s, T)
    BY <2>4 DEF Open
  <2> QED BY <2>1, <2>4, <2>5, <2>6, <2>7, <2>8
<1> QED BY <1>2, <1>3, <1>4

----------------------------------------------------------------------------
(* One message more                                                        *)

LEMMA Appended ==
  ASSUME NEW h \in Seq(Messages), NEW m \in Messages
  PROVE  /\ Append(h, m) \in Seq(Messages) /\ Append(h, m) # <<>>
         /\ Len(Append(h, m)) = Len(h) + 1 /\ DOMAIN Append(h, m) = 1..(Len(h) + 1)
         /\ DOMAIN h = 1..Len(h) /\ Len(h) \in Nat
         /\ \A i \in 1..Len(h) : Append(h, m)[i] = h[i] /\ i # Len(h) + 1
         /\ Append(h, m)[Len(h) + 1] = m
  OBVIOUS

\* Results answer their calls.
LEMMA ResultsKeep ==
  ASSUME NEW h \in Seq(Messages), NEW q \in Seq(Messages), Ordered(h),
         \A k \in DOMAIN q : q[k].role = "tool",
         NEW T, NEW R, \A id \in T : id \in R \/ \E k \in DOMAIN q : q[k].call = id
  PROVE  /\ h \o q \in Seq(Messages) /\ Ordered(h \o q)
         /\ Open(h, T) => Open(h \o q, R)
         /\ EndsInResults(h, T) /\ R \subseteq T /\ (\A k \in DOMAIN q : q[k].call \in T)
              => EndsInResults(h \o q, R)
<1> DEFINE s == h \o q
           N == Len(h)
<1>1. /\ N \in Nat /\ DOMAIN s = 1..(N + Len(q)) /\ Len(s) = N + Len(q) /\ DOMAIN h = 1..N
      /\ DOMAIN q = 1..Len(q) /\ Len(q) \in Nat /\ s \in Seq(Messages)
      /\ \A i \in 1..N : s[i] = h[i] /\ i \in 1..(N + Len(q))
      /\ \A k \in 1..Len(q) : s[N + k] = q[k]
      /\ \A i \in 1..(N + Len(q)) : i \in 1..N \/ \E k \in 1..Len(q) : i = N + k
  <2>1. /\ s \in Seq(Messages) /\ Len(s) = N + Len(q)
        /\ \A i \in 1..(N + Len(q)) : s[i] = IF i <= N THEN h[i] ELSE q[i - N]
    BY ConcatProperties, Zenon
  <2>2. N \in Nat /\ Len(q) \in Nat /\ DOMAIN h = 1..N /\ DOMAIN q = 1..Len(q)
    OBVIOUS
  <2> HIDE DEF s, N
  <2>3. ASSUME NEW k \in 1..Len(q) PROVE s[N + k] = q[k]
    <3>1. N + k \in 1..(N + Len(q)) /\ ~(N + k <= N) /\ (N + k) - N = k
      BY <2>2
    <3> QED BY <2>1, <3>1
  <2>4. ASSUME NEW i \in 1..N PROVE s[i] = h[i] /\ i \in 1..(N + Len(q))
    BY <2>1, <2>2
  <2>5. ASSUME NEW i \in 1..(N + Len(q)), i \notin 1..N
        PROVE  \E k \in 1..Len(q) : i = N + k
    <3>1. i - N \in 1..Len(q) /\ i = N + (i - N)
      BY <2>2, <2>5
    <3> QED BY <3>1
  <2> QED BY <2>1, <2>2, <2>3, <2>4, <2>5
<1>2. \A k \in 1..Len(q) : Ids(q[k]) = {} /\ s[N + k].role = "tool" /\ Ids(s[N + k]) = {}
  BY <1>1, MessageFacts
<1> HIDE DEF s, N
<1>3. Ordered(s)
  <2> SUFFICES ASSUME NEW i \in DOMAIN s, NEW j \in DOMAIN s,
                      s[i].role = "tool", s[i].call \in Ids(s[j])
               PROVE  j < i
    BY DEF Ordered
  <2>1. j \in 1..N
    BY <1>1, <1>2
  <2>2. CASE i \in 1..N
    BY <1>1, <2>1, <2>2 DEF Ordered
  <2>3. CASE i \notin 1..N
    BY <1>1, <2>1, <2>3
  <2> QED BY <2>2, <2>3
<1>4. ASSUME Open(h, T) PROVE Open(s, R)
  <2> SUFFICES ASSUME NEW i \in DOMAIN s, NEW id \in Ids(s[i]), id \notin R
               PROVE  \E j \in i + 1..Len(s) : s[j].role = "tool" /\ s[j].call = id
    BY DEF Open
  <2>1. i \in 1..N /\ id \in Ids(h[i])
    BY <1>1, <1>2
  <2>2. CASE id \in T
    <3>1. PICK k \in 1..Len(q) : q[k].call = id
      BY <1>1, <2>2
    <3>2. N + k \in i + 1..Len(s)
      BY <1>1, <2>1
    <3> QED BY <1>1, <1>2, <3>1, <3>2
  <2>3. CASE id \notin T
    <3>1. PICK j \in i + 1..N : h[j].role = "tool" /\ h[j].call = id
      BY <1>1, <1>4, <2>1, <2>3 DEF Open
    <3>2. j \in i + 1..Len(s) /\ j \in 1..N
      BY <1>1, <2>1
    <3> QED BY <1>1, <3>1, <3>2
  <2> QED BY <2>2, <2>3
<1>5. ASSUME EndsInResults(h, T), R \subseteq T, \A k \in DOMAIN q : q[k].call \in T
      PROVE  EndsInResults(s, R)
  <2>1. PICK a \in 1..N :
          /\ h[a].role # "tool" /\ T \subseteq Ids(h[a])
          /\ \A j \in a + 1..N : h[j].role = "tool" /\ h[j].call \in Ids(h[a])
    BY <1>1, <1>5 DEF EndsInResults
  <2>2. a \in DOMAIN s /\ s[a] = h[a]
    BY <1>1
  <2>3. ASSUME NEW j \in a + 1..Len(s) PROVE s[j].role = "tool" /\ s[j].call \in Ids(s[a])
    <3>1. j \in 1..(N + Len(q)) /\ (j \in 1..N => j \in a + 1..N)
      BY <1>1
    <3>2. CASE j \in 1..N
      BY <1>1, <2>1, <2>2, <3>1, <3>2
    <3>3. CASE \E k \in 1..Len(q) : j = N + k
      <4>1. PICK k \in 1..Len(q) : j = N + k
        BY <3>3
      <4>2. q[k].call \in Ids(h[a]) /\ s[j] = q[k] /\ q[k].role = "tool"
        BY <1>1, <1>5, <2>1, <4>1
      <4> QED BY <2>2, <4>2
    <3> QED BY <1>1, <3>1, <3>2, <3>3
  <2>4. s[a].role # "tool" /\ R \subseteq Ids(s[a])
    BY <1>5, <2>1, <2>2
  <2> QED BY <2>2, <2>3, <2>4 DEF EndsInResults
<1> QED BY <1>1, <1>3, <1>4, <1>5 DEF s

\* A message that is no result, with calls that are answered behind it or open.
LEMMA CallsKeep ==
  ASSUME NEW h \in Seq(Messages), NEW m \in Messages, m.role # "tool",
         Ordered(h), Open(h, {}), \A i \in DOMAIN h : h[i].call \notin Ids(m)
  PROVE  /\ Ordered(Append(h, m))
         /\ Open(Append(h, m), Ids(m))
         /\ EndsInResults(Append(h, m), Ids(m))
<1> DEFINE s == Append(h, m)
           N == Len(h)
<1>1. /\ N \in Nat /\ DOMAIN s = 1..(N + 1) /\ Len(s) = N + 1 /\ DOMAIN h = 1..N
      /\ \A i \in 1..N : s[i] = h[i]
      /\ s[N + 1] = m
  BY Appended
<1> HIDE DEF s
<1>2. Ordered(s)
  <2> SUFFICES ASSUME NEW i \in 1..(N + 1), NEW j \in 1..(N + 1),
                      s[i].role = "tool", s[i].call \in Ids(s[j])
               PROVE  j < i
    BY <1>1 DEF Ordered
  <2>1. i \in 1..N
    <3>1. i # N + 1
      BY <1>1
    <3> QED BY <1>1, <3>1
  <2>2. j \in 1..N
    <3>1. j # N + 1
      BY <1>1, <2>1
    <3> QED BY <1>1, <3>1
  <2> QED BY <1>1, <2>1, <2>2 DEF Ordered
<1>3. Open(s, Ids(m))
  <2> SUFFICES ASSUME NEW i \in 1..(N + 1), NEW id \in Ids(s[i]), id \notin Ids(m)
               PROVE  \E j \in i + 1..Len(s) : s[j].role = "tool" /\ s[j].call = id
    BY <1>1 DEF Open
  <2>1. i \in 1..N /\ id \in Ids(h[i])
    <3>1. i # N + 1
      BY <1>1
    <3> QED BY <1>1, <3>1
  <2>2. PICK j \in i + 1..N : h[j].role = "tool" /\ h[j].call = id
    BY <1>1, <2>1 DEF Open
  <2>3. j \in i + 1..Len(s) /\ j \in 1..N
    BY <1>1, <2>1
  <2> QED BY <1>1, <2>2, <2>3
<1>4. EndsInResults(s, Ids(m))
  <2>1. N + 1 \in DOMAIN s /\ \A j \in (N + 1) + 1..Len(s) : FALSE
    BY <1>1
  <2> QED BY <1>1, <2>1 DEF EndsInResults
<1> QED BY <1>2, <1>3, <1>4 DEF s

\* An abridged history has no calls, and nothing of no turn, that it did not have.
LEMMA AbridgedKeeps ==
  ASSUME NEW h \in Seq(Messages), NEW s \in Seq(Messages), Abridged(s, h), turn \in 0..MaxTurns
  PROVE  /\ \A n \in DOMAIN s : \A id \in IdsIn(s[n]) : \E i \in DOMAIN h : id \in IdsIn(h[i])
         /\ \A N \in Nat : (\A i \in DOMAIN h : i > N => h[i].turn = turn)
                             => \A n \in DOMAIN s : n > N => s[n].turn = turn
<1>1. IdsIn(Summary) = {}
  BY SummaryFacts DEF IdsIn
<1>2. /\ DOMAIN h = 1..Len(h) /\ Len(h) \in Nat
      /\ DOMAIN s = 1..Len(s) /\ Len(s) \in Nat
  OBVIOUS
<1>3. ASSUME NEW N \in Nat, \A i \in DOMAIN h : i > N => h[i].turn = turn,
             NEW n \in DOMAIN s, n > N
      PROVE  s[n].turn = turn
  <2>1. CASE s[n] = Summary
    BY <2>1, SummaryFacts
  <2>2. CASE \E i \in DOMAIN h : s[n] = h[i] /\ n <= i
    <3>1. PICK i \in DOMAIN h : s[n] = h[i] /\ n <= i
      BY <2>2
    <3>2. i > N
      BY <1>2, <1>3, <3>1
    <3> QED BY <1>3, <3>1, <3>2
  <2> QED BY <2>1, <2>2 DEF Abridged
<1>4. ASSUME NEW n \in DOMAIN s, NEW id \in IdsIn(s[n])
      PROVE  \E i \in DOMAIN h : id \in IdsIn(h[i])
  BY <1>1 DEF Abridged
<1> QED BY <1>3, <1>4

----------------------------------------------------------------------------
(* The invariant begins                                                    *)

LEMMA InitInv == Init => IInv
<1> SUFFICES ASSUME Init PROVE IInv
  OBVIOUS
<1>1. /\ stored = <<>> /\ hist = <<>> /\ sent = <<>> /\ todo = <<>>
      /\ pc = "idle" /\ turn = 0 /\ rounds = 0 /\ attempts = 0 /\ gave = NoAnswer
      /\ finished = {} /\ cancelled = FALSE /\ squeezed = FALSE /\ told = <<"nothing">>
  BY DEF Init
<1>2. \A S : <<>> \in Seq(S) /\ Len(<<>>) = 0 /\ DOMAIN <<>> = {} /\ ~(0 > 1)
  OBVIOUS
<1>3. Head(told) = "nothing"
  BY <1>1
<1>4. gave \in Answers
  BY <1>1, TurnAssumption DEF Answers, NoAnswer, Texts
<1>5. TypeOK
  <2>1. <<>> \in Seq(Messages) /\ <<>> \in Seq(Calls) /\ Len(<<>>) = 0
    OBVIOUS
  <2>2. /\ 0 \in 0..MaxTurns /\ 0 \in 0..MaxRounds /\ 0 \in 0..MaxAttempts /\ 0 <= MaxCalls
    BY TurnAssumption
  <2> QED BY <1>1, <1>3, <1>4, <2>1, <2>2 DEF TypeOK
<1>6. LimitsHold
  BY <1>1 DEF LimitsHold
<1>7. TodoIds = {}
  BY <1>1, <1>2 DEF TodoIds
<1>8. CallsArePast
  BY <1>1, <1>2, <1>7, Zenon DEF CallsArePast
<1>9. HistoriesAreSound
  BY <1>1, <1>2, Zenon DEF HistoriesAreSound, Ordered, Open
<1>10. TurnIsBehind
  BY <1>1, <1>2, Zenon DEF TurnIsBehind
<1>11. RequestIsPaired /\ NewestIsShown /\ ReplyIsOwn /\ LastWordIsTold
  BY <1>1, <1>2, <1>3, Zenon DEF RequestIsPaired, NewestIsShown, ReplyIsOwn, LastWordIsTold
<1> QED BY <1>5, <1>6, <1>8, <1>9, <1>10, <1>11 DEF IInv

\* Calls are known by numbers.
LEMMA IdsAreKnown ==
  ASSUME NEW h \in Seq(Messages)
  PROVE  \A i \in DOMAIN h : \A id \in IdsIn(h[i]) : id \in CallIds
<1> TAKE i \in DOMAIN h
<1>1. h[i] \in Messages
  OBVIOUS
<1>2. h[i].call \in CallIds \cup {NoCall}
  BY <1>1, MessageFacts
<1> QED BY <1>1, <1>2, MessageFacts DEF IdsIn

----------------------------------------------------------------------------
(* Steps that leave the histories alone                                    *)

\* The parts of the invariant that speak of the histories and the calls.
LEMMA HistoriesKept ==
  ASSUME IInv, UNCHANGED <<stored, hist, turn, rounds, gave, todo, squeezed>>,
         pc' # "idle" => pc # "idle",
         pc' \notin {"idle", "failed"} => pc \notin {"idle", "failed"},
         pc' = "ended" => pc = "ended"
  PROVE  CallsArePast' /\ HistoriesAreSound' /\ TurnIsBehind'
<1> USE DEF IInv
<1>1. TodoIds' = TodoIds
  BY DEF TodoIds
<1>2. CallsArePast'
  BY <1>1 DEF CallsArePast, Past
<1>3. HistoriesAreSound'
  BY <1>1 DEF HistoriesAreSound
<1>4. TurnIsBehind'
  BY <1>1 DEF TurnIsBehind
<1> QED BY <1>2, <1>3, <1>4

\* The parts that speak of what was told.
LEMMA WordsKept ==
  ASSUME IInv, UNCHANGED <<told, turn, gave, squeezed, hist>>
  PROVE  ReplyIsOwn' /\ LastWordIsTold'
BY DEF IInv, ReplyIsOwn, LastWordIsTold

\* The parts that speak of the request under way.
LEMMA RequestKept ==
  ASSUME IInv, UNCHANGED <<sent, hist, squeezed>>,
         pc' \in {"stream", "attempt", "backoff"} => pc \in {"stream", "attempt", "backoff"}
  PROVE  RequestIsPaired' /\ NewestIsShown'
BY DEF IInv, RequestIsPaired, NewestIsShown, Answered, Called

\* Nothing is told of a turn that has not ended.
LEMMA NothingTold ==
  ASSUME told' = <<"nothing">>
  PROVE  ReplyIsOwn' /\ LastWordIsTold' /\ Head(told') = "nothing"
<1>1. Head(told') = "nothing"
  OBVIOUS
<1> QED BY <1>1 DEF ReplyIsOwn, LastWordIsTold

LEMMA CancelKeeps == ASSUME IInv, Cancel PROVE IInv'
<1> USE DEF IInv, Cancel
<1>1. TypeOK' /\ LimitsHold'
  BY DEF TypeOK, LimitsHold
<1> QED BY <1>1, HistoriesKept, WordsKept, RequestKept

LEMMA RoundLimitKeeps == ASSUME IInv, RoundLimit PROVE IInv'
<1> USE DEF IInv, RoundLimit
<1>1. TypeOK' /\ LimitsHold'
  BY DEF TypeOK, LimitsHold
<1> QED BY <1>1, HistoriesKept, WordsKept, RequestKept

LEMMA StreamFailsKeeps == ASSUME IInv, StreamFails PROVE IInv'
<1> USE DEF IInv, StreamFails
<1>1. TypeOK' /\ LimitsHold'
  BY DEF TypeOK, LimitsHold
<1> QED BY <1>1, HistoriesKept, WordsKept, RequestKept

LEMMA ChatFailsKeeps == ASSUME IInv, ChatFails PROVE IInv'
<1> USE DEF IInv, ChatFails
<1>1. sent' = <<>> /\ sent' \in Seq(Messages) /\ ~(Len(sent') > 1)
  OBVIOUS
<1>2. TypeOK' /\ LimitsHold'
  BY <1>1, TurnAssumption DEF TypeOK, LimitsHold
<1>3. RequestIsPaired' /\ NewestIsShown'
  BY <1>1 DEF RequestIsPaired, NewestIsShown
<1> QED BY <1>2, <1>3, HistoriesKept, WordsKept

LEMMA ChatRetriableKeeps == ASSUME IInv, ChatRetriable PROVE IInv'
<1> USE DEF IInv, ChatRetriable
<1>1. TypeOK' /\ LimitsHold'
  BY DEF TypeOK, LimitsHold
<1> QED BY <1>1, HistoriesKept, WordsKept, RequestKept

LEMMA RetryKeeps == ASSUME IInv, Retry PROVE IInv'
<1> USE DEF IInv, Retry
<1>1. attempts + 1 \in 0..MaxAttempts
  BY TurnAssumption DEF TypeOK, LimitsHold
<1>2. TypeOK' /\ LimitsHold'
  BY <1>1 DEF TypeOK, LimitsHold
<1> QED BY <1>2, HistoriesKept, WordsKept, RequestKept

LEMMA RunToolKeeps == ASSUME IInv, NEW i \in DOMAIN todo, RunTool(i) PROVE IInv'
<1> USE DEF IInv, RunTool
<1>1. TypeOK' /\ LimitsHold'
  BY DEF TypeOK, LimitsHold
<1> QED BY <1>1, HistoriesKept, WordsKept, RequestKept

LEMMA AbandonKeeps == ASSUME IInv, Abandon PROVE IInv'
<1> USE DEF IInv, Abandon
<1>1. TypeOK' /\ LimitsHold'
  BY DEF TypeOK, LimitsHold
<1> QED BY <1>1, HistoriesKept, WordsKept, RequestKept

LEMMA PanicKeeps == ASSUME IInv, Panic PROVE IInv'
<1> USE DEF IInv, Panic
<1>1. todo' = <<>> /\ todo' \in Seq(Calls) /\ Len(todo') = 0 /\ DOMAIN todo' = {}
      /\ Head(told') = "error"
  OBVIOUS
<1>2. TodoIds' = {}
  BY <1>1 DEF TodoIds
<1>3. TypeOK' /\ LimitsHold'
  BY <1>1, TurnAssumption DEF TypeOK, LimitsHold
<1>4. CallsArePast'
  BY <1>2 DEF CallsArePast, Past
<1>5. HistoriesAreSound' /\ TurnIsBehind'
  BY <1>2 DEF HistoriesAreSound, TurnIsBehind
<1>6. ReplyIsOwn' /\ LastWordIsTold'
  BY <1>1 DEF ReplyIsOwn, LastWordIsTold
<1> QED BY <1>3, <1>4, <1>5, <1>6, RequestKept

----------------------------------------------------------------------------
(* A turn begins                                                           *)

LEMMA DescribeFailsKeeps == ASSUME IInv, DescribeFails PROVE IInv'
<1> USE DEF IInv, DescribeFails
<1>1. hist' = <<>> /\ hist' \in Seq(Messages) /\ DOMAIN hist' = {} /\ todo = <<>>
      /\ DOMAIN todo = {}
  BY DEF LimitsHold
<1>2. TodoIds' = {}
  BY <1>1 DEF TodoIds
<1>3. turn + 1 \in 0..MaxTurns /\ rounds' \in 0..MaxRounds /\ NoAnswer \in Answers
      /\ turn \in Nat
  BY TurnAssumption DEF TypeOK, NoAnswer, Answers, Texts
<1>4. TypeOK'
  BY <1>1, <1>3, NothingTold DEF TypeOK
<1>5. LimitsHold'
  BY DEF LimitsHold
<1>6. CallsArePast'
  <2>1. \A i \in DOMAIN stored : \A id \in IdsIn(stored[i]) : id[1] <= turn + 1
    <3> TAKE i \in DOMAIN stored
    <3> TAKE id \in IdsIn(stored[i])
    <3>1. id[1] <= turn /\ id \in CallIds
      BY IdsAreKnown DEF CallsArePast, TypeOK
    <3> QED BY <1>3, <3>1 DEF CallIds
  <2> QED BY <1>1, <1>2, <2>1 DEF CallsArePast
<1>7. HistoriesAreSound' /\ TurnIsBehind'
  BY <1>1, <1>2 DEF HistoriesAreSound, TurnIsBehind, Ordered, Open
<1>8. RequestIsPaired' /\ NewestIsShown'
  BY DEF RequestIsPaired, NewestIsShown, Answered, Called
<1> QED BY <1>4, <1>5, <1>6, <1>7, <1>8, NothingTold

LEMMA BeginKeeps == ASSUME IInv, NEW size \in Sizes, Begin(size) PROVE IInv'
<1> USE DEF IInv
<1> DEFINE m == [Message("user", "none", <<>>, NoCall, size) EXCEPT !.turn = turn + 1]
<1>1. /\ pc = "idle" /\ turn < MaxTurns /\ turn' = turn + 1 /\ hist' = Append(stored, m)
      /\ pc' = "round" /\ rounds' = 0 /\ squeezed' = FALSE /\ told' = <<"nothing">>
      /\ gave' = NoAnswer
      /\ UNCHANGED <<stored, attempts, sent, todo, finished, cancelled>>
  BY DEF Begin
<1>2. turn + 1 \in 0..MaxTurns /\ 0 \in 0..MaxRounds /\ NoAnswer \in Answers /\ turn \in Nat
  BY <1>1, TurnAssumption DEF TypeOK, NoAnswer, Answers, Texts
<1>3. /\ m \in Messages /\ m.role = "user" /\ m.call = NoCall /\ m.turn = turn + 1
      /\ m.calls = <<>>
  <2>1. m = [role |-> "user", text |-> "none", calls |-> <<>>, call |-> NoCall,
             size |-> size, turn |-> turn + 1]
    BY DEF Message
  <2>2. <<>> \in Seq(Calls) /\ NoCall \in CallIds \cup {NoCall} /\ size \in Nat \ {0}
    BY TurnAssumption
  <2> QED BY <1>2, <2>1, <2>2 DEF Messages, Texts
<1> HIDE DEF m
<1>4. Ids(m) = {} /\ IdsIn(m) = {}
  BY <1>3, MessageFacts DEF IdsIn
<1>5. todo = <<>> /\ TodoIds' = {}
  <2>1. todo = <<>> /\ todo' = <<>>
    BY <1>1 DEF LimitsHold
  <2> QED BY <2>1 DEF TodoIds
<1>6. /\ hist' \in Seq(Messages) /\ hist' # <<>> /\ Len(hist') = Len(stored) + 1
      /\ DOMAIN hist' = 1..(Len(stored) + 1) /\ DOMAIN stored = 1..Len(stored)
      /\ Len(stored) \in Nat /\ hist'[Len(stored) + 1] = m
      /\ \A i \in 1..Len(stored) : hist'[i] = stored[i]
  <2>1. stored \in Seq(Messages)
    BY DEF TypeOK
  <2> DEFINE g == Append(stored, m)
  <2>2. /\ g \in Seq(Messages) /\ g # <<>> /\ Len(g) = Len(stored) + 1
        /\ DOMAIN g = 1..(Len(stored) + 1) /\ DOMAIN stored = 1..Len(stored)
        /\ Len(stored) \in Nat /\ g[Len(stored) + 1] = m
        /\ \A i \in 1..Len(stored) : g[i] = stored[i]
    BY <1>3, <2>1, Appended
  <2>3. hist' = g
    BY <1>1
  <2> HIDE DEF g
  <2> QED BY <2>2, <2>3
<1>7. TypeOK'
  BY <1>1, <1>2, <1>6, NothingTold DEF TypeOK
<1>8. LimitsHold'
  BY <1>1, <1>5 DEF LimitsHold
<1>9. CallsArePast'
  <2>1. \A i \in DOMAIN stored : \A id \in IdsIn(stored[i]) :
          id[1] <= turn /\ id[1] <= turn + 1 /\ id[1] < turn + 1
    <3> TAKE i \in DOMAIN stored
    <3> TAKE id \in IdsIn(stored[i])
    <3>1. id[1] <= turn /\ id \in CallIds
      BY IdsAreKnown DEF CallsArePast, TypeOK
    <3> QED BY <1>2, <3>1 DEF CallIds
  <2>2. \A i \in DOMAIN hist' : \A id \in IdsIn(hist'[i]) : id[1] < turn + 1
    <3> TAKE i \in DOMAIN hist'
    <3>1. CASE i \in 1..Len(stored)
      BY <1>6, <2>1, <3>1
    <3>2. CASE i \notin 1..Len(stored)
      <4>1. i = Len(stored) + 1
        BY <1>6, <3>2
      <4> QED BY <1>4, <1>6, <4>1
    <3> QED BY <3>1, <3>2
  <2> QED BY <1>1, <1>5, <2>1, <2>2 DEF CallsArePast, Past
<1>10. Ordered(hist') /\ Open(hist', {}) /\ EndsInResults(hist', {})
  <2>1. Ordered(stored) /\ Open(stored, {}) /\ stored \in Seq(Messages)
    BY DEF HistoriesAreSound, TypeOK
  <2>2. \A i \in DOMAIN stored : stored[i].call \notin Ids(m)
    BY <1>4
  <2>3. m.role # "tool"
    BY <1>3
  <2> QED BY <1>1, <1>3, <1>4, <2>1, <2>2, <2>3, CallsKeep
<1>11. HistoriesAreSound'
  BY <1>1, <1>5, <1>10 DEF HistoriesAreSound
<1>12. TurnIsBehind'
  <2>1. Len(hist') > Len(stored)
    BY <1>6
  <2>2. \A i \in DOMAIN hist' : i > Len(stored) => hist'[i].turn = turn + 1
    <3> TAKE i \in DOMAIN hist'
    <3>1. i > Len(stored) => i = Len(stored) + 1
      BY <1>6
    <3> QED BY <1>3, <1>6, <3>1
  <2> QED BY <1>1, <1>5, <1>10, <2>1, <2>2 DEF TurnIsBehind
<1>13. RequestIsPaired' /\ NewestIsShown'
  BY <1>1 DEF RequestIsPaired, NewestIsShown, Answered, Called
<1> QED BY <1>1, <1>7, <1>8, <1>9, <1>11, <1>12, <1>13, NothingTold

----------------------------------------------------------------------------
(* Asking, and what comes of it                                            *)

LEMMA AskKeeps == ASSUME IInv, NEW room \in Rooms, Ask(room) PROVE IInv'
<1> USE DEF IInv
<1>1. /\ pc = "round" /\ rounds < MaxRounds /\ sent' = Trim(hist, room)
      /\ pc' \in {"stream", "attempt"} /\ attempts' = 1
      /\ UNCHANGED <<stored, hist, turn, rounds, gave, todo, finished, cancelled, squeezed, told>>
  BY DEF Ask
<1>2. /\ room \in Int /\ hist \in Seq(Messages) /\ hist # <<>> /\ Ordered(hist)
      /\ todo = <<>> /\ TodoIds = {} /\ Open(hist, {})
      /\ ~squeezed => EndsInResults(hist, {})
  <2>1. todo = <<>> /\ TodoIds = {}
    BY <1>1 DEF LimitsHold, TodoIds
  <2> QED BY <1>1, <2>1, TurnAssumption DEF TypeOK, HistoriesAreSound, TurnIsBehind
<1>3. sent' \in Seq(Messages) /\ (Len(sent') > 1 => Open(sent', {}) /\ Called(sent'))
  BY <1>1, <1>2, TrimIsPaired
<1>4. ~squeezed => sent' # <<>> /\ sent'[Len(sent')] = hist[Len(hist)]
  BY <1>1, <1>2, TrimShowsNewest
<1>5. TypeOK'
  <2>1. 1 \in 0..MaxAttempts
    BY TurnAssumption
  <2> QED BY <1>1, <1>2, <1>3, <2>1 DEF TypeOK
<1>6. LimitsHold'
  BY <1>1, <1>2 DEF LimitsHold
<1>7. CallsArePast' /\ HistoriesAreSound' /\ TurnIsBehind'
  BY <1>1, HistoriesKept
<1>8. RequestIsPaired'
  BY <1>3 DEF RequestIsPaired, Answered, Called, Open
<1>9. NewestIsShown'
  BY <1>1, <1>4 DEF NewestIsShown
<1> QED BY <1>1, <1>5, <1>6, <1>7, <1>8, <1>9, WordsKept

\* The calls of a response.
LEMMA CallsOfFacts ==
  ASSUME NEW tools \in ToolLists, turn \in Nat, rounds \in Nat
  PROVE  /\ CallsOf(tools) \in Seq(Calls) /\ Len(CallsOf(tools)) \in Nat
         /\ DOMAIN CallsOf(tools) = 1..Len(CallsOf(tools))
         /\ \A i \in 1..Len(CallsOf(tools)) :
              CallsOf(tools)[i].id = <<turn, rounds, i>> /\ CallsOf(tools)[i] \in Calls
<1> DEFINE c == CallsOf(tools)
<1>1. tools \in Seq(Tools)
  BY TurnAssumption
<1>2. /\ DOMAIN tools = 1..Len(tools) /\ Len(tools) \in Nat
      /\ \A i \in 1..Len(tools) : tools[i] \in Tools
  BY <1>1
<1>3. c = [i \in 1..Len(tools) |-> [id |-> <<turn, rounds, i>>, tool |-> tools[i]]]
  BY <1>2 DEF CallsOf
<1>4. \A i \in 1..Len(tools) : <<turn, rounds, i>> \in CallIds
  BY <1>2 DEF CallIds
<1>5. \A i \in 1..Len(tools) : c[i].id = <<turn, rounds, i>> /\ c[i] \in Calls
  BY <1>2, <1>3, <1>4 DEF Calls
<1> QED BY <1>2, <1>3, <1>5

\* The calls within the limit.
LEMMA LimitFacts ==
  ASSUME NEW n \in Nat
  PROVE  /\ Min({MaxCalls, n}) \in 0..n /\ Min({MaxCalls, n}) <= MaxCalls
         /\ n # 0 => Min({MaxCalls, n}) # 0
<1>1. MaxCalls \in Nat \ {0} /\ {MaxCalls, n} \in SUBSET Nat
  BY TurnAssumption
<1>2. Min({MaxCalls, n}) \in {MaxCalls, n} /\ \A y \in {MaxCalls, n} : Min({MaxCalls, n}) <= y
  BY <1>1, MinIsLeast
<1> QED BY <1>1, <1>2

LEMMA NoCallIsNone == \A id \in CallIds : id # NoCall
<1> SUFFICES ASSUME NEW x \in Nat, NEW y \in Nat, NEW z \in Nat PROVE <<x, y, z>> # <<>>
  BY DEF CallIds, NoCall
<1>1. Len(<<x, y, z>>) = 3 /\ Len(<<>>) = 0
  OBVIOUS
<1> QED BY <1>1

\* The result of a call (toolErrorResult, toolCallLimitResult).
LEMMA ResultFacts ==
  ASSUME NEW id \in CallIds, NEW c, c.id = id, NEW size \in Nat \ {0}, turn \in 0..MaxTurns
  PROVE  /\ Result(c, size) \in Messages /\ Result(c, size).role = "tool"
         /\ Result(c, size).call = id /\ Result(c, size).turn = turn
         /\ IdsIn(Result(c, size)) = {id}
<1>1. Result(c, size) = [role |-> "tool", text |-> "none", calls |-> <<>>, call |-> id,
                         size |-> size, turn |-> turn]
  BY DEF Result, Message
<1>2. <<>> \in Seq(Calls) /\ id # NoCall
  BY NoCallIsNone
<1>3. Result(c, size) \in Messages
  BY <1>1, <1>2 DEF Messages, Texts
<1>4. IdsIn(Result(c, size)) = {id}
  BY <1>1, <1>2, <1>3, MessageFacts DEF IdsIn
<1> QED BY <1>1, <1>3, <1>4

LEMMA ReceiveKeeps ==
  ASSUME IInv, pc \in {"stream", "attempt"}, NEW a \in Answers, NEW tools \in ToolLists,
         gave' = a, Receive(a.text, tools),
         UNCHANGED <<stored, turn, cancelled, squeezed, told>>
  PROVE  IInv'
<1> USE DEF IInv
<1> DEFINE calls == CallsOf(tools)
           n     == Len(calls)
           limit == Min({MaxCalls, n})
           m     == Message("assistant", a.text, calls, NoCall, 1)
           q     == [i \in 1..(n - limit) |-> Result(calls[limit + i], 1)]
           g     == Append(hist, m)
<1>1. /\ hist' = g \o q /\ todo' = SubSeq(calls, 1, limit)
      /\ finished' = {} /\ rounds' = rounds + 1 /\ attempts' = 0 /\ sent' = <<>>
      /\ pc' = IF calls = <<>> THEN "ended" ELSE "tools"
  BY DEF Receive
<1>2. /\ turn \in Nat /\ turn \in 0..MaxTurns /\ rounds \in Nat /\ rounds + 1 \in 0..MaxRounds
      /\ 0 \in 0..MaxAttempts /\ hist \in Seq(Messages) /\ stored \in Seq(Messages)
      /\ a.text \in Texts
  BY TurnAssumption DEF TypeOK, LimitsHold, Answers
<1>3. /\ calls \in Seq(Calls) /\ n \in Nat /\ DOMAIN calls = 1..n
      /\ \A i \in 1..n : calls[i].id = <<turn, rounds, i>> /\ calls[i] \in Calls
                         /\ <<turn, rounds, i>> \in CallIds
  <2>1. \A i \in Nat : <<turn, rounds, i>> \in CallIds
    BY <1>2 DEF CallIds
  <2> QED BY <1>2, <2>1, CallsOfFacts
<1> HIDE DEF calls
<1>n. n = Len(calls)
  OBVIOUS
<1> HIDE DEF n
<1>4. limit \in 0..n /\ limit \in Nat /\ limit <= MaxCalls /\ (n # 0 => limit # 0)
  <2>1. limit \in 0..n /\ limit <= MaxCalls /\ (n # 0 => limit # 0)
    BY <1>3, LimitFacts, Zenon
  <2> HIDE DEF limit
  <2> QED BY <1>3, <2>1
<1> HIDE DEF limit
<1>5. /\ todo' \in Seq(Calls) /\ Len(todo') = limit /\ DOMAIN todo' = 1..limit
      /\ \A i \in 1..limit : todo'[i] = calls[i] /\ i \in 1..n
  <2>1. \A i \in 1..limit : calls[i] \in Calls /\ i \in 1..n
    BY <1>3, <1>4
  <2> DEFINE s == SubSeq(calls, 1, limit)
  <2>2. s \in Seq(Calls) /\ Len(s) = limit /\ \A i \in 1..limit : s[i] = calls[i]
    BY <1>n, <1>3, <1>4, <2>1
  <2>3. DOMAIN s = 1..limit
    BY <1>4, <2>2
  <2>4. todo' = s
    BY <1>1
  <2> HIDE DEF s
  <2> QED BY <2>1, <2>2, <2>3, <2>4
<1>6. TodoIds' = {<<turn, rounds, i>> : i \in 1..limit}
  <2>1. \A i \in 1..limit : todo'[i].id = <<turn, rounds, i>>
    BY <1>3, <1>5, Zenon
  <2> QED BY <1>5, <2>1, Zenon DEF TodoIds
<1>7. /\ m \in Messages /\ m.role = "assistant" /\ m.call = NoCall /\ m.turn = turn
      /\ m.calls = calls /\ m.text = a.text
  <2>1. m = [role |-> "assistant", text |-> a.text, calls |-> calls, call |-> NoCall,
             size |-> 1, turn |-> turn]
    BY DEF Message
  <2>2. 1 \in Nat \ {0} /\ NoCall \in CallIds \cup {NoCall}
    OBVIOUS
  <2> QED BY <1>2, <1>3, <2>1, <2>2 DEF Messages
<1> HIDE DEF m
<1>8. Ids(m) = {<<turn, rounds, i>> : i \in 1..n} /\ IdsIn(m) = Ids(m)
  <2>1. Ids(m) = {calls[i].id : i \in 1..n}
    BY <1>3, <1>7, MessageFacts
  <2>2. {calls[i].id : i \in 1..n} = {<<turn, rounds, i>> : i \in 1..n}
    BY <1>3
  <2> QED BY <1>7, <2>1, <2>2 DEF IdsIn
<1>9. /\ q \in Seq(Messages) /\ Len(q) = n - limit /\ DOMAIN q = 1..(n - limit)
      /\ \A k \in 1..(n - limit) :
           /\ limit + k \in 1..n /\ q[k].role = "tool" /\ q[k].turn = turn
           /\ q[k].call = <<turn, rounds, limit + k>>
           /\ IdsIn(q[k]) = {<<turn, rounds, limit + k>>}
  <2>1. n - limit \in Nat /\ DOMAIN q = 1..(n - limit)
    BY <1>3, <1>4
  <2>2. ASSUME NEW k \in 1..(n - limit)
        PROVE  /\ limit + k \in 1..n /\ q[k] \in Messages
               /\ q[k].role = "tool" /\ q[k].turn = turn
               /\ q[k].call = <<turn, rounds, limit + k>>
               /\ IdsIn(q[k]) = {<<turn, rounds, limit + k>>}
    <3>1. limit + k \in 1..n /\ 1 \in Nat \ {0}
      BY <1>3, <1>4
    <3>2. q[k] = Result(calls[limit + k], 1)
      OBVIOUS
    <3>3. calls[limit + k].id = <<turn, rounds, limit + k>> /\ <<turn, rounds, limit + k>> \in CallIds
      BY <1>3, <3>1
    <3> HIDE DEF q
    <3> QED BY SMTT(30), <1>2, <3>1, <3>2, <3>3, ResultFacts
  <2>3. q \in Seq(Messages)
    BY <2>1, <2>2
  <2>4. Len(q) = n - limit
    BY <2>1
  <2> QED BY <2>1, <2>2, <2>3, <2>4
<1> HIDE DEF q
<1>10. /\ hist \in Seq(Messages) /\ hist # <<>> /\ Ordered(hist) /\ Open(hist, {})
       /\ TodoIds = {} /\ todo = <<>>
  <2>1. todo = <<>> /\ TodoIds = {}
    BY DEF LimitsHold, TodoIds
  <2> QED BY <2>1 DEF TypeOK, HistoriesAreSound
<1>11. \A i \in DOMAIN hist : \A id \in IdsIn(hist[i]) :
         id[1] < turn \/ (id[1] = turn /\ id[2] < rounds)
  BY DEF CallsArePast, Past
<1>12. \A i \in DOMAIN hist : hist[i].call \notin Ids(m)
  <2> SUFFICES ASSUME NEW i \in DOMAIN hist, NEW k \in 1..n,
                      hist[i].call = <<turn, rounds, k>>
               PROVE  FALSE
    BY <1>8
  <2>1. hist[i].call # NoCall
    BY DEF NoCall
  <2>2. hist[i].call \in IdsIn(hist[i])
    BY <2>1 DEF IdsIn
  <2>3. <<turn, rounds, k>>[1] = turn /\ <<turn, rounds, k>>[2] = rounds
    OBVIOUS
  <2> QED BY <1>2, <1>11, <2>2, <2>3
<1>13. g \in Seq(Messages) /\ Ordered(g) /\ Open(g, Ids(m)) /\ EndsInResults(g, Ids(m))
  <2>1. m.role # "tool"
    BY <1>7
  <2> QED BY <1>7, <1>10, <1>12, <2>1, CallsKeep, Appended, Zenon
<1>14. /\ Len(g) = Len(hist) + 1 /\ Len(hist) \in Nat /\ DOMAIN hist = 1..Len(hist)
       /\ g[Len(hist) + 1] = m
       /\ \A i \in 1..Len(hist) : g[i] = hist[i]
  BY <1>7, <1>10, Appended
<1> HIDE DEF g
<1> DEFINE T == {<<turn, rounds, i>> : i \in 1..limit}
           s == g \o q
<1>15. /\ s \in Seq(Messages) /\ Ordered(s) /\ Open(s, T) /\ EndsInResults(s, T)
  <2>1. \A id \in Ids(m) : id \in T \/ \E k \in DOMAIN q : q[k].call = id
    <3> SUFFICES ASSUME NEW i \in 1..n, i \notin 1..limit
                 PROVE  \E k \in DOMAIN q : q[k].call = <<turn, rounds, i>>
      BY <1>8
    <3>1. i - limit \in 1..(n - limit) /\ limit + (i - limit) = i
      BY <1>3, <1>4
    <3> QED BY <1>9, <3>1
  <2>2. T \subseteq Ids(m)
    BY <1>5, <1>8
  <2>3. \A k \in DOMAIN q : q[k].role = "tool" /\ q[k].call \in Ids(m)
    BY <1>8, <1>9
  <2> HIDE DEF T
  <2> QED BY <1>9, <1>13, <2>1, <2>2, <2>3, ResultsKeep, Zenon
<1>16. /\ Len(s) = Len(hist) + 1 + (n - limit) /\ Len(s) > Len(hist) /\ s # <<>>
       /\ DOMAIN s = 1..Len(s) /\ s[Len(hist) + 1] = m
       /\ \A i \in 1..Len(hist) : s[i] = hist[i]
       /\ \A i \in DOMAIN s : \/ i \in 1..Len(hist) /\ s[i] = hist[i]
                             \/ s[i] = m
                             \/ \E k \in 1..(n - limit) : s[i] = q[k]
  <2>1. /\ Len(s) = Len(g) + Len(q)
        /\ \A i \in 1..(Len(g) + Len(q)) : s[i] = IF i <= Len(g) THEN g[i] ELSE q[i - Len(g)]
    BY <1>9, <1>13, ConcatProperties, ZenonT(60)
  <2>2. DOMAIN s = 1..Len(s)
    BY <1>15
  <2> HIDE DEF s
  <2>3. n - limit \in Nat
    BY <1>3, <1>4
  <2>4. Len(s) = Len(hist) + 1 + (n - limit) /\ Len(s) > Len(hist) /\ Len(s) # 0
    BY <1>9, <1>14, <2>1, <2>3
  <2>5. \A i \in 1..Len(hist) : s[i] = hist[i]
    BY <1>9, <1>14, <2>1, <2>3
  <2>6. s[Len(hist) + 1] = m
    BY <1>9, <1>14, <2>1, <2>3
  <2>7. ASSUME NEW i \in 1..Len(s), i \notin 1..Len(hist), i # Len(hist) + 1
        PROVE  \E k \in 1..(n - limit) : s[i] = q[k]
    <3>1. i - Len(g) \in 1..(n - limit) /\ ~(i <= Len(g)) /\ i \in 1..(Len(g) + Len(q))
      BY <1>9, <1>14, <2>3, <2>4, <2>7
    <3> QED BY <2>1, <3>1
  <2> QED BY <1>15, <2>2, <2>4, <2>5, <2>6, <2>7
<1> HIDE DEF s, T
<1>17. hist' = s /\ TodoIds' = T
  BY <1>1, <1>6 DEF s, T
<1>18. TypeOK'
  <2>1. sent' \in Seq(Messages) /\ Len(todo') <= MaxCalls
    BY <1>1, <1>4, <1>5
  <2>2. pc' = "tools" => todo' # <<>>
    <3>1. calls # <<>> => n # 0
      BY <1>n, <1>3
    <3> QED BY <1>1, <1>4, <1>5, <3>1
  <2> QED BY <1>1, <1>2, <1>5, <1>15, <1>16, <1>17, <2>1, <2>2 DEF TypeOK
<1>19. LimitsHold'
  <2>1. pc' # "tools" => todo' = <<>>
    <3>1. calls = <<>> => n = 0
      BY <1>n
    <3>2. n = 0 => limit = 0
      BY <1>4
    <3>3. limit = 0 => todo' = <<>>
      BY <1>5
    <3> QED BY <1>1, <3>1, <3>2, <3>3
  <2>2. told' = <<"nothing">>
    BY DEF LimitsHold
  <2> QED BY <1>1, <2>1, <2>2 DEF LimitsHold
<1>20. CallsArePast'
  <2> DEFINE Before(id) == id[1] < turn \/ (id[1] = turn /\ id[2] < rounds + 1)
  <2>1. \A k \in Nat : Before(<<turn, rounds, k>>)
    BY <1>2
  <2>2. \A i \in DOMAIN hist : \A id \in IdsIn(hist[i]) : Before(id)
    <3> TAKE i \in DOMAIN hist
    <3> TAKE id \in IdsIn(hist[i])
    <3>1. id \in CallIds
      BY <1>2, IdsAreKnown
    <3>2. id[2] \in Nat
      BY <3>1 DEF CallIds
    <3> QED BY <1>2, <1>11, <3>2
  <2> HIDE DEF Before
  <2>3. \A i \in DOMAIN s : \A id \in IdsIn(s[i]) : Before(id)
    <3> TAKE i \in DOMAIN s
    <3>1. CASE i \in 1..Len(hist) /\ s[i] = hist[i]
      BY <1>14, <2>2, <3>1
    <3>2. CASE s[i] = m
      BY <1>3, <1>8, <2>1, <3>2
    <3>3. CASE \E k \in 1..(n - limit) : s[i] = q[k]
      BY <1>3, <1>9, <2>1, <3>3
    <3> QED BY <1>16, <3>1, <3>2, <3>3
  <2>4. \A id \in T : Before(id)
    BY <1>4, <2>1 DEF T
  <2>5. \A i \in DOMAIN stored : \A id \in IdsIn(stored[i]) : id[1] <= turn
    BY DEF CallsArePast
  <2> QED BY <1>1, <1>17, <2>3, <2>4, <2>5 DEF CallsArePast, Past, Before
<1>21. HistoriesAreSound'
  BY <1>15, <1>17 DEF HistoriesAreSound
<1>22. TurnIsBehind'
  <2>1. \A i \in DOMAIN s : i > Len(stored) => s[i].turn = turn
    <3> TAKE i \in DOMAIN s
    <3>1. CASE i \in 1..Len(hist) /\ s[i] = hist[i]
      BY <1>14, <3>1 DEF TurnIsBehind
    <3>2. CASE s[i] = m
      BY <1>7, <3>2
    <3>3. CASE \E k \in 1..(n - limit) : s[i] = q[k]
      BY <1>9, <3>3
    <3> QED BY <1>16, <3>1, <3>2, <3>3
  <2>2. ~squeezed => Len(s) > Len(stored)
    <3>1. ~squeezed => Len(hist) > Len(stored)
      BY DEF TurnIsBehind
    <3>2. Len(stored) \in Nat /\ Len(s) \in Nat
      BY <1>2, <1>15
    <3> QED BY <1>14, <1>16, <3>1, <3>2
  <2>3. pc' = "ended" => s[Len(s)] = m /\ m.calls = <<>>
    <3>1. calls = <<>> => n = 0 /\ limit = 0
      BY <1>n, <1>4
    <3> QED BY <1>1, <1>7, <1>14, <1>16, <3>1
  <2>4. /\ pc' = "ended" => /\ s[Len(s)].role = "assistant" /\ s[Len(s)].calls = <<>>
                           /\ s[Len(s)].text = gave'.text
    BY <1>7, <2>3
  <2> QED BY <1>15, <1>17, <2>1, <2>2, <2>4 DEF TurnIsBehind
<1>23. RequestIsPaired' /\ NewestIsShown'
  <2>1. ~(Len(sent') > 1) /\ pc' \in {"ended", "tools"}
    BY <1>1
  <2> QED BY <2>1 DEF RequestIsPaired, NewestIsShown
<1>24. ReplyIsOwn' /\ LastWordIsTold'
  <2>1. told' = <<"nothing">>
    BY DEF LimitsHold
  <2> QED BY <2>1, NothingTold
<1> QED BY <1>18, <1>19, <1>20, <1>21, <1>22, <1>23, <1>24

LEMMA StreamKeeps == ASSUME IInv, NEW a \in Answers, Stream(a) PROVE IInv'
<1>1. <<>> \in ToolLists
  BY TurnAssumption
<1> QED BY <1>1, ReceiveKeeps DEF Stream

LEMMA ChatKeeps == ASSUME IInv, NEW a \in Answers, Chat(a) PROVE IInv'
<1>1. a.tools \in ToolLists
  BY DEF Answers
<1> QED BY <1>1, ReceiveKeeps DEF Chat

----------------------------------------------------------------------------
(* A result enters the history                                             *)

LEMMA CollectKeeps == ASSUME IInv, NEW size \in Sizes, Collect(size) PROVE IInv'
<1> USE DEF IInv
<1> DEFINE c    == Head(todo)
           m    == Result(c, size)
           more == Append(hist, m)
           q    == <<m>>
<1>1. /\ pc = "tools" /\ finished = DOMAIN todo /\ todo # <<>>
      /\ hist' = IF c.tool = "compact" THEN Compacted(more) ELSE more
      /\ squeezed' = (squeezed \/ (c.tool = "compact" /\ Compacted(more) # more))
      /\ todo' = Tail(todo) /\ finished' = 1..(Len(todo) - 1)
      /\ pc' = IF Len(todo) = 1 THEN "round" ELSE pc
      /\ UNCHANGED <<stored, turn, rounds, attempts, sent, gave, cancelled, told>>
  BY DEF Collect, Ready
<1>2. /\ turn \in Nat /\ turn \in 0..MaxTurns /\ rounds \in Nat /\ size \in Nat \ {0}
      /\ hist \in Seq(Messages) /\ stored \in Seq(Messages) /\ todo \in Seq(Calls)
      /\ Len(todo) <= MaxCalls /\ MaxCalls \in Nat
  BY TurnAssumption DEF TypeOK
<1>3. /\ Len(todo) \in Nat \ {0} /\ DOMAIN todo = 1..Len(todo) /\ c = todo[1] /\ 1 \in DOMAIN todo
      /\ todo' \in Seq(Calls) /\ Len(todo') = Len(todo) - 1 /\ DOMAIN todo' = 1..(Len(todo) - 1)
      /\ \A i \in 1..(Len(todo) - 1) : todo'[i] = todo[i + 1] /\ i + 1 \in 1..Len(todo)
  BY <1>1, <1>2
<1>4. c.id \in CallIds /\ c.id \in TodoIds
  <2>1. c \in Calls
    BY <1>2, <1>3
  <2> QED BY <1>3, <2>1 DEF Calls, TodoIds
<1>5. /\ TodoIds' \subseteq TodoIds
      /\ \A id \in TodoIds : id \in TodoIds' \/ id = c.id
  <2>1. TodoIds' = {todo'[i].id : i \in DOMAIN todo'}
    BY DEF TodoIds
  <2>2. ASSUME NEW i \in DOMAIN todo' PROVE todo'[i].id \in TodoIds
    BY <1>3, <2>2 DEF TodoIds
  <2>3. ASSUME NEW i \in DOMAIN todo, i # 1 PROVE todo[i].id \in TodoIds'
    <3>1. i - 1 \in 1..(Len(todo) - 1) /\ (i - 1) + 1 = i
      BY <1>3, <2>3
    <3>2. todo'[i - 1] = todo[i] /\ i - 1 \in DOMAIN todo'
      BY <1>3, <3>1
    <3> QED BY <2>1, <3>2
  <2> QED BY <1>3, <2>1, <2>2, <2>3 DEF TodoIds
<1>6. /\ m \in Messages /\ m.role = "tool" /\ m.call = c.id /\ m.turn = turn
      /\ IdsIn(m) = {c.id}
  BY <1>2, <1>4, ResultFacts
<1> HIDE DEF c, m
<1>7. /\ Ordered(hist) /\ Open(hist, TodoIds)
      /\ ~squeezed => EndsInResults(hist, TodoIds) /\ Len(hist) > Len(stored)
      /\ told = <<"nothing">>
  BY <1>1 DEF HistoriesAreSound, TurnIsBehind, LimitsHold
<1>8. /\ more \in Seq(Messages) /\ more # <<>>
      /\ Len(more) = Len(hist) + 1 /\ DOMAIN more = 1..(Len(hist) + 1)
      /\ Len(hist) \in Nat /\ DOMAIN hist = 1..Len(hist) /\ more[Len(hist) + 1] = m
      /\ \A i \in 1..Len(hist) : more[i] = hist[i]
  BY SMTT(30), <1>2, <1>6, Appended
<1>9. /\ Ordered(more) /\ Open(more, TodoIds')
      /\ ~squeezed => EndsInResults(more, TodoIds')
  <2>1. q \in Seq(Messages) /\ DOMAIN q = {1} /\ q[1] = m
    BY <1>6
  <2>2. more = hist \o q
    BY <1>2, <1>6
  <2> HIDE DEF more, q
  <2>3. \A k \in DOMAIN q : q[k].role = "tool" /\ q[k].call = c.id
    BY <1>6, <2>1
  <2>4. \A id \in TodoIds : id \in TodoIds' \/ \E k \in DOMAIN q : q[k].call = id
    BY <1>5, <2>1, <2>3
  <2>5. \A k \in DOMAIN q : q[k].call \in TodoIds
    BY <1>4, <2>3
  <2> QED BY <1>2, <1>5, <1>7, <2>1, <2>2, <2>3, <2>4, <2>5, ResultsKeep
<1> HIDE DEF more
<1>10. /\ hist' \in Seq(Messages) /\ hist' # <<>> /\ Ordered(hist') /\ Open(hist', TodoIds')
       /\ Abridged(hist', more)
       /\ ~squeezed' => ~squeezed /\ hist' = more
  <2>1. CASE hist' = more
    <3>1. \A n \in DOMAIN more : n <= n
      BY <1>8
    <3>2. Abridged(more, more)
      BY <3>1 DEF Abridged
    <3> QED BY <1>1, <1>8, <1>9, <2>1, <3>2
  <2>2. CASE hist' = Compacted(more) /\ c.tool = "compact"
    <3>1. /\ Compacted(more) \in Seq(Messages) /\ Compacted(more) # <<>>
          /\ Ordered(Compacted(more)) /\ Abridged(Compacted(more), more)
          /\ Open(Compacted(more), TodoIds')
      BY <1>2, <1>8, <1>9, CompactedKeeps
    <3>2. ~squeezed' => ~squeezed /\ hist' = more
      BY <1>1, <2>2
    <3> QED BY <2>2, <3>1, <3>2
  <2> QED BY <1>1, <2>1, <2>2
<1>11. /\ \A n \in DOMAIN hist' : \A id \in IdsIn(hist'[n]) :
            \E i \in DOMAIN more : id \in IdsIn(more[i])
       /\ \A N \in Nat : (\A i \in DOMAIN more : i > N => more[i].turn = turn)
                            => \A n \in DOMAIN hist' : n > N => hist'[n].turn = turn
  BY <1>2, <1>8, <1>10, AbridgedKeeps
<1>12. \A i \in DOMAIN more : \/ i \in DOMAIN hist /\ more[i] = hist[i]
                              \/ more[i] = m
  BY <1>8
<1>13. TypeOK'
  <2>1. pc' = "tools" => todo' # <<>> /\ finished' \subseteq DOMAIN todo'
    <3>1. Len(todo) # 1 => Len(todo') # 0
      BY <1>3
    <3> QED BY <1>1, <1>3, <3>1
  <2>2. Len(todo') <= MaxCalls
    BY <1>2, <1>3
  <2>3. squeezed' \in BOOLEAN /\ pc' \in {"round", "tools"}
    BY <1>1
  <2> QED BY <1>1, <1>3, <1>10, <2>1, <2>2, <2>3 DEF TypeOK
<1>14. LimitsHold'
  <2>1. pc' # "tools" => todo' = <<>>
    <3>1. Len(todo) = 1 => Len(todo') = 0
      BY <1>3
    <3>2. Len(todo') = 0 => todo' = <<>>
      BY <1>3
    <3> QED BY <1>1, <3>1, <3>2
  <2> QED BY <1>1, <1>7, <2>1 DEF LimitsHold
<1>15. CallsArePast'
  <2>1. \A i \in DOMAIN more : \A id \in IdsIn(more[i]) : Past(id)
    BY <1>4, <1>6, <1>12 DEF CallsArePast
  <2>2. \A n \in DOMAIN hist' : \A id \in IdsIn(hist'[n]) : Past(id)
    BY <1>11, <2>1
  <2>3. \A id \in TodoIds' : Past(id)
    BY <1>5 DEF CallsArePast
  <2> QED BY <1>1, <2>2, <2>3 DEF CallsArePast, Past
<1>16. HistoriesAreSound'
  BY <1>1, <1>10 DEF HistoriesAreSound
<1>17. TurnIsBehind'
  <2>1. \A i \in DOMAIN more : i > Len(stored) => more[i].turn = turn
    BY <1>1, <1>6, <1>12 DEF TurnIsBehind
  <2>2. Len(stored) \in Nat
    BY <1>2
  <2>3. \A n \in DOMAIN hist' : n > Len(stored) => hist'[n].turn = turn
    BY <1>11, <2>1, <2>2
  <2>4. ~squeezed' => EndsInResults(hist', TodoIds') /\ Len(hist') > Len(stored)
    <3>1. ~squeezed => Len(more) > Len(stored)
      BY <1>7, <1>8, <2>2
    <3> QED BY <1>9, <1>10, <3>1
  <2>5. pc' # "ended"
    BY <1>1
  <2> QED BY <1>1, <2>3, <2>4, <2>5 DEF TurnIsBehind
<1>18. RequestIsPaired' /\ NewestIsShown'
  <2>1. pc' \notin {"stream", "attempt", "backoff"}
    BY <1>1
  <2> QED BY <1>1, <2>1 DEF RequestIsPaired, NewestIsShown, Answered, Called
<1>19. ReplyIsOwn' /\ LastWordIsTold'
  BY <1>1, <1>7, NothingTold
<1> QED BY <1>13, <1>14, <1>15, <1>16, <1>17, <1>18, <1>19

----------------------------------------------------------------------------
(* The turn is settled                                                     *)

\* turnAssistantReply looks behind first and takes the last message if that is
\* text without calls.
LEMMA ChoiceFacts ==
  ASSUME NEW h \in Seq(Messages), NEW first \in Nat \ {0}
  PROVE  /\ Choice(h, first) # 0 =>
              Choice(h, first) \in DOMAIN h /\ Choice(h, first) >= first
         /\ h # <<>> /\ Len(h) >= first /\ h[Len(h)].role = "assistant"
              /\ h[Len(h)].text # "none" /\ h[Len(h)].calls = <<>>
              => Choice(h, first) = Len(h)
<1> DEFINE N == Len(h)
           texts == Texted(h, first)
           plain == {i \in texts : h[i].text = "noReply" \/ h[i].calls = <<>>}
           Z == texts \cup {0}
<1>1. N \in Nat /\ DOMAIN h = 1..N
  OBVIOUS
<1>2. \A i \in texts : i \in 0..N /\ i \in 1..N /\ i >= first /\ i <= N
  BY <1>1 DEF Texted
<1>3. Choice(h, first) = IF plain # {} THEN Max(plain) ELSE Max(Z)
  BY DEF Choice
<1>4. plain # {} => Max(plain) \in plain /\ \A y \in plain : y <= Max(plain)
  <2>1. plain \in SUBSET (0..N)
    BY <1>2
  <2> QED BY <1>1, <2>1, MaxIsGreatest
<1>5. Max(Z) \in Z
  <2>1. \A x \in Z : x \in 0..N
    BY <1>1, <1>2
  <2>2. Z \in SUBSET (0..N) /\ Z # {}
    BY <2>1, Zenon
  <2> QED BY <1>1, <2>2, MaxIsGreatest
<1>6. ASSUME Choice(h, first) # 0 PROVE Choice(h, first) \in texts
  BY <1>3, <1>4, <1>5, <1>6
<1>7. ASSUME N # 0, N >= first, h[N].role = "assistant", h[N].text # "none", h[N].calls = <<>>
      PROVE  Choice(h, first) = N
  <2>1. N \in plain
    BY <1>1, <1>7 DEF Texted
  <2>2. Max(plain) \in plain /\ N <= Max(plain)
    BY <1>4, <2>1
  <2>3. Max(plain) \in 1..N
    BY <1>2, <2>2
  <2> HIDE DEF plain
  <2>4. Max(plain) = N
    BY <1>1, <2>2, <2>3
  <2> QED BY <1>3, <2>1, <2>4
<1> HIDE DEF texts
<1>8. h # <<>> => N # 0
  OBVIOUS
<1> QED BY <1>1, <1>2, <1>6, <1>7, <1>8

\* clearNoReplyToken touches no call.
LEMMA ClearedKeeps ==
  ASSUME NEW h \in Seq(Messages), h # <<>>, stored \in Seq(Messages)
  PROVE  /\ Cleared(h) \in Seq(Messages) /\ Cleared(h) # <<>> /\ Len(Cleared(h)) = Len(h)
         /\ DOMAIN Cleared(h) = DOMAIN h
         /\ \A i \in DOMAIN h : /\ Cleared(h)[i].role = h[i].role
                                /\ Cleared(h)[i].call = h[i].call
                                /\ Cleared(h)[i].calls = h[i].calls
<1> DEFINE tokens == {i \in (Len(stored) + 1)..Len(h) : h[i].role = "assistant" /\ h[i].text = "noReply"}
           k == Max(tokens)
           m == [h[k] EXCEPT !.text = "none"]
           s == [h EXCEPT ![k].text = "none"]
<1>1. Cleared(h) = IF tokens = {} THEN h ELSE s
  BY DEF Cleared
<1>2. /\ Len(h) \in Nat /\ DOMAIN h = 1..Len(h) /\ Len(stored) \in Nat
      /\ \A i \in DOMAIN h : h[i] \in Messages
  OBVIOUS
<1>3. CASE tokens = {}
  BY <1>1, <1>3
<1>4. CASE tokens # {}
  <2>1. k \in DOMAIN h /\ h[k].role = "assistant"
    <3>1. tokens \in SUBSET (0..Len(h))
      BY <1>2
    <3>2. k \in tokens
      BY <1>2, <1>4, <3>1, MaxIsGreatest
    <3> HIDE DEF k
    <3>3. k \in (Len(stored) + 1)..Len(h) /\ h[k].role = "assistant"
      BY <3>2
    <3> QED BY <1>2, <3>3
  <2> HIDE DEF k
  <2>2. s = [i \in DOMAIN h |-> IF i = k THEN m ELSE h[i]]
    BY <2>1
  <2>3. m \in Messages /\ m.role = h[k].role /\ m.call = h[k].call /\ m.calls = h[k].calls
    BY <1>2, <2>1 DEF Messages, Texts
  <2> HIDE DEF m
  <2>4. s \in Seq(Messages) /\ Len(s) = Len(h) /\ DOMAIN s = DOMAIN h
    <3> DEFINE f == [i \in 1..Len(h) |-> IF i = k THEN m ELSE h[i]]
    <3>1. \A i \in 1..Len(h) : f[i] \in Messages
      BY <1>2, <2>3
    <3>2. f \in Seq(Messages) /\ Len(f) = Len(h) /\ DOMAIN f = 1..Len(h)
      BY <1>2, <3>1
    <3>3. s = f
      BY <1>2, <2>2
    <3> QED BY <1>2, <3>2, <3>3
  <2>5. \A i \in DOMAIN h : s[i].role = h[i].role /\ s[i].call = h[i].call /\ s[i].calls = h[i].calls
    BY <2>2, <2>3
  <2>6. Cleared(h) = s
    BY <1>1, <1>4
  <2> HIDE DEF s
  <2> QED BY <1>2, <2>4, <2>5, <2>6
<1> QED BY <1>3, <1>4

\* What is kept of a turn can be kept.
LEMMA StoredKeeps ==
  ASSUME IInv, NEW h \in Seq(Messages), h # <<>>, Ordered(h), Open(h, {}),
         \A i \in DOMAIN h : \A id \in IdsIn(h[i]) : Past(id)
  PROVE  /\ Compacted(h) \in Seq(Messages) /\ Ordered(Compacted(h)) /\ Open(Compacted(h), {})
         /\ \A i \in DOMAIN Compacted(h) : \A id \in IdsIn(Compacted(h)[i]) : id[1] <= turn
<1>1. turn \in 0..MaxTurns /\ turn \in Nat
  BY TurnAssumption DEF IInv, TypeOK
<1> DEFINE s == Compacted(h)
<1>2. s \in Seq(Messages) /\ Ordered(s) /\ Abridged(s, h) /\ Open(s, {})
  BY <1>1, CompactedKeeps
<1> HIDE DEF s
<1>3. \A n \in DOMAIN s : \A id \in IdsIn(s[n]) : Past(id) /\ id \in CallIds
  BY <1>1, <1>2, AbridgedKeeps, IdsAreKnown
<1>4. \A n \in DOMAIN s : \A id \in IdsIn(s[n]) : id[1] <= turn
  <2> TAKE n \in DOMAIN s
  <2> TAKE id \in IdsIn(s[n])
  <2>1. id[1] \in Nat /\ Past(id)
    BY <1>3 DEF CallIds
  <2> QED BY <1>1, <2>1 DEF Past
<1> QED BY <1>2, <1>4 DEF s

\* A step that stores a history and ends the turn.
LEMMA StoringKeeps ==
  ASSUME IInv, pc \in {"ended", "failed"}, pc' = "idle",
         stored' \in Seq(Messages), Ordered(stored'), Open(stored', {}),
         \A i \in DOMAIN stored' : \A id \in IdsIn(stored'[i]) : id[1] <= turn,
         Head(told') \in {"reply", "silence", "emptyNotice", "error"}, ReplyIsOwn', LastWordIsTold',
         UNCHANGED <<hist, turn, rounds, attempts, sent, gave, todo, finished, cancelled, squeezed>>
  PROVE  IInv'
<1> USE DEF IInv
<1>1. TypeOK' /\ LimitsHold'
  BY DEF TypeOK, LimitsHold
<1>2. TodoIds' = TodoIds
  BY DEF TodoIds
<1>3. CallsArePast'
  BY <1>2 DEF CallsArePast, Past
<1>4. HistoriesAreSound' /\ TurnIsBehind'
  BY DEF HistoriesAreSound, TurnIsBehind
<1> QED BY <1>1, <1>3, <1>4, RequestKept

LEMMA SettleKeeps == ASSUME IInv, Settle PROVE IInv'
<1> USE DEF IInv
<1>1. /\ pc = "ended" /\ pc' = "idle"
      /\ \/ told' = <<"silence">> /\ stored' = Compacted(Cleared(hist)) /\ Reply # 0
            /\ hist[Reply].text = "noReply"
         \/ /\ told' = IF Reply = 0 THEN <<"emptyNotice">> ELSE <<"reply", hist[Reply]>>
            /\ stored' = Compacted(hist)
            /\ ~(Reply # 0 /\ hist[Reply].text = "noReply")
      /\ UNCHANGED <<hist, turn, rounds, attempts, sent, gave, todo, finished, cancelled, squeezed>>
  BY DEF Settle
<1>2. /\ hist \in Seq(Messages) /\ hist # <<>> /\ stored \in Seq(Messages) /\ Len(stored) \in Nat
      /\ Len(hist) \in Nat
  BY <1>1 DEF TypeOK
<1>3. Ordered(hist) /\ Open(hist, {}) /\ \A i \in DOMAIN hist : \A id \in IdsIn(hist[i]) : Past(id)
  <2>1. TodoIds = {}
    BY <1>1 DEF LimitsHold, TodoIds
  <2> QED BY <1>1, <2>1 DEF HistoriesAreSound, CallsArePast
<1>4. /\ Cleared(hist) \in Seq(Messages) /\ Cleared(hist) # <<>>
      /\ Ordered(Cleared(hist)) /\ Open(Cleared(hist), {})
      /\ \A i \in DOMAIN Cleared(hist) : \A id \in IdsIn(Cleared(hist)[i]) : Past(id)
  <2> DEFINE s == Cleared(hist)
  <2>1. /\ s \in Seq(Messages) /\ s # <<>> /\ Len(s) = Len(hist) /\ DOMAIN s = DOMAIN hist
        /\ \A i \in DOMAIN hist :
             s[i].role = hist[i].role /\ s[i].call = hist[i].call /\ s[i].calls = hist[i].calls
    BY <1>2, ClearedKeeps
  <2> HIDE DEF s
  <2>2. \A i \in DOMAIN hist : Ids(s[i]) = Ids(hist[i]) /\ IdsIn(s[i]) = IdsIn(hist[i])
    BY <2>1 DEF Ids, IdsIn
  <2>3. DOMAIN hist = 1..Len(hist)
    BY <1>2
  <2>4. Ordered(s)
    BY <1>3, <2>1, <2>2 DEF Ordered
  <2>5. Open(s, {})
    <3> SUFFICES ASSUME NEW i \in DOMAIN hist, NEW id \in Ids(hist[i])
                 PROVE  \E j \in i + 1..Len(hist) : s[j].role = "tool" /\ s[j].call = id
      BY <2>1, <2>2 DEF Open
    <3>1. PICK j \in i + 1..Len(hist) : hist[j].role = "tool" /\ hist[j].call = id
      BY <1>3 DEF Open
    <3>2. j \in DOMAIN hist
      BY <1>2, <2>3
    <3> QED BY <2>1, <3>1, <3>2
  <2> QED BY <1>3, <2>1, <2>2, <2>4, <2>5 DEF s
<1>5. /\ stored' \in Seq(Messages) /\ Ordered(stored') /\ Open(stored', {})
      /\ \A i \in DOMAIN stored' : \A id \in IdsIn(stored'[i]) : id[1] <= turn
  <2>1. CASE stored' = Compacted(hist)
    BY <1>2, <1>3, <2>1, StoredKeeps
  <2>2. CASE stored' = Compacted(Cleared(hist))
    BY <1>4, <2>2, StoredKeeps
  <2> QED BY <1>1, <2>1, <2>2
<1> DEFINE first == Len(stored) + 1
<1>6. /\ Reply # 0 => Reply \in DOMAIN hist /\ Reply > Len(stored)
      /\ Len(hist) >= first /\ hist[Len(hist)].role = "assistant"
           /\ hist[Len(hist)].text # "none" /\ hist[Len(hist)].calls = <<>>
           => Reply = Len(hist)
  <2>1. first \in Nat \ {0}
    BY <1>2
  <2>2. Reply = Choice(hist, first)
    BY DEF Reply
  <2>3. DOMAIN hist = 1..Len(hist)
    BY <1>2
  <2>4. Reply # 0 => Reply \in DOMAIN hist /\ Reply >= first
    BY <1>2, <2>1, <2>2, ChoiceFacts
  <2> QED BY <1>2, <2>1, <2>2, <2>3, <2>4, ChoiceFacts
<1>7. Reply # 0 => hist[Reply].turn = turn
  BY <1>1, <1>6 DEF TurnIsBehind
<1>8. CASE told' = <<"silence">>
  <2>1. Head(told') = "silence"
    BY <1>8
  <2>2. ReplyIsOwn' /\ LastWordIsTold'
    BY <2>1 DEF ReplyIsOwn, LastWordIsTold
  <2> QED BY <1>1, <1>5, <2>1, <2>2, StoringKeeps
<1>9. CASE told' = IF Reply = 0 THEN <<"emptyNotice">> ELSE <<"reply", hist[Reply]>>
  <2>1. gave.text = "reply" /\ ~squeezed => Reply = Len(hist) /\ Reply # 0
    <3>1. ASSUME ~squeezed PROVE Len(hist) >= first
      BY <1>1, <1>2, <3>1 DEF TurnIsBehind
    <3>2. /\ hist[Len(hist)].role = "assistant" /\ hist[Len(hist)].calls = <<>>
          /\ hist[Len(hist)].text = gave.text
      BY <1>1 DEF TurnIsBehind
    <3>3. Len(hist) # 0
      BY <1>2
    <3> QED BY <1>6, <3>1, <3>2, <3>3
  <2>2. CASE Reply = 0
    <3>1. Head(told') = "emptyNotice"
      BY <1>9, <2>2
    <3>2. ReplyIsOwn' /\ LastWordIsTold'
      BY <1>1, <2>1, <2>2, <3>1 DEF ReplyIsOwn, LastWordIsTold
    <3> QED BY <1>1, <1>5, <3>1, <3>2, StoringKeeps
  <2>3. CASE Reply # 0
    <3>1. told' = <<"reply", hist[Reply]>>
      BY <1>9, <2>3
    <3>2. Head(told') = "reply" /\ told'[2] = hist[Reply]
      BY <3>1
    <3>3. ReplyIsOwn' /\ LastWordIsTold'
      BY <1>1, <1>7, <2>1, <2>3, <3>2 DEF ReplyIsOwn, LastWordIsTold
    <3> QED BY <1>1, <1>5, <3>2, <3>3, StoringKeeps
  <2> QED BY <2>2, <2>3
<1> QED BY <1>1, <1>8, <1>9

LEMMA SettleFailedKeeps == ASSUME IInv, SettleFailed PROVE IInv'
<1> USE DEF IInv
<1>1. /\ pc = "failed" /\ pc' = "idle" /\ told' = <<"error">>
      /\ stored' = IF hist = <<>> THEN stored ELSE Compacted(hist)
      /\ UNCHANGED <<hist, turn, rounds, attempts, sent, gave, todo, finished, cancelled, squeezed>>
  BY DEF SettleFailed
<1>2. hist \in Seq(Messages) /\ stored \in Seq(Messages)
  BY DEF TypeOK
<1>3. Ordered(hist) /\ Open(hist, {}) /\ \A i \in DOMAIN hist : \A id \in IdsIn(hist[i]) : Past(id)
  <2>1. TodoIds = {}
    BY <1>1 DEF LimitsHold, TodoIds
  <2> QED BY <1>1, <2>1 DEF HistoriesAreSound, CallsArePast
<1>4. /\ stored' \in Seq(Messages) /\ Ordered(stored') /\ Open(stored', {})
      /\ \A i \in DOMAIN stored' : \A id \in IdsIn(stored'[i]) : id[1] <= turn
  <2>1. CASE hist = <<>>
    BY <1>1, <1>2, <2>1 DEF HistoriesAreSound, CallsArePast
  <2>2. CASE hist # <<>>
    BY <1>1, <1>2, <1>3, <2>2, StoredKeeps
  <2> QED BY <2>1, <2>2
<1>5. Head(told') = "error"
  BY <1>1
<1>6. ReplyIsOwn' /\ LastWordIsTold'
  BY <1>5 DEF ReplyIsOwn, LastWordIsTold
<1> QED BY <1>1, <1>4, <1>5, <1>6, StoringKeeps

----------------------------------------------------------------------------
(* The theorems                                                            *)

LEMMA NextKeeps == IInv /\ [Next]_vars => IInv'
<1> SUFFICES ASSUME IInv, [Next]_vars PROVE IInv'
  OBVIOUS
<1>1. CASE UNCHANGED vars
  <2> USE DEF IInv
  <2>1. UNCHANGED <<stored, hist, pc, turn, rounds, attempts, sent, gave, todo, finished,
                    cancelled, squeezed, told>>
    BY <1>1 DEF vars
  <2>2. TypeOK' /\ LimitsHold'
    BY <2>1 DEF TypeOK, LimitsHold
  <2> QED BY <2>1, <2>2, HistoriesKept, WordsKept, RequestKept
<1>2. CASE Model
  BY <1>2, AskKeeps, RoundLimitKeeps, StreamFailsKeeps, ChatFailsKeeps, ChatRetriableKeeps,
     RetryKeeps, StreamKeeps, ChatKeeps, Zenon DEF Model
<1>3. CASE Run
  BY <1>2, <1>3, RunToolKeeps, CollectKeeps, PanicKeeps, SettleKeeps, SettleFailedKeeps,
     AbandonKeeps, Zenon DEF Run
<1> QED BY <1>1, <1>3, CancelKeeps, DescribeFailsKeeps, BeginKeeps, Zenon DEF Next

\* The histories of a conversation: no call without its result, no result before
\* its call, and the limits kept (agent.Run with processPrompt around it).
THEOREM TurnInvariance == Spec => []IInv
<1>1. Init => IInv
  BY InitInv
<1>2. IInv /\ [Next]_vars => IInv'
  BY NextKeeps
<1> QED BY <1>1, <1>2, PTL DEF Spec

\* Every request of a turn can be answered by the model, and every history that
\* is kept can become one (trimHistoryForContext, compactHistoryForStorage and
\* the loop that runs the tools).
THEOREM RequestsStaySound == Spec => []RequestIsSound
<1>1. IInv => RequestIsSound
  <2> SUFFICES ASSUME IInv PROVE NoOpenCall
    BY DEF IInv, RequestIsSound
  <2>1. pc \in {"round", "ended"} => TodoIds = {} /\ Open(hist, TodoIds)
    BY DEF IInv, LimitsHold, HistoriesAreSound, TodoIds
  <2> QED BY <2>1 DEF IInv, HistoriesAreSound, NoOpenCall, Answered, Open
<1> QED BY <1>1, TurnInvariance, PTL

\* What is sent as the reply of a turn was written in that turn (processPrompt
\* looks for it behind the history that the turn began with).
THEOREM RepliesStayOwn == Spec => []ReplyIsOwn
<1>1. IInv => ReplyIsOwn
  BY DEF IInv
<1> QED BY <1>1, TurnInvariance, PTL

\* The text of the model's last answer is what the user is told
\* (turnAssistantReply).
THEOREM LastWordsAreTold == Spec => []LastWordIsTold
<1>1. IInv => LastWordIsTold
  BY DEF IInv
<1> QED BY <1>1, TurnInvariance, PTL
=============================================================================
