----------------------- MODULE BackgroundTasks_proofs -----------------------
(***************************************************************************)
(* Theorems about BackgroundTasks: for any workers, keys and channels, and *)
(* a queue of any capacity.                                                *)
(***************************************************************************)
EXTENDS BackgroundTasks, FiniteSetTheorems, TLAPS

\* A worker that has not been started has no context that could be done and no
\* record; one that is past its last look at the context has an end, which is
\* "canceled" only if the context was done; a cancelled worker hands nothing
\* over.
EndsAreKnown ==
  \A t \in Tasks :
    /\ pc[t] = "none" => ~canceled[t] /\ status[t] = "none"
    /\ pc[t] \in {"record", "hand", "clean", "done"} => res[t] # "none"
    /\ pc[t] = "ran" => res[t] \in {"ok", "error"}
    /\ pc[t] = "hand" => res[t] # "canceled" /\ status[t] \in {StatusOf[res[t]], "canceled"}
    /\ res[t] = "canceled" => canceled[t]

Inv == TypeOK /\ StatusIsTrue /\ EndsAreKnown

\* What an initial state has.
LEMMA InitInv == Init => Inv
BY TasksAssumption
DEF Init, Inv, TypeOK, WorkersTyped, PostTyped, HostTyped, AnyGroup, StatusIsTrue,
    EndsAreKnown, Steps, Active

\* A worker's step keeps the types.
LEMMA WorkTyped ==
  ASSUME WorkersTyped, PostTyped, EndsAreKnown, NEW t \in Tasks, Work(t)
  PROVE  WorkersTyped' /\ PostTyped' /\ UNCHANGED <<host, ends, stop>>
<1> USE TasksAssumption DEF WorkersTyped, Steps, Active
<1>1. CASE Hand(t)
  <2>1. UNCHANGED <<status, canceled, res, long, box, fired, carry, host, ends, stop>>
    BY <1>1 DEF Hand
  <2>2. WorkersTyped'
    BY <1>1, <2>1 DEF Hand, AfterHand
  <2>3. PostTyped'
    BY <1>1, <2>1 DEF Hand, PostTyped
  <2> QED BY <2>1, <2>2, <2>3
<1>2. CASE ~Hand(t)
  <2>1. UNCHANGED <<post, host, ends, stop>>
    BY <1>2
    DEF Work, Begin, CreateBox, BoxFails, RunReturns, Again, Judge, Record, Clean, CleanFails
  <2>2. PostTyped'
    BY <2>1 DEF PostTyped, post
  <2>3. CASE Begin(t)
    BY <2>1, <2>2, <2>3 DEF Begin
  <2>4. CASE CreateBox(t)
    BY <2>1, <2>2, <2>4 DEF CreateBox
  <2>5. CASE BoxFails(t)
    BY <2>1, <2>2, <2>5 DEF BoxFails
  <2>6. CASE \E r \in {"ok", "error"} : RunReturns(t, r)
    BY <2>1, <2>2, <2>6 DEF RunReturns
  <2>7. CASE Again(t)
    BY <2>1, <2>2, <2>7 DEF Again
  <2>8. CASE Judge(t)
    BY <2>1, <2>2, <2>8 DEF Judge
  <2>9. CASE Record(t)
    <3>1. pc' \in [Tasks -> Steps]
      BY <2>9 DEF Record, AfterHand
    <3>2. res[t] \in {"ok", "error", "canceled"}
      BY <2>9 DEF Record, EndsAreKnown
    <3>3. StatusOf[res[t]] \in {"completed", "failed", "canceled"}
      BY <3>2 DEF StatusOf
    <3> QED BY <2>1, <2>2, <2>9, <3>1, <3>3 DEF Record
  <2>10. CASE Clean(t)
    BY <2>1, <2>2, <2>10 DEF Clean
  <2>11. CASE CleanFails(t)
    BY <2>1, <2>2, <2>11 DEF CleanFails
  <2> QED
    BY <1>2, <2>3, <2>4, <2>5, <2>6, <2>7, <2>8, <2>9, <2>10, <2>11 DEF Work
<1> QED BY <1>1, <1>2

\* The groups of a batch are what carry holds.
LEMMA GroupsTyped ==
  ASSUME PostTyped, NEW c \in Channels, NEW by \in {"timer", "shutdown"}
  PROVE  Groups(c, by) \subseteq AnyGroup
<1> SUFFICES ASSUME NEW k \in {KeyOf[t] : t \in batch[c]}
             PROVE  [key |-> k, tasks |-> {t \in batch[c] : KeyOf[t] = k}, by |-> by]
                      \in AnyGroup
  BY DEF Groups
<1>1. PICK t \in batch[c] : k = KeyOf[t]
  OBVIOUS
<1>2. batch[c] \subseteq Tasks /\ k \in Keys
  BY <1>1, TasksAssumption DEF PostTyped
<1>3. {u \in batch[c] : KeyOf[u] = k} \in (SUBSET Tasks) \ {{}}
  BY <1>1, <1>2
<1> QED BY <1>2, <1>3 DEF AnyGroup

\* So does a step of a batch.
LEMMA BatchTyped ==
  ASSUME PostTyped, NEW c \in Channels, Fire(c) \/ TimerProcesses(c) \/ FlushOne(c)
  PROVE  PostTyped'
<1> USE DEF PostTyped
<1>1. CASE Fire(c)
  BY <1>1 DEF Fire
<1>2. CASE TimerProcesses(c)
  <2>1. carry' \subseteq AnyGroup
    BY <1>2, GroupsTyped DEF TimerProcesses, Process
  <2> QED BY <1>2, <2>1 DEF TimerProcesses, Process, Count
<1>3. CASE FlushOne(c)
  <2>1. carry' \subseteq AnyGroup
    BY <1>3, GroupsTyped DEF FlushOne, Process
  <2> QED BY <1>3, <2>1 DEF FlushOne, Process, Count
<1> QED BY <1>1, <1>2, <1>3

\* So does a handoff on its way.
LEMMA CarryTyped ==
  ASSUME TypeOK, NEW g \in carry, Deliver(g) \/ Dropped(g) PROVE TypeOK'
<1>1. g.key \in Keys /\ g.tasks \in SUBSET Tasks
  BY DEF TypeOK, PostTyped, AnyGroup
<1>2. PostTyped' /\ WorkersTyped'
  BY DEF Deliver, Dropped, TypeOK, PostTyped, WorkersTyped, worker
<1>3. CASE Deliver(g)
  <2>1. HostTyped'
    BY <1>1, <1>3, TasksAssumption DEF Deliver, TypeOK, HostTyped
  <2> QED BY <1>2, <1>3, <2>1 DEF Deliver, TypeOK, ends, stop
<1>4. CASE Dropped(g)
  BY <1>1, <1>2, <1>4 DEF Dropped, TypeOK, HostTyped, host, stop
<1> QED BY <1>3, <1>4

\* What prompts tell of are workers.
LEMMA ToldTyped == ASSUME NEW s \in Seq(SUBSET Tasks) PROVE Told(s) \subseteq Tasks
BY DEF Told

\* So does a session.
LEMMA SessionTyped ==
  ASSUME TypeOK, NEW k \in Keys, Open(k) \/ Close(k) \/ Enter(k) \/ Take(k) \/ Discard(k)
  PROVE  TypeOK'
<1>1. Told(queue[k]) \subseteq Tasks
  BY ToldTyped DEF TypeOK, HostTyped
<1>2. PostTyped'
  BY DEF Open, Close, Enter, Take, Discard, TypeOK, PostTyped, post
<1>3. CASE Open(k) \/ Close(k)
  <2>1. WorkersTyped'
    BY <1>3 DEF Open, Close, EndSession, TypeOK, WorkersTyped
  <2>2. HostTyped'
    <3>1. <<>> \in Seq(SUBSET Tasks) /\ Len(<<>>) <= QueueCap
      BY TasksAssumption
    <3>2. queue' = [queue EXCEPT ![k] = <<>>]
      BY <1>3 DEF Open, Close, EndSession
    <3>3. session' \in [Keys -> {"none", "live", "ended"}]
      BY <1>3 DEF Open, Close, TypeOK, HostTyped
    <3> QED BY <3>1, <3>2, <3>3 DEF TypeOK, HostTyped
  <2> QED BY <1>1, <1>2, <1>3, <2>1, <2>2 DEF Open, Close, EndSession, TypeOK, stop
<1>4. CASE Enter(k) \/ Take(k) \/ Discard(k)
  <2>1. WorkersTyped'
    BY <1>4 DEF Enter, Take, Discard, TypeOK, WorkersTyped, worker
  <2>2. CASE Enter(k)
    BY <1>2, <2>1, <2>2, TasksAssumption DEF Enter, TypeOK, HostTyped, ends, stop
  <2>3. CASE Take(k)
    <3>1. Head(queue[k]) \in SUBSET Tasks /\ Tail(queue[k]) \in Seq(SUBSET Tasks)
          /\ Len(Tail(queue[k])) <= QueueCap
      BY <2>3, TasksAssumption DEF Take, TypeOK, HostTyped
    <3> QED BY <1>2, <2>1, <2>3, <3>1 DEF Take, TypeOK, HostTyped, stop
  <2>4. CASE Discard(k)
    BY <1>1, <1>2, <2>1, <2>4, TasksAssumption DEF Discard, TypeOK, HostTyped, stop
  <2> QED BY <1>4, <2>2, <2>3, <2>4
<1> QED BY <1>3, <1>4

\* So does everything else.
LEMMA TypeStep == ASSUME TypeOK, EndsAreKnown, [Next]_vars PROVE TypeOK'
<1> USE TasksAssumption
<1>1. CASE \E t \in Tasks : Work(t)
  BY <1>1, WorkTyped DEF TypeOK, HostTyped, host, ends, stop
<1>2. CASE \E t \in Tasks : Elapse(t)
  BY <1>2 DEF Elapse, TypeOK, WorkersTyped, PostTyped, HostTyped, post, host, ends, stop
<1>3. CASE \E t \in Tasks : Cancel(t)
  BY <1>3 DEF Cancel, TypeOK, WorkersTyped, PostTyped, HostTyped, post, host, ends, stop
<1>4. CASE \E t \in Tasks, late \in BOOLEAN : Start(t, late)
  BY <1>4
  DEF Start, TypeOK, WorkersTyped, PostTyped, HostTyped, post, host, ends, stop, Steps, Active
<1>5. CASE \E c \in Channels : Fire(c) \/ TimerProcesses(c) \/ FlushOne(c)
  <2>1. PostTyped'
    BY <1>5, BatchTyped DEF TypeOK
  <2> QED
    BY <1>5, <2>1
    DEF Fire, TimerProcesses, FlushOne, TypeOK, WorkersTyped, HostTyped, worker, host, ends, stop
<1>6. CASE \E g \in carry : Deliver(g) \/ Dropped(g)
  BY <1>6, CarryTyped
<1>7. CASE \E k \in Keys : Open(k) \/ Close(k) \/ Enter(k) \/ Take(k) \/ Discard(k)
  BY <1>7, SessionTyped
<1>8. CASE Signal \/ BeginFlush \/ Exit
  BY <1>8
  DEF Signal, BeginFlush, Exit, TypeOK, WorkersTyped, PostTyped, HostTyped,
      worker, post, host, ends, stop
<1>9. CASE CancelAll
  <2>1. UNION {Told(queue[k]) : k \in Keys} \subseteq Tasks
    BY ToldTyped DEF TypeOK, HostTyped
  <2> QED
    BY <1>9, <2>1 DEF CancelAll, TypeOK, WorkersTyped, PostTyped, HostTyped, worker, post
<1>10. CASE UNCHANGED vars
  BY <1>10
  DEF vars, TypeOK, WorkersTyped, PostTyped, HostTyped, worker, post, host, ends, stop
<1> QED BY <1>1, <1>2, <1>3, <1>4, <1>5, <1>6, <1>7, <1>8, <1>9, <1>10 DEF Next

\* The record and the end of a worker, step by step.
LEMMA RecordStep ==
  ASSUME Inv, [Next]_vars PROVE StatusIsTrue' /\ EndsAreKnown'
<1> USE DEF Inv, StatusIsTrue, EndsAreKnown
<1>1. CASE \E t \in Tasks : Work(t)
  <2> PICK t \in Tasks : Work(t)
    BY <1>1
  <2>1. CASE Begin(t)
    BY <2>1 DEF Begin, TypeOK, WorkersTyped
  <2>2. CASE CreateBox(t)
    BY <2>2 DEF CreateBox, TypeOK, WorkersTyped
  <2>3. CASE BoxFails(t)
    BY <2>3 DEF BoxFails, TypeOK, WorkersTyped, StatusOf
  <2>4. CASE \E r \in {"ok", "error"} : RunReturns(t, r)
    BY <2>4 DEF RunReturns, TypeOK, WorkersTyped
  <2>5. CASE Again(t)
    BY <2>5 DEF Again, TypeOK, WorkersTyped
  <2>6. CASE Judge(t)
    BY <2>6 DEF Judge, TypeOK, WorkersTyped
  <2>7. CASE Record(t)
    BY <2>7 DEF Record, AfterHand, TypeOK, WorkersTyped, StatusOf
  <2>8. CASE Hand(t)
    BY <2>8 DEF Hand, AfterHand, TypeOK, WorkersTyped
  <2>9. CASE Clean(t) \/ CleanFails(t)
    BY <2>9 DEF Clean, CleanFails, TypeOK, WorkersTyped
  <2> QED BY <2>1, <2>2, <2>3, <2>4, <2>5, <2>6, <2>7, <2>8, <2>9 DEF Work
<1>2. CASE \E t \in Tasks : Cancel(t)
  <2> PICK t \in Tasks : Cancel(t)
    BY <1>2
  <2>1. /\ pc[t] # "none" /\ UNCHANGED <<pc, res>>
        /\ canceled' = [canceled EXCEPT ![t] = @ \/ pc[t] \in Active]
        /\ status' = [status EXCEPT ![t] = "canceled"]
    BY DEF Cancel
  <2>2. pc[t] \in Active \cup {"hand", "clean", "done"}
    BY <2>1 DEF TypeOK, WorkersTyped, Steps
  <2>3. \A u \in Tasks : canceled[u] => canceled'[u]
    BY <2>1 DEF TypeOK, WorkersTyped
  <2>4. canceled'[t] \/ pc[t] \in {"hand", "clean", "done"}
    BY <2>1, <2>2 DEF TypeOK, WorkersTyped
  <2>5. \A u \in Tasks : u # t => canceled'[u] = canceled[u] /\ status'[u] = status[u]
    BY <2>1 DEF TypeOK, WorkersTyped
  <2>6. status'[t] = "canceled"
    BY <2>1 DEF TypeOK, WorkersTyped
  <2> QED BY <2>1, <2>2, <2>3, <2>4, <2>5, <2>6
<1>3. CASE \E t \in Tasks, late \in BOOLEAN : Start(t, late)
  BY <1>3 DEF Start, TypeOK, WorkersTyped
<1>4. CASE \E k \in Keys : Open(k) \/ Close(k)
  BY <1>4 DEF Open, Close, EndSession, TypeOK, WorkersTyped
<1>5. CASE Signal
  BY <1>5 DEF Signal, TypeOK, WorkersTyped
<1>6. CASE UNCHANGED <<pc, status, canceled, res>>
  BY <1>6
<1>7. ASSUME NEW t \in Tasks, Elapse(t) PROVE UNCHANGED <<pc, status, canceled, res>>
  BY <1>7 DEF Elapse
<1>8. ASSUME NEW c \in Channels, Fire(c) \/ TimerProcesses(c) \/ FlushOne(c)
      PROVE  UNCHANGED <<pc, status, canceled, res>>
  BY <1>8 DEF Fire, TimerProcesses, FlushOne, worker
<1>9. ASSUME NEW g \in carry, Deliver(g) \/ Dropped(g)
      PROVE  UNCHANGED <<pc, status, canceled, res>>
  BY <1>9 DEF Deliver, Dropped, worker
<1>10. ASSUME NEW k \in Keys, Enter(k) \/ Take(k) \/ Discard(k)
       PROVE  UNCHANGED <<pc, status, canceled, res>>
  BY <1>10 DEF Enter, Take, Discard, worker
<1>11. ASSUME BeginFlush \/ CancelAll \/ Exit PROVE UNCHANGED <<pc, status, canceled, res>>
  BY <1>11 DEF BeginFlush, CancelAll, Exit, worker
<1>12. ASSUME UNCHANGED vars PROVE UNCHANGED <<pc, status, canceled, res>>
  BY <1>12 DEF vars, worker
<1> QED
  BY <1>1, <1>2, <1>3, <1>4, <1>5, <1>6, <1>7, <1>8, <1>9, <1>10, <1>11, <1>12 DEF Next

\* Inv is inductive.
LEMMA InvStep == Inv /\ [Next]_vars => Inv'
BY TypeStep, RecordStep DEF Inv

LEMMA InvHolds == Spec => []Inv
BY InitInv, InvStep, PTL DEF Spec

\* startBackgroundTask, the batches and the queues keep their types.
THEOREM BackgroundTyped == Spec => []TypeOK
<1>1. Inv => TypeOK
  BY DEF Inv
<1> QED BY InvHolds, <1>1, PTL

\* What get_background_task shows agrees with what the worker came to.
THEOREM RecordsAreTrue == Spec => []StatusIsTrue
<1>1. Inv => StatusIsTrue
  BY DEF Inv
<1> QED BY InvHolds, <1>1, PTL

\* One step of a worker whose context is done.
LEMMA DoomedStep ==
  ASSUME Inv, [Next]_vars, NEW t \in Tasks, Doomed(t)
  PROVE  \/ Doomed(t)'
         \/ pc'[t] = "record" /\ res'[t] = "canceled"
         \/ pc'[t] = "hand" /\ res'[t] = "error"
<1> USE DEF Doomed, Active, Inv, TypeOK, WorkersTyped
<1>1. CASE Work(t)
  BY <1>1
  DEF Work, Begin, CreateBox, BoxFails, RunReturns, Again, Judge, Record, Hand, Clean, CleanFails
<1>2. CASE \E u \in Tasks : u # t /\ Work(u)
  BY <1>2
  DEF Work, Begin, CreateBox, BoxFails, RunReturns, Again, Judge, Record, Hand, Clean, CleanFails
<1>3. CASE \E u \in Tasks : Elapse(u) \/ Cancel(u) \/ \E late \in BOOLEAN : Start(u, late)
  BY <1>3 DEF Elapse, Cancel, Start
<1>4. CASE \E c \in Channels : Fire(c) \/ TimerProcesses(c) \/ FlushOne(c)
  BY <1>4 DEF Fire, TimerProcesses, FlushOne, worker
<1>5. CASE \E g \in carry : Deliver(g) \/ Dropped(g)
  BY <1>5 DEF Deliver, Dropped, worker
<1>6. CASE \E k \in Keys : Open(k) \/ Close(k)
  BY <1>6 DEF Open, Close, EndSession
<1>7. CASE \E k \in Keys : Enter(k) \/ Take(k) \/ Discard(k)
  BY <1>7 DEF Enter, Take, Discard, worker
<1>8. CASE Signal \/ BeginFlush \/ CancelAll \/ Exit
  BY <1>8 DEF Signal, BeginFlush, CancelAll, Exit, worker
<1>9. CASE UNCHANGED vars
  BY <1>9 DEF vars, worker
<1> QED BY <1>1, <1>2, <1>3, <1>4, <1>5, <1>6, <1>7, <1>8, <1>9 DEF Next

\* cancel_background_task, /new, /stop and the shutdown: whom they reach before
\* the last look at the context never hands over a result.
THEOREM CancelledStaysCancelled == Spec => CancelledNeverFinishes
<1>1. Inv /\ [Next]_vars =>
        [\A t \in Tasks : Doomed(t) =>
           \/ Doomed(t)'
           \/ pc'[t] = "record" /\ res'[t] = "canceled"
           \/ pc'[t] = "hand" /\ res'[t] = "error"]_vars
  BY DoomedStep
<1> QED BY InvHolds, <1>1, PTL DEF Spec, CancelledNeverFinishes

----------------------------------------------------------------------------
(* Where the handoffs are                                                  *)

\* The places a handoff can be in.
InBatch(t)  == \E c \in Channels : t \in batch[c]
OnItsWay(t) == \E g \in carry : t \in g.tasks
Queued(t)   == \E k \in Keys : t \in Told(queue[k])

\* What belongs where: a batch holds workers of its channel, a group and a
\* prompt workers of its key, and no two of them hold the same.
KeptApart ==
  /\ \A c \in Channels : \A t \in batch[c] : ChannelOf[KeyOf[t]] = c
  /\ \A g \in carry : \A t \in g.tasks : KeyOf[t] = g.key
  /\ \A g, h \in carry : \A t \in Tasks : t \in g.tasks /\ t \in h.tasks => g = h
  /\ \A k \in Keys : \A i \in 1..Len(queue[k]) : \A t \in queue[k][i] : KeyOf[t] = k
  /\ \A k \in Keys : \A i, j \in 1..Len(queue[k]) :
       \A t \in Tasks : t \in queue[k][i] /\ t \in queue[k][j] => i = j

\* A worker that is not handed over is nowhere; one that is, is in one place.
OnePlace(h, b, c, q, r, l) ==
  /\ h <=> (b \/ c \/ q \/ r \/ l)
  /\ b => ~c /\ ~q /\ ~r /\ ~l
  /\ c => ~q /\ ~r /\ ~l
  /\ q => ~r /\ ~l
  /\ r => ~l

InItsPlace(t) ==
  OnePlace(HandedOver(t), InBatch(t), OnItsWay(t), Queued(t), t \in received, t \in lost)

EachInOnePlace == \A t \in Tasks : InItsPlace(t)

Apart == KeptApart /\ EachInOnePlace

\* No worker has been handed over at first.
LEMMA InitApart == Init => Apart
BY DEF Init, Apart, KeptApart, EachInOnePlace, InItsPlace, OnePlace, HandedOver, InBatch, OnItsWay, Queued, Told

\* A step that leaves the batches, the groups and the queues alone, and does not
\* bring a worker to the point where it is handed over.
LEMMA ApartKept ==
  ASSUME Apart, UNCHANGED <<batch, carry, queue, ends>>,
         \A t \in Tasks : HandedOver(t)' <=> HandedOver(t)
  PROVE  Apart'
<1>1. KeptApart'
  BY DEF Apart, KeptApart
<1>2. ASSUME NEW t \in Tasks
      PROVE  /\ InBatch(t)' <=> InBatch(t) 
             /\ OnItsWay(t)' <=> OnItsWay(t)
             /\ Queued(t)' <=> Queued(t)
             /\ (t \in received)' <=> t \in received
             /\ (t \in lost)' <=> t \in lost
  BY DEF InBatch, OnItsWay, Queued, Told, ends
<1>3. EachInOnePlace'
  BY <1>2 DEF Apart, EachInOnePlace, InItsPlace, OnePlace
<1> QED BY <1>1, <1>3 DEF Apart

\* What a worker does before it hands over, and what is done to it.
LEMMA WorkKeepsApart ==
  ASSUME Inv, Apart, NEW t \in Tasks,
         \/ Work(t) /\ ~Hand(t)
         \/ Elapse(t) \/ Cancel(t) \/ \E late \in BOOLEAN : Start(t, late)
  PROVE  Apart'
<1>1. UNCHANGED <<batch, carry, queue, ends>>
  BY DEF Work, Begin, CreateBox, BoxFails, RunReturns, Again, Judge, Record, Clean, CleanFails,
         Elapse, Cancel, Start, post, host
<1>2. ASSUME NEW u \in Tasks PROVE HandedOver(u)' <=> HandedOver(u)
  <2> USE DEF HandedOver, Inv, TypeOK, WorkersTyped
  <2>1. CASE Begin(t) \/ CreateBox(t) \/ BoxFails(t)
    BY <2>1 DEF Begin, CreateBox, BoxFails
  <2>2. CASE \E r \in {"ok", "error"} : RunReturns(t, r)
    BY <2>2 DEF RunReturns
  <2>3. CASE Again(t) \/ Judge(t)
    BY <2>3 DEF Again, Judge
  <2>4. CASE Record(t)
    BY <2>4 DEF Record, AfterHand
  <2>5. CASE Clean(t) \/ CleanFails(t)
    BY <2>5 DEF Clean, CleanFails
  <2>6. CASE Elapse(t) \/ Cancel(t) \/ \E late \in BOOLEAN : Start(t, late)
    BY <2>6 DEF Elapse, Cancel, Start
  <2> QED BY <2>1, <2>2, <2>3, <2>4, <2>5, <2>6 DEF Work
<1> QED BY <1>1, <1>2, ApartKept

\* The handoff of a worker joins the batch of its channel.
LEMMA HandKeepsApart ==
  ASSUME Inv, Apart, NEW t \in Tasks, Hand(t) PROVE Apart'
<1> DEFINE c == ChannelOf[KeyOf[t]]
<1>0. c \in Channels
  BY TasksAssumption
<1>1. /\ batch' = [batch EXCEPT ![c] = @ \cup {t}] /\ pc[t] = "hand"
      /\ pc' = [pc EXCEPT ![t] = AfterHand(t)] /\ UNCHANGED <<res, carry, queue, received, lost>>
  BY DEF Hand, host, ends
<1>2. ~HandedOver(t) /\ res[t] \in {"ok", "error"} /\ AfterHand(t) \in {"clean", "done"}
  BY <1>1 DEF HandedOver, Inv, TypeOK, WorkersTyped, EndsAreKnown, AfterHand
<1>3. HandedOver(t)' /\ \A u \in Tasks : u # t => (HandedOver(u)' <=> HandedOver(u))
  BY <1>1, <1>2 DEF HandedOver, Inv, TypeOK, WorkersTyped
<1>4. batch'[c] = batch[c] \cup {t} /\ \A d \in Channels : d # c => batch'[d] = batch[d]
  BY <1>0, <1>1 DEF Inv, TypeOK, PostTyped
<1>5. KeptApart'
  <2>1. \A d \in Channels : \A u \in batch'[d] : ChannelOf[KeyOf[u]] = d
    BY <1>4 DEF Apart, KeptApart
  <2> QED BY <1>1, <2>1 DEF Apart, KeptApart
<1>6. ASSUME NEW u \in Tasks
      PROVE  InItsPlace(u)'
  <2>1. /\ OnItsWay(u)' <=> OnItsWay(u)
        /\ Queued(u)' <=> Queued(u)
        /\ InBatch(u)' <=> (InBatch(u) \/ u = t)
    BY <1>0, <1>1, <1>4 DEF InBatch, OnItsWay, Queued, Told
  <2>2. InItsPlace(u)
    BY DEF Apart, EachInOnePlace
  <2> QED BY <1>1, <1>2, <1>3, <2>1, <2>2 DEF InItsPlace, OnePlace
<1>7. EachInOnePlace'
  BY <1>6 DEF EachInOnePlace
<1> QED BY <1>5, <1>7 DEF Apart

\* What waits in a batch goes on its way, one group for each session.
LEMMA ProcessKeepsApart ==
  ASSUME Inv, Apart, NEW c \in Channels, NEW by \in {"timer", "shutdown"}, Process(c, by),
         UNCHANGED <<pc, res, queue, received, lost>>
  PROVE  Apart'
<1>1. carry' = carry \cup Groups(c, by) /\ batch' = [batch EXCEPT ![c] = {}]
  BY DEF Process
<1>2. batch'[c] = {} /\ \A d \in Channels : d # c => batch'[d] = batch[d]
  BY <1>1 DEF Inv, TypeOK, PostTyped
<1>3. \A g \in Groups(c, by) :
        /\ g.by = by /\ g.tasks \subseteq batch[c]
        /\ \A t \in g.tasks :
             /\ KeyOf[t] = g.key
             /\ g = [key |-> KeyOf[t], tasks |-> {u \in batch[c] : KeyOf[u] = KeyOf[t]}, by |-> by]
  BY DEF Groups
<1>4. \A t \in batch[c] : t \in Tasks /\ \E g \in Groups(c, by) : t \in g.tasks
  <2> TAKE t \in batch[c]
  <2> DEFINE g == [key |-> KeyOf[t], tasks |-> {u \in batch[c] : KeyOf[u] = KeyOf[t]}, by |-> by]
  <2>1. g \in Groups(c, by) /\ t \in g.tasks
    BY DEF Groups
  <2> QED BY <2>1 DEF Inv, TypeOK, PostTyped
<1>5. \A t \in Tasks : t \in batch[c] => ~OnItsWay(t)
  BY DEF Apart, EachInOnePlace, InItsPlace, OnePlace, InBatch
<1>6. KeptApart'
  <2>1. \A d \in Channels : \A t \in batch'[d] : ChannelOf[KeyOf[t]] = d
    BY <1>2 DEF Apart, KeptApart
  <2>2. \A g \in carry' : \A t \in g.tasks : KeyOf[t] = g.key
    BY <1>1, <1>3 DEF Apart, KeptApart
  <2>3. ASSUME NEW g \in carry', NEW h \in carry', NEW t \in Tasks, t \in g.tasks, t \in h.tasks
        PROVE  g = h
    <3>1. CASE t \in batch[c]
      <4>1. g \in Groups(c, by) /\ h \in Groups(c, by)
        BY <1>1, <1>5, <2>3, <3>1 DEF OnItsWay
      <4> QED BY <1>3, <2>3, <4>1
    <3>2. CASE t \notin batch[c]
      BY <1>1, <1>3, <2>3, <3>2 DEF Apart, KeptApart
    <3> QED BY <3>1, <3>2
  <2> QED BY <2>1, <2>2, <2>3 DEF Apart, KeptApart
<1>7. ASSUME NEW t \in Tasks
      PROVE  InItsPlace(t)'
  <2>1. (HandedOver(t)' <=> HandedOver(t)) /\ (Queued(t)' <=> Queued(t))
    BY DEF HandedOver, Queued, Told
  <2>2. OnItsWay(t)' <=> OnItsWay(t) \/ t \in batch[c]
    BY <1>1, <1>3, <1>4 DEF OnItsWay
  <2>3. InBatch(t)' <=> InBatch(t) /\ t \notin batch[c]
    BY <1>2 DEF InBatch, Apart, KeptApart
  <2>4. InItsPlace(t)
    BY DEF Apart, EachInOnePlace
  <2>5. t \in batch[c] => InBatch(t)
    BY DEF InBatch
  <2> QED BY <2>1, <2>2, <2>3, <2>4, <2>5 DEF InItsPlace, OnePlace
<1>8. EachInOnePlace'
  BY <1>7 DEF EachInOnePlace
<1> QED BY <1>6, <1>8 DEF Apart

\* A group leaves carry: what it holds is then neither on its way nor anywhere.
LEMMA GroupLeaves ==
  ASSUME Inv, Apart, NEW g \in carry, carry' = carry \ {g}, NEW t \in Tasks
  PROVE  /\ OnItsWay(t)' <=> OnItsWay(t) /\ t \notin g.tasks
         /\ t \in g.tasks => OnItsWay(t) /\ HandedOver(t)
<1>1. OnItsWay(t)' <=> OnItsWay(t) /\ t \notin g.tasks
  BY DEF OnItsWay, Apart, KeptApart
<1>2. t \in g.tasks => OnItsWay(t)
  BY DEF OnItsWay
<1>3. InItsPlace(t)
  BY DEF Apart, EachInOnePlace
<1> QED BY <1>1, <1>2, <1>3 DEF InItsPlace, OnePlace

\* A group enters the queue of its session.
LEMMA DeliverKeepsApart ==
  ASSUME Inv, Apart, NEW g \in carry, Deliver(g) PROVE Apart'
<1>1. /\ carry' = carry \ {g} /\ queue' = [queue EXCEPT ![g.key] = Append(@, g.tasks)]
      /\ UNCHANGED <<pc, res, batch, received, lost>>
  BY DEF Deliver, worker, ends
<1>2. g.key \in Keys /\ g.tasks \subseteq Tasks
  BY DEF Inv, TypeOK, PostTyped, AnyGroup
<1>3. queue \in [Keys -> Seq(SUBSET Tasks)]
  BY DEF Inv, TypeOK, HostTyped
<1> DEFINE q == queue[g.key]
<1>4. /\ queue'[g.key] = Append(q, g.tasks)
      /\ \A k \in Keys : k # g.key => queue'[k] = queue[k]
  BY <1>1, <1>2, <1>3
<1>5. /\ Len(Append(q, g.tasks)) = Len(q) + 1 /\ Len(q) \in Nat
      /\ \A i \in 1..Len(q) : Append(q, g.tasks)[i] = q[i]
      /\ Append(q, g.tasks)[Len(q) + 1] = g.tasks
      /\ DOMAIN Append(q, g.tasks) = 1..(Len(q) + 1)
      /\ DOMAIN q = 1..Len(q)
  BY <1>2, <1>3
<1>6. Told(queue'[g.key]) = Told(q) \cup g.tasks
  <2>1. Told(queue'[g.key]) = UNION {Append(q, g.tasks)[i] : i \in 1..(Len(q) + 1)}
    BY <1>4, <1>5 DEF Told
  <2>2. 1..(Len(q) + 1) = (1..Len(q)) \cup {Len(q) + 1}
    BY <1>5
  <2>3. Told(q) = UNION {Append(q, g.tasks)[i] : i \in 1..Len(q)}
    BY <1>5 DEF Told
  <2> QED BY <1>5, <2>1, <2>2, <2>3
<1>7. \A t \in g.tasks : ~Queued(t) /\ KeyOf[t] = g.key
  <2> TAKE t \in g.tasks
  <2>1. t \in Tasks /\ OnItsWay(t)
    BY <1>2 DEF OnItsWay
  <2> QED BY <2>1 DEF Apart, KeptApart, EachInOnePlace, InItsPlace, OnePlace
<1>8. \A t \in g.tasks : \A i \in 1..Len(q) : t \notin q[i]
  BY <1>2, <1>5, <1>7 DEF Queued, Told
<1>9. KeptApart'
  <2>1. \A k \in Keys : \A i \in 1..Len(queue'[k]) : \A t \in queue'[k][i] : KeyOf[t] = k
    <3> TAKE k \in Keys
    <3>1. CASE k # g.key
      BY <1>4, <3>1 DEF Apart, KeptApart
    <3>2. CASE k = g.key
      <4> TAKE i \in 1..Len(queue'[k])
      <4>1. i \in 1..Len(q) \/ i = Len(q) + 1
        BY <1>4, <1>5, <3>2
      <4>2. CASE i \in 1..Len(q)
        BY SMTT(30), <1>2, <1>4, <1>5, <3>2, <4>2 DEF Apart, KeptApart
      <4>3. CASE i = Len(q) + 1
        BY <1>4, <1>5, <1>7, <3>2, <4>3
      <4> QED BY <4>1, <4>2, <4>3
    <3> QED BY <3>1, <3>2
  <2>2. ASSUME NEW k \in Keys, NEW i \in 1..Len(queue'[k]), NEW j \in 1..Len(queue'[k]),
               NEW t \in Tasks,
               t \in queue'[k][i], t \in queue'[k][j]
        PROVE  i = j
    <3>1. CASE k # g.key
      BY <1>4, <2>2, <3>1 DEF Apart, KeptApart
    <3>2. CASE k = g.key
      <4>1. (i \in 1..Len(q) \/ i = Len(q) + 1) /\ (j \in 1..Len(q) \/ j = Len(q) + 1)
        BY <1>4, <1>5, <3>2
      <4>2. CASE i \in 1..Len(q) /\ j \in 1..Len(q)
        BY ZenonT(60), <1>2, <1>4, <1>5, <2>2, <3>2, <4>2 DEF Apart, KeptApart
      <4>3. CASE i = Len(q) + 1 /\ j \in 1..Len(q)
        BY <1>4, <1>5, <1>8, <2>2, <3>2, <4>3
      <4>4. CASE j = Len(q) + 1 /\ i \in 1..Len(q)
        BY <1>4, <1>5, <1>8, <2>2, <3>2, <4>4
      <4> QED BY <4>1, <4>2, <4>3, <4>4
    <3> QED BY <3>1, <3>2
  <2>3. carry' \subseteq carry /\ batch' = batch
    BY <1>1
  <2> QED BY <2>1, <2>2, <2>3 DEF Apart, KeptApart
<1>10. ASSUME NEW t \in Tasks
       PROVE  InItsPlace(t)'
  <2>1. (HandedOver(t)' <=> HandedOver(t)) /\ (InBatch(t)' <=> InBatch(t))
    BY <1>1 DEF HandedOver, InBatch
  <2>2. Queued(t)' <=> Queued(t) \/ t \in g.tasks
    BY <1>2, <1>4, <1>6 DEF Queued
  <2>3. /\ OnItsWay(t)' <=> OnItsWay(t) /\ t \notin g.tasks
        /\ t \in g.tasks => OnItsWay(t) /\ HandedOver(t)
    BY <1>1, GroupLeaves
  <2>4. InItsPlace(t)
    BY DEF Apart, EachInOnePlace
  <2> QED BY <1>1, <2>1, <2>2, <2>3, <2>4 DEF InItsPlace, OnePlace
<1>11. EachInOnePlace'
  BY <1>10 DEF EachInOnePlace
<1> QED BY <1>9, <1>11 DEF Apart

\* A group is dropped.
LEMMA DroppedKeepsApart ==
  ASSUME Inv, Apart, NEW g \in carry, Dropped(g) PROVE Apart'
<1>1. /\ carry' = carry \ {g} /\ lost' = lost \cup g.tasks
      /\ UNCHANGED <<pc, res, batch, queue, received>>
  BY DEF Dropped, worker, host
<1>2. KeptApart'
  <2>1. carry' \subseteq carry
    BY <1>1
  <2> QED BY <1>1, <2>1 DEF Apart, KeptApart
<1>3. ASSUME NEW t \in Tasks
      PROVE  InItsPlace(t)'
  <2>1. /\ HandedOver(t)' <=> HandedOver(t)
        /\ InBatch(t)' <=> InBatch(t)
        /\ Queued(t)' <=> Queued(t)
    BY <1>1 DEF HandedOver, InBatch, Queued, Told
  <2>2. /\ OnItsWay(t)' <=> OnItsWay(t) /\ t \notin g.tasks
        /\ t \in g.tasks => OnItsWay(t) /\ HandedOver(t)
    BY <1>1, GroupLeaves
  <2>3. InItsPlace(t)
    BY DEF Apart, EachInOnePlace
  <2> QED BY <1>1, <2>1, <2>2, <2>3 DEF InItsPlace, OnePlace
<1>4. EachInOnePlace'
  BY <1>3 DEF EachInOnePlace
<1> QED BY <1>2, <1>4 DEF Apart

\* The queues of some keys are given up.
LEMMA QueuesEmptied ==
  ASSUME Inv, Apart, NEW S \in SUBSET Keys,
         queue' = [k \in Keys |-> IF k \in S THEN <<>> ELSE queue[k]],
         lost' = lost \cup UNION {Told(queue[k]) : k \in S},
         UNCHANGED <<pc, res, batch, carry, received>>
  PROVE  Apart'
<1>1. \A k \in Keys : queue'[k] = IF k \in S THEN <<>> ELSE queue[k]
  OBVIOUS
<1>2. Len(<<>>) = 0 /\ Told(<<>>) = {} /\ 1..0 = {}
  BY DEF Told
<1>3. KeptApart'
  <2>1. \A k \in Keys : \A i \in 1..Len(queue'[k]) : \A t \in queue'[k][i] : KeyOf[t] = k
    BY <1>1, <1>2 DEF Apart, KeptApart
  <2>2. \A k \in Keys : \A i, j \in 1..Len(queue'[k]) :
          \A t \in Tasks : t \in queue'[k][i] /\ t \in queue'[k][j] => i = j
    BY <1>1, <1>2 DEF Apart, KeptApart
  <2> QED BY <2>1, <2>2 DEF Apart, KeptApart
<1>4. ASSUME NEW t \in Tasks
      PROVE  InItsPlace(t)'
  <2>1. /\ HandedOver(t)' <=> HandedOver(t)
        /\ InBatch(t)' <=> InBatch(t)
        /\ OnItsWay(t)' <=> OnItsWay(t)
    BY DEF HandedOver, InBatch, OnItsWay
  <2>2. \A k \in Keys : t \in Told(queue[k]) => k = KeyOf[t]
    <3> SUFFICES ASSUME NEW k \in Keys, t \in Told(queue[k]) PROVE k = KeyOf[t]
      OBVIOUS
    <3>1. PICK i \in 1..Len(queue[k]) : t \in queue[k][i]
      BY DEF Told, Inv, TypeOK, HostTyped
    <3> QED BY <3>1 DEF Apart, KeptApart
  <2>3. Queued(t)' <=> \E k \in Keys \ S : t \in Told(queue[k])
    BY <1>1, <1>2 DEF Queued
  <2>4. t \in UNION {Told(queue[k]) : k \in S} => Queued(t)
    BY DEF Queued
  <2>5. t \in UNION {Told(queue[k]) : k \in S} => ~Queued(t)'
    BY <2>2, <2>3
  <2>6. Queued(t) => Queued(t)' \/ t \in UNION {Told(queue[k]) : k \in S}
    BY <2>3 DEF Queued
  <2>7. Queued(t)' => Queued(t)
    BY <2>3 DEF Queued
  <2>8. t \in lost' <=> t \in lost \/ t \in UNION {Told(queue[k]) : k \in S}
    OBVIOUS
  <2>9. InItsPlace(t)
    BY DEF Apart, EachInOnePlace
  <2> QED BY <2>1, <2>4, <2>5, <2>6, <2>7, <2>8, <2>9 DEF InItsPlace, OnePlace
<1>5. EachInOnePlace'
  BY <1>4 DEF EachInOnePlace
<1> QED BY <1>3, <1>5 DEF Apart

\* A turn takes up the first prompt of a queue.
LEMMA TakeKeepsApart ==
  ASSUME Inv, Apart, NEW k \in Keys, Take(k) PROVE Apart'
<1> DEFINE q == queue[k]
<1>1. /\ q # <<>> /\ received' = received \cup Head(q) /\ queue' = [queue EXCEPT ![k] = Tail(q)]
      /\ UNCHANGED <<pc, res, batch, carry, lost>>
  BY DEF Take, worker, post
<1>2. queue \in [Keys -> Seq(SUBSET Tasks)]
  BY DEF Inv, TypeOK, HostTyped
<1>3. queue'[k] = Tail(q) /\ \A m \in Keys : m # k => queue'[m] = queue[m]
  BY <1>1, <1>2
<1>4. /\ Len(q) \in Nat \ {0} /\ Head(q) = q[1] /\ 1 \in 1..Len(q)
      /\ Len(Tail(q)) = Len(q) - 1 /\ DOMAIN Tail(q) = 1..(Len(q) - 1)
      /\ \A i \in 1..(Len(q) - 1) : Tail(q)[i] = q[i + 1] /\ i + 1 \in 1..Len(q)
      /\ DOMAIN q = 1..Len(q)
  BY <1>1, <1>2
<1>5. \A i \in 1..Len(q) : i = 1 \/ (i - 1 \in 1..(Len(q) - 1) /\ (i - 1) + 1 = i)
  BY <1>4
<1>6. Told(q) = Head(q) \cup Told(Tail(q))
  <2>1. \A t \in Told(q) : t \in Head(q) \cup Told(Tail(q))
    <3> TAKE t \in Told(q)
    <3>1. PICK i \in 1..Len(q) : t \in q[i]
      BY <1>4 DEF Told
    <3>2. CASE i = 1
      BY <1>4, <3>1, <3>2
    <3>3. CASE i # 1
      <4>1. i - 1 \in DOMAIN Tail(q) /\ t \in Tail(q)[i - 1]
        BY <1>4, <1>5, <3>1, <3>3
      <4> QED BY <4>1 DEF Told
    <3> QED BY <3>2, <3>3
  <2>2. Head(q) \subseteq Told(q)
    BY <1>4 DEF Told
  <2>3. Told(Tail(q)) \subseteq Told(q)
    BY <1>4 DEF Told
  <2> QED BY <2>1, <2>2, <2>3
<1>7. \A t \in Tasks : t \in Head(q) => t \notin Told(Tail(q))
  <2> SUFFICES ASSUME NEW t \in Tasks, t \in Head(q), t \in Told(Tail(q)) PROVE FALSE
    OBVIOUS
  <2>1. PICK i \in 1..(Len(q) - 1) : t \in q[i + 1]
    BY <1>4 DEF Told
  <2>2. 1 = i + 1
    BY <1>4, <2>1 DEF Apart, KeptApart
  <2> QED BY <1>4, <2>1, <2>2
<1>8. KeptApart'
  <2>1. ASSUME NEW m \in Keys, NEW i \in 1..Len(queue'[m]), NEW t \in queue'[m][i]
        PROVE  KeyOf[t] = m
    <3>1. CASE m # k
      BY <1>3, <2>1, <3>1 DEF Apart, KeptApart
    <3>2. CASE m = k
      <4>1. i \in 1..(Len(q) - 1) /\ t \in q[i + 1] /\ i + 1 \in 1..Len(q)
        BY <1>3, <1>4, <2>1, <3>2
      <4> QED BY <3>2, <4>1 DEF Apart, KeptApart
    <3> QED BY <3>1, <3>2
  <2>2. ASSUME NEW m \in Keys, NEW i \in 1..Len(queue'[m]), NEW j \in 1..Len(queue'[m]),
               NEW t \in Tasks,
               t \in queue'[m][i], t \in queue'[m][j]
        PROVE  i = j
    <3>1. CASE m # k
      BY <1>3, <2>2, <3>1 DEF Apart, KeptApart
    <3>2. CASE m = k
      <4>1. /\ i \in 1..(Len(q) - 1) /\ t \in q[i + 1] /\ i + 1 \in 1..Len(q)
            /\ j \in 1..(Len(q) - 1) /\ t \in q[j + 1] /\ j + 1 \in 1..Len(q)
        BY <1>3, <1>4, <2>2, <3>2
      <4>2. i + 1 = j + 1
        BY <4>1 DEF Apart, KeptApart
      <4> QED BY <1>4, <4>1, <4>2
    <3> QED BY <3>1, <3>2
  <2> QED BY <1>1, <2>1, <2>2 DEF Apart, KeptApart
<1>9. ASSUME NEW t \in Tasks
      PROVE  InItsPlace(t)'
  <2>1. /\ HandedOver(t)' <=> HandedOver(t)
        /\ InBatch(t)' <=> InBatch(t)
        /\ OnItsWay(t)' <=> OnItsWay(t)
    BY <1>1 DEF HandedOver, InBatch, OnItsWay
  <2>2. \A m \in Keys : t \in Told(queue[m]) => m = KeyOf[t]
    <3> SUFFICES ASSUME NEW m \in Keys, t \in Told(queue[m]) PROVE m = KeyOf[t]
      OBVIOUS
    <3>1. PICK i \in 1..Len(queue[m]) : t \in queue[m][i]
      BY <1>2 DEF Told
    <3> QED BY <3>1 DEF Apart, KeptApart
  <2>3. t \in Head(q) => Queued(t) /\ ~Queued(t)'
    BY <1>3, <1>6, <1>7, <2>2 DEF Queued
  <2>4. t \notin Head(q) => (Queued(t)' <=> Queued(t))
    BY <1>3, <1>6 DEF Queued
  <2>5. InItsPlace(t)
    BY DEF Apart, EachInOnePlace
  <2>6. (t \in received' <=> t \in received \/ t \in Head(q)) /\ (t \in lost' <=> t \in lost)
    BY <1>1
  <2> QED BY <2>1, <2>3, <2>4, <2>5, <2>6 DEF InItsPlace, OnePlace
<1>10. EachInOnePlace'
  BY <1>9 DEF EachInOnePlace
<1> QED BY <1>8, <1>10 DEF Apart

\* A prompt of another kind tells of nobody.
LEMMA EnterKeepsApart ==
  ASSUME Inv, Apart, NEW k \in Keys, Enter(k) PROVE Apart'
<1> DEFINE q == queue[k]
<1>1. /\ queue' = [queue EXCEPT ![k] = Append(q, {})]
      /\ UNCHANGED <<pc, res, batch, carry, received, lost>>
  BY DEF Enter, worker, post, ends
<1>2. queue \in [Keys -> Seq(SUBSET Tasks)]
  BY DEF Inv, TypeOK, HostTyped
<1>3. queue'[k] = Append(q, {}) /\ \A m \in Keys : m # k => queue'[m] = queue[m]
  BY <1>1, <1>2
<1>4. /\ Len(q) \in Nat /\ Len(Append(q, {})) = Len(q) + 1
      /\ \A i \in 1..Len(q) : Append(q, {})[i] = q[i]
      /\ Append(q, {})[Len(q) + 1] = {}
      /\ DOMAIN Append(q, {}) = 1..(Len(q) + 1) /\ DOMAIN q = 1..Len(q)
      /\ \A i \in 1..(Len(q) + 1) : i \in 1..Len(q) \/ i = Len(q) + 1
      /\ \A i \in 1..Len(q) : i \in 1..(Len(q) + 1)
  BY <1>2
<1>5. ASSUME NEW m \in Keys, NEW i \in 1..Len(queue'[m]), NEW t \in queue'[m][i]
      PROVE  i \in 1..Len(queue[m]) /\ queue'[m][i] = queue[m][i]
  BY <1>3, <1>4
<1>6. KeptApart'
  BY <1>1, <1>5 DEF Apart, KeptApart
<1>7. ASSUME NEW m \in Keys PROVE Told(queue'[m]) = Told(queue[m])
  <2>1. CASE m # k
    BY <1>3, <2>1
  <2>2. CASE m = k
    <3>1. Told(queue'[m]) = UNION {Append(q, {})[i] : i \in 1..(Len(q) + 1)}
      BY SMTT(30), <1>3, <1>4, <2>2 DEF Told
    <3>2. Told(q) = UNION {q[i] : i \in 1..Len(q)}
      BY <1>4 DEF Told
    <3>3. Told(queue'[m]) \subseteq Told(q)
      BY <1>4, <3>1, <3>2
    <3>4. Told(q) \subseteq Told(queue'[m])
      BY <1>4, <3>1, <3>2
    <3> QED BY <2>2, <3>3, <3>4
  <2> QED BY <2>1, <2>2
<1>8. ASSUME NEW t \in Tasks
      PROVE  InItsPlace(t)'
  <2>1. /\ HandedOver(t)' <=> HandedOver(t)
        /\ InBatch(t)' <=> InBatch(t)
        /\ OnItsWay(t)' <=> OnItsWay(t)
    BY <1>1 DEF HandedOver, InBatch, OnItsWay
  <2>2. Queued(t)' <=> Queued(t)
    BY <1>7 DEF Queued
  <2>3. InItsPlace(t)
    BY DEF Apart, EachInOnePlace
  <2> QED BY <1>1, <2>1, <2>2, <2>3 DEF InItsPlace, OnePlace
<1>9. EachInOnePlace'
  BY <1>8 DEF EachInOnePlace
<1> QED BY <1>6, <1>9 DEF Apart

\* Sessions, and the end of the process.
LEMMA SessionsKeepApart ==
  ASSUME Inv, Apart,
         \/ CancelAll
         \/ \E k \in Keys : Open(k) \/ Close(k) \/ Enter(k) \/ Take(k) \/ Discard(k)
  PROVE  Apart'
<1>1. queue \in [Keys -> Seq(SUBSET Tasks)]
  BY DEF Inv, TypeOK, HostTyped
<1>2. CASE CancelAll
  <2>1. /\ queue' = [k \in Keys |-> IF k \in Keys THEN <<>> ELSE queue[k]]
        /\ lost' = lost \cup UNION {Told(queue[k]) : k \in Keys}
        /\ UNCHANGED <<pc, res, batch, carry, received>>
    BY <1>2 DEF CancelAll, worker, post
  <2> QED BY <2>1, QueuesEmptied
<1>3. ASSUME NEW k \in Keys, Open(k) \/ Close(k) \/ Discard(k) PROVE Apart'
  <2>1. /\ queue' = [queue EXCEPT ![k] = <<>>] /\ lost' = lost \cup Told(queue[k])
        /\ UNCHANGED <<pc, res, batch, carry, received>>
    BY <1>3 DEF Open, Close, Discard, EndSession, worker, post
  <2>2. /\ queue' = [m \in Keys |-> IF m \in {k} THEN <<>> ELSE queue[m]]
        /\ lost' = lost \cup UNION {Told(queue[m]) : m \in {k}}
    BY <1>1, <2>1
  <2> QED BY <2>1, <2>2, QueuesEmptied
<1> QED BY <1>2, <1>3, EnterKeepsApart, TakeKeepsApart

\* Apart is inductive, relative to Inv.
LEMMA ApartStep == Inv /\ Apart /\ [Next]_vars => Apart'
<1> SUFFICES ASSUME Inv, Apart, [Next]_vars PROVE Apart'
  OBVIOUS
<1>1. CASE \E t \in Tasks :
             Work(t) \/ Elapse(t) \/ Cancel(t) \/ \E late \in BOOLEAN : Start(t, late)
  BY <1>1, WorkKeepsApart, HandKeepsApart
<1>2. ASSUME NEW c \in Channels, TimerProcesses(c) \/ FlushOne(c) PROVE Apart'
  <2>1. UNCHANGED <<pc, res, queue, received, lost>>
    BY <1>2 DEF TimerProcesses, FlushOne, worker, host, ends
  <2>2. Process(c, "timer") \/ Process(c, "shutdown")
    BY <1>2 DEF TimerProcesses, FlushOne
  <2> QED BY <2>1, <2>2, ProcessKeepsApart
<1>3. ASSUME UNCHANGED <<pc, res, batch, carry, queue, ends>> PROVE Apart'
  <2>1. \A t \in Tasks : HandedOver(t)' <=> HandedOver(t)
    BY <1>3 DEF HandedOver
  <2> QED BY <1>3, <2>1, ApartKept
<1>4. CASE \E c \in Channels : Fire(c)
  BY <1>3, <1>4 DEF Fire, worker, host
<1>5. CASE Signal \/ BeginFlush \/ Exit
  BY <1>3, <1>5 DEF Signal, BeginFlush, Exit, worker, post, host
<1>6. CASE UNCHANGED vars
  BY <1>3, <1>6 DEF vars, worker, post, host
<1>7. CASE \E g \in carry : Deliver(g) \/ Dropped(g)
  BY <1>7, DeliverKeepsApart, DroppedKeepsApart
<1>8. CASE CancelAll \/ \E k \in Keys : Open(k) \/ Close(k) \/ Enter(k) \/ Take(k) \/ Discard(k)
  BY <1>8, SessionsKeepApart
<1> QED BY <1>1, <1>2, <1>4, <1>5, <1>6, <1>7, <1>8 DEF Next

\* The places of a worker are counted as HandoffInOnePlace counts them.
LEMMA CountedOnce ==
  ASSUME Inv, Apart, NEW t \in Tasks PROVE Places(t) = Count(HandedOver(t))
<1> DEFINE B == {c \in Channels : t \in batch[c]}
           C == {g \in carry : t \in g.tasks}
           Q == {p \in Keys \X (1..QueueCap) : p[2] <= Len(queue[p[1]]) /\ t \in queue[p[1]][p[2]]}
<1>1. Cardinality(B) = Count(InBatch(t))
  <2>1. CASE InBatch(t)
    <3>1. B = {ChannelOf[KeyOf[t]]}
      BY <2>1 DEF InBatch, Apart, KeptApart
    <3> QED BY <2>1, <3>1, FS_Singleton DEF Count
  <2>2. CASE ~InBatch(t)
    <3>1. B = {}
      BY <2>2 DEF InBatch
    <3> QED BY <2>2, <3>1, FS_EmptySet DEF Count
  <2> QED BY <2>1, <2>2
<1>2. Cardinality(C) = Count(OnItsWay(t))
  <2>1. CASE OnItsWay(t)
    <3>1. PICK g \in carry : t \in g.tasks
      BY <2>1 DEF OnItsWay
    <3>2. C = {g}
      BY <3>1 DEF Apart, KeptApart
    <3> QED BY <2>1, <3>2, FS_Singleton DEF Count
  <2>2. CASE ~OnItsWay(t)
    <3>1. C = {}
      BY <2>2 DEF OnItsWay
    <3> QED BY <2>2, <3>1, FS_EmptySet DEF Count
  <2> QED BY <2>1, <2>2
<1>3. Cardinality(Q) = Count(Queued(t))
  <2>0. /\ queue \in [Keys -> Seq(SUBSET Tasks)] /\ QueueCap \in Nat
        /\ \A k \in Keys : Len(queue[k]) <= QueueCap
    BY TasksAssumption DEF Inv, TypeOK, HostTyped
  <2>1. CASE Queued(t)
    <3>0. PICK k \in Keys : t \in Told(queue[k])
      BY <2>1 DEF Queued
    <3>1. PICK i \in 1..Len(queue[k]) : t \in queue[k][i]
      BY <2>0, <3>0 DEF Told
    <3>2. <<k, i>> \in Q
      BY <2>0, <3>1
    <3>3. ASSUME NEW p \in Q PROVE p = <<k, i>>
      <4>1. /\ p = <<p[1], p[2]>> /\ p[1] \in Keys /\ p[2] \in 1..QueueCap
            /\ p[2] <= Len(queue[p[1]]) /\ t \in queue[p[1]][p[2]]
        OBVIOUS
      <4>2. p[2] \in 1..Len(queue[p[1]])
        BY <2>0, <4>1
      <4>3. p[1] = KeyOf[t] /\ k = KeyOf[t]
        BY <3>1, <4>1, <4>2 DEF Apart, KeptApart
      <4>4. p[2] = i
        BY <3>1, <4>1, <4>2, <4>3 DEF Apart, KeptApart
      <4> QED BY <4>1, <4>3, <4>4
    <3>4. Q = {<<k, i>>}
      BY <3>2, <3>3
    <3> HIDE DEF Q
    <3> QED BY <2>1, <3>4, FS_Singleton DEF Count
  <2>2. CASE ~Queued(t)
    <3>1. Q = {}
      BY <2>0, <2>2 DEF Queued, Told
    <3> QED BY <2>2, <3>1, FS_EmptySet DEF Count
  <2> QED BY <2>1, <2>2
<1>4. InItsPlace(t)
  BY DEF Apart, EachInOnePlace
<1>5. Count(InBatch(t)) + Count(OnItsWay(t)) + Count(Queued(t))
          + Count(t \in received) + Count(t \in lost) = Count(HandedOver(t))
  BY <1>4 DEF InItsPlace, OnePlace, Count
<1>6. Places(t) = Cardinality(B) + Cardinality(C) + Cardinality(Q)
                    + Count(t \in received) + Count(t \in lost)
  BY DEF Places
<1> QED BY <1>1, <1>2, <1>3, <1>5, <1>6

\* addBackgroundNotificationToBatch, processBackgroundNotificationBatch and
\* queueBackgroundPrompt: the handoff of a worker is in one place, and only its
\* session gets to see it.
THEOREM HandoffsStayInOnePlace == Spec => []HandoffInOnePlace
<1>1. Inv /\ Apart => HandoffInOnePlace
  <2> SUFFICES ASSUME Inv, Apart PROVE HandoffInOnePlace
    OBVIOUS
  <2>1. \A k \in Keys : \A t \in Told(queue[k]) : KeyOf[t] = k
    BY DEF Told, Apart, KeptApart, Inv, TypeOK, HostTyped
  <2> QED BY <2>1, CountedOnce DEF HandoffInOnePlace, Apart, KeptApart
<1> QED BY InvHolds, InitApart, ApartStep, <1>1, PTL DEF Spec
=============================================================================
