-------------------- MODULE PendingNotifications_proofs --------------------
(***************************************************************************)
(* At-least-once delivery, for any number of handlers, drains and          *)
(* notifications, and whatever fails or crashes.                           *)
(*                                                                         *)
(* A row is deleted only by a drain whose copy of it has the same id, so   *)
(* the same notification, and a drain that comes to the deletion knows     *)
(* that the notification has arrived or was waived.  A handler that comes  *)
(* to its drain has seen its notification in the queue, and from then on   *)
(* the notification is queued, arrived or waived.                          *)
(***************************************************************************)
EXTENDS PendingNotifications, WellFoundedInduction, TLAPS

DrainLabels == {"list", "row", "giveup", "send", "failed", "mark", "delete"}
RowLabels   == DrainLabels \ {"list", "row"}

Settled == arrived \cup waived
Kept    == {n \in Notes : Queued(n)} \cup Settled

\* A drain's copy of a row is about the same notification as the row.
CopiesOK ==
  \A p \in Procs : \A t \in todo[p] :
    t.id < nextId /\ \A r \in rows : r.id = t.id => r.note = t.note

\* What a handler knows of its notification.
HandlersOK ==
  \A h \in Handlers :
    /\ pc[h] # "idle" => req[h] \in Notes
    /\ pc[h] \in {"ask", "waive", "insert", "select"} => Key(req[h]) # NoKey
    /\ pc[h] \in {"direct", "save", "tell"} => Key(req[h]) = NoKey
    /\ pc[h] = "waive" => req[h] \in Settled
    /\ pc[h] \in DrainLabels => req[h] \in Kept

\* What a drain knows of the notification of its row.
DrainsOK ==
  \A p \in Procs :
    /\ pc[p] \in RowLabels => todo[p] # {}
    /\ pc[p] \in {"giveup", "mark", "delete"} => Head(p).note \in Settled

IInv == TypeOK /\ CopiesOK /\ HandlersOK /\ DrainsOK /\ AtLeastOnce /\ MarkIsTrue

\* A non-empty set of numbers has a least one.
LEMMA LeastNumber ==
  ASSUME NEW T \in SUBSET Nat, T # {}
  PROVE  \E x \in T : \A y \in T : x <= y
<1> DEFINE R == {ss \in Nat \X Nat : ss[1] < ss[2]}
<1>1. IsWellFoundedOn(R, Nat)
  BY NatLessThanWellFounded, Zenon DEF OpToRel
<1> HIDE DEF R
<1>2. PICK x \in T : \A y \in T : ~(<<y, x>> \in R)
  BY <1>1, WFMin
<1>3. \A y \in T : ~(y < x)
  BY <1>2 DEF R
<1> QED
  BY <1>3

\* The row at the head of a drain's list is in the list.
LEMMA HeadListed ==
  ASSUME TypeOK, NEW p \in Procs, todo[p] # {}
  PROVE  Head(p) \in todo[p]
<1> DEFINE T == {r.id : r \in todo[p]}
<1>1. todo[p] \subseteq Row
  BY DEF TypeOK
<1>2. T \in SUBSET Nat /\ T # {}
  BY <1>1 DEF Row
<1>3. \E x \in T : \A y \in T : x <= y
  BY <1>2, LeastNumber
<1>4. \E r \in todo[p] : \A s \in todo[p] : r.id <= s.id
  BY <1>3
<1> QED
  BY <1>4 DEF Head

LEMMA InitIInv == Init => IInv
BY NotificationsAssumption
   DEF Init, IInv, TypeOK, CopiesOK, HandlersOK, DrainsOK, AtLeastOnce, MarkIsTrue,
       Labels, RowLabels, DrainLabels, Procs

\* Nothing that has arrived or was waived is ever forgotten.
LEMMA HistoryGrows ==
  ASSUME Next
  PROVE  arrived \subseteq arrived' /\ waived \subseteq waived'
BY DEF Next, Serve, Drain, DrainRow, Post, Refuse, AnswerDelivered, AskMuted, WaivePost,
   InsertKeyed, SelectTwin, DirectRoute, DirectThread, Save, SaveFails, Tell, StartDrain,
   List, ListFails, EndDrain, SkipRow, DropDuplicate, GiveUpRow, MarkGivenUp, TryRow,
   SendDone, SendFails, SendMalformed, CountFailure, CountingFails, MarkSent,
   MarkSentFails, Delete, DeleteFails, ToggleMute, Crash, history

\* The ways in which a step changes the queue.
Inserts == \E n \in Notes : AddRow(n) /\ (Key(n) = NoKey \/ Twins(n) = {})
Counts(p) ==
  /\ rows' = {IF r.id = Head(p).id THEN [r EXCEPT !.attempts = @ + 1] ELSE r : r \in rows}
  /\ nextId' = nextId
Deletes(p) ==
  /\ pc[p] = "delete" /\ todo[p] # {}
  /\ rows' = {r \in rows : r.id # Head(p).id}
  /\ nextId' = nextId

LEMMA QueueChanges ==
  ASSUME IInv, Next
  PROVE  \/ UNCHANGED <<rows, nextId>>
         \/ Inserts /\ todo' = todo
         \/ \E p \in Procs : pc[p] = "failed" /\ todo[p] # {} /\ Counts(p)
         \/ \E p \in Procs : Deletes(p)
<1>1. CASE \E h \in Handlers : InsertKeyed(h) \/ Save(h)
  <2>1. PICK h \in Handlers : InsertKeyed(h) \/ Save(h)
    BY <1>1
  <2>2. pc[h] \in {"insert", "save"} /\ req[h] \in Notes
    BY <2>1 DEF InsertKeyed, Save, IInv, HandlersOK
  <2>3. CASE InsertKeyed(h)
    BY <2>2, <2>3 DEF InsertKeyed, Inserts
  <2>4. CASE Save(h)
    <3>1. Key(req[h]) = NoKey
      BY <2>4 DEF Save, IInv, HandlersOK
    <3> QED
      BY <2>2, <2>4, <3>1 DEF Save, Inserts
  <2> QED
    BY <2>1, <2>3, <2>4
<1>2. CASE \E p \in Procs, n \in Notes : CountFailure(p, n) \/ Delete(p, n)
  BY <1>2 DEF CountFailure, Delete, At, Counts, Deletes
<1>3. CASE ~(\E h \in Handlers : InsertKeyed(h) \/ Save(h))
           /\ ~(\E p \in Procs, n \in Notes : CountFailure(p, n) \/ Delete(p, n))
  BY <1>3 DEF Next, Serve, Drain, DrainRow, Post, Refuse, AnswerDelivered, AskMuted,
     WaivePost, SelectTwin, DirectRoute, DirectThread, SaveFails, Tell, StartDrain,
     List, ListFails, EndDrain, SkipRow, DropDuplicate, GiveUpRow, MarkGivenUp, TryRow,
     SendDone, SendFails, SendMalformed, CountingFails, MarkSent,
     MarkSentFails, DeleteFails, ToggleMute, Crash, store
<1> QED
  BY <1>1, <1>2, <1>3

\* The part of TypeOK that is about the queue.
RowsOK ==
  /\ rows \subseteq Row /\ nextId \in Nat \ {0}
  /\ \A r \in rows : r.id < nextId
  /\ \A r, s \in rows :
       r.id = s.id \/ (Key(r.note) = Key(s.note) /\ Key(r.note) # NoKey) => r = s

\* Rows keep their identity, and a notification leaves the queue settled.
Follows ==
  /\ nextId <= nextId'
  /\ \A r \in rows' : r.id = nextId \/ \E s \in rows : s.id = r.id /\ s.note = r.note
  /\ \A n \in Notes : Queued(n) => Queued(n)' \/ n \in Settled

LEMMA QueueStep ==
  ASSUME IInv, Next
  PROVE  RowsOK' /\ Follows
<1>1. RowsOK
  BY DEF IInv, TypeOK, RowsOK
<1>2. CASE UNCHANGED <<rows, nextId>>
  BY <1>1, <1>2 DEF RowsOK, Follows, Queued
<1>3. CASE Inserts
  <2>1. PICK n \in Notes : AddRow(n) /\ (Key(n) = NoKey \/ Twins(n) = {})
    BY <1>3 DEF Inserts
  <2> DEFINE new == [id |-> nextId, note |-> n, attempts |-> 0]
  <2>2. new \in Row /\ new.id = nextId /\ new.note = n
    BY <1>1 DEF Row, RowsOK
  <2>3. rows' = rows \cup {new} /\ nextId' = nextId + 1
    BY <2>1 DEF AddRow
  <2>4. \A r \in rows : Key(r.note) # Key(n) \/ Key(n) = NoKey
    BY <2>1 DEF Twins
  <2> HIDE DEF new
  <2>5. \A r \in rows' : r.id < nextId'
    BY <1>1, <2>2, <2>3 DEF Row, RowsOK
  <2>6. \A r, s \in rows' :
          r.id = s.id \/ (Key(r.note) = Key(s.note) /\ Key(r.note) # NoKey) => r = s
    BY <1>1, <2>2, <2>3, <2>4 DEF Row, RowsOK
  <2> QED
    BY <1>1, <2>2, <2>3, <2>5, <2>6 DEF Queued, RowsOK, Follows
<1>4. ASSUME NEW p \in Procs, pc[p] = "failed", todo[p] # {}, Counts(p)
      PROVE  RowsOK' /\ Follows
  <2> DEFINE bump(r) == IF r.id = Head(p).id THEN [r EXCEPT !.attempts = @ + 1] ELSE r
  <2>1. rows' = {bump(r) : r \in rows} /\ nextId' = nextId
    BY <1>4 DEF Counts
  <2>2. \A r \in rows : bump(r) \in Row /\ bump(r).id = r.id /\ bump(r).note = r.note
    BY <1>1 DEF RowsOK, Row
  <2> HIDE DEF bump
  <2>3. \A t \in rows' : \E r \in rows : t = bump(r)
    BY <2>1
  <2>4. \A r \in rows : bump(r) \in rows'
    BY <2>1
  <2>5. \A t, u \in rows' :
          t.id = u.id \/ (Key(t.note) = Key(u.note) /\ Key(t.note) # NoKey) => t = u
    BY <1>1, <2>2, <2>3 DEF RowsOK
  <2>6. RowsOK'
    BY <1>1, <2>1, <2>2, <2>3, <2>5 DEF RowsOK
  <2>7. \A n \in Notes : Queued(n) => Queued(n)'
    BY <2>2, <2>4 DEF Queued
  <2> QED
    BY <1>1, <2>1, <2>2, <2>3, <2>6, <2>7 DEF RowsOK, Follows
<1>5. ASSUME NEW p \in Procs, Deletes(p)
      PROVE  RowsOK' /\ Follows
  <2>1. Head(p) \in todo[p] /\ Head(p).note \in Settled
    BY <1>5, HeadListed DEF Deletes, IInv, DrainsOK
  <2>2. \A r \in rows : r.id = Head(p).id => r.note = Head(p).note
    BY <2>1 DEF IInv, CopiesOK
  <2>3. rows' = {r \in rows : r.id # Head(p).id} /\ nextId' = nextId
    BY <1>5 DEF Deletes
  <2>4. RowsOK'
    BY <1>1, <2>3 DEF RowsOK
  <2>5. \A n \in Notes : Queued(n) => Queued(n)' \/ n \in Settled
    BY <2>1, <2>2, <2>3 DEF Queued
  <2> QED
    BY <1>1, <2>3, <2>4, <2>5 DEF Follows, RowsOK
<1> QED
  BY <1>2, <1>3, <1>4, <1>5, QueueChanges

\* What was kept stays kept.
LEMMA KeptStaysKept ==
  ASSUME IInv, Next
  PROVE  Settled \subseteq Settled' /\ Kept \subseteq Kept'
<1>1. Settled \subseteq Settled'
  BY HistoryGrows DEF Settled
<1>2. \A n \in Notes : Queued(n) => Queued(n)' \/ n \in Settled
  BY QueueStep DEF Follows
<1> QED
  BY <1>1, <1>2 DEF Kept

\* The ways in which a step changes the lists of the drains.
LEMMA ListsChange ==
  ASSUME IInv, Next
  PROVE  \/ todo' = todo
         \/ todo' = [p \in Procs |-> {}]
         \/ \E p \in Procs : todo' = [todo EXCEPT ![p] = rows] /\ UNCHANGED <<rows, nextId>>
         \/ \E p \in Procs : Leave(p)
BY DEF Next, Serve, Drain, DrainRow, Post, Refuse, AnswerDelivered, AskMuted, WaivePost,
   InsertKeyed, SelectTwin, DirectRoute, DirectThread, Save, SaveFails, Tell, StartDrain,
   List, ListFails, EndDrain, SkipRow, DropDuplicate, GiveUpRow, MarkGivenUp, TryRow,
   SendDone, SendFails, SendMalformed, CountFailure, CountingFails, MarkSent,
   MarkSentFails, Delete, DeleteFails, ToggleMute, Crash, store

LEMMA CopiesStep ==
  ASSUME IInv, Next
  PROVE  CopiesOK' /\ todo' \in [Procs -> SUBSET Row]
<1>1. ASSUME NEW q \in Procs, NEW t \in todo'[q], t \in todo[q] \/ t \in rows
      PROVE  t.id < nextId' /\ \A r \in rows' : r.id = t.id => r.note = t.note
  <2>1. t.id < nextId /\ t \in Row /\ nextId \in Nat
    BY <1>1 DEF IInv, TypeOK, CopiesOK
  <2>2. \A r \in rows : r.id = t.id => r.note = t.note
    BY <1>1 DEF IInv, TypeOK, CopiesOK
  <2> QED
    BY <2>1, <2>2, QueueStep DEF Follows, RowsOK, Row
<1>2. todo' \in [Procs -> SUBSET Row] /\ \A q \in Procs : todo'[q] \subseteq todo[q] \cup rows
  <2>1. todo \in [Procs -> SUBSET Row] /\ rows \subseteq Row
    BY DEF IInv, TypeOK
  <2> QED
    BY <2>1, ListsChange DEF Leave
<1> QED
  BY <1>1, <1>2 DEF CopiesOK

\* A key stands for its own notification.
LEMMA KeyOfOneNote ==
  ASSUME NEW n \in Notes, Key(n) # NoKey
  PROVE  Key(n) = n
BY DEF Key

\* What is added is in the queue.
LEMMA AddedIsQueued ==
  ASSUME NEW n \in Notes, AddRow(n)
  PROVE  Queued(n)'
<1> DEFINE new == [id |-> nextId, note |-> n, attempts |-> 0]
<1>1. new \in rows' /\ new.note = n
  BY DEF AddRow
<1> HIDE DEF new
<1> QED
  BY <1>1 DEF Queued

LEMMA MarkStep ==
  ASSUME IInv, Next
  PROVE  MarkIsTrue' /\ delivered' \subseteq Notes
<1>1. \A n \in Notes : n \in Settled /\ MarkKey(n) =>
        delivered' \subseteq delivered \cup {n}
  BY KeyOfOneNote DEF MarkKey
<1>2. delivered' = delivered \/ \E n \in Notes : n \in Settled /\ MarkKey(n)
  <2>1. CASE \E h \in Handlers : WaivePost(h)
    BY <2>1 DEF WaivePost, IInv, HandlersOK
  <2>2. CASE \E p \in Procs, n \in Notes : MarkGivenUp(p, n) \/ MarkSent(p, n)
    BY <2>2 DEF MarkGivenUp, MarkSent, At, IInv, DrainsOK
  <2>3. CASE ~(\E h \in Handlers : WaivePost(h))
             /\ ~(\E p \in Procs, n \in Notes : MarkGivenUp(p, n) \/ MarkSent(p, n))
    BY <2>3 DEF Next, Serve, Drain, DrainRow, Post, Refuse, AnswerDelivered, AskMuted,
       InsertKeyed, SelectTwin, DirectRoute, DirectThread, Save, SaveFails, Tell,
       StartDrain, List, ListFails, EndDrain, SkipRow, DropDuplicate, GiveUpRow, TryRow,
       SendDone, SendFails, SendMalformed, CountFailure, CountingFails, MarkSentFails,
       Delete, DeleteFails, ToggleMute, Crash, store
  <2> QED
    BY <2>1, <2>2, <2>3
<1>3. delivered \subseteq Notes /\ \A n \in delivered : n \in Settled
  BY DEF IInv, TypeOK, MarkIsTrue, Settled
<1>4. \A n \in delivered' : n \in Notes /\ n \in Settled'
  BY <1>1, <1>2, <1>3, KeptStaysKept
<1> QED
  BY <1>4 DEF MarkIsTrue, Settled

LEMMA PromiseStep ==
  ASSUME IInv, Next
  PROVE  AtLeastOnce' /\ told' \subseteq Notes \X Answers
<1> DEFINE Fits(n, a) == n \in Notes /\ a \in Answers /\ (Binding(n, a) => n \in Kept')
<1>1. told \subseteq Notes \X Answers
  BY DEF IInv, TypeOK
<1>2. \A n \in Notes, a \in Answers : <<n, a>> \in told => Fits(n, a)
  BY KeptStaysKept DEF IInv, AtLeastOnce, Kept, Settled
<1>3. told' = told \/ \E n \in Notes, a \in Answers : Fits(n, a) /\ Told(n, a)
  <2>1. ASSUME NEW h \in Handlers, AnswerDelivered(h)
        PROVE  \E n \in Notes : n \in Kept' /\ Told(n, "sent")
    <3>1. req[h] \in Notes /\ Key(req[h]) # NoKey /\ Key(req[h]) \in delivered
      BY <2>1 DEF AnswerDelivered, IInv, HandlersOK
    <3>2. req[h] \in Settled
      BY <3>1, KeyOfOneNote DEF IInv, MarkIsTrue, Settled
    <3> QED
      BY <2>1, <3>1, <3>2, KeptStaysKept DEF AnswerDelivered, Kept
  <2>2. ASSUME NEW h \in Handlers, Save(h)
        PROVE  \E n \in Notes : n \in Kept' /\ Told(n, "pending")
    <3>1. PICK n \in Notes : n = req[h] /\ Told(n, "pending") /\ AddRow(n)
      BY <2>2 DEF Save, IInv, HandlersOK
    <3>2. Queued(n)'
      BY <3>1, AddedIsQueued
    <3> QED
      BY <3>1, <3>2 DEF Kept
  <2>3. ASSUME NEW p \in Procs, EndDrain(p)
        PROVE  told' = told \/ \E n \in Notes : n \in Kept' /\ Told(n, "pending")
    <3>1. CASE p \in Handlers
      <4>1. req[p] \in Notes /\ req[p] \in Kept /\ Told(req[p], "pending")
        BY <2>3, <3>1 DEF EndDrain, IInv, HandlersOK, DrainLabels
      <4> QED
        BY <4>1, KeptStaysKept
    <3>2. CASE p \notin Handlers
      BY <2>3, <3>2 DEF EndDrain
    <3> QED
      BY <3>1, <3>2
  <2>4. ASSUME NEW h \in Handlers, DirectRoute(h) \/ SaveFails(h) \/ Tell(h)
        PROVE  told' = told \/ \E n \in Notes : Key(n) = NoKey /\ Told(n, "sent")
    <3>1. req[h] \in Notes /\ Key(req[h]) = NoKey
      BY <2>4 DEF DirectRoute, SaveFails, Tell, IInv, HandlersOK
    <3> QED
      BY <2>4, <3>1 DEF DirectRoute, SaveFails, Tell
  <2>5. CASE ~(\E h \in Handlers : \/ AnswerDelivered(h) \/ Save(h) \/ DirectRoute(h)
                                   \/ SaveFails(h) \/ Tell(h))
             /\ ~(\E p \in Procs : EndDrain(p))
    BY <2>5 DEF Next, Serve, Drain, DrainRow, Post, Refuse, AskMuted, WaivePost,
       InsertKeyed, SelectTwin, DirectThread, StartDrain,
       List, ListFails, SkipRow, DropDuplicate, GiveUpRow, MarkGivenUp, TryRow, SendDone,
       SendFails, SendMalformed, CountFailure, CountingFails, MarkSent, MarkSentFails,
       Delete, DeleteFails, ToggleMute, Crash, history
  <2> QED
    BY <2>1, <2>2, <2>3, <2>4, <2>5 DEF Answers, Binding
<1>4. \A n \in Notes, a \in Answers : <<n, a>> \in told' => Fits(n, a)
  BY <1>2, <1>3 DEF Told
<1>5. told' \subseteq Notes \X Answers
  BY <1>1, <1>3 DEF Told
<1> QED
  BY <1>4, <1>5 DEF AtLeastOnce, Kept, Settled

\* Who acts changes its own label, list and request only.
LEMMA OthersStay ==
  ASSUME IInv, Next, NEW q \in Procs
  PROVE  \/ Crash
         \/ \E n \in Notes : DrainRow(q, n)
         \/ StartDrain(q) \/ List(q) \/ ListFails(q) \/ EndDrain(q)
         \/ q \in Handlers /\ Serve(q)
         \/ /\ pc'[q] = pc[q] /\ todo'[q] = todo[q]
            /\ q \in Handlers => req'[q] = req[q]
<1>1. /\ pc \in [Procs -> Labels] /\ todo \in [Procs -> SUBSET Row]
      /\ req \in [Handlers -> Notes \cup {NoNote}]
  BY DEF IInv, TypeOK
<1>2. ASSUME NEW h \in Handlers, h # q, Serve(h)
      PROVE  pc'[q] = pc[q] /\ todo'[q] = todo[q] /\ (q \in Handlers => req'[q] = req[q])
  BY <1>1, <1>2 DEF Serve, Post, Refuse, AnswerDelivered, AskMuted, WaivePost, InsertKeyed,
     SelectTwin, DirectRoute, DirectThread, Save, SaveFails, Tell, Answer, Goto
<1>3. ASSUME NEW p \in Procs, p # q, Drain(p)
      PROVE  pc'[q] = pc[q] /\ todo'[q] = todo[q] /\ (q \in Handlers => req'[q] = req[q])
  BY <1>1, <1>3 DEF Drain, DrainRow, StartDrain, List, ListFails, EndDrain, SkipRow,
     DropDuplicate, GiveUpRow, MarkGivenUp, TryRow, SendDone, SendFails, SendMalformed,
     CountFailure, CountingFails, MarkSent, MarkSentFails, Delete, DeleteFails, Leave,
     Answer, Goto
<1>4. ASSUME NEW d \in Dests, ToggleMute(d)
      PROVE  pc'[q] = pc[q] /\ todo'[q] = todo[q] /\ (q \in Handlers => req'[q] = req[q])
  BY <1>4 DEF ToggleMute
<1> QED
  BY <1>2, <1>3, <1>4 DEF Next, Drain

\* What the handlers know stays true.
LEMMA HandlersStep ==
  ASSUME IInv, Next
  PROVE  HandlersOK' /\ req' \in [Handlers -> Notes \cup {NoNote}]
<1> DEFINE Knows(h) ==
      /\ pc[h] # "idle" => req[h] \in Notes
      /\ pc[h] \in {"ask", "waive", "insert", "select"} => Key(req[h]) # NoKey
      /\ pc[h] \in {"direct", "save", "tell"} => Key(req[h]) = NoKey
      /\ pc[h] = "waive" => req[h] \in Settled
      /\ pc[h] \in DrainLabels => req[h] \in Kept
<1>1. /\ pc \in [Procs -> Labels] /\ req \in [Handlers -> Notes \cup {NoNote}]
      /\ \A h \in Handlers : Knows(h) /\ h \in Procs /\ h \notin Drainers
  BY NotificationsAssumption DEF IInv, TypeOK, HandlersOK, Procs
<1>2. Settled \subseteq Settled' /\ Kept \subseteq Kept'
  BY KeptStaysKept
<1>3. ASSUME NEW h \in Handlers PROVE Knows(h)'
  <2>1. CASE Crash
    BY <1>1, <2>1 DEF Crash, DrainLabels
  <2>2. CASE \E n \in Notes : DrainRow(h, n)
    <3>1. pc[h] \in DrainLabels /\ pc'[h] \in DrainLabels /\ req' = req
      BY <1>1, <2>2 DEF DrainRow, SkipRow, DropDuplicate, GiveUpRow, MarkGivenUp, TryRow,
         SendDone, SendFails, SendMalformed, CountFailure, CountingFails, MarkSent,
         MarkSentFails, Delete, DeleteFails, At, Leave, Goto, DrainLabels
    <3> QED
      BY <1>1, <1>2, <3>1 DEF DrainLabels
  <2>3. CASE StartDrain(h) \/ List(h) \/ ListFails(h)
    BY <1>1, <1>2, <2>3 DEF StartDrain, List, ListFails, Goto, DrainLabels
  <2>4. CASE EndDrain(h) \/ Refuse(h) \/ AnswerDelivered(h) \/ WaivePost(h) \/ Save(h) \/ Tell(h)
    <3>1. pc'[h] = "idle"
      BY <1>1, <2>4 DEF EndDrain, Refuse, AnswerDelivered, WaivePost, Save, Tell, Answer, Goto
    <3> QED
      BY <3>1 DEF DrainLabels
  <2>5. CASE \E n \in Notes : Post(h, n)
    BY <1>1, <2>5 DEF Post, Goto, DrainLabels
  <2>6. CASE AskMuted(h)
    <3>1. waived' = waived \cup {req[h]} => req[h] \in Settled'
      BY DEF Settled
    <3> QED
      BY <1>1, <2>6, <3>1 DEF AskMuted, Goto, DrainLabels
  <2>7. CASE InsertKeyed(h) \/ SelectTwin(h)
    <3>1. PICK n \in Notes : n = req[h] /\ Key(n) # NoKey
      BY <1>1, <2>7 DEF InsertKeyed, SelectTwin
    <3>2. Twins(n) # {} => Queued(n)
      BY <3>1, KeyOfOneNote DEF Twins, Queued, Key, IInv, TypeOK, Row
    <3>3. AddRow(n) => Queued(n)'
      BY AddedIsQueued
    <3>4. AddRow(n) \/ Twins(n) # {} => n \in Kept'
      BY <1>2, <3>2, <3>3 DEF Kept
    <3> QED
      BY <1>1, <2>7, <3>1, <3>4 DEF InsertKeyed, SelectTwin, Goto, DrainLabels
  <2>8. CASE DirectRoute(h) \/ DirectThread(h) \/ SaveFails(h)
    <3>1. pc'[h] = "idle" \/ (pc'[h] \in {"save", "tell"} /\ req' = req)
      <4>1. CASE DirectRoute(h)
        BY <1>1, <4>1 DEF DirectRoute, Answer, Goto
      <4>2. CASE DirectThread(h)
        BY <1>1, <4>2 DEF DirectThread, Answer, Goto
      <4>3. CASE SaveFails(h)
        BY <1>1, <4>3 DEF SaveFails, Answer, Goto
      <4> QED
        BY <2>8, <4>1, <4>2, <4>3
    <3>2. pc[h] \in {"direct", "save"}
      BY <2>8 DEF DirectRoute, DirectThread, SaveFails
    <3> QED
      BY <1>1, <3>1, <3>2 DEF DrainLabels
  <2>9. CASE pc'[h] = pc[h] /\ req'[h] = req[h]
    BY <1>1, <1>2, <2>9
  <2> QED
    BY <1>1, <2>1, <2>2, <2>3, <2>4, <2>5, <2>6, <2>7, <2>8, <2>9, OthersStay DEF Serve
<1>4. req' \in [Handlers -> Notes \cup {NoNote}]
  BY <1>1 DEF Next, Serve, Drain, DrainRow, Post, Refuse, AnswerDelivered, AskMuted,
     WaivePost, InsertKeyed, SelectTwin, DirectRoute, DirectThread, Save, SaveFails, Tell,
     StartDrain, List, ListFails, EndDrain, SkipRow, DropDuplicate, GiveUpRow, MarkGivenUp,
     TryRow, SendDone, SendFails, SendMalformed, CountFailure, CountingFails, MarkSent,
     MarkSentFails, Delete, DeleteFails, ToggleMute, Crash, Answer
<1> QED
  BY <1>3, <1>4 DEF HandlersOK

\* What the drains know stays true.
LEMMA DrainsStep ==
  ASSUME IInv, Next
  PROVE  DrainsOK'
<1> DEFINE Knows(p) ==
      /\ pc[p] \in RowLabels => todo[p] # {}
      /\ pc[p] \in {"giveup", "mark", "delete"} => Head(p).note \in Settled
<1>1. /\ pc \in [Procs -> Labels] /\ todo \in [Procs -> SUBSET Row]
      /\ \A p \in Procs : Knows(p)
  BY DEF IInv, TypeOK, DrainsOK
<1>2. Settled \subseteq Settled'
  BY KeptStaysKept
<1>3. ASSUME NEW p \in Procs PROVE Knows(p)'
  <2>0. todo'[p] = todo[p] => Head(p)' = Head(p)
    BY DEF Head
  <2>1. CASE Crash
    BY <1>1, <2>1 DEF Crash, RowLabels, DrainLabels
  <2>2. ASSUME NEW n \in Notes, DrainRow(p, n) PROVE Knows(p)'
    <3>1. CASE pc'[p] = "row"
      BY <3>1 DEF RowLabels, DrainLabels
    <3>2. CASE pc'[p] # "row"
      <4>1. /\ todo' = todo /\ todo[p] # {} /\ Head(p).note = n
            /\ pc'[p] \in {"giveup", "mark", "delete"} => n \in Settled'
        <5>1. CASE DropDuplicate(p, n)
          <6>1. n \in delivered
            BY <5>1, KeyOfOneNote, NotificationsAssumption DEF DropDuplicate, IInv, TypeOK
          <6>2. n \in Settled
            BY <6>1 DEF IInv, MarkIsTrue, Settled
          <6> QED
            BY <1>2, <5>1, <6>2 DEF DropDuplicate, At
        <5>2. CASE GiveUpRow(p, n) \/ SendDone(p, n) \/ SendMalformed(p, n)
          BY <5>2 DEF GiveUpRow, SendDone, SendMalformed, At, Settled
        <5>3. CASE TryRow(p, n) \/ SendFails(p, n)
          BY <1>1, <5>3 DEF TryRow, SendFails, At, Goto
        <5>4. CASE MarkGivenUp(p, n) \/ MarkSent(p, n)
          BY <1>1, <1>2, <5>4 DEF MarkGivenUp, MarkSent, At
        <5>5. CASE \/ SkipRow(p, n) \/ CountFailure(p, n) \/ CountingFails(p, n)
                   \/ MarkSentFails(p, n) \/ Delete(p, n) \/ DeleteFails(p, n)
          BY <1>1, <3>2, <5>5 DEF SkipRow, CountFailure, CountingFails, MarkSentFails,
             Delete, DeleteFails, Leave, Goto
        <5> QED
          BY <2>2, <5>1, <5>2, <5>3, <5>4, <5>5 DEF DrainRow
      <4> QED
        BY <2>0, <4>1
    <3> QED
      BY <3>1, <3>2
  <2>3. CASE StartDrain(p) \/ List(p) \/ ListFails(p) \/ EndDrain(p)
    <3>1. pc'[p] \in {"idle", "list", "row"}
      BY <1>1, <2>3 DEF StartDrain, List, ListFails, EndDrain, Answer, Goto
    <3> QED
      BY <3>1 DEF RowLabels, DrainLabels
  <2>4. CASE p \in Handlers /\ Serve(p)
    <3>1. pc'[p] \in Labels \ ({"row"} \cup RowLabels)
      BY <1>1, <2>4 DEF Serve, Post, Refuse, AnswerDelivered, AskMuted, WaivePost,
         InsertKeyed, SelectTwin, DirectRoute, DirectThread, Save, SaveFails, Tell, Answer,
         Goto, RowLabels, DrainLabels, Labels
    <3> QED
      BY <3>1 DEF RowLabels, DrainLabels
  <2>5. CASE pc'[p] = pc[p] /\ todo'[p] = todo[p]
    BY <1>1, <1>2, <2>0, <2>5
  <2> QED
    BY <2>1, <2>2, <2>3, <2>4, <2>5, OthersStay
<1> QED
  BY <1>3 DEF DrainsOK

\* The rest of the types.
LEMMA TypeStep ==
  ASSUME IInv, Next
  PROVE  TypeOK'
<1>1. /\ pc' \in [Procs -> Labels]
      /\ muted' \subseteq Dests /\ posts' \in 0..MaxPosts /\ crashes' \in 0..MaxCrashes
  BY NotificationsAssumption DEF IInv, TypeOK, Next, Serve, Drain, DrainRow, Post, Refuse,
     AnswerDelivered, AskMuted, WaivePost, InsertKeyed, SelectTwin, DirectRoute,
     DirectThread, Save, SaveFails, Tell, StartDrain, List, ListFails, EndDrain, SkipRow,
     DropDuplicate, GiveUpRow, MarkGivenUp, TryRow, SendDone, SendFails, SendMalformed,
     CountFailure, CountingFails, MarkSent, MarkSentFails, Delete, DeleteFails, ToggleMute,
     Crash, Answer, Goto, Leave, At, env, Labels, Procs
<1>2. arrived' \subseteq Notes /\ waived' \subseteq Notes
  BY DEF IInv, TypeOK, HandlersOK, Next, Serve, Drain, DrainRow, Post, Refuse,
     AnswerDelivered, AskMuted, WaivePost, InsertKeyed, SelectTwin, DirectRoute,
     DirectThread, Save, SaveFails, Tell, StartDrain, List, ListFails, EndDrain, SkipRow,
     DropDuplicate, GiveUpRow, MarkGivenUp, TryRow, SendDone, SendFails, SendMalformed,
     CountFailure, CountingFails, MarkSent, MarkSentFails, Delete, DeleteFails, ToggleMute,
     Crash, history
<1> QED
  BY <1>1, <1>2, QueueStep, CopiesStep, MarkStep, PromiseStep, HandlersStep DEF TypeOK, RowsOK

\* IInv holds in every reachable state.
THEOREM NotificationsInvariance == Spec => []IInv
<1>1. IInv /\ Next => IInv'
  BY TypeStep, CopiesStep, HandlersStep, DrainsStep, PromiseStep, MarkStep DEF IInv
<1>2. IInv /\ UNCHANGED vars => IInv'
  BY DEF IInv, TypeOK, CopiesOK, HandlersOK, DrainsOK, AtLeastOnce, MarkIsTrue, vars, store,
     env, history, Kept, Settled, Queued, Head
<1> QED
  BY InitIInv, <1>1, <1>2, PTL DEF Spec

\* The types, and the uniqueness of a row's id and key.
THEOREM NotificationsTyped == Spec => []TypeOK
BY NotificationsInvariance, PTL DEF IInv

\* Nothing a client was told is pending, or sent under a dedupe key, is lost.
THEOREM PromisedIsKept == Spec => []AtLeastOnce
BY NotificationsInvariance, PTL DEF IInv

\* A key is marked delivered only for what has arrived or was waived.
THEOREM MarksAreTrue == Spec => []MarkIsTrue
BY NotificationsInvariance, PTL DEF IInv

\* What a drain has listed was taken in, whatever other drains have done since.
ListedKept == \A p \in Procs : \A t \in todo[p] : t.note \in Kept

LEMMA ListedKeptStep ==
  ASSUME IInv, ListedKept, Next
  PROVE  ListedKept'
<1> SUFFICES ASSUME NEW q \in Procs, NEW t \in todo'[q] PROVE t.note \in Kept'
  BY DEF ListedKept
<1>1. todo \in [Procs -> SUBSET Row] /\ rows \subseteq Row
  BY DEF IInv, TypeOK
<1>2. t \in todo[q] \cup rows
  BY <1>1, ListsChange DEF Leave
<1>3. t \in rows => t.note \in Kept
  BY <1>1 DEF Kept, Queued, Row
<1>4. t.note \in Kept
  BY <1>2, <1>3 DEF ListedKept
<1> QED
  BY <1>4, KeptStaysKept

\* What the abstract service calls settled and taken in.
LEMMA SameSets == Delivery!Settled = Settled /\ Delivery!Taken = Kept
BY DEF Delivery!Settled, Delivery!Taken, Settled, Kept, QueuedNotes

\* Nothing is seen of a step that changes neither tables nor histories.
LEMMA UnseenStep ==
  ASSUME UNCHANGED <<rows, delivered, arrived, waived, told>>
  PROVE  Delivery!Next
<1>1. QueuedNotes' = QueuedNotes
  BY DEF QueuedNotes, Queued
<1> QED
  BY <1>1 DEF Delivery!Next, Delivery!Unseen, Delivery!vars

\* A row is added: its notification is queued.
LEMMA RowsAdd ==
  ASSUME NEW n \in Notes, AddRow(n)
  PROVE  QueuedNotes' = QueuedNotes \cup {n}
<1> DEFINE new == [id |-> nextId, note |-> n, attempts |-> 0]
<1>1. rows' = rows \cup {new} /\ new.note = n
  BY DEF AddRow
<1> HIDE DEF new
<1>2. \A m \in Notes : Queued(m)' <=> Queued(m) \/ m = n
  BY <1>1 DEF Queued
<1> QED
  BY <1>2 DEF QueuedNotes

\* A failure is counted: the same notifications are queued.
LEMMA RowsCount ==
  ASSUME IInv, NEW p \in Procs, Counts(p)
  PROVE  QueuedNotes' = QueuedNotes
<1> DEFINE bump(r) == IF r.id = Head(p).id THEN [r EXCEPT !.attempts = @ + 1] ELSE r
<1>1. rows' = {bump(r) : r \in rows}
  BY DEF Counts
<1>2. \A r \in rows : bump(r).note = r.note
  BY DEF IInv, TypeOK, Row
<1> HIDE DEF bump
<1>3. \A t \in rows' : \E r \in rows : t.note = r.note
  BY <1>1, <1>2
<1>4. \A r \in rows : bump(r) \in rows' /\ bump(r).note = r.note
  BY <1>1, <1>2
<1>5. \A m \in Notes : Queued(m)' <=> Queued(m)
  BY <1>3, <1>4 DEF Queued
<1> QED
  BY <1>5 DEF QueuedNotes

\* A row is deleted: its notification leaves the queue, unless another row has
\* it too, or the row was gone before.
LEMMA RowsDelete ==
  ASSUME IInv, NEW p \in Procs, Deletes(p)
  PROVE  QueuedNotes' = QueuedNotes \/ QueuedNotes' = QueuedNotes \ {Head(p).note}
<1>1. Head(p) \in todo[p]
  BY HeadListed DEF Deletes, IInv
<1>2. \A r \in rows : r.id = Head(p).id => r.note = Head(p).note
  BY <1>1 DEF IInv, CopiesOK
<1>3. rows' = {r \in rows : r.id # Head(p).id}
  BY DEF Deletes
<1>4. \A m \in Notes : Queued(m)' => Queued(m)
  BY <1>3 DEF Queued
<1>5. \A m \in Notes : m # Head(p).note /\ Queued(m) => Queued(m)'
  BY <1>2, <1>3 DEF Queued
<1> QED
  BY <1>4, <1>5 DEF QueuedNotes

\* The key of a settled notification is marked, or it has none.
LEMMA MarkingSteps ==
  ASSUME NEW n \in Notes, n \in Settled,
         MarkKey(n) \/ UNCHANGED delivered,
         UNCHANGED <<rows, arrived, waived, told>>
  PROVE  Delivery!Next
<1>1. QueuedNotes' = QueuedNotes
  BY DEF QueuedNotes, Queued
<1>2. CASE UNCHANGED delivered
  BY <1>2, UnseenStep
<1>3. CASE MarkKey(n) /\ Key(n) = NoKey
  <2>1. UNCHANGED delivered
    BY <1>3 DEF MarkKey
  <2> QED
    BY <2>1, UnseenStep
<1>4. CASE MarkKey(n) /\ Key(n) # NoKey
  <2>1. delivered' = delivered \cup {n}
    BY <1>4, KeyOfOneNote DEF MarkKey
  <2>2. Delivery!Mark(n)
    BY <1>1, <1>4, <2>1, SameSets DEF Delivery!Mark
  <2> QED
    BY <2>2 DEF Delivery!Next
<1> QED
  BY <1>2, <1>3, <1>4

\* What arrives was taken in, or has no key.
LEMMA ArrivingSteps ==
  ASSUME NEW n \in Notes, n \in Kept \/ Key(n) = NoKey,
         arrived' = arrived \/ arrived' = arrived \cup {n},
         UNCHANGED <<rows, delivered, waived, told>>
  PROVE  Delivery!Next
<1>1. QueuedNotes' = QueuedNotes
  BY DEF QueuedNotes, Queued
<1>2. CASE arrived' = arrived
  BY <1>2, UnseenStep
<1>3. CASE arrived' = arrived \cup {n}
  <2>1. Delivery!Arrive(n)
    BY <1>1, <1>3, SameSets DEF Delivery!Arrive
  <2> QED
    BY <2>1 DEF Delivery!Next
<1> QED
  BY <1>2, <1>3

\* What is waived was taken in, or has a key.
LEMMA WaivingSteps ==
  ASSUME NEW n \in Notes, n \in Kept \/ Key(n) # NoKey,
         waived' = waived \/ waived' = waived \cup {n},
         UNCHANGED <<rows, delivered, arrived, told>>
  PROVE  Delivery!Next
<1>1. QueuedNotes' = QueuedNotes
  BY DEF QueuedNotes, Queued
<1>2. CASE waived' = waived
  BY <1>2, UnseenStep
<1>3. CASE waived' = waived \cup {n}
  <2>1. Delivery!Waive(n)
    BY <1>1, <1>3, SameSets DEF Delivery!Waive
  <2> QED
    BY <2>1 DEF Delivery!Next
<1> QED
  BY <1>2, <1>3

\* What a client is told was taken in.
LEMMA TellingSteps ==
  ASSUME NEW n \in Notes, n \in Kept, NEW a \in Answers, Told(n, a),
         UNCHANGED <<rows, delivered, arrived, waived>>
  PROVE  Delivery!Next
<1>1. QueuedNotes' = QueuedNotes
  BY DEF QueuedNotes, Queued
<1>2. Delivery!Tell(n)
  BY <1>1, SameSets DEF Told, Answers, Delivery!Tell
<1> QED
  BY <1>2 DEF Delivery!Next

\* Without a key an attempt and the answer "sent" go together.
LEMMA TryingSteps ==
  ASSUME NEW n \in Notes, Key(n) = NoKey, Told(n, "sent"),
         arrived' = arrived \/ arrived' = arrived \cup {n},
         UNCHANGED <<rows, delivered, waived>>
  PROVE  Delivery!Next
<1>1. QueuedNotes' = QueuedNotes
  BY DEF QueuedNotes, Queued
<1>2. Delivery!TryOnce(n)
  BY <1>1 DEF Told, Delivery!TryOnce
<1> QED
  BY <1>2 DEF Delivery!Next

\* A step of a request handler is a step of the service.
LEMMA ServingSteps ==
  ASSUME IInv, NEW h \in Handlers, Serve(h)
  PROVE  Delivery!Next
<1>0. ASSUME pc[h] # "idle" PROVE req[h] \in Notes
  BY <1>0 DEF IInv, HandlersOK
<1>1. CASE (\E n \in Notes : Post(h, n)) \/ Refuse(h) \/ SelectTwin(h) \/ DirectThread(h)
  <2>1. UNCHANGED <<rows, delivered, arrived, waived, told>>
    BY <1>1 DEF Post, Refuse, SelectTwin, DirectThread, store, history
  <2> QED
    BY <2>1, UnseenStep
<1>2. CASE AnswerDelivered(h)
  <2>1. req[h] \in Notes /\ Key(req[h]) # NoKey /\ Key(req[h]) \in delivered
    BY <1>0, <1>2 DEF AnswerDelivered, IInv, HandlersOK
  <2>2. req[h] \in Kept
    BY <2>1, KeyOfOneNote DEF IInv, MarkIsTrue, Settled, Kept
  <2> QED
    BY <1>2, <2>1, <2>2, TellingSteps DEF AnswerDelivered, store, Answers
<1>3. CASE AskMuted(h)
  <2>1. req[h] \in Notes /\ Key(req[h]) # NoKey
    BY <1>0, <1>3 DEF AskMuted, IInv, HandlersOK
  <2>2. /\ waived' = waived \/ waived' = waived \cup {req[h]}
        /\ UNCHANGED <<rows, delivered, arrived, told>>
    BY <1>3 DEF AskMuted, store
  <2> QED
    BY <2>1, <2>2, WaivingSteps
<1>4. CASE WaivePost(h)
  <2>1. req[h] \in Notes /\ req[h] \in Settled
    BY <1>0, <1>4 DEF WaivePost, IInv, HandlersOK
  <2> QED
    BY <1>4, <2>1, MarkingSteps DEF WaivePost, history
<1>5. CASE InsertKeyed(h)
  <2>1. req[h] \in Notes /\ Key(req[h]) # NoKey
    BY <1>0, <1>5 DEF InsertKeyed, IInv, HandlersOK
  <2>2. UNCHANGED <<delivered, arrived, waived, told>>
    BY <1>5 DEF InsertKeyed, history
  <2>3. CASE UNCHANGED rows
    BY <2>2, <2>3, UnseenStep
  <2>4. CASE AddRow(req[h])
    <3>1. QueuedNotes' = QueuedNotes \cup {req[h]}
      BY <2>1, <2>4, RowsAdd
    <3>2. Delivery!Accept(req[h])
      BY <2>1, <2>2, <3>1 DEF Delivery!Accept
    <3> QED
      BY <2>1, <3>2 DEF Delivery!Next
  <2> QED
    BY <1>5, <2>3, <2>4 DEF InsertKeyed
<1>6. CASE DirectRoute(h)
  <2>1. req[h] \in Notes /\ Key(req[h]) = NoKey
    BY <1>0, <1>6 DEF DirectRoute, IInv, HandlersOK
  <2>2. /\ arrived' = arrived \/ arrived' = arrived \cup {req[h]}
        /\ UNCHANGED <<rows, delivered, waived>>
        /\ UNCHANGED told \/ Told(req[h], "sent")
    BY <1>6 DEF DirectRoute, store
  <2> QED
    BY <2>1, <2>2, ArrivingSteps, TryingSteps
<1>7. CASE Save(h)
  <2>1. req[h] \in Notes /\ Key(req[h]) = NoKey
    BY <1>0, <1>7 DEF Save, IInv, HandlersOK
  <2>2. QueuedNotes' = QueuedNotes \cup {req[h]}
    BY <1>7, <2>1, RowsAdd DEF Save
  <2>3. Delivery!Accept(req[h])
    BY <1>7, <2>1, <2>2 DEF Save, Told, Delivery!Accept
  <2> QED
    BY <2>1, <2>3 DEF Delivery!Next
<1>8. CASE SaveFails(h) \/ Tell(h)
  <2>1. req[h] \in Notes /\ Key(req[h]) = NoKey
    BY <1>0, <1>8 DEF SaveFails, Tell, IInv, HandlersOK
  <2>2. /\ arrived' = arrived \/ arrived' = arrived \cup {req[h]}
        /\ UNCHANGED <<rows, delivered, waived>>
        /\ Told(req[h], "sent") \/ UNCHANGED <<arrived, told>>
    BY <1>8 DEF SaveFails, Tell, store
  <2> QED
    BY <2>1, <2>2, TryingSteps, UnseenStep
<1> QED
  BY <1>1, <1>2, <1>3, <1>4, <1>5, <1>6, <1>7, <1>8 DEF Serve

\* A step of a drain with a row is a step of the service.
LEMMA DrainingSteps ==
  ASSUME IInv, ListedKept, NEW p \in Procs, NEW n \in Notes, DrainRow(p, n)
  PROVE  Delivery!Next
<1>0. todo[p] # {} /\ Head(p).note = n
  BY DEF DrainRow, SkipRow, DropDuplicate, GiveUpRow, MarkGivenUp, TryRow, SendDone, SendFails,
     SendMalformed, CountFailure, CountingFails, MarkSent, MarkSentFails, Delete, DeleteFails, At
<1>1. n \in Kept
  BY <1>0, HeadListed DEF IInv, ListedKept
<1>2. CASE \/ SkipRow(p, n) \/ DropDuplicate(p, n) \/ TryRow(p, n) \/ CountingFails(p, n)
           \/ MarkSentFails(p, n) \/ DeleteFails(p, n)
  <2>1. UNCHANGED <<rows, delivered, arrived, waived, told>>
    BY <1>2 DEF SkipRow, DropDuplicate, TryRow, CountingFails, MarkSentFails, DeleteFails,
       store, history
  <2> QED
    BY <2>1, UnseenStep
<1>3. CASE GiveUpRow(p, n) \/ SendMalformed(p, n)
  <2>1. waived' = waived \cup {n} /\ UNCHANGED <<rows, delivered, arrived, told>>
    BY <1>3 DEF GiveUpRow, SendMalformed, store
  <2> QED
    BY <1>1, <2>1, WaivingSteps
<1>4. CASE SendDone(p, n) \/ SendFails(p, n)
  <2>1. /\ arrived' = arrived \/ arrived' = arrived \cup {n}
        /\ UNCHANGED <<rows, delivered, waived, told>>
    BY <1>4 DEF SendDone, SendFails, store
  <2> QED
    BY <1>1, <2>1, ArrivingSteps
<1>5. CASE MarkGivenUp(p, n) \/ MarkSent(p, n)
  <2>1. n \in Settled
    BY <1>0, <1>5 DEF MarkGivenUp, MarkSent, At, IInv, DrainsOK
  <2>2. /\ MarkKey(n) \/ UNCHANGED delivered
        /\ UNCHANGED <<rows, arrived, waived, told>>
    BY <1>5 DEF MarkGivenUp, MarkSent, history
  <2> QED
    BY <2>1, <2>2, MarkingSteps
<1>6. CASE CountFailure(p, n)
  <2>1. Counts(p) /\ UNCHANGED <<delivered, arrived, waived, told>>
    BY <1>6 DEF CountFailure, Counts, history
  <2>2. QueuedNotes' = QueuedNotes
    BY <2>1, RowsCount
  <2> QED
    BY <2>1, <2>2 DEF Delivery!Next, Delivery!Unseen, Delivery!vars
<1>7. CASE Delete(p, n)
  <2>1. /\ Deletes(p) /\ n \in Settled
        /\ UNCHANGED <<delivered, arrived, waived, told>>
    BY <1>0, <1>7 DEF Delete, At, Deletes, history, IInv, DrainsOK
  <2>2. CASE QueuedNotes' = QueuedNotes
    BY <2>1, <2>2 DEF Delivery!Next, Delivery!Unseen, Delivery!vars
  <2>3. CASE QueuedNotes' = QueuedNotes \ {n}
    <3>1. Delivery!Leave(n)
      BY <2>1, <2>3, SameSets DEF Delivery!Leave
    <3> QED
      BY <3>1 DEF Delivery!Next
  <2> QED
    BY <1>0, <2>1, <2>2, <2>3, RowsDelete
<1> QED
  BY <1>2, <1>3, <1>4, <1>5, <1>6, <1>7 DEF DrainRow

\* Every step is a step of the service.
LEMMA DeliveryStep ==
  ASSUME IInv, ListedKept, Next
  PROVE  Delivery!Next
<1>1. ASSUME NEW h \in Handlers, Serve(h) PROVE Delivery!Next
  BY <1>1, ServingSteps
<1>2. ASSUME NEW p \in Procs, Drain(p) PROVE Delivery!Next
  <2>1. CASE \E n \in Notes : DrainRow(p, n)
    BY <2>1, DrainingSteps
  <2>2. CASE StartDrain(p) \/ List(p) \/ ListFails(p)
    <3>1. UNCHANGED <<rows, delivered, arrived, waived, told>>
      BY <2>2 DEF StartDrain, List, ListFails, store, history
    <3> QED
      BY <3>1, UnseenStep
  <2>3. CASE EndDrain(p)
    <3>1. CASE p \in Handlers
      <4>1. req[p] \in Notes /\ req[p] \in Kept
        BY <2>3, <3>1 DEF EndDrain, IInv, HandlersOK, DrainLabels
      <4> QED
        BY <2>3, <3>1, <4>1, TellingSteps DEF EndDrain, store, Answers
    <3>2. CASE p \notin Handlers
      BY <2>3, <3>2, UnseenStep DEF EndDrain, store
    <3> QED
      BY <3>1, <3>2
  <2> QED
    BY <1>2, <2>1, <2>2, <2>3 DEF Drain
<1>3. CASE (\E d \in Dests : ToggleMute(d)) \/ Crash
  <2>1. UNCHANGED <<rows, delivered, arrived, waived, told>>
    BY <1>3 DEF ToggleMute, Crash, store, history
  <2> QED
    BY <2>1, UnseenStep
<1> QED
  BY <1>1, <1>2, <1>3 DEF Next

\* The queue in Postgres, its drains and the request handlers implement
\* DeliveryService: what was taken in stays queued until it is settled, only
\* what was taken in is sent, and marks and promises are true, through failing
\* statements, overlapping drains and restarts (pending.go: drainPending).
THEOREM ImplementsTheDelivery == Spec => ImplementsDelivery
<1>1. Init => Delivery!Init
  BY DEF Init, Delivery!Init, QueuedNotes, Queued
<1>2. Init => ListedKept
  BY DEF Init, ListedKept
<1>3. IInv /\ ListedKept /\ [Next]_vars => ListedKept'
  <2>1. IInv /\ ListedKept /\ Next => ListedKept'
    BY ListedKeptStep
  <2>2. ListedKept /\ UNCHANGED vars => ListedKept'
    BY DEF ListedKept, vars, store, history, Kept, Settled, Queued
  <2> QED
    BY <2>1, <2>2
<1>4. IInv /\ ListedKept /\ [Next]_vars => [Delivery!Next]_Delivery!vars
  <2>1. IInv /\ ListedKept /\ Next => Delivery!Next
    BY DeliveryStep
  <2>2. UNCHANGED vars => Delivery!Next
    BY UnseenStep DEF vars, store, history
  <2> QED
    BY <2>1, <2>2
<1> QED
  BY NotificationsInvariance, <1>1, <1>2, <1>3, <1>4, PTL
     DEF Spec, ImplementsDelivery, Delivery!Spec
=============================================================================
