----------------------- MODULE HeartbeatEvents_proofs -----------------------
(***************************************************************************)
(* Theorems about HeartbeatEvents: for any events and wakeups, any queue   *)
(* and any times.                                                          *)
(***************************************************************************)
EXTENDS HeartbeatEvents, TLAPS

\* What a loop acknowledges it has put in the queue; a file that is still
\* there after that is excused; a wakeup that is over, or handed over and not
\* yet acknowledged, is in the wakeup loop's hand.
AckedIsHanded == hpc = "ack" => batch \subseteq handed

SeenIsExcused ==
  \A e \in Events : e \in handed /\ file[e] # "gone" =>
                      e \in excused \/ (hpc = "ack" /\ e \in batch)

RemindedIsOver ==
  \A w \in Wakeups : w \in handed => plan[w] # "set" \/ (wpc = "ack" /\ w \in ripe)

NewIsUnseen ==
  /\ \A e \in Events : file[e] \in {"none", "partial", "aside"} => e \notin handed
  /\ \A w \in Wakeups : plan[w] = "new" => w \notin handed /\ w \notin ripe

\* The wakeups that are about to be handed over are due, and have not been
\* handed over for this occasion.
RipeIsDue == wpc = "enqueue" => \A w \in ripe : w \notin handed /\ due[w] = 0

\* Nothing waits for a wakeup that was cancelled.
CancelledIsOff == \A w \in Wakeups : plan[w] = "cancelled" => due[w] = 0

Inv ==
  /\ TypeOK /\ EventIsKept
  /\ AckedIsHanded /\ SeenIsExcused /\ RemindedIsOver /\ NewIsUnseen /\ RipeIsDue
  /\ CancelledIsOff

LEMMA InitInv == Init => Inv
BY HeartbeatAssumption
DEF Init, Inv, TypeOK, EventIsKept, AckedIsHanded, SeenIsExcused, RemindedIsOver,
    NewIsUnseen, RipeIsDue, CancelledIsOff, Things

\* Every step but a stutter keeps the types.
LEMMA TypeStep == ASSUME TypeOK, Next PROVE TypeOK'
<1> USE HeartbeatAssumption DEF TypeOK, events, wakeups, history, Things
<1>1. CASE PollEvents
  BY <1>1 DEF PollEvents, Collect, Whole
<1>2. CASE Heartbeat
  BY <1>2 DEF Heartbeat, Collect, Whole
<1>3. CASE HandOver
  BY <1>3 DEF HandOver, Accepted
<1>4. CASE KeepBatch
  BY <1>4 DEF KeepBatch, Refused
<1>5. CASE AckFails
  BY <1>5 DEF AckFails
<1>6. CASE AckDone
  BY <1>6 DEF AckDone
<1>7. CASE CheckWakeups
  BY <1>7 DEF CheckWakeups, DueWakeups, Planned
<1>8. CASE Remind
  BY <1>8 DEF Remind, Accepted
<1>9. CASE PutOff
  BY <1>9 DEF PutOff, Refused
<1>10. CASE AckWakeups
  BY <1>10 DEF AckWakeups, Planned
<1>11. CASE Arm
  BY <1>11 DEF Arm, Planned
<1>12. CASE Wake
  BY <1>12 DEF Wake
<1>13. CASE Tick
  BY <1>13 DEF Tick, Less, DueWakeups, Planned
<1>14. CASE Take
  BY <1>14 DEF Take
<1>15. CASE Drop
  BY <1>15 DEF Drop
<1>16. CASE Crash
  BY <1>16 DEF Crash
<1>17. ASSUME NEW e \in Events, Create(e) PROVE TypeOK'
  BY <1>17 DEF Create
<1>18. ASSUME NEW e \in Events, Written(e) PROVE TypeOK'
  BY <1>18 DEF Written
<1>19. ASSUME NEW e \in Events, RemoveFile(e) PROVE TypeOK'
  BY <1>19 DEF RemoveFile
<1>20. ASSUME NEW w \in Wakeups, Cancel(w) PROVE TypeOK'
  BY <1>20 DEF Cancel
<1>21. ASSUME NEW w \in Wakeups, NEW d \in 1..Horizon, Schedule(w, d) PROVE TypeOK'
  BY <1>21 DEF Schedule
<1> QED
  BY <1>1, <1>2, <1>3, <1>4, <1>5, <1>6, <1>7, <1>8, <1>9, <1>10, <1>11, <1>12,
     <1>13, <1>14, <1>15, <1>16, <1>17, <1>18, <1>19, <1>20, <1>21
     DEF Next, HeartbeatLoop, WakeupLoop

\* Every step keeps the rest of the invariant.
LEMMA InvStep == ASSUME Inv, Next PROVE Inv'
<1>t. TypeOK /\ TypeOK'
  BY TypeStep DEF Inv
<1> USE HeartbeatAssumption
    DEF Inv, EventIsKept, AckedIsHanded, SeenIsExcused, RemindedIsOver, NewIsUnseen,
        RipeIsDue, CancelledIsOff, TypeOK, events, wakeups, history, Things
<1>1. CASE PollEvents
  BY <1>t, <1>1 DEF PollEvents, Collect, Whole
<1>2. CASE Heartbeat
  BY <1>t, <1>2 DEF Heartbeat, Collect, Whole
<1>3. CASE HandOver
  BY <1>t, <1>3 DEF HandOver, Accepted
<1>4. CASE KeepBatch
  BY <1>t, <1>4 DEF KeepBatch, Refused
<1>5. CASE AckFails
  BY <1>t, <1>5 DEF AckFails
<1>6. CASE AckDone
  BY <1>t, <1>6 DEF AckDone
<1>7. CASE CheckWakeups
  BY <1>t, <1>7 DEF CheckWakeups, DueWakeups, Planned
<1>8. CASE Remind
  BY <1>t, <1>8 DEF Remind, Accepted
<1>9. CASE PutOff
  BY <1>t, <1>9 DEF PutOff, Refused
<1>10. CASE AckWakeups
  BY <1>t, <1>10 DEF AckWakeups, Planned
<1>11. CASE Arm
  BY <1>t, <1>11 DEF Arm, Planned
<1>12. CASE Wake
  BY <1>t, <1>12 DEF Wake
<1>13. CASE Tick
  BY <1>t, <1>13 DEF Tick, Less, DueWakeups, Planned
<1>14. CASE Take
  BY <1>t, <1>14 DEF Take
<1>15. CASE Drop
  BY <1>t, <1>15 DEF Drop
<1>16. CASE Crash
  BY <1>t, <1>16 DEF Crash
<1>17. ASSUME NEW e \in Events, Create(e) PROVE Inv'
  BY <1>t, <1>17 DEF Create
<1>18. ASSUME NEW e \in Events, Written(e) PROVE Inv'
  BY <1>t, <1>18 DEF Written
<1>19. ASSUME NEW e \in Events, RemoveFile(e) PROVE Inv'
  BY <1>t, <1>19 DEF RemoveFile
<1>20. ASSUME NEW w \in Wakeups, Cancel(w) PROVE Inv'
  BY <1>t, <1>20 DEF Cancel
<1>21. ASSUME NEW w \in Wakeups, NEW d \in 1..Horizon, Schedule(w, d) PROVE Inv'
  BY <1>t, <1>21 DEF Schedule
<1> QED
  BY <1>t, <1>1, <1>2, <1>3, <1>4, <1>5, <1>6, <1>7, <1>8, <1>9, <1>10, <1>11,
     <1>12, <1>13, <1>14, <1>15, <1>16, <1>17, <1>18, <1>19, <1>20, <1>21
     DEF Next, HeartbeatLoop, WakeupLoop

LEMMA Stutter == ASSUME Inv, UNCHANGED vars PROVE Inv'
BY DEF vars, events, wakeups, history, Inv, TypeOK, EventIsKept, AckedIsHanded,
       SeenIsExcused, RemindedIsOver, NewIsUnseen, RipeIsDue, CancelledIsOff, Things

\* The invariant of the two loops (heartbeat.go, cron.go).
THEOREM HeartbeatInvariance == Spec => []Inv
<1>1. Init => Inv
  BY InitInv
<1>2. Inv /\ [Next]_vars => Inv'
  BY InvStep, Stutter
<1> QED
  BY <1>1, <1>2, PTL DEF Spec

\* Every variable keeps its type, and a loop has something in hand only while
\* it hands it over and acknowledges it.
THEOREM HeartbeatTyped == Spec => []TypeOK
<1>1. Inv => TypeOK
  BY DEF Inv
<1> QED
  BY <1>1, HeartbeatInvariance, PTL

\* The file of a system event outlives its place outside of the queue
\* (heartbeat.go: acknowledgeHeartbeatEvents).
THEOREM EventsAreKept == Spec => []EventIsKept
<1>1. Inv => EventIsKept
  BY DEF Inv
<1> QED
  BY <1>1, HeartbeatInvariance, PTL

\* What a step adds to the queue.
Fresh == Len(queue') > Len(queue) => queue'[Len(queue')] \cap handed \subseteq excused

LEMMA FreshStep == ASSUME Inv, [Next]_vars PROVE Fresh
<1> USE DEF Fresh
<1> USE HeartbeatAssumption DEF Inv, TypeOK, events, wakeups, history
<1>1. CASE HandOver
  BY <1>1 DEF HandOver, Accepted, SeenIsExcused
<1>2. CASE Remind
  BY <1>2 DEF Remind, Accepted, RipeIsDue
<1>3. CASE PollEvents \/ Heartbeat \/ KeepBatch \/ AckFails \/ AckDone
  BY <1>3 DEF PollEvents, Heartbeat, Collect, KeepBatch, AckFails, AckDone, Refused
<1>4. CASE CheckWakeups \/ PutOff \/ AckWakeups \/ Arm \/ Wake
  BY <1>4 DEF CheckWakeups, PutOff, AckWakeups, Arm, Wake, Refused
<1>5. CASE Tick \/ Take \/ Drop \/ Crash
  BY <1>5 DEF Tick, Take, Drop, Crash
<1>6. ASSUME NEW e \in Events, Create(e) \/ Written(e) \/ RemoveFile(e) PROVE Fresh
  BY <1>6 DEF Create, Written, RemoveFile
<1>7. ASSUME NEW w \in Wakeups, Cancel(w) \/ \E d \in 1..Horizon : Schedule(w, d) PROVE Fresh
  BY <1>7 DEF Cancel, Schedule
<1>8. CASE UNCHANGED vars
  BY <1>8 DEF vars
<1> QED
  BY <1>1, <1>2, <1>3, <1>4, <1>5, <1>6, <1>7, <1>8 DEF Next, HeartbeatLoop, WakeupLoop

\* The wakeups that a step hands over.
Due == \A w \in Wakeups : w \in handed' \ handed => due[w] = 0

LEMMA DueStep == ASSUME Inv, [Next]_vars PROVE Due
<1> USE DEF Due
<1> USE HeartbeatAssumption DEF Inv, TypeOK, events, wakeups, history
<1>1. CASE HandOver
  BY <1>1 DEF HandOver, Accepted, SeenIsExcused
<1>2. CASE Remind
  BY <1>2 DEF Remind, Accepted, RipeIsDue
<1>3. CASE PollEvents \/ Heartbeat \/ KeepBatch \/ AckFails \/ AckDone
  BY <1>3 DEF PollEvents, Heartbeat, Collect, KeepBatch, AckFails, AckDone, Refused
<1>4. CASE CheckWakeups \/ PutOff \/ AckWakeups \/ Arm \/ Wake
  BY <1>4 DEF CheckWakeups, PutOff, AckWakeups, Arm, Wake, Refused
<1>5. CASE Tick \/ Take \/ Drop \/ Crash
  BY <1>5 DEF Tick, Take, Drop, Crash
<1>6. ASSUME NEW e \in Events, Create(e) \/ Written(e) \/ RemoveFile(e) PROVE Due
  BY <1>6 DEF Create, Written, RemoveFile
<1>7. ASSUME NEW w \in Wakeups, Cancel(w) \/ \E d \in 1..Horizon : Schedule(w, d) PROVE Due
  BY <1>7 DEF Cancel, Schedule
<1>8. CASE UNCHANGED vars
  BY <1>8 DEF vars
<1> QED
  BY <1>1, <1>2, <1>3, <1>4, <1>5, <1>6, <1>7, <1>8 DEF Next, HeartbeatLoop, WakeupLoop

\* What is left of the wakeups that were cancelled.
Cancelled ==
  \A w \in Wakeups : plan[w] = "cancelled" =>
    /\ plan'[w] = "cancelled" /\ due'[w] = 0
    /\ w \in handed' \ handed => w \in ripe

LEMMA CancelledStep == ASSUME Inv, [Next]_vars PROVE Cancelled
<1> USE DEF Cancelled
<1> USE HeartbeatAssumption DEF Inv, TypeOK, events, wakeups, history, CancelledIsOff
<1>1. CASE HandOver
  BY <1>1 DEF HandOver, Accepted
<1>2. CASE Remind
  BY <1>2 DEF Remind, Accepted
<1>3. CASE PollEvents \/ Heartbeat \/ KeepBatch \/ AckFails \/ AckDone
  BY <1>3 DEF PollEvents, Heartbeat, Collect, KeepBatch, AckFails, AckDone, Refused
<1>4. CASE CheckWakeups \/ PutOff \/ Arm \/ Wake
  BY <1>4 DEF CheckWakeups, PutOff, Arm, Wake, Refused
<1>5. CASE AckWakeups
  BY <1>5 DEF AckWakeups, Planned
<1>6. CASE Tick \/ Take \/ Drop \/ Crash
  BY <1>6 DEF Tick, Take, Drop, Crash
<1>7. ASSUME NEW e \in Events, Create(e) \/ Written(e) \/ RemoveFile(e) PROVE Cancelled
  BY <1>7 DEF Create, Written, RemoveFile
<1>8. ASSUME NEW w \in Wakeups, Cancel(w) \/ \E d \in 1..Horizon : Schedule(w, d)
      PROVE  Cancelled
  BY <1>8 DEF Cancel, Schedule
<1>9. CASE UNCHANGED vars
  BY <1>9 DEF vars
<1> QED
  BY <1>1, <1>2, <1>3, <1>4, <1>5, <1>6, <1>7, <1>8, <1>9
     DEF Next, HeartbeatLoop, WakeupLoop

\* Nothing is put in the queue twice for one occasion, unless the file of an
\* event could not be removed (heartbeat.go: enqueueHeartbeat, cron.go:
\* acknowledgeDelivered).
THEOREM NothingComesTwice == Spec => NothingTwice
<1>1. Inv /\ [Next]_vars =>
        [Len(queue') > Len(queue) => queue'[Len(queue')] \cap handed \subseteq excused]_vars
  BY FreshStep DEF Fresh
<1> QED
  BY <1>1, HeartbeatInvariance, PTL DEF Spec, NothingTwice

\* No wakeup is handed over before its time (cron.go: dueWakeups).
THEOREM NothingComesEarly == Spec => NeverEarly
<1>1. Inv /\ [Next]_vars => [\A w \in Wakeups : w \in handed' \ handed => due[w] = 0]_vars
  BY DueStep DEF Due
<1> QED
  BY <1>1, HeartbeatInvariance, PTL DEF Spec, NeverEarly

\* A cancelled wakeup is not brought back by the acknowledgement of one that
\* the loop had in hand (cron.go: acknowledgeDelivered).
THEOREM NothingCancelledComesBack == Spec => CancelledStays
<1>1. Inv /\ [Next]_vars =>
        [\A w \in Wakeups : plan[w] = "cancelled" =>
           /\ plan'[w] = "cancelled" /\ due'[w] = 0
           /\ w \in handed' \ handed => w \in ripe]_vars
  BY CancelledStep DEF Cancelled
<1> QED
  BY <1>1, HeartbeatInvariance, PTL DEF Spec, CancelledStays

\* All at once: every occasion reaches the queue once and in time, and nothing
\* that was cancelled comes back (heartbeat.go, cron.go).
THEOREM OnceAndInTime == Spec => OnceInTime
BY NothingComesTwice, NothingComesEarly, NothingCancelledComesBack, PTL DEF OnceInTime
=============================================================================
