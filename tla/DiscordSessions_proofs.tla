----------------------- MODULE DiscordSessions_proofs -----------------------
(***************************************************************************)
(* The safety invariants of DiscordSessions, for any number of channels,   *)
(* sessions and handler calls, in any configuration.                       *)
(*                                                                         *)
(* IInv is inductive.  Bookkeeping carries the argument: a session that    *)
(* waits to be cancelled is already out of the map, so cancelling it       *)
(* cannot hit a mapped one; a handler that holds a session holds one of    *)
(* its own channel, so what it enqueues stays there; and a turn that has   *)
(* the run lock is the only one to write the history it read.              *)
(***************************************************************************)
EXTENDS DiscordSessions, SequenceTheorems, TLAPS

USE DEF PromptKinds, CommandKinds, RunnerStates, Steps, Results, Outcomes

\* The inductive invariant.
IInv ==
  /\ TypeOK
  /\ Bookkeeping
  /\ MappedIsLive
  /\ NoOrphan
  /\ NoLostTurn
  /\ PromptInOnePlace
  /\ CancelNoticeOnlyAtShutdown
  /\ UnansweredOnlyIfReset

\* A compaction of a history is a history.
LEMMA CompactionType ==
  ASSUME NEW S, NEW h \in Seq(S), NEW g \in Compactions(h)
  PROVE  g \in Seq(S)
<1>1. ASSUME NEW i \in 1..Len(h) PROVE SubSeq(h, i, Len(h)) \in Seq(S)
  <2>1. i \in Int /\ Len(h) \in Int /\ \A j \in i..Len(h) : h[j] \in S
    OBVIOUS
  <2> QED
    BY <2>1, SubSeqProperties
<1> QED
  BY <1>1 DEF Compactions

\* The service starts in the invariant.
LEMMA InitIInv == Init => IInv
<1> SUFFICES ASSUME Init PROVE IInv
  OBVIOUS
<1> USE ConstantsAssumption DEF Init
<1>1. TypeOK
  <2>1. \A s \in Sessions : Len(queue[s]) <= QueueCap
    OBVIOUS
  <2> QED
    BY <2>1 DEF TypeOK
<1>2. Bookkeeping
  BY DEF Bookkeeping, HasSession
<1>3. MappedIsLive /\ NoOrphan
  BY DEF MappedIsLive, NoOrphan
<1>4. NoLostTurn /\ PromptInOnePlace
  BY DEF NoLostTurn, HoldsRunLock, PromptInOnePlace, QueueInPlace, HistoryInPlace
<1>5. CancelNoticeOnlyAtShutdown /\ UnansweredOnlyIfReset
  BY DEF CancelNoticeOnlyAtShutdown, UnansweredOnlyIfReset
<1> QED
  BY <1>1, <1>2, <1>3, <1>4, <1>5 DEF IInv

\* Every step keeps the types.
LEMMA TypeStep ==
  ASSUME IInv, [Next]_vars
  PROVE  TypeOK'
<1> USE ConstantsAssumption DEF IInv, TypeOK
<1>1. ASSUME NEW e \in Events, Lookup(e) PROVE TypeOK'
  BY <1>1 DEF Lookup
<1>2. ASSUME NEW e \in Events, New(e) PROVE TypeOK'
  BY <1>2 DEF New
<1>3. ASSUME NEW e \in Events, Stop(e) PROVE TypeOK'
  BY <1>3, ZenonT(90) DEF Stop, Finish
<1>4. ASSUME NEW e \in Events, Compact(e) PROVE TypeOK'
  BY <1>4, ZenonT(90) DEF Compact, Finish
<1>5. ASSUME NEW e \in Events, ResetFails(e) PROVE TypeOK'
  BY <1>5 DEF ResetFails, Finish
<1>6. ASSUME NEW e \in Events, NEW s \in Sessions, Publish(e, s) PROVE TypeOK'
  BY <1>6 DEF Publish
<1>7. ASSUME NEW e \in Events, Launch(e) PROVE TypeOK'
  BY ZenonT(60), <1>7 DEF Launch, Finish
<1>8. ASSUME NEW e \in Events, EnqueueOk(e) PROVE TypeOK'
  BY <1>8 DEF EnqueueOk, Bookkeeping, HasSession
<1>9. ASSUME NEW e \in Events, EnqueueGone(e) PROVE TypeOK'
  BY <1>9 DEF EnqueueGone, Finish
<1>10. ASSUME NEW e \in Events, EnqueueFull(e) PROVE TypeOK'
  BY <1>10 DEF EnqueueFull, Finish
<1>11. ASSUME NEW e \in Events, CancelStopped(e) PROVE TypeOK'
  BY <1>11 DEF CancelStopped, Finish
<1>12. ASSUME NEW e \in Events, CompactStore(e) PROVE TypeOK'
  BY <1>12, CompactionType
     DEF CompactStore, Finish, Bookkeeping, HasSession
<1>13. ASSUME NEW e \in Events, CompactLock(e) PROVE TypeOK'
  BY <1>13 DEF CompactLock, AcquireRun, Bookkeeping, HasSession
<1>14. ASSUME NEW e \in Events, StartTurn(e) PROVE TypeOK'
  BY <1>14 DEF StartTurn, AcquireRun, Bookkeeping, HasSession
<1>15. ASSUME NEW e \in Events, Panic(e) PROVE TypeOK'
  BY <1>15 DEF Panic, EndTurn, Finish, Bookkeeping, HasSession
<1>16. ASSUME NEW e \in Events, SeeCancelled(e) PROVE TypeOK'
  BY <1>16 DEF SeeCancelled
<1>17. ASSUME NEW e \in Events, NEW r \in Results, SeeResult(e, r) PROVE TypeOK'
  BY <1>17 DEF SeeResult
<1>18. ASSUME NEW e \in Events, Abandon(e) PROVE TypeOK'
  BY <1>18 DEF Abandon, EndTurn, Finish, Bookkeeping, HasSession
<1>19. ASSUME NEW e \in Events, SaveTurn(e) PROVE TypeOK'
  <2>1. CASE history' = history
    BY <1>19, <2>1 DEF SaveTurn
  <2>2. ASSUME NEW h \in Compactions(Append(snapshot[e], e)),
               history' = [history EXCEPT ![target[e]] = h]
        PROVE  TypeOK'
    <3>1. Append(snapshot[e], e) \in Seq(Events)
      OBVIOUS
    <3>2. h \in Seq(Events)
      BY <3>1, CompactionType
    <3> QED
      BY <1>19, <2>2, <3>2 DEF SaveTurn
  <2> QED
    BY <1>19, <2>1, <2>2 DEF SaveTurn
<1>20. ASSUME NEW e \in Events, ReplyTurn(e) PROVE TypeOK'
  BY <1>20 DEF ReplyTurn, EndTurn, Finish, RepliesOf, Bookkeeping, HasSession
<1>21. ASSUME NEW s \in Sessions, Take(s) PROVE TypeOK'
  BY <1>21 DEF Take
<1>22. ASSUME NEW s \in Sessions, RunnerExit(s) PROVE TypeOK'
  BY <1>22 DEF RunnerExit
<1>23. CASE Signal
  BY <1>23 DEF Signal
<1>24. CASE CancelAll
  BY <1>24 DEF CancelAll
<1>25. CASE UNCHANGED vars
  BY <1>25 DEF vars
<1> QED
  <2> HIDE DEF TypeOK, IInv
  <2> QED
    BY <1>1, <1>2, <1>3, <1>4, <1>5, <1>6, <1>7, <1>8, <1>9, <1>10, <1>11, <1>12,
       <1>13, <1>14, <1>15, <1>16, <1>17, <1>18, <1>19, <1>20, <1>21, <1>22, <1>23, <1>24, <1>25
       DEF Next, HandlerStep, TurnStep, Quiescent

\* Every step keeps the books.
LEMMA BookkeepingStep ==
  ASSUME IInv, [Next]_vars
  PROVE  Bookkeeping'
<1> USE ConstantsAssumption DEF IInv, TypeOK, Bookkeeping, HasSession, Cancelled
<1>1. ASSUME NEW e \in Events, Lookup(e) PROVE Bookkeeping'
  BY <1>1 DEF Lookup, Prompt, MappedIsLive
<1>2. ASSUME NEW e \in Events, New(e) PROVE Bookkeeping'
  BY <1>2 DEF New
<1>3. ASSUME NEW e \in Events, Stop(e) PROVE Bookkeeping'
  BY <1>3 DEF Stop, Finish, MappedIsLive
<1>4. ASSUME NEW e \in Events, Compact(e) PROVE Bookkeeping'
  BY <1>4 DEF Compact, Finish, MappedIsLive
<1>5. ASSUME NEW e \in Events, ResetFails(e) PROVE Bookkeeping'
  BY <1>5 DEF ResetFails, Finish
<1>6. ASSUME NEW e \in Events, NEW s \in Sessions, Publish(e, s) PROVE Bookkeeping'
  BY <1>6 DEF Publish, MappedIsLive
<1>7. ASSUME NEW e \in Events, Launch(e) PROVE Bookkeeping'
  <2>1. ASSUME NEW s \in Sessions, home[s] = NoKey PROVE ~cancelled'[s]
    <3>1. prev[e] # s
      <4>1. s # NoSession /\ KeyOf[e] # NoKey
        OBVIOUS
      <4>2. prev[e] # NoSession => home[prev[e]] = KeyOf[e]
        OBVIOUS
      <4> QED
        BY <2>1, <4>1, <4>2
    <3> QED
      BY <1>7, <2>1, <3>1 DEF Launch
  <2>2. \A s \in Sessions : Cancelled(s) => Cancelled(s)'
    BY <1>7 DEF Launch
  <2>3. CASE Prompt(e)
    BY <1>7, <2>1, <2>2, <2>3 DEF Launch
  <2>4. CASE ~Prompt(e)
    BY <1>7, <2>1, <2>2, <2>4 DEF Launch, Finish
  <2> QED
    BY <2>3, <2>4
<1>8. ASSUME NEW e \in Events, EnqueueOk(e) PROVE Bookkeeping'
  BY <1>8 DEF EnqueueOk
<1>9. ASSUME NEW e \in Events, EnqueueGone(e) PROVE Bookkeeping'
  BY <1>9 DEF EnqueueGone, Finish
<1>10. ASSUME NEW e \in Events, EnqueueFull(e) PROVE Bookkeeping'
  BY <1>10 DEF EnqueueFull, Finish
<1>11. ASSUME NEW e \in Events, CancelStopped(e) PROVE Bookkeeping'
  BY <1>11 DEF CancelStopped, Finish
<1>12. ASSUME NEW e \in Events, CompactStore(e) PROVE Bookkeeping'
  BY <1>12 DEF CompactStore, Finish
<1>13. ASSUME NEW e \in Events, CompactLock(e) PROVE Bookkeeping'
  BY <1>13 DEF CompactLock, AcquireRun
<1>14. ASSUME NEW e \in Events, StartTurn(e) PROVE Bookkeeping'
  BY <1>14 DEF StartTurn, AcquireRun
<1>15. ASSUME NEW e \in Events, Panic(e) PROVE Bookkeeping'
  BY <1>15 DEF Panic, EndTurn, Finish
<1>16. ASSUME NEW e \in Events, SeeCancelled(e) PROVE Bookkeeping'
  BY <1>16 DEF SeeCancelled
<1>17. ASSUME NEW e \in Events, NEW r \in Results, SeeResult(e, r) PROVE Bookkeeping'
  BY <1>17 DEF SeeResult
<1>18. ASSUME NEW e \in Events, Abandon(e) PROVE Bookkeeping'
  BY <1>18 DEF Abandon, EndTurn, Finish
<1>19. ASSUME NEW e \in Events, SaveTurn(e) PROVE Bookkeeping'
  BY <1>19 DEF SaveTurn
<1>20. ASSUME NEW e \in Events, ReplyTurn(e) PROVE Bookkeeping'
  BY <1>20 DEF ReplyTurn, EndTurn, Finish, RepliesOf
<1>21. ASSUME NEW s \in Sessions, Take(s) PROVE Bookkeeping'
  <2>1. Head(queue[s]) \in Events /\ pc[Head(queue[s])] = "queued"
    <3>1. /\ queue[s] \in Seq(Events) /\ queue[s] # <<>>
          /\ 1 \in 1..Len(queue[s]) /\ Head(queue[s]) = queue[s][1]
      BY <1>21 DEF Take
    <3> QED
      BY <3>1 DEF PromptInOnePlace, QueueInPlace
  <2> QED
    BY <1>21, <2>1 DEF Take
<1>22. ASSUME NEW s \in Sessions, RunnerExit(s) PROVE Bookkeeping'
  BY <1>22 DEF RunnerExit
<1>23. CASE Signal
  BY <1>23 DEF Signal
<1>24. CASE CancelAll
  <2>1. ASSUME NEW s \in Sessions, home[s] = NoKey PROVE ~cancelled'[s]
    <3>1. \A k \in Keys : current[k] # s
      <4>1. s # NoSession /\ NoKey \notin Keys
        OBVIOUS
      <4> QED
        BY <2>1, <4>1 DEF MappedIsLive
    <3> QED
      BY <1>24, <2>1, <3>1 DEF CancelAll
  <2> QED
    BY <1>24, <2>1 DEF CancelAll
<1>25. CASE UNCHANGED vars
  BY <1>25 DEF vars
<1> QED
  <2> HIDE DEF TypeOK, Bookkeeping, HasSession, Cancelled, IInv
  <2> QED
    BY <1>1, <1>2, <1>3, <1>4, <1>5, <1>6, <1>7, <1>8, <1>9, <1>10, <1>11, <1>12,
       <1>13, <1>14, <1>15, <1>16, <1>17, <1>18, <1>19, <1>20, <1>21, <1>22, <1>23, <1>24, <1>25
       DEF Next, HandlerStep, TurnStep, Quiescent

\* Only five actions touch the map, the keys, the cancellations and what is
\* waiting to be cancelled.
LEMMA MapSteps ==
  ASSUME [Next]_vars
  PROVE  \/ \E e \in Events : \/ \E s \in Sessions : Publish(e, s)
                              \/ Launch(e) \/ Stop(e) \/ CancelStopped(e)
         \/ CancelAll
         \/ UNCHANGED <<current, home, cancelled, prev>>
<1>1. ASSUME NEW e \in Events, Lookup(e) \/ New(e) \/ Compact(e)
      PROVE  UNCHANGED <<current, home, cancelled, prev>>
  BY <1>1 DEF Lookup, New, Compact
<1>2. ASSUME NEW e \in Events,
             \/ ResetFails(e) \/ EnqueueOk(e) \/ EnqueueGone(e) \/ EnqueueFull(e)
             \/ CompactStore(e) \/ CompactLock(e) \/ StartTurn(e)
      PROVE  UNCHANGED <<current, home, cancelled, prev>>
  BY <1>2 DEF ResetFails, EnqueueOk, EnqueueGone, EnqueueFull, CompactStore,
              CompactLock, StartTurn
<1>3. ASSUME NEW e \in Events, TurnStep(e)
      PROVE  UNCHANGED <<current, home, cancelled, prev>>
  BY <1>3 DEF TurnStep, Panic, SeeCancelled, SeeResult, Abandon, SaveTurn, ReplyTurn
<1>4. ASSUME NEW s \in Sessions, Take(s) \/ RunnerExit(s)
      PROVE  UNCHANGED <<current, home, cancelled, prev>>
  BY <1>4 DEF Take, RunnerExit
<1>5. CASE Signal
  BY <1>5 DEF Signal
<1>6. CASE UNCHANGED vars
  BY <1>6 DEF vars
<1> QED
  BY <1>1, <1>2, <1>3, <1>4, <1>5, <1>6 DEF Next, HandlerStep, Quiescent

\* The map keeps holding live sessions of the right key.
LEMMA MappedIsLiveStep ==
  ASSUME IInv, [Next]_vars
  PROVE  MappedIsLive'
<1> USE ConstantsAssumption DEF IInv, TypeOK, Bookkeeping, MappedIsLive
<1>1. ASSUME NEW e \in Events, NEW s \in Sessions, Publish(e, s)
      PROVE  MappedIsLive'
  BY <1>1 DEF Publish
<1>2. ASSUME NEW e \in Events, Launch(e) PROVE MappedIsLive'
  BY <1>2 DEF Launch
<1>3. ASSUME NEW e \in Events, Stop(e) PROVE MappedIsLive'
  BY <1>3 DEF Stop
<1>4. ASSUME NEW e \in Events, CancelStopped(e) PROVE MappedIsLive'
  BY <1>4 DEF CancelStopped
<1>5. CASE CancelAll
  BY <1>5 DEF CancelAll
<1>6. CASE UNCHANGED <<current, home, cancelled, prev>>
  BY <1>6
<1> QED
  BY <1>1, <1>2, <1>3, <1>4, <1>5, <1>6, MapSteps

\* Whoever takes a session out of the map has it in hand until it is cancelled.
LEMMA NoOrphanStep ==
  ASSUME IInv, [Next]_vars
  PROVE  NoOrphan'
<1> USE ConstantsAssumption DEF IInv, TypeOK, Bookkeeping, MappedIsLive, NoOrphan
<1>1. ASSUME NEW e \in Events, NEW s \in Sessions, Publish(e, s)
      PROVE  NoOrphan'
  BY <1>1 DEF Publish
<1>2. ASSUME NEW e \in Events, Launch(e) PROVE NoOrphan'
  BY ZenonT(60), <1>2 DEF Launch
<1>3. ASSUME NEW e \in Events, Stop(e) PROVE NoOrphan'
  BY <1>3 DEF Stop
<1>4. ASSUME NEW e \in Events, CancelStopped(e) PROVE NoOrphan'
  BY <1>4 DEF CancelStopped
<1>5. CASE CancelAll
  <2>1. ASSUME NEW s \in Sessions, home'[s] # NoKey, ~cancelled'[s]
        PROVE  \E e \in Events : prev'[e] = s
    <3>1. home[s] \in Keys /\ ~cancelled[s] /\ current[home[s]] # s
      <4>1. home'[s] = home[s]
        BY <1>5 DEF CancelAll
      <4>2. cancelled'[s] = (cancelled[s] \/ \E k \in Keys : current[k] = s)
        BY <1>5 DEF CancelAll
      <4> QED
        <5>1. ~cancelled[s] /\ ~\E k \in Keys : current[k] = s
          BY <2>1, <4>2
        <5>2. home[s] # NoKey
          BY <2>1, <4>1
        <5> QED
          BY <5>1, <5>2
    <3> QED
      BY <1>5, <2>1, <3>1 DEF CancelAll
  <2> QED
    BY <2>1
<1>6. CASE UNCHANGED <<current, home, cancelled, prev>>
  BY <1>6
<1> QED
  BY <1>1, <1>2, <1>3, <1>4, <1>5, <1>6, MapSteps

\* The run lock protects every read and write of a history.
LEMMA NoLostTurnStep ==
  ASSUME IInv, [Next]_vars
  PROVE  NoLostTurn'
<1> USE ConstantsAssumption DEF IInv, TypeOK, Bookkeeping, HasSession, NoLostTurn, HoldsRunLock, Isolated
<1>1. ASSUME NEW e \in Events, Lookup(e) PROVE NoLostTurn'
  BY <1>1 DEF Lookup
<1>2. ASSUME NEW e \in Events, New(e) PROVE NoLostTurn'
  BY <1>2 DEF New
<1>3. ASSUME NEW e \in Events, Stop(e) PROVE NoLostTurn'
  BY <1>3 DEF Stop, Finish
<1>4. ASSUME NEW e \in Events, Compact(e) PROVE NoLostTurn'
  BY <1>4 DEF Compact, Finish
<1>5. ASSUME NEW e \in Events, ResetFails(e) PROVE NoLostTurn'
  BY <1>5 DEF ResetFails, Finish
<1>6. ASSUME NEW e \in Events, NEW s \in Sessions, Publish(e, s) PROVE NoLostTurn'
  BY <1>6 DEF Publish
<1>7. ASSUME NEW e \in Events, Launch(e) PROVE NoLostTurn'
  BY <1>7 DEF Launch, Finish
<1>8. ASSUME NEW e \in Events, EnqueueOk(e) PROVE NoLostTurn'
  BY <1>8 DEF EnqueueOk
<1>9. ASSUME NEW e \in Events, EnqueueGone(e) PROVE NoLostTurn'
  BY <1>9 DEF EnqueueGone, Finish
<1>10. ASSUME NEW e \in Events, EnqueueFull(e) PROVE NoLostTurn'
  BY <1>10 DEF EnqueueFull, Finish
<1>11. ASSUME NEW e \in Events, CancelStopped(e) PROVE NoLostTurn'
  BY <1>11 DEF CancelStopped, Finish
<1>12. ASSUME NEW e \in Events, CompactStore(e) PROVE NoLostTurn'
  BY <1>12 DEF CompactStore, Finish
<1>13. ASSUME NEW e \in Events, CompactLock(e) PROVE NoLostTurn'
  BY <1>13 DEF CompactLock, AcquireRun
<1>14. ASSUME NEW e \in Events, StartTurn(e) PROVE NoLostTurn'
  BY <1>14 DEF StartTurn, AcquireRun
<1>15. ASSUME NEW e \in Events, Panic(e) PROVE NoLostTurn'
  BY <1>15 DEF Panic, EndTurn, Finish
<1>16. ASSUME NEW e \in Events, SeeCancelled(e) PROVE NoLostTurn'
  BY <1>16 DEF SeeCancelled
<1>17. ASSUME NEW e \in Events, NEW r \in Results, SeeResult(e, r) PROVE NoLostTurn'
  BY <1>17 DEF SeeResult
<1>18. ASSUME NEW e \in Events, Abandon(e) PROVE NoLostTurn'
  BY <1>18 DEF Abandon, EndTurn, Finish
<1>19. ASSUME NEW e \in Events, SaveTurn(e) PROVE NoLostTurn'
  BY <1>19 DEF SaveTurn
<1>20. ASSUME NEW e \in Events, ReplyTurn(e) PROVE NoLostTurn'
  BY <1>20 DEF ReplyTurn, EndTurn, Finish, RepliesOf
<1>21. ASSUME NEW s \in Sessions, Take(s) PROVE NoLostTurn'
  BY <1>21 DEF Take
<1>22. ASSUME NEW s \in Sessions, RunnerExit(s) PROVE NoLostTurn'
  BY <1>22 DEF RunnerExit
<1>23. CASE Signal
  BY <1>23 DEF Signal
<1>24. CASE CancelAll
  BY <1>24 DEF CancelAll
<1>25. CASE UNCHANGED vars
  BY <1>25 DEF vars
<1> QED
  <2> HIDE DEF TypeOK, Bookkeeping, HasSession, NoLostTurn, HoldsRunLock, Isolated, IInv
  <2> QED
    BY <1>1, <1>2, <1>3, <1>4, <1>5, <1>6, <1>7, <1>8, <1>9, <1>10, <1>11, <1>12,
       <1>13, <1>14, <1>15, <1>16, <1>17, <1>18, <1>19, <1>20, <1>21, <1>22, <1>23, <1>24, <1>25
       DEF Next, HandlerStep, TurnStep, Quiescent

\* A waiting prompt belongs to the session in whose queue it is.
LEMMA QueueElement ==
  ASSUME IInv, NEW s \in Sessions, NEW i \in 1..Len(queue[s])
  PROVE  /\ queue[s][i] \in Events
         /\ pc[queue[s][i]] = "queued" /\ target[queue[s][i]] = s
         /\ KeyOf[queue[s][i]] = home[s] /\ home[s] # NoKey
         /\ \A j \in 1..Len(queue[s]) : queue[s][j] = queue[s][i] => j = i
<1>1. queue[s] \in Seq(Events) /\ QueueInPlace(s)
  BY DEF IInv, TypeOK, PromptInOnePlace
<1>2. queue[s][i] \in Events
  BY <1>1
<1>3. /\ pc[queue[s][i]] = "queued" /\ target[queue[s][i]] = s
      /\ KeyOf[queue[s][i]] = home[s]
      /\ \A j \in 1..Len(queue[s]) : queue[s][j] = queue[s][i] => j = i
  BY <1>1 DEF QueueInPlace
<1>4. KeyOf[queue[s][i]] # NoKey
  BY <1>2, ConstantsAssumption
<1> QED
  BY <1>2, <1>3, <1>4

\* A turn in a history is one of that session, and over.
LEMMA HistoryElement ==
  ASSUME IInv, NEW s \in Sessions, NEW i \in 1..Len(history[s])
  PROVE  /\ history[s][i] \in Events
         /\ pc[history[s][i]] \in {"reply", "done"} /\ target[history[s][i]] = s
         /\ \A j \in 1..Len(history[s]) : history[s][j] = history[s][i] => j = i
<1>1. history[s] \in Seq(Events) /\ HistoryInPlace(s)
  BY DEF IInv, TypeOK, PromptInOnePlace
<1>2. history[s][i] \in Events
  BY <1>1
<1> QED
  BY <1>1, <1>2 DEF HistoryInPlace

\* A queue that is left alone stays in place if the prompts in it do.
LEMMA QueueFrame ==
  ASSUME IInv, NEW s \in Sessions, queue'[s] = queue[s],
         home[s] # NoKey => home'[s] = home[s],
         \A e \in Events : pc[e] = "queued" /\ target[e] = s =>
                             pc'[e] = "queued" /\ target'[e] = s
  PROVE  QueueInPlace(s)'
<1>1. ASSUME NEW i \in 1..Len(queue[s])
      PROVE  /\ pc'[queue[s][i]] = "queued"
             /\ target'[queue[s][i]] = s /\ KeyOf[queue[s][i]] = home'[s]
             /\ \A j \in 1..Len(queue[s]) : queue[s][j] = queue[s][i] => j = i
  BY QueueElement
<1> QED
  BY <1>1 DEF QueueInPlace

\* So does a history.
LEMMA HistoryFrame ==
  ASSUME IInv, NEW s \in Sessions, history'[s] = history[s],
         \A e \in Events : pc[e] \in {"reply", "done"} /\ target[e] = s =>
                             pc'[e] \in {"reply", "done"} /\ target'[e] = s
  PROVE  HistoryInPlace(s)'
<1>1. ASSUME NEW i \in 1..Len(history[s])
      PROVE  /\ pc'[history[s][i]] \in {"reply", "done"}
             /\ target'[history[s][i]] = s
             /\ \A j \in 1..Len(history[s]) : history[s][j] = history[s][i] => j = i
  BY HistoryElement
<1> QED
  BY <1>1 DEF HistoryInPlace

\* A suffix of turns that are in place is in place.
LEMMA SuffixInPlace ==
  ASSUME NEW s \in Sessions, NEW g \in Seq(Events), NEW h \in Compactions(g),
         history'[s] = h,
         \A i \in 1..Len(g) : /\ pc'[g[i]] \in {"reply", "done"}
                              /\ target'[g[i]] = s
                              /\ \A j \in 1..Len(g) : g[j] = g[i] => j = i
  PROVE  HistoryInPlace(s)'
<1>1. CASE h = g
  BY <1>1 DEF HistoryInPlace
<1>2. ASSUME NEW m \in 1..Len(g), h = SubSeq(g, m, Len(g))
      PROVE  HistoryInPlace(s)'
  <2>1. /\ Len(h) = Len(g) - m + 1
        /\ \A i \in 1..Len(h) : m + i - 1 \in 1..Len(g) /\ h[i] = g[m + i - 1]
    <3>1. m \in Int /\ Len(g) \in Int /\ m <= Len(g) /\ \A i \in m..Len(g) : g[i] \in Events
      OBVIOUS
    <3>2. /\ Len(h) = IF m <= Len(g) THEN Len(g) - m + 1 ELSE 0
          /\ \A i \in 1..(Len(g) - m + 1) : h[i] = g[m + i - 1]
      BY <1>2, <3>1, SubSeqProperties
    <3> QED
      BY <3>1, <3>2
  <2>2. ASSUME NEW i \in 1..Len(h), NEW j \in 1..Len(h), h[j] = h[i] PROVE j = i
    <3>1. m + j - 1 = m + i - 1
      BY <2>1, <2>2
    <3> QED
      BY <2>1, <3>1
  <2> QED
    BY SMTT(30), <2>1, <2>2 DEF HistoryInPlace
<1> QED
  BY <1>1, <1>2 DEF Compactions

\* What a step must respect to leave the prompts it does not move in place.
PlacesKept ==
  /\ UNCHANGED <<queue, history>>
  /\ \A s \in Sessions : home[s] # NoKey => home'[s] = home[s]
  /\ \A e \in Events : pc[e] = "queued" => pc'[e] = "queued" /\ target'[e] = target[e]
  /\ \A e \in Events : pc[e] \in {"reply", "done"} =>
                         pc'[e] \in {"reply", "done"} /\ target'[e] = target[e]

\* Most steps move no prompt.
LEMMA PlacesFrame ==
  ASSUME IInv, PlacesKept
  PROVE  PromptInOnePlace'
<1>1. ASSUME NEW s \in Sessions PROVE QueueInPlace(s)'
  BY QueueFrame DEF PlacesKept
<1>2. ASSUME NEW s \in Sessions PROVE HistoryInPlace(s)'
  BY HistoryFrame DEF PlacesKept
<1> QED
  BY <1>1, <1>2 DEF PromptInOnePlace

\* Every step leaves each prompt in one place.
LEMMA PromptInOnePlaceStep ==
  ASSUME IInv, [Next]_vars
  PROVE  PromptInOnePlace'
<1> USE ConstantsAssumption DEF IInv, TypeOK
<1>1. ASSUME NEW e \in Events, Lookup(e) PROVE PlacesKept
  BY <1>1 DEF PlacesKept, Lookup
<1>2. ASSUME NEW e \in Events, New(e) PROVE PlacesKept
  BY <1>2 DEF PlacesKept, New
<1>3. ASSUME NEW e \in Events, Stop(e) PROVE PlacesKept
  BY <1>3 DEF PlacesKept, Stop, Finish
<1>4. ASSUME NEW e \in Events, Compact(e) PROVE PlacesKept
  BY <1>4 DEF PlacesKept, Compact, Finish
<1>5. ASSUME NEW e \in Events, ResetFails(e) PROVE PlacesKept
  BY <1>5 DEF PlacesKept, ResetFails, Finish
<1>6. ASSUME NEW e \in Events, NEW s \in Sessions, Publish(e, s) PROVE PlacesKept
  BY <1>6 DEF PlacesKept, Publish
<1>7. ASSUME NEW e \in Events, Launch(e) PROVE PlacesKept
  BY <1>7 DEF PlacesKept, Launch, Finish, Prompt
<1>8. ASSUME NEW e \in Events, EnqueueGone(e) PROVE PlacesKept
  BY <1>8 DEF PlacesKept, EnqueueGone, Finish
<1>9. ASSUME NEW e \in Events, EnqueueFull(e) PROVE PlacesKept
  BY <1>9 DEF PlacesKept, EnqueueFull, Finish
<1>10. ASSUME NEW e \in Events, CancelStopped(e) PROVE PlacesKept
  BY <1>10 DEF PlacesKept, CancelStopped, Finish
<1>11. ASSUME NEW e \in Events, CompactLock(e) PROVE PlacesKept
  BY <1>11 DEF PlacesKept, CompactLock, AcquireRun
<1>12. ASSUME NEW e \in Events, StartTurn(e) PROVE PlacesKept
  BY <1>12 DEF PlacesKept, StartTurn, AcquireRun
<1>13. ASSUME NEW e \in Events, Panic(e) PROVE PlacesKept
  BY <1>13 DEF PlacesKept, Panic, EndTurn, Finish
<1>14. ASSUME NEW e \in Events, SeeCancelled(e) PROVE PlacesKept
  BY <1>14 DEF PlacesKept, SeeCancelled
<1>15. ASSUME NEW e \in Events, NEW r \in Results, SeeResult(e, r) PROVE PlacesKept
  BY <1>15 DEF PlacesKept, SeeResult
<1>16. ASSUME NEW e \in Events, Abandon(e) PROVE PlacesKept
  BY <1>16 DEF PlacesKept, Abandon, EndTurn, Finish
<1>17. ASSUME NEW e \in Events, ReplyTurn(e) PROVE PlacesKept
  BY <1>17 DEF PlacesKept, ReplyTurn, EndTurn, Finish
<1>18. ASSUME NEW s \in Sessions, RunnerExit(s) PROVE PlacesKept
  BY <1>18 DEF PlacesKept, RunnerExit
<1>19. CASE Signal
  BY <1>19, PlacesFrame DEF PlacesKept, Signal
<1>20. CASE CancelAll
  BY <1>20, PlacesFrame DEF PlacesKept, CancelAll
<1>21. CASE UNCHANGED vars
  BY <1>21, PlacesFrame DEF PlacesKept, vars
<1>22. ASSUME NEW e \in Events, EnqueueOk(e) PROVE PromptInOnePlace'
  <2>0. PICK t \in Sessions : t = target[e]
    BY <1>22 DEF EnqueueOk, Bookkeeping, HasSession
  <2>1. t \in Sessions /\ home[t] = KeyOf[e] /\ pc[e] = "ready"
    BY <1>22, <2>0 DEF EnqueueOk, Bookkeeping, HasSession
  <2>2. /\ queue' = [queue EXCEPT ![t] = Append(queue[t], e)]
        /\ pc' = [pc EXCEPT ![e] = "queued"]
        /\ UNCHANGED <<home, history, target>>
    BY <1>22, <2>0 DEF EnqueueOk
  <2> HIDE DEF IInv, TypeOK
  <2>3. ASSUME NEW s \in Sessions PROVE HistoryInPlace(s)'
    BY <2>1, <2>2, HistoryFrame
  <2>4. ASSUME NEW s \in Sessions, s # t PROVE QueueInPlace(s)'
    <3>1. queue'[s] = queue[s]
      BY <2>2, <2>4
    <3> QED
      BY <2>1, <2>2, <2>4, <3>1, QueueFrame
  <2>5. QueueInPlace(t)'
    <3>1. queue[t] \in Seq(Events) /\ pc \in [Events -> Steps] /\ queue \in [Sessions -> Seq(Events)]
      BY <2>1 DEF IInv, TypeOK
    <3>2. queue'[t] = Append(queue[t], e)
      BY <2>1, <2>2, <3>1
    <3>3. /\ Len(queue'[t]) = Len(queue[t]) + 1
          /\ \A i \in 1..Len(queue[t]) : queue'[t][i] = queue[t][i]
          /\ queue'[t][Len(queue[t]) + 1] = e
      BY <3>1, <3>2
    <3>4. ASSUME NEW i \in 1..Len(queue[t])
          PROVE  /\ queue[t][i] # e
                 /\ pc'[queue[t][i]] = "queued"
                 /\ target'[queue[t][i]] = t /\ KeyOf[queue[t][i]] = home'[t]
                 /\ \A j \in 1..Len(queue[t]) : queue[t][j] = queue[t][i] => j = i
      BY <2>1, <2>2, <3>1, QueueElement
    <3>5. pc'[e] = "queued" /\ target'[e] = t /\ KeyOf[e] = home'[t]
      BY <2>0, <2>1, <2>2, <3>1
    <3>6. \A i \in 1..Len(queue'[t]) : i \in 1..Len(queue[t]) \/ i = Len(queue[t]) + 1
      BY <3>1, <3>3
    <3>7. ASSUME NEW i \in 1..Len(queue'[t]), NEW j \in 1..Len(queue'[t]),
                 queue'[t][j] = queue'[t][i]
          PROVE  j = i
      BY <3>1, <3>3, <3>4, <3>6, <3>7
    <3>8. ASSUME NEW i \in 1..Len(queue'[t])
          PROVE  pc'[queue'[t][i]] = "queued" /\ target'[queue'[t][i]] = t
                   /\ KeyOf[queue'[t][i]] = home'[t]
      BY <3>3, <3>4, <3>5, <3>6
    <3> QED
      BY <2>2, <3>7, <3>8 DEF QueueInPlace
  <2> QED
    BY <2>3, <2>4, <2>5 DEF PromptInOnePlace
<1>23. ASSUME NEW r \in Sessions, Take(r) PROVE PromptInOnePlace'
  <2> DEFINE e == Head(queue[r])
  <2>1. /\ Len(queue[r]) > 0 /\ e = queue[r][1] /\ e \in Events /\ 1 \in 1..Len(queue[r])
        /\ queue' = [queue EXCEPT ![r] = Tail(queue[r])]
        /\ pc' = [pc EXCEPT ![e] = "lock"]
        /\ UNCHANGED <<home, history, target>>
    BY <1>23 DEF Take
  <2>2. queue[r] \in Seq(Events) /\ pc \in [Events -> Steps] /\ queue \in [Sessions -> Seq(Events)]
    OBVIOUS
  <2> HIDE DEF IInv, TypeOK, e
  <2>3. pc[e] = "queued" /\ target[e] = r
        /\ \A j \in 1..Len(queue[r]) : queue[r][j] = e => j = 1
    BY ZenonT(60), <2>1, QueueElement
  <2>4. ASSUME NEW s \in Sessions PROVE HistoryInPlace(s)'
    BY <2>1, <2>3, HistoryFrame
  <2>5. ASSUME NEW s \in Sessions, s # r PROVE QueueInPlace(s)'
    <3>1. queue'[s] = queue[s]
      BY <2>1, <2>5
    <3> QED
      BY <2>1, <2>2, <2>3, <2>5, <3>1, QueueFrame
  <2>6. QueueInPlace(r)'
    <3>1. queue'[r] = Tail(queue[r])
      BY <2>1, <2>2
    <3>2. /\ Len(queue'[r]) = Len(queue[r]) - 1
          /\ \A i \in 1..Len(queue'[r]) : queue'[r][i] = queue[r][i + 1]
                                           /\ i + 1 \in 2..Len(queue[r])
      BY <2>1, <2>2, <3>1
    <3>3. ASSUME NEW i \in 2..Len(queue[r])
          PROVE  /\ pc'[queue[r][i]] = "queued"
                 /\ target'[queue[r][i]] = r /\ KeyOf[queue[r][i]] = home'[r]
                 /\ \A j \in 2..Len(queue[r]) : queue[r][j] = queue[r][i] => j = i
      <4>1. i \in 1..Len(queue[r]) /\ i # 1
        BY <2>2
      <4>2. queue[r][i] # e
        BY <2>3, <4>1
      <4> QED
        BY <2>1, <2>2, <4>1, <4>2, QueueElement
    <3>4. ASSUME NEW i \in 1..Len(queue'[r])
          PROVE  /\ pc'[queue'[r][i]] = "queued"
                 /\ target'[queue'[r][i]] = r /\ KeyOf[queue'[r][i]] = home'[r]
      BY <3>2, <3>3
    <3>5. ASSUME NEW i \in 1..Len(queue'[r]), NEW j \in 1..Len(queue'[r]),
                 queue'[r][j] = queue'[r][i]
          PROVE  j = i
      <4>1. j + 1 = i + 1
        BY <3>2, <3>3, <3>5
      <4> QED
        BY <4>1
    <3> QED
      BY <3>4, <3>5 DEF QueueInPlace
  <2> QED
    BY <2>4, <2>5, <2>6 DEF PromptInOnePlace
<1>24. ASSUME NEW e \in Events, SaveTurn(e) PROVE PromptInOnePlace'
  <2>0. PICK t \in Sessions : t = target[e]
    BY <1>24 DEF SaveTurn, Bookkeeping, HasSession
  <2>1. /\ t \in Sessions /\ pc[e] = "save" /\ UNCHANGED <<queue, home, target>>
        /\ pc' = [pc EXCEPT ![e] = "reply"]
    BY <1>24, <2>0 DEF SaveTurn, Bookkeeping, HasSession
  <2>2. /\ history[t] \in Seq(Events) /\ pc \in [Events -> Steps]
        /\ history \in [Sessions -> Seq(Events)]
    BY <2>1
  <2>3. ~Isolated(e) => snapshot[e] = history[t]
    BY <2>0, <2>1 DEF NoLostTurn, HoldsRunLock
  <2>4. history' = history \/ (~Isolated(e) /\ \E h \in Compactions(Append(snapshot[e], e)) :
                                  history' = [history EXCEPT ![t] = h])
    BY <1>24, <2>0 DEF SaveTurn
  <2> HIDE DEF IInv, TypeOK
  <2>5. ASSUME NEW s \in Sessions PROVE QueueInPlace(s)'
    BY <2>1, QueueFrame
  <2>6. ASSUME NEW s \in Sessions, history'[s] = history[s] PROVE HistoryInPlace(s)'
    BY <2>1, <2>2, <2>6, HistoryFrame
  <2>7. ASSUME ~Isolated(e), NEW h \in Compactions(Append(snapshot[e], e)),
               history' = [history EXCEPT ![t] = h]
        PROVE  HistoryInPlace(t)'
    <3> DEFINE g == Append(history[t], e)
    <3>1. g \in Seq(Events) /\ h \in Compactions(g) /\ history'[t] = h
      BY <2>1, <2>2, <2>3, <2>7
    <3>2. /\ Len(g) = Len(history[t]) + 1 /\ g[Len(history[t]) + 1] = e
          /\ \A j \in 1..Len(history[t]) : g[j] = history[t][j]
          /\ \A j \in 1..Len(g) : j \in 1..Len(history[t]) \/ j = Len(history[t]) + 1
      BY <2>2
    <3>3. ASSUME NEW j \in 1..Len(history[t])
          PROVE  /\ history[t][j] # e
                 /\ pc'[history[t][j]] \in {"reply", "done"}
                 /\ target'[history[t][j]] = t
                 /\ \A k \in 1..Len(history[t]) : history[t][k] = history[t][j] => k = j
      BY <2>1, <2>2, HistoryElement
    <3>4. pc'[e] = "reply" /\ target'[e] = t
      BY <2>0, <2>1, <2>2
    <3> HIDE DEF g
    <3>5. ASSUME NEW i \in 1..Len(g)
          PROVE  pc'[g[i]] \in {"reply", "done"} /\ target'[g[i]] = t
      BY <3>2, <3>3, <3>4
    <3>6. ASSUME NEW i \in 1..Len(g), NEW j \in 1..Len(g), g[j] = g[i] PROVE j = i
      BY <3>2, <3>3, <3>6
    <3> QED
      BY <2>1, <3>1, <3>5, <3>6, SuffixInPlace
  <2>8. ASSUME ~Isolated(e), NEW h \in Compactions(Append(snapshot[e], e)),
               history' = [history EXCEPT ![t] = h]
        PROVE  PromptInOnePlace'
    <3>1. \A s \in Sessions : s # t => history'[s] = history[s]
      BY <2>2, <2>8
    <3>2. HistoryInPlace(t)'
      BY <2>7, <2>8
    <3> QED
      BY <2>5, <2>6, <3>1, <3>2 DEF PromptInOnePlace
  <2>9. CASE history' = history
    BY <2>5, <2>6, <2>9 DEF PromptInOnePlace
  <2> QED
    BY <2>4, <2>8, <2>9
<1>25. ASSUME NEW e \in Events, CompactStore(e) PROVE PromptInOnePlace'
  <2>0. PICK t \in Sessions : t = target[e]
    BY <1>25 DEF CompactStore, Bookkeeping, HasSession
  <2>1. /\ t \in Sessions /\ pc[e] = "compacting" /\ UNCHANGED <<queue, home, target>>
        /\ pc' = [pc EXCEPT ![e] = "done"]
        /\ snapshot[e] = history[t]
    BY <1>25, <2>0 DEF CompactStore, Finish, Bookkeeping, HasSession, NoLostTurn, HoldsRunLock
  <2>2. /\ history[t] \in Seq(Events) /\ pc \in [Events -> Steps]
        /\ history \in [Sessions -> Seq(Events)]
    BY <2>1
  <2>3. PICK h \in Compactions(snapshot[e]) : history' = [history EXCEPT ![t] = h]
    BY <1>25, <2>0 DEF CompactStore
  <2> HIDE DEF IInv, TypeOK
  <2>4. ASSUME NEW s \in Sessions PROVE QueueInPlace(s)'
    BY <2>1, <2>2, QueueFrame
  <2>5. ASSUME NEW s \in Sessions, s # t PROVE HistoryInPlace(s)'
    <3>1. history'[s] = history[s]
      BY <2>2, <2>3, <2>5
    <3> QED
      BY <2>1, <2>2, <3>1, HistoryFrame
  <2>6. HistoryInPlace(t)'
    <3>1. h \in Compactions(history[t]) /\ history'[t] = h
      BY <2>1, <2>2, <2>3
    <3>2. ASSUME NEW i \in 1..Len(history[t])
          PROVE  /\ pc'[history[t][i]] \in {"reply", "done"}
                 /\ target'[history[t][i]] = t
                 /\ \A j \in 1..Len(history[t]) : history[t][j] = history[t][i] => j = i
      BY <2>1, <2>2, HistoryElement
    <3> QED
      BY <2>1, <2>2, <3>1, <3>2, SuffixInPlace
  <2> QED
    BY <2>4, <2>5, <2>6 DEF PromptInOnePlace
<1> QED
  <2> HIDE DEF IInv, TypeOK
  <2> QED
    BY <1>1, <1>2, <1>3, <1>4, <1>5, <1>6, <1>7, <1>8, <1>9, <1>10, <1>11, <1>12,
       <1>13, <1>14, <1>15, <1>16, <1>17, <1>18, <1>19, <1>20, <1>21, <1>22, <1>23,
       <1>24, <1>25, PlacesFrame
       DEF Next, HandlerStep, TurnStep, Quiescent

\* The two invariants about what the author of an event gets to see.
OutcomesExplained == CancelNoticeOnlyAtShutdown /\ UnansweredOnlyIfReset

\* Every step leaves the silent endings and the cancel notices explained.
LEMMA OutcomesStep ==
  ASSUME IInv, [Next]_vars
  PROVE  OutcomesExplained'
<1> USE ConstantsAssumption DEF IInv, TypeOK, Bookkeeping, HasSession, OutcomesExplained,
     CancelNoticeOnlyAtShutdown, UnansweredOnlyIfReset, SessionGone, Cancelled
<1>1. ASSUME NEW e \in Events, Lookup(e) PROVE OutcomesExplained'
  BY <1>1, ZenonT(90) DEF Lookup, Prompt
<1>2. ASSUME NEW e \in Events, New(e) PROVE OutcomesExplained'
  BY <1>2 DEF New
<1>3. ASSUME NEW e \in Events, Stop(e) PROVE OutcomesExplained'
  BY <1>3 DEF Stop, Finish
<1>4. ASSUME NEW e \in Events, Compact(e) PROVE OutcomesExplained'
  BY <1>4 DEF Compact, Finish
<1>5. ASSUME NEW e \in Events, ResetFails(e) PROVE OutcomesExplained'
  BY <1>5 DEF ResetFails, Finish
<1>6. ASSUME NEW e \in Events, NEW s \in Sessions, Publish(e, s) PROVE OutcomesExplained'
  <2>1. outcome[e] = "open" /\ outcome' = outcome
        /\ shutdown' = shutdown /\ cancelled' = cancelled
        /\ \A d \in Events : d # e => target'[d] = target[d]
    BY <1>6 DEF Publish
  <2> QED
    BY <2>1
<1>7. ASSUME NEW e \in Events, Launch(e) PROVE OutcomesExplained'
  <2>1. \A s \in Sessions : Cancelled(s) => Cancelled(s)'
    BY <1>7 DEF Launch
  <2>2. /\ target' = target /\ shutdown' = shutdown
        /\ outcome' = outcome \/ outcome' = [outcome EXCEPT ![e] = "done"]
    BY <1>7 DEF Launch, Finish
  <2>3. \A d \in Events : outcome'[d] # outcome[d] => outcome'[d] = "done"
    BY <2>2
  <2>4. ASSUME NEW d \in Events, KindOf[d] = "user",
               outcome'[d] \in {"dropped", "discarded"}
        PROVE  SessionGone(d)'
    <3>1. outcome[d] = outcome'[d] /\ SessionGone(d)
      BY <2>3, <2>4
    <3> QED
      BY <2>1, <2>2, <3>1
  <2> QED
    BY <2>2, <2>3, <2>4
<1>8. ASSUME NEW e \in Events, EnqueueOk(e) PROVE OutcomesExplained'
  BY <1>8 DEF EnqueueOk
<1>9. ASSUME NEW e \in Events, EnqueueGone(e) PROVE OutcomesExplained'
  BY <1>9 DEF EnqueueGone, Finish
<1>10. ASSUME NEW e \in Events, EnqueueFull(e) PROVE OutcomesExplained'
  BY <1>10 DEF EnqueueFull, Finish
<1>11. ASSUME NEW e \in Events, CancelStopped(e) PROVE OutcomesExplained'
  BY <1>11 DEF CancelStopped, Finish
<1>12. ASSUME NEW e \in Events, CompactStore(e) PROVE OutcomesExplained'
  BY <1>12 DEF CompactStore, Finish
<1>13. ASSUME NEW e \in Events, CompactLock(e) PROVE OutcomesExplained'
  BY <1>13 DEF CompactLock, AcquireRun
<1>14. ASSUME NEW e \in Events, StartTurn(e) PROVE OutcomesExplained'
  BY <1>14 DEF StartTurn, AcquireRun
<1>15. ASSUME NEW e \in Events, Panic(e) PROVE OutcomesExplained'
  BY <1>15 DEF Panic, EndTurn, Finish
<1>16. ASSUME NEW e \in Events, SeeCancelled(e) PROVE OutcomesExplained'
  BY <1>16 DEF SeeCancelled
<1>17. ASSUME NEW e \in Events, NEW r \in Results, SeeResult(e, r) PROVE OutcomesExplained'
  BY <1>17 DEF SeeResult
<1>18. ASSUME NEW e \in Events, Abandon(e) PROVE OutcomesExplained'
  BY <1>18 DEF Abandon, EndTurn, Finish, MappedIsLive
<1>19. ASSUME NEW e \in Events, SaveTurn(e) PROVE OutcomesExplained'
  BY <1>19 DEF SaveTurn
<1>20. ASSUME NEW e \in Events, ReplyTurn(e) PROVE OutcomesExplained'
  BY <1>20 DEF ReplyTurn, EndTurn, Finish, RepliesOf
<1>21. ASSUME NEW s \in Sessions, Take(s) PROVE OutcomesExplained'
  BY <1>21 DEF Take
<1>22. ASSUME NEW s \in Sessions, RunnerExit(s) PROVE OutcomesExplained'
  BY <1>22 DEF RunnerExit
<1>23. CASE Signal
  BY <1>23 DEF Signal
<1>24. CASE CancelAll
  BY <1>24 DEF CancelAll
<1>25. CASE UNCHANGED vars
  BY <1>25 DEF vars
<1> QED
  <2> HIDE DEF TypeOK, Bookkeeping, HasSession, OutcomesExplained,
     CancelNoticeOnlyAtShutdown, UnansweredOnlyIfReset, SessionGone, Cancelled, IInv
  <2> QED
    BY <1>1, <1>2, <1>3, <1>4, <1>5, <1>6, <1>7, <1>8, <1>9, <1>10, <1>11, <1>12,
       <1>13, <1>14, <1>15, <1>16, <1>17, <1>18, <1>19, <1>20, <1>21, <1>22, <1>23, <1>24, <1>25
       DEF Next, HandlerStep, TurnStep, Quiescent

(***************************************************************************)
(* The theorems                                                            *)
(***************************************************************************)

\* IInv holds in every reachable state.
THEOREM Invariance == Spec => []IInv
<1>1. IInv /\ [Next]_vars => IInv'
  BY TypeStep, BookkeepingStep, MappedIsLiveStep, NoOrphanStep, NoLostTurnStep,
     PromptInOnePlaceStep, OutcomesStep DEF IInv, OutcomesExplained
<1> QED
  BY InitIInv, <1>1, PTL DEF Spec

\* Every variable of the session layer keeps its type, and no prompt queue
\* outgrows promptQueueSize.
THEOREM TypeCorrect == Spec => []TypeOK
BY Invariance, PTL DEF IInv

\* The map never offers a handler a cancelled session, or one of another key.
THEOREM MapHoldsLiveSessions == Spec => []MappedIsLive
BY Invariance, PTL DEF IInv

\* No session is left running outside the map with nobody about to cancel it.
THEOREM NoSessionOrphaned == Spec => []NoOrphan
BY Invariance, PTL DEF IInv

\* The session map and the sessions' contexts always agree (service.go:
\* resetSession, stopSession, shutdown).
THEOREM MapAndContextsAgree == Spec => []LiveSessionsAreMapped
BY MapHoldsLiveSessions, NoSessionOrphaned, PTL DEF LiveSessionsAreMapped

\* Turns and /compact never overwrite each other's history.
THEOREM TurnsAreSerialised == Spec => []NoLostTurn
BY Invariance, PTL DEF IInv

\* No prompt is duplicated, and none reaches the session of another channel.
THEOREM PromptsStayInPlace == Spec => []PromptInOnePlace
BY Invariance, PTL DEF IInv

\* The cancel notice is a shutdown notice.
THEOREM NoticeMeansShutdown == Spec => []CancelNoticeOnlyAtShutdown
BY Invariance, PTL DEF IInv

\* A message goes unanswered only if its session was reset.
THEOREM SilenceMeansReset == Spec => []UnansweredOnlyIfReset
BY Invariance, PTL DEF IInv

\* A turn is silent only after a reset, and announced as cancelled only during
\* a shutdown (service.go: processPrompt, the handlers).
THEOREM SilenceIsAlwaysMeant == Spec => []SilenceIsMeant
BY NoticeMeansShutdown, SilenceMeansReset, PTL DEF SilenceIsMeant


\* A prompt whose session was cancelled before its run was over: it is still
\* on its way to that point, is given up there, or has ended with no answer.
Doomed(e) ==
  /\ SessionGone(e)
  /\ \/ pc[e] \in {"ready", "queued", "lock", "running", "abandon"}
     \/ pc[e] = "done" /\ outcome[e] \notin {"answered", "noticed"}

\* There is no way back from that.
LEMMA DoomedStep ==
  ASSUME IInv, [Next]_vars, NEW e \in Events, Doomed(e)
  PROVE  Doomed(e)'
<1> USE ConstantsAssumption DEF IInv, TypeOK, Bookkeeping, Doomed, SessionGone, Cancelled
<1>1. ASSUME NEW d \in Events, Lookup(d) PROVE Doomed(e)'
  BY <1>1 DEF Lookup
<1>2. ASSUME NEW d \in Events, New(d) PROVE Doomed(e)'
  BY <1>2 DEF New
<1>3. ASSUME NEW d \in Events, Stop(d) PROVE Doomed(e)'
  BY <1>3 DEF Stop, Finish
<1>4. ASSUME NEW d \in Events, Compact(d) PROVE Doomed(e)'
  <2>1. pc[d] = "idle" /\ d # e
    BY <1>4 DEF Compact
  <2>2. CASE current[KeyOf[d]] = NoSession
    BY <1>4, <2>1, <2>2 DEF Compact, Finish
  <2>3. CASE current[KeyOf[d]] # NoSession
    BY <1>4, <2>1, <2>3 DEF Compact
  <2> QED
    BY <2>2, <2>3
<1>5. ASSUME NEW d \in Events, ResetFails(d) PROVE Doomed(e)'
  BY <1>5 DEF ResetFails, Finish
<1>6. ASSUME NEW d \in Events, NEW s \in Sessions, Publish(d, s) PROVE Doomed(e)'
  BY <1>6 DEF Publish
<1>7. ASSUME NEW d \in Events, Launch(d) PROVE Doomed(e)'
  BY <1>7 DEF Launch, Finish
<1>8. ASSUME NEW d \in Events, EnqueueOk(d) PROVE Doomed(e)'
  BY <1>8 DEF EnqueueOk
<1>9. ASSUME NEW d \in Events, EnqueueGone(d) PROVE Doomed(e)'
  BY <1>9 DEF EnqueueGone, Finish
<1>10. ASSUME NEW d \in Events, EnqueueFull(d) PROVE Doomed(e)'
  BY <1>10 DEF EnqueueFull, Finish
<1>11. ASSUME NEW d \in Events, CancelStopped(d) PROVE Doomed(e)'
  BY <1>11 DEF CancelStopped, Finish
<1>12. ASSUME NEW d \in Events, CompactStore(d) PROVE Doomed(e)'
  BY <1>12 DEF CompactStore, Finish
<1>13. ASSUME NEW d \in Events, CompactLock(d) PROVE Doomed(e)'
  BY <1>13 DEF CompactLock, AcquireRun
<1>14. ASSUME NEW d \in Events, StartTurn(d) PROVE Doomed(e)'
  BY <1>14 DEF StartTurn, AcquireRun
<1>15. ASSUME NEW d \in Events, Panic(d) PROVE Doomed(e)'
  BY <1>15 DEF Panic, EndTurn, Finish
<1>16. ASSUME NEW d \in Events, SeeCancelled(d) PROVE Doomed(e)'
  BY <1>16 DEF SeeCancelled
<1>17. ASSUME NEW d \in Events, NEW r \in Results, SeeResult(d, r) PROVE Doomed(e)'
  BY <1>17 DEF SeeResult
<1>18. ASSUME NEW d \in Events, Abandon(d) PROVE Doomed(e)'
  BY <1>18 DEF Abandon, EndTurn, Finish
<1>19. ASSUME NEW d \in Events, SaveTurn(d) PROVE Doomed(e)'
  BY <1>19 DEF SaveTurn
<1>20. ASSUME NEW d \in Events, ReplyTurn(d) PROVE Doomed(e)'
  BY <1>20 DEF ReplyTurn, EndTurn, Finish
<1>21. ASSUME NEW s \in Sessions, Take(s) PROVE Doomed(e)'
  BY <1>21 DEF Take
<1>22. ASSUME NEW s \in Sessions, RunnerExit(s) PROVE Doomed(e)'
  BY <1>22 DEF RunnerExit
<1>23. CASE Signal
  BY <1>23 DEF Signal
<1>24. CASE CancelAll
  BY <1>24 DEF CancelAll
<1>25. CASE UNCHANGED vars
  BY <1>25 DEF vars
<1> QED
  <2> HIDE DEF IInv, TypeOK, Bookkeeping, Doomed
  <2> QED
    BY <1>1, <1>2, <1>3, <1>4, <1>5, <1>6, <1>7, <1>8, <1>9, <1>10, <1>11, <1>12,
       <1>13, <1>14, <1>15, <1>16, <1>17, <1>18, <1>19, <1>20, <1>21, <1>22, <1>23,
       <1>24, <1>25
       DEF Next, HandlerStep, TurnStep, Quiescent

\* Once its session is cancelled, a prompt that is not past its run is never
\* answered, whatever happens afterwards.
THEOREM StoppedMeansStopped == Spec => StoppedTurnNeverAnswers
<1> SUFFICES ASSUME NEW e \in Events
             PROVE  Spec => [](StoppedEarly(e) => [](outcome[e] \notin {"answered", "noticed"}))
  BY DEF StoppedTurnNeverAnswers
<1>1. IInv /\ StoppedEarly(e) => Doomed(e)
  BY DEF StoppedEarly, Doomed
<1>2. IInv /\ [Next]_vars /\ Doomed(e) => Doomed(e)'
  BY DoomedStep
<1>3. IInv /\ Doomed(e) => outcome[e] \notin {"answered", "noticed"}
  BY DEF IInv, Bookkeeping, Doomed
<1> QED
  BY Invariance, <1>1, <1>2, <1>3, PTL DEF Spec

\* Each step of a goroutine is taken for the kind of event it is made for: a
\* turn is a prompt's, the run lock is waited for by /compact only, and /stop
\* neither builds nor holds a session (service.go: the handlers).
KindsFit ==
  \A e \in Events :
    /\ pc[e] \in {"ready", "queued", "lock", "running", "abandon", "save", "reply"}
         => KindOf[e] \in PromptKinds
    /\ pc[e] \in {"lockwait", "compacting"} => KindOf[e] = "compact"
    /\ pc[e] \in {"reset", "launch"} => KindOf[e] \in PromptKinds \cup {"new"}
    /\ pc[e] = "cancel" => KindOf[e] = "stop"

\* The head of a queue is a prompt that waits.
LEMMA HeadWaits ==
  ASSUME IInv, NEW s \in Sessions, queue[s] # <<>>
  PROVE  Head(queue[s]) \in Events /\ pc[Head(queue[s])] = "queued"
<1>1. queue[s] \in Seq(Events)
  BY DEF IInv, TypeOK
<1>2. 1 \in 1..Len(queue[s]) /\ Head(queue[s]) = queue[s][1]
  BY <1>1
<1> QED
  BY <1>2, QueueElement

\* Every step keeps that.
LEMMA KindsFitStep ==
  ASSUME IInv, KindsFit, [Next]_vars
  PROVE  KindsFit'
<1> USE ConstantsAssumption DEF IInv, TypeOK, KindsFit, Prompt
<1>1. ASSUME NEW e \in Events, Lookup(e) PROVE KindsFit'
  BY <1>1 DEF Lookup
<1>2. ASSUME NEW e \in Events, New(e) PROVE KindsFit'
  BY <1>2 DEF New
<1>3. ASSUME NEW e \in Events, Stop(e) PROVE KindsFit'
  BY <1>3 DEF Stop, Finish
<1>4. ASSUME NEW e \in Events, Compact(e) PROVE KindsFit'
  BY <1>4 DEF Compact, Finish
<1>5. ASSUME NEW e \in Events, ResetFails(e) PROVE KindsFit'
  BY <1>5 DEF ResetFails, Finish
<1>6. ASSUME NEW e \in Events, NEW s \in Sessions, Publish(e, s) PROVE KindsFit'
  BY <1>6 DEF Publish
<1>7. ASSUME NEW e \in Events, Launch(e) PROVE KindsFit'
  BY <1>7 DEF Launch, Finish
<1>8. ASSUME NEW e \in Events, EnqueueOk(e) PROVE KindsFit'
  BY <1>8 DEF EnqueueOk
<1>9. ASSUME NEW e \in Events, EnqueueGone(e) PROVE KindsFit'
  BY <1>9 DEF EnqueueGone, Finish
<1>10. ASSUME NEW e \in Events, EnqueueFull(e) PROVE KindsFit'
  BY <1>10 DEF EnqueueFull, Finish
<1>11. ASSUME NEW e \in Events, CancelStopped(e) PROVE KindsFit'
  BY <1>11 DEF CancelStopped, Finish
<1>12. ASSUME NEW e \in Events, CompactStore(e) PROVE KindsFit'
  BY <1>12 DEF CompactStore, Finish
<1>13. ASSUME NEW e \in Events, CompactLock(e) PROVE KindsFit'
  BY <1>13 DEF CompactLock
<1>14. ASSUME NEW e \in Events, StartTurn(e) PROVE KindsFit'
  BY <1>14 DEF StartTurn
<1>15. ASSUME NEW e \in Events, Panic(e) PROVE KindsFit'
  BY <1>15 DEF Panic, EndTurn, Finish
<1>16. ASSUME NEW e \in Events, SeeCancelled(e) PROVE KindsFit'
  BY <1>16 DEF SeeCancelled
<1>17. ASSUME NEW e \in Events, NEW r \in Results, SeeResult(e, r) PROVE KindsFit'
  BY <1>17 DEF SeeResult
<1>18. ASSUME NEW e \in Events, Abandon(e) PROVE KindsFit'
  BY <1>18 DEF Abandon, EndTurn, Finish
<1>19. ASSUME NEW e \in Events, SaveTurn(e) PROVE KindsFit'
  BY <1>19 DEF SaveTurn
<1>20. ASSUME NEW e \in Events, ReplyTurn(e) PROVE KindsFit'
  BY <1>20 DEF ReplyTurn, EndTurn, Finish
<1>21. ASSUME NEW s \in Sessions, Take(s) PROVE KindsFit'
  <2>1. Head(queue[s]) \in Events /\ pc[Head(queue[s])] = "queued"
    BY <1>21, HeadWaits DEF Take
  <2> QED
    BY <1>21, <2>1 DEF Take
<1>22. ASSUME NEW s \in Sessions, RunnerExit(s) PROVE KindsFit'
  BY <1>22 DEF RunnerExit
<1>23. CASE Signal
  BY <1>23 DEF Signal
<1>24. CASE CancelAll
  BY <1>24 DEF CancelAll
<1>25. CASE UNCHANGED vars
  BY <1>25 DEF vars
<1> QED
  <2> HIDE DEF IInv, TypeOK, KindsFit
  <2> QED
    BY <1>1, <1>2, <1>3, <1>4, <1>5, <1>6, <1>7, <1>8, <1>9, <1>10, <1>11, <1>12,
       <1>13, <1>14, <1>15, <1>16, <1>17, <1>18, <1>19, <1>20, <1>21, <1>22, <1>23,
       <1>24, <1>25
       DEF Next, HandlerStep, TurnStep, Quiescent

\* A step that neither saves nor ends a turn, and leaves histories and
\* outcomes alone, is not seen in the conversations.
LEMMA UnseenSteps ==
  ASSUME IInv, UNCHANGED <<home, history, outcome>>,
         \A e \in Events :
           \/ pc'[e] = pc[e] /\ (pc[e] = "reply" => result'[e] = result[e])
           \/ pc[e] \notin {"reply", "done"} /\ pc'[e] \notin {"reply", "done"}
  PROVE  Talk!Unseen
<1>1. \A e \in Events : Progress[e] = Progress'[e]
  BY DEF Progress, Isolated
<1>2. Progress' = Progress
  BY <1>1 DEF Progress
<1> QED
  BY <1>2 DEF Talk!Unseen, Talk!vars

\* When an event is over its stage is over, and no other stage changes.
LEMMA StageOver ==
  ASSUME IInv, NEW e \in Events, pc' = [pc EXCEPT ![e] = "done"],
         \A d \in Events : d # e => result'[d] = result[d]
  PROVE  Progress' = [Progress EXCEPT ![e] = "over"]
<1>1. \A d \in Events : pc'[d] = IF d = e THEN "done" ELSE pc[d]
  BY DEF IInv, TypeOK
<1>2. \A d \in Events : Progress'[d] = IF d = e THEN "over" ELSE Progress[d]
  BY <1>1 DEF Progress, Isolated
<1> QED
  BY <1>2 DEF Progress

\* An event that ends with no conversation touched ends as the conversations
\* allow, if its outcome is one of those.
LEMMA EndingSteps ==
  ASSUME IInv, NEW e \in Events, NEW o \in Talk!Endings(e), Finish(e, o),
         pc[e] # "done", UNCHANGED <<home, history>>,
         \A d \in Events : d # e => result'[d] = result[d]
  PROVE  Talk!Finish(e)
<1>1. Progress' = [Progress EXCEPT ![e] = "over"]
  BY StageOver DEF Finish
<1>2. Progress[e] # "over"
  BY DEF Progress
<1> QED
  BY <1>1, <1>2 DEF Finish, Talk!Finish

\* Shortening is what both modules say it is.
LEMMA SameShortening ==
  ASSUME NEW h
  PROVE  Compactions(h) = Talk!Shortened(h)
BY DEF Compactions, Talk!Shortened

\* What a turn writes back is added to the history of that moment: the turn
\* holds the run lock, so nobody wrote since it read.
LEMMA SaveTurnKeeps ==
  ASSUME IInv, KindsFit, NEW e \in Events, SaveTurn(e)
  PROVE  Talk!Pass(e) \/ \E s \in Sessions : Talk!Keep(e, s)
<1> USE DEF IInv, TypeOK
<1>1. pc[e] = "save" /\ KindOf[e] \notin Talk!Commands /\ Progress[e] = "asked"
  BY DEF SaveTurn, KindsFit, Talk!Commands, Progress
<1>2. \A d \in Events : pc'[d] = IF d = e THEN "reply" ELSE pc[d]
  BY DEF SaveTurn
<1>3. result' = result /\ home' = home /\ outcome' = outcome
  BY DEF SaveTurn
<1>4. CASE Isolated(e) \/ result[e] = "failedEarly"
  <2>1. history' = history
    BY <1>4 DEF SaveTurn
  <2>2. \A d \in Events : Progress'[d] = IF d = e THEN "passed" ELSE Progress[d]
    BY <1>2, <1>3, <1>4 DEF Progress, Isolated
  <2>3. Progress' = [Progress EXCEPT ![e] = "passed"]
    BY <2>2 DEF Progress
  <2> QED
    BY <1>1, <1>3, <2>1, <2>3 DEF Talk!Pass
<1>5. CASE ~(Isolated(e) \/ result[e] = "failedEarly")
  <2>1. PICK h \in Compactions(Append(snapshot[e], e)) :
          history' = [history EXCEPT ![target[e]] = h]
    BY <1>5 DEF SaveTurn
  <2>2. target[e] \in Sessions /\ home[target[e]] = KeyOf[e]
    BY <1>1 DEF Bookkeeping, HasSession
  <2>3. snapshot[e] = history[target[e]]
    BY <1>1, <1>5 DEF NoLostTurn, HoldsRunLock
  <2>4. h \in Talk!Shortened(Append(history[target[e]], e))
    <3> HIDE DEF IInv, TypeOK
    <3>1. Compactions(Append(snapshot[e], e)) = Talk!Shortened(Append(history[target[e]], e))
      BY <2>3, SameShortening
    <3> QED
      BY <2>1, <3>1
  <2>5. \A d \in Events : Progress'[d] = IF d = e THEN "kept" ELSE Progress[d]
    BY <1>2, <1>3, <1>5 DEF Progress, Isolated
  <2>6. Progress' = [Progress EXCEPT ![e] = "kept"]
    BY <2>5 DEF Progress
  <2>7. ~Talk!Traceless(e)
    BY <1>5 DEF Isolated, Talk!Traceless
  <2>8. Talk!Keep(e, target[e])
    BY <1>1, <1>3, <2>1, <2>2, <2>4, <2>6, <2>7 DEF Talk!Keep
  <2> QED
    BY <2>2, <2>8
<1> QED
  BY <1>4, <1>5

\* /compact shortens the history of the moment it writes back, too.
LEMMA CompactStoreFolds ==
  ASSUME IInv, KindsFit, NEW e \in Events, CompactStore(e)
  PROVE  \E s \in Sessions : Talk!Fold(e, s)
<1> USE DEF IInv, TypeOK
<1>1. pc[e] = "compacting" /\ KindOf[e] = "compact" /\ Progress[e] = "asked"
  BY DEF CompactStore, KindsFit, Progress
<1>2. PICK h \in Compactions(snapshot[e]) : history' = [history EXCEPT ![target[e]] = h]
  BY DEF CompactStore
<1>3. target[e] \in Sessions /\ home[target[e]] = KeyOf[e]
  BY <1>1 DEF Bookkeeping, HasSession
<1>4. snapshot[e] = history[target[e]]
  BY <1>1 DEF NoLostTurn, HoldsRunLock
<1>5. h \in Talk!Shortened(history[target[e]])
  BY <1>2, <1>4, SameShortening
<1>6. PICK o \in {"done", "errored"} :
        Finish(e, o) /\ home' = home /\ result' = result
  BY DEF CompactStore
<1>7. Progress' = [Progress EXCEPT ![e] = "over"]
  BY <1>6, StageOver DEF Finish
<1>8. Talk!Fold(e, target[e])
  BY <1>1, <1>2, <1>3, <1>5, <1>6, <1>7 DEF Finish, Talk!Fold
<1> QED
  BY <1>3, <1>8

\* What the author of a turn is shown fits what was kept of it.
LEMMA RepliesAreEndings ==
  ASSUME IInv, KindsFit, NEW e \in Events, pc[e] = "reply", NEW o \in RepliesOf(e)
  PROVE  o \in Talk!Endings(e)
<1>1. KindOf[e] \in PromptKinds /\ result[e] \in Results
  BY DEF KindsFit, IInv, TypeOK
<1>2. CASE Isolated(e)
  <2>1. Progress[e] = "passed" /\ Talk!Traceless(e) /\ Internal(e)
    BY <1>2 DEF Progress, Isolated, Internal, Talk!Traceless
  <2>2. o \in IF KindOf[e] = "dream" THEN {"silent"} ELSE {"answered", "silent"}
    BY <1>1, <2>1 DEF RepliesOf
  <2> QED
    BY <2>1, <2>2 DEF Talk!Endings
<1>3. CASE ~Isolated(e) /\ result[e] = "failedEarly"
  <2>1. Progress[e] = "passed" /\ ~Talk!Traceless(e)
    BY <1>3 DEF Progress, Isolated, Talk!Traceless
  <2>2. o = (IF Internal(e) THEN "silent" ELSE "errored") /\ KindOf[e] # "dream"
    BY <1>1, <1>3 DEF RepliesOf, Isolated
  <2> QED
    BY <2>1, <2>2 DEF Talk!Endings, Internal
<1>4. CASE ~Isolated(e) /\ result[e] # "failedEarly"
  <2>1. Progress[e] = "kept"
    BY <1>4 DEF Progress
  <2>2. o \in {"answered", "noticed", "silent", "errored"}
    BY <1>1, <1>4 DEF RepliesOf, Isolated
  <2> QED
    BY <2>1, <2>2 DEF Talk!Endings
<1> QED
  BY <1>2, <1>3, <1>4

\* Every step of the session layer is a step of the conversations: a session
\* is opened where it is published, a turn kept where it is saved, a
\* compaction made where it is stored, an event over where it finishes, and
\* every other step is not seen.
LEMMA ConversationStep ==
  ASSUME IInv, KindsFit, [Next]_vars
  PROVE  Talk!Next
<1> USE ConstantsAssumption
<1>0. /\ pc \in [Events -> Steps] /\ result \in [Events -> Results]
      /\ \A e \in Events : KindOf[e] \in PromptKinds \cup CommandKinds
  BY DEF IInv, TypeOK
<1>a. \A e \in Events : pc[e] \notin {"reply", "done"} => Progress[e] = "asked"
  BY DEF Progress
<1>1. ASSUME NEW e \in Events, Lookup(e) PROVE Talk!Next
  <2>1. Talk!Unseen
    BY <1>1, <1>0, UnseenSteps DEF Lookup
  <2> QED
    BY <2>1 DEF Talk!Next
<1>2. ASSUME NEW e \in Events, New(e) PROVE Talk!Next
  <2>1. Talk!Unseen
    BY <1>2, <1>0, UnseenSteps DEF New
  <2> QED
    BY <2>1 DEF Talk!Next
<1>3. ASSUME NEW e \in Events, Stop(e) PROVE Talk!Next
  <2>1. CASE current[KeyOf[e]] = NoSession
    <3>1. Finish(e, "done") /\ UNCHANGED <<home, history, result>> /\ pc[e] \notin {"reply", "done"}
      BY <1>3, <2>1 DEF Stop
    <3>2. "done" \in Talk!Endings(e)
      BY <1>3, <1>0, <1>a, <2>1, <3>1 DEF Stop, KindsFit, Talk!Endings, Talk!Commands, Prompt
    <3>3. Talk!Finish(e)
      BY <3>1, <3>2, EndingSteps
    <3> QED
      BY <3>3 DEF Talk!Next
  <2>2. CASE ~(current[KeyOf[e]] = NoSession)
    <3>1. Talk!Unseen
      BY <1>3, <1>0, <2>2, UnseenSteps DEF Stop
    <3> QED
      BY <3>1 DEF Talk!Next
  <2> QED
    BY <2>1, <2>2
<1>4. ASSUME NEW e \in Events, Compact(e) PROVE Talk!Next
  <2>1. CASE current[KeyOf[e]] = NoSession
    <3>1. Finish(e, "done") /\ UNCHANGED <<home, history, result>> /\ pc[e] \notin {"reply", "done"}
      BY <1>4, <2>1 DEF Compact
    <3>2. "done" \in Talk!Endings(e)
      BY <1>4, <1>0, <1>a, <2>1, <3>1 DEF Compact, KindsFit, Talk!Endings, Talk!Commands, Prompt
    <3>3. Talk!Finish(e)
      BY <3>1, <3>2, EndingSteps
    <3> QED
      BY <3>3 DEF Talk!Next
  <2>2. CASE ~(current[KeyOf[e]] = NoSession)
    <3>1. Talk!Unseen
      BY <1>4, <1>0, <2>2, UnseenSteps DEF Compact
    <3> QED
      BY <3>1 DEF Talk!Next
  <2> QED
    BY <2>1, <2>2
<1>5. ASSUME NEW e \in Events, ResetFails(e) PROVE Talk!Next
  <2> DEFINE o == IF KindOf[e] \in {"user", "new"} THEN "errored" ELSE "dropped"
  <2>1. Finish(e, o) /\ UNCHANGED <<home, history>>
        /\ pc[e] \notin {"reply", "done"} /\ \A d \in Events : d # e => result'[d] = result[d]
    BY <1>5, <1>0 DEF ResetFails
  <2>2. o \in Talk!Endings(e)
    BY <1>5, <1>0, <1>a, <2>1 DEF ResetFails, KindsFit, Talk!Endings, Talk!Commands, Prompt
  <2>3. Talk!Finish(e)
    BY <2>1, <2>2, EndingSteps
  <2> QED
    BY <2>3 DEF Talk!Next
<1>6. ASSUME NEW e \in Events, NEW s \in Sessions, Publish(e, s) PROVE Talk!Next
  <2>1. \A d \in Events : Progress'[d] = Progress[d]
    BY <1>6, <1>0 DEF Publish, Progress, Isolated
  <2>2. Progress' = Progress
    BY <2>1 DEF Progress
  <2>3. KeyOf[e] \in Keys /\ Talk!Open(s, KeyOf[e])
    BY <1>6, <2>2 DEF Publish, Talk!Open
  <2> QED
    BY <2>3 DEF Talk!Next
<1>7. ASSUME NEW e \in Events, Launch(e) PROVE Talk!Next
  <2>1. CASE ~Prompt(e)
    <3>1. Finish(e, "done") /\ UNCHANGED <<home, history, result>> /\ pc[e] \notin {"reply", "done"}
      BY <1>7, <2>1 DEF Launch
    <3>2. "done" \in Talk!Endings(e)
      BY <1>7, <1>0, <1>a, <2>1, <3>1 DEF Launch, KindsFit, Talk!Endings, Talk!Commands, Prompt
    <3>3. Talk!Finish(e)
      BY <3>1, <3>2, EndingSteps
    <3> QED
      BY <3>3 DEF Talk!Next
  <2>2. CASE Prompt(e)
    <3>1. Talk!Unseen
      BY <1>7, <1>0, <2>2, UnseenSteps DEF Launch
    <3> QED
      BY <3>1 DEF Talk!Next
  <2> QED
    BY <2>1, <2>2
<1>8. ASSUME NEW e \in Events, EnqueueOk(e) PROVE Talk!Next
  <2>1. Talk!Unseen
    BY <1>8, <1>0, UnseenSteps DEF EnqueueOk
  <2> QED
    BY <2>1 DEF Talk!Next
<1>9. ASSUME NEW e \in Events, EnqueueGone(e) PROVE Talk!Next
  <2> DEFINE o == "dropped"
  <2>1. Finish(e, o) /\ UNCHANGED <<home, history>>
        /\ pc[e] \notin {"reply", "done"} /\ \A d \in Events : d # e => result'[d] = result[d]
    BY <1>9, <1>0 DEF EnqueueGone
  <2>2. o \in Talk!Endings(e)
    BY <1>9, <1>0, <1>a, <2>1 DEF EnqueueGone, KindsFit, Talk!Endings, Talk!Commands, Prompt
  <2>3. Talk!Finish(e)
    BY <2>1, <2>2, EndingSteps
  <2> QED
    BY <2>3 DEF Talk!Next
<1>10. ASSUME NEW e \in Events, EnqueueFull(e) PROVE Talk!Next
  <2> DEFINE o == IF KindOf[e] = "user" THEN "queueFull" ELSE "dropped"
  <2>1. Finish(e, o) /\ UNCHANGED <<home, history>>
        /\ pc[e] \notin {"reply", "done"} /\ \A d \in Events : d # e => result'[d] = result[d]
    BY <1>10, <1>0 DEF EnqueueFull
  <2>2. o \in Talk!Endings(e)
    BY <1>10, <1>0, <1>a, <2>1 DEF EnqueueFull, KindsFit, Talk!Endings, Talk!Commands, Prompt
  <2>3. Talk!Finish(e)
    BY <2>1, <2>2, EndingSteps
  <2> QED
    BY <2>3 DEF Talk!Next
<1>11. ASSUME NEW e \in Events, CancelStopped(e) PROVE Talk!Next
  <2> DEFINE o == "done"
  <2>1. Finish(e, o) /\ UNCHANGED <<home, history>>
        /\ pc[e] \notin {"reply", "done"} /\ \A d \in Events : d # e => result'[d] = result[d]
    BY <1>11, <1>0 DEF CancelStopped
  <2>2. o \in Talk!Endings(e)
    BY <1>11, <1>0, <1>a, <2>1 DEF CancelStopped, KindsFit, Talk!Endings, Talk!Commands, Prompt
  <2>3. Talk!Finish(e)
    BY <2>1, <2>2, EndingSteps
  <2> QED
    BY <2>3 DEF Talk!Next
<1>12. ASSUME NEW e \in Events, CompactStore(e) PROVE Talk!Next
  BY <1>12, CompactStoreFolds DEF Talk!Next
<1>13. ASSUME NEW e \in Events, CompactLock(e) PROVE Talk!Next
  <2>1. Talk!Unseen
    BY <1>13, <1>0, UnseenSteps DEF CompactLock
  <2> QED
    BY <2>1 DEF Talk!Next
<1>14. ASSUME NEW e \in Events, StartTurn(e) PROVE Talk!Next
  <2>1. Talk!Unseen
    BY <1>14, <1>0, UnseenSteps DEF StartTurn
  <2> QED
    BY <2>1 DEF Talk!Next
<1>15. ASSUME NEW e \in Events, Panic(e) PROVE Talk!Next
  <2> DEFINE o == IF Internal(e) THEN "silent" ELSE "errored"
  <2>1. Finish(e, o) /\ UNCHANGED <<home, history>>
        /\ pc[e] \notin {"reply", "done"} /\ \A d \in Events : d # e => result'[d] = result[d]
    BY <1>15, <1>0 DEF Panic, EndTurn
  <2>2. o \in Talk!Endings(e)
    BY <1>15, <1>0, <1>a, <2>1 DEF Panic, Internal, KindsFit, Talk!Endings, Talk!Commands, Prompt
  <2>3. Talk!Finish(e)
    BY <2>1, <2>2, EndingSteps
  <2> QED
    BY <2>3 DEF Talk!Next
<1>16. ASSUME NEW e \in Events, SeeCancelled(e) PROVE Talk!Next
  <2>1. Talk!Unseen
    BY <1>16, <1>0, UnseenSteps DEF SeeCancelled
  <2> QED
    BY <2>1 DEF Talk!Next
<1>17. ASSUME NEW e \in Events, NEW r \in Results, SeeResult(e, r) PROVE Talk!Next
  <2>1. Talk!Unseen
    BY <1>17, <1>0, UnseenSteps DEF SeeResult
  <2> QED
    BY <2>1 DEF Talk!Next
<1>18. ASSUME NEW e \in Events, Abandon(e) PROVE Talk!Next
  <2> DEFINE o == IF current[home[target[e]]] = target[e] THEN "cancelNotice" ELSE "discarded"
  <2>1. Finish(e, o) /\ UNCHANGED <<home, history>>
        /\ pc[e] \notin {"reply", "done"} /\ \A d \in Events : d # e => result'[d] = result[d]
    BY <1>18, <1>0 DEF Abandon, EndTurn
  <2>2. o \in Talk!Endings(e)
    BY <1>18, <1>0, <1>a, <2>1 DEF Abandon, KindsFit, Talk!Endings, Talk!Commands, Prompt
  <2>3. Talk!Finish(e)
    BY <2>1, <2>2, EndingSteps
  <2> QED
    BY <2>3 DEF Talk!Next
<1>19. ASSUME NEW e \in Events, SaveTurn(e) PROVE Talk!Next
  BY <1>19, SaveTurnKeeps DEF Talk!Next
<1>20. ASSUME NEW e \in Events, ReplyTurn(e) PROVE Talk!Next
  <2>1. PICK o \in RepliesOf(e) : EndTurn(e, o)
    BY <1>20 DEF ReplyTurn
  <2>2. Finish(e, o) /\ UNCHANGED <<home, history>>
        /\ pc[e] = "reply" /\ \A d \in Events : d # e => result'[d] = result[d]
    BY <1>20, <1>0, <2>1 DEF ReplyTurn, EndTurn
  <2>3. o \in Talk!Endings(e)
    BY <2>2, RepliesAreEndings
  <2>4. Talk!Finish(e)
    BY <2>2, <2>3, EndingSteps
  <2> QED
    BY <2>4 DEF Talk!Next
<1>21. ASSUME NEW s \in Sessions, Take(s) PROVE Talk!Next
  <2>1. 1 \in 1..Len(queue[s]) /\ Head(queue[s]) = queue[s][1]
    BY <1>21 DEF Take, IInv, TypeOK
  <2>2. QueueInPlace(s)
    BY DEF IInv, PromptInOnePlace
  <2>3. pc[Head(queue[s])] = "queued"
    BY <2>1, <2>2, SMTT(30) DEF QueueInPlace
  <2>4. Talk!Unseen
    BY <1>21, <1>0, <2>3, UnseenSteps DEF Take
  <2> QED
    BY <2>4 DEF Talk!Next
<1>22. ASSUME NEW s \in Sessions, RunnerExit(s) PROVE Talk!Next
  <2>1. Talk!Unseen
    BY <1>22, <1>0, UnseenSteps DEF RunnerExit
  <2> QED
    BY <2>1 DEF Talk!Next
<1>23. CASE Signal
  <2>1. Talk!Unseen
    BY <1>23, UnseenSteps DEF Signal
  <2> QED
    BY <2>1 DEF Talk!Next
<1>24. CASE CancelAll
  <2>1. Talk!Unseen
    BY <1>24, UnseenSteps DEF CancelAll
  <2> QED
    BY <2>1 DEF Talk!Next
<1>25. CASE UNCHANGED vars
  <2>1. Talk!Unseen
    BY <1>25, UnseenSteps DEF vars
  <2> QED
    BY <2>1 DEF Talk!Next
<1> QED
  BY <1>1, <1>2, <1>3, <1>4, <1>5, <1>6, <1>7, <1>8, <1>9, <1>10, <1>11, <1>12,
     <1>13, <1>14, <1>15, <1>16, <1>17, <1>18, <1>19, <1>20, <1>21, <1>22, <1>23,
     <1>24, <1>25
     DEF Next, HandlerStep, TurnStep, Quiescent

\* The session layer implements Conversation: turns and compactions of one
\* session, in however many goroutines, by way of queues, locks and copies,
\* are each a single step on the history as it was, and every event ends once,
\* by what was kept of it (service.go: processPrompt, compactHistory).
THEOREM ImplementsTheConversation == Spec => ImplementsConversation
<1>1. Init => Talk!Init
  <2> SUFFICES ASSUME Init PROVE Talk!Init
    OBVIOUS
  <2>1. \A e \in Events : Progress[e] = "asked"
    BY DEF Init, Progress
  <2>2. Progress = [e \in Events |-> "asked"]
    BY <2>1 DEF Progress
  <2> QED
    BY <2>2 DEF Init, Talk!Init
<1>2. Init => KindsFit
  BY DEF Init, KindsFit
<1>3. IInv /\ KindsFit /\ [Next]_vars => KindsFit'
  BY KindsFitStep
<1>4. IInv /\ KindsFit /\ [Next]_vars => [Talk!Next]_Talk!vars
  BY ConversationStep
<1> QED
  BY Invariance, <1>1, <1>2, <1>3, <1>4, PTL DEF Spec, ImplementsConversation, Talk!Spec

=============================================================================
