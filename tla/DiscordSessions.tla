-------------------------- MODULE DiscordSessions --------------------------
(***************************************************************************)
(* The session layer of the Discord service                                *)
(* (src/internal/discordbot/service.go): the map from channels to          *)
(* sessions, the bounded prompt queue and the runner goroutine of each     *)
(* session, the run lock shared by turns and /compact, and the commands    *)
(* that replace or remove a session while its runner is inside a turn.     *)
(*                                                                         *)
(* An event is one call of a gateway handler (a message, a reaction, a     *)
(* slash command) or of one of the two internal producers of prompts (the  *)
(* heartbeat loop, the batch of finished background workers).  Each runs   *)
(* in a goroutine of its own; pc[e] is how far it got.  Once a prompt has  *)
(* entered a queue, pc[e] is how far the session's runner got with it.     *)
(***************************************************************************)
EXTENDS Naturals, Sequences

CONSTANTS
  Events,             \* the handler calls of the behaviour
  Sessions,           \* identities of session states, newSessionID
  Keys,               \* session keys: a channel, or a user in a channel
  KeyOf,              \* the key an event resolves to
  KindOf,             \* what the event is
  QueueCap,           \* promptQueueSize
  IsolatedHeartbeat,  \* heartbeat.isolated_session
  NoSession, NoEvent, NoKey

\* A turn treats a dream as the code does; nothing at this commit enqueues one,
\* a dream run calls the agent without a session (dream.go).
PromptKinds  == {"user", "reaction", "background", "heartbeat", "dream"}
CommandKinds == {"new", "stop", "compact"}

ASSUME ConstantsAssumption ==
  /\ KeyOf \in [Events -> Keys]
  /\ KindOf \in [Events -> PromptKinds \cup CommandKinds]
  /\ QueueCap \in Nat \ {0}
  /\ IsolatedHeartbeat \in BOOLEAN
  /\ NoSession \notin Sessions
  /\ NoEvent \notin Events
  /\ NoKey \notin Keys

VARIABLES
  current,    \* Service.sessions: the session a key maps to
  home,       \* sessionState.Key; NoKey for an identity not yet used
  cancelled,  \* sessionState.Cancel was called
  queue,      \* sessionState.Queue
  history,    \* sessionState.History, one element per turn kept verbatim
  runLock,    \* sessionState.RunLock: the event that holds it
  runner,     \* where the runSession goroutine is
  pc,         \* where the goroutine, or the turn, of an event is
  target,     \* the session an event resolved to
  prev,       \* the session this event took out of the map, not yet cancelled
  snapshot,   \* the history a lock holder started from
  result,     \* what the agent run of a turn returned
  outcome,    \* what became of the event, as its author sees it
  shutdown    \* Service.Run's context, and the shutdown that follows it

vars == <<current, home, cancelled, queue, history, runLock, runner,
          pc, target, prev, snapshot, result, outcome, shutdown>>

RunnerStates == {"none", "select", "turn", "exited"}
Steps == {"idle", "reset", "launch", "ready", "queued", "lock", "running",
          "abandon", "save", "reply", "cancel", "lockwait", "compacting", "done"}
Results == {"text", "silent", "empty", "failed", "failedEarly"}
Outcomes == {"open", "answered", "errored", "noticed", "cancelNotice",
             "queueFull", "silent", "discarded", "dropped", "done"}

Prompt(e)   == KindOf[e] \in PromptKinds
Internal(e) == KindOf[e] \in {"heartbeat", "dream"}
Isolated(e) == KindOf[e] = "dream" \/ (KindOf[e] = "heartbeat" /\ IsolatedHeartbeat)

\* The context of a session is a child of the context Run was given.
Cancelled(s) == cancelled[s] \/ shutdown # "up"

Finish(e, o) ==
  /\ pc' = [pc EXCEPT ![e] = "done"]
  /\ outcome' = [outcome EXCEPT ![e] = o]

Init ==
  /\ current   = [k \in Keys |-> NoSession]
  /\ home      = [s \in Sessions |-> NoKey]
  /\ cancelled = [s \in Sessions |-> FALSE]
  /\ queue     = [s \in Sessions |-> <<>>]
  /\ history   = [s \in Sessions |-> <<>>]
  /\ runLock   = [s \in Sessions |-> NoEvent]
  /\ runner    = [s \in Sessions |-> "none"]
  /\ pc        = [e \in Events |-> "idle"]
  /\ target    = [e \in Events |-> NoSession]
  /\ prev      = [e \in Events |-> NoSession]
  /\ snapshot  = [e \in Events |-> <<>>]
  /\ result    = [e \in Events |-> "text"]
  /\ outcome   = [e \in Events |-> "open"]
  /\ shutdown  = "up"

----------------------------------------------------------------------------
(* Handlers: finding or creating the session of a prompt                   *)

\* A prompt arrives and looks its session up, under the service's read lock;
\* without one the handler goes on to build a session.
Lookup(e) ==
  /\ pc[e] = "idle" /\ Prompt(e)
  /\ pc' = [pc EXCEPT ![e] = IF current[KeyOf[e]] = NoSession THEN "reset"
                                                              ELSE "ready"]
  /\ target' = [target EXCEPT ![e] = current[KeyOf[e]]]
  /\ UNCHANGED <<current, home, cancelled, queue, history, runLock, runner,
                 prev, snapshot, result, outcome, shutdown>>

\* /new builds a session whether or not there is one.
New(e) ==
  /\ pc[e] = "idle" /\ KindOf[e] = "new"
  /\ pc' = [pc EXCEPT ![e] = "reset"]
  /\ UNCHANGED <<current, home, cancelled, queue, history, runLock, runner,
                 target, prev, snapshot, result, outcome, shutdown>>

\* The file of the new session cannot be written: nothing was published.
\* Only a message and /new tell their author.
ResetFails(e) ==
  /\ pc[e] = "reset"
  /\ Finish(e, IF KindOf[e] \in {"user", "new"} THEN "errored" ELSE "dropped")
  /\ UNCHANGED <<current, home, cancelled, queue, history, runLock, runner,
                 target, prev, snapshot, result, shutdown>>

\* The session is entered in the map, over whatever is there by now.
Publish(e, s) ==
  /\ pc[e] = "reset" /\ home[s] = NoKey
  /\ home' = [home EXCEPT ![s] = KeyOf[e]]
  /\ current' = [current EXCEPT ![KeyOf[e]] = s]
  /\ prev' = [prev EXCEPT ![e] = current[KeyOf[e]]]
  /\ target' = [target EXCEPT ![e] = s]
  /\ pc' = [pc EXCEPT ![e] = "launch"]
  /\ UNCHANGED <<cancelled, queue, history, runLock, runner, snapshot,
                 result, outcome, shutdown>>

\* Variant: the replaced session is forgotten, not cancelled.
LaunchKeepsPrevious(e) ==
  /\ pc[e] = "launch"
  /\ prev' = [prev EXCEPT ![e] = NoSession]
  /\ runner' = [runner EXCEPT ![target[e]] = "select"]
  /\ IF Prompt(e)
       THEN pc' = [pc EXCEPT ![e] = "ready"] /\ outcome' = outcome
       ELSE Finish(e, "done")
  /\ UNCHANGED <<current, home, cancelled, queue, history, runLock, target,
                 snapshot, result, shutdown>>

\* Outside the lock: the replaced session is cancelled, the runner started.
Launch(e) ==
  /\ pc[e] = "launch"
  /\ cancelled' = [s \in Sessions |-> cancelled[s] \/ s = prev[e]]
  /\ prev' = [prev EXCEPT ![e] = NoSession]
  /\ runner' = [runner EXCEPT ![target[e]] = "select"]
  /\ IF Prompt(e)
       THEN pc' = [pc EXCEPT ![e] = "ready"] /\ outcome' = outcome
       ELSE Finish(e, "done")
  /\ UNCHANGED <<current, home, queue, history, runLock, target, snapshot,
                 result, shutdown>>

----------------------------------------------------------------------------
(* Handlers: the three-way select that hands the prompt to the runner.     *)
(* With the context done and room in the queue Go may take either case.    *)

EnqueueOk(e) ==
  /\ pc[e] = "ready" /\ Len(queue[target[e]]) < QueueCap
  /\ queue' = [queue EXCEPT ![target[e]] = Append(@, e)]
  /\ pc' = [pc EXCEPT ![e] = "queued"]
  /\ UNCHANGED <<current, home, cancelled, history, runLock, runner, target,
                 prev, snapshot, result, outcome, shutdown>>

EnqueueGone(e) ==
  /\ pc[e] = "ready" /\ Cancelled(target[e])
  /\ Finish(e, "dropped")
  /\ UNCHANGED <<current, home, cancelled, queue, history, runLock, runner,
                 target, prev, snapshot, result, shutdown>>

\* Variant: a full queue drops a message as it drops a reaction.
EnqueueFullSilently(e) ==
  /\ pc[e] = "ready" /\ ~Cancelled(target[e])
  /\ Len(queue[target[e]]) >= QueueCap
  /\ Finish(e, "dropped")
  /\ UNCHANGED <<current, home, cancelled, queue, history, runLock, runner,
                 target, prev, snapshot, result, shutdown>>

EnqueueFull(e) ==
  /\ pc[e] = "ready" /\ ~Cancelled(target[e])
  /\ Len(queue[target[e]]) >= QueueCap
  /\ Finish(e, IF KindOf[e] = "user" THEN "queueFull" ELSE "dropped")
  /\ UNCHANGED <<current, home, cancelled, queue, history, runLock, runner,
                 target, prev, snapshot, result, shutdown>>

----------------------------------------------------------------------------
(* /stop and /compact                                                      *)

\* The entry is deleted under the lock, the session cancelled after it.
Stop(e) ==
  /\ pc[e] = "idle" /\ KindOf[e] = "stop"
  /\ current' = [current EXCEPT ![KeyOf[e]] = NoSession]
  /\ IF current[KeyOf[e]] = NoSession
       THEN Finish(e, "done") /\ prev' = prev
       ELSE /\ pc' = [pc EXCEPT ![e] = "cancel"]
            /\ prev' = [prev EXCEPT ![e] = current[KeyOf[e]]]
            /\ outcome' = outcome
  /\ UNCHANGED <<home, cancelled, queue, history, runLock, runner, target,
                 snapshot, result, shutdown>>

CancelStopped(e) ==
  /\ pc[e] = "cancel"
  /\ cancelled' = [cancelled EXCEPT ![prev[e]] = TRUE]
  /\ prev' = [prev EXCEPT ![e] = NoSession]
  /\ Finish(e, "done")
  /\ UNCHANGED <<current, home, queue, history, runLock, runner, target,
                 snapshot, result, shutdown>>

Compact(e) ==
  /\ pc[e] = "idle" /\ KindOf[e] = "compact"
  /\ IF current[KeyOf[e]] = NoSession
       THEN Finish(e, "done") /\ target' = target
       ELSE /\ pc' = [pc EXCEPT ![e] = "lockwait"]
            /\ target' = [target EXCEPT ![e] = current[KeyOf[e]]]
            /\ outcome' = outcome
  /\ UNCHANGED <<current, home, cancelled, queue, history, runLock, runner,
                 prev, snapshot, result, shutdown>>

\* lockRun and snapshotForRun, for a turn and for /compact.
AcquireRun(e, start) ==
  /\ runLock[target[e]] = NoEvent
  /\ runLock' = [runLock EXCEPT ![target[e]] = e]
  /\ snapshot' = [snapshot EXCEPT ![e] = start]

\* Variant: /compact reads the history without the run lock.
CompactUnlocked(e) ==
  /\ pc[e] = "lockwait"
  /\ snapshot' = [snapshot EXCEPT ![e] = history[target[e]]]
  /\ pc' = [pc EXCEPT ![e] = "compacting"]
  /\ UNCHANGED <<current, home, cancelled, queue, history, runLock, runner,
                 target, prev, result, outcome, shutdown>>

CompactLock(e) ==
  /\ pc[e] = "lockwait"
  /\ AcquireRun(e, history[target[e]])
  /\ pc' = [pc EXCEPT ![e] = "compacting"]
  /\ UNCHANGED <<current, home, cancelled, queue, history, runner, target,
                 prev, result, outcome, shutdown>>

\* A compaction folds a prefix of the turns into one summary message and
\* keeps the most recent messages, at least one, as they are.
Compactions(h) == {h} \cup {SubSeq(h, i, Len(h)) : i \in 1..Len(h)}

\* setHistory comes first: when the file cannot be written the author gets an
\* error, and the history is folded all the same.
CompactStore(e) ==
  /\ pc[e] = "compacting"
  /\ \E h \in Compactions(snapshot[e]) :
       history' = [history EXCEPT ![target[e]] = h]
  /\ runLock' = [runLock EXCEPT ![target[e]] = NoEvent]
  /\ snapshot' = [snapshot EXCEPT ![e] = <<>>]
  /\ \E o \in {"done", "errored"} : Finish(e, o)
  /\ UNCHANGED <<current, home, cancelled, queue, runner, target, prev,
                 result, shutdown>>

----------------------------------------------------------------------------
(* The runner of a session                                                 *)

\* Variant: the prompt is looked at and left in the queue.
TakeLeavesHead(s) ==
  /\ runner[s] = "select" /\ queue[s] # <<>>
  /\ pc' = [pc EXCEPT ![Head(queue[s])] = "lock"]
  /\ runner' = [runner EXCEPT ![s] = "turn"]
  /\ UNCHANGED <<current, home, cancelled, queue, history, runLock, target,
                 prev, snapshot, result, outcome, shutdown>>

\* runSession's select: with both cases ready Go may take either.
Take(s) ==
  /\ runner[s] = "select" /\ queue[s] # <<>>
  /\ pc' = [pc EXCEPT ![Head(queue[s])] = "lock"]
  /\ queue' = [queue EXCEPT ![s] = Tail(@)]
  /\ runner' = [runner EXCEPT ![s] = "turn"]
  /\ UNCHANGED <<current, home, cancelled, history, runLock, target, prev,
                 snapshot, result, outcome, shutdown>>

RunnerExit(s) ==
  /\ runner[s] = "select" /\ Cancelled(s)
  /\ runner' = [runner EXCEPT ![s] = "exited"]
  /\ UNCHANGED <<current, home, cancelled, queue, history, runLock, pc,
                 target, prev, snapshot, result, outcome, shutdown>>

StartTurn(e) ==
  /\ pc[e] = "lock"
  /\ AcquireRun(e, IF Isolated(e) THEN <<>> ELSE history[target[e]])
  /\ pc' = [pc EXCEPT ![e] = "running"]
  /\ UNCHANGED <<current, home, cancelled, queue, history, runner, target,
                 prev, result, outcome, shutdown>>

\* Variant: the run lock is never given back.
EndTurnLocked(e, o) ==
  /\ Finish(e, o)
  /\ snapshot' = [snapshot EXCEPT ![e] = <<>>]
  /\ result' = [result EXCEPT ![e] = "text"]
  /\ runner' = [runner EXCEPT ![target[e]] = "select"]
  /\ UNCHANGED runLock

\* The deferred unlock, and the way back to the select.
EndTurn(e, o) ==
  /\ Finish(e, o)
  /\ runLock' = [runLock EXCEPT ![target[e]] = NoEvent]
  /\ snapshot' = [snapshot EXCEPT ![e] = <<>>]
  /\ result' = [result EXCEPT ![e] = "text"]
  /\ runner' = [runner EXCEPT ![target[e]] = "select"]

\* A panic of the run is recovered and reported without a look at the
\* session's context.
Panic(e) ==
  /\ pc[e] = "running"
  /\ EndTurn(e, IF Internal(e) THEN "silent" ELSE "errored")
  /\ UNCHANGED <<current, home, cancelled, queue, history, target, prev,
                 shutdown>>

\* The run is over: the context is read once, and decides.
SeeCancelled(e) ==
  /\ pc[e] = "running" /\ Cancelled(target[e])
  /\ pc' = [pc EXCEPT ![e] = "abandon"]
  /\ UNCHANGED <<current, home, cancelled, queue, history, runLock, runner,
                 target, prev, snapshot, result, outcome, shutdown>>

\* Variant: the context is not looked at again after the run.
SeeResultUnchecked(e, r) ==
  /\ pc[e] = "running"
  /\ result' = [result EXCEPT ![e] = r]
  /\ pc' = [pc EXCEPT ![e] = "save"]
  /\ UNCHANGED <<current, home, cancelled, queue, history, runLock, runner,
                 target, prev, snapshot, outcome, shutdown>>

SeeResult(e, r) ==
  /\ pc[e] = "running" /\ ~Cancelled(target[e])
  /\ result' = [result EXCEPT ![e] = r]
  /\ pc' = [pc EXCEPT ![e] = "save"]
  /\ UNCHANGED <<current, home, cancelled, queue, history, runLock, runner,
                 target, prev, snapshot, outcome, shutdown>>

\* sessionStillActive decides whether an abandoned turn says so.
Abandon(e) ==
  /\ pc[e] = "abandon"
  /\ EndTurn(e, IF current[home[target[e]]] = target[e] THEN "cancelNotice"
                                                        ELSE "discarded")
  /\ UNCHANGED <<current, home, cancelled, queue, history, target, prev,
                 shutdown>>

\* setHistory and persist.  A run that failed before it built a history, and
\* an isolated heartbeat, leave the history as it is.
SaveTurn(e) ==
  /\ pc[e] = "save"
  /\ IF Isolated(e) \/ result[e] = "failedEarly"
       THEN history' = history
       ELSE \E h \in Compactions(Append(snapshot[e], e)) :
              history' = [history EXCEPT ![target[e]] = h]
  /\ pc' = [pc EXCEPT ![e] = "reply"]
  /\ UNCHANGED <<current, home, cancelled, queue, runLock, runner, target,
                 prev, snapshot, result, outcome, shutdown>>

\* What the turn of e may show in the channel.
RepliesOf(e) ==
  LET failed == result[e] \in {"failed", "failedEarly"}
  IN CASE Internal(e) ->
            IF failed \/ KindOf[e] = "dream" THEN {"silent"} ELSE {"answered", "silent"}
       [] ~Internal(e) /\ failed -> {"errored"}
       [] ~Internal(e) /\ result[e] = "silent" -> {"silent"}
       [] ~Internal(e) /\ result[e] = "empty"  -> {"noticed"}
       [] ~Internal(e) /\ result[e] = "text"   -> {"answered"}

ReplyTurn(e) ==
  /\ pc[e] = "reply"
  /\ \E o \in RepliesOf(e) : EndTurn(e, o)
  /\ UNCHANGED <<current, home, cancelled, queue, history, target, prev,
                 shutdown>>

----------------------------------------------------------------------------
(* Shutdown                                                                *)

Signal ==
  /\ shutdown = "up"
  /\ shutdown' = "signalled"
  /\ UNCHANGED <<current, home, cancelled, queue, history, runLock, runner,
                 pc, target, prev, snapshot, result, outcome>>

CancelAll ==
  /\ shutdown = "signalled"
  /\ shutdown' = "drained"
  /\ cancelled' = [s \in Sessions |-> cancelled[s] \/ \E k \in Keys : current[k] = s]
  /\ current' = [k \in Keys |-> NoSession]
  /\ UNCHANGED <<home, queue, history, runLock, runner, pc, target, prev,
                 snapshot, result, outcome>>

\* Nothing is left to do: every event is over, or waits for ever in the queue
\* of a session whose runner is gone.
Quiescent ==
  /\ \A e \in Events :
       pc[e] = "done" \/ (pc[e] = "queued" /\ runner[target[e]] = "exited")
  /\ UNCHANGED vars

HandlerStep(e) ==
  \/ ResetFails(e) \/ (\E s \in Sessions : Publish(e, s)) \/ Launch(e)
  \/ EnqueueOk(e) \/ EnqueueGone(e) \/ EnqueueFull(e)
  \/ CancelStopped(e) \/ CompactStore(e)

TurnStep(e) ==
  \/ Panic(e) \/ SeeCancelled(e) \/ (\E r \in Results : SeeResult(e, r))
  \/ Abandon(e) \/ SaveTurn(e) \/ ReplyTurn(e)

Next ==
  \/ \E e \in Events :
       \/ Lookup(e) \/ New(e) \/ Stop(e) \/ Compact(e)
       \/ HandlerStep(e) \/ CompactLock(e) \/ StartTurn(e) \/ TurnStep(e)
  \/ \E s \in Sessions : Take(s) \/ RunnerExit(s)
  \/ Signal \/ CancelAll \/ Quiescent

Spec == Init /\ [][Next]_vars

(***************************************************************************)
(* Goroutines that can run do run; the run lock is a sync.Mutex, whose     *)
(* starvation mode serves a waiter in the end; nobody has to send a prompt *)
(* or a signal.                                                            *)
(***************************************************************************)
Fairness ==
  /\ \A e \in Events : WF_vars(HandlerStep(e)) /\ WF_vars(TurnStep(e))
  /\ \A e \in Events : SF_vars(CompactLock(e)) /\ SF_vars(StartTurn(e))
  /\ \A s \in Sessions : WF_vars(Take(s) \/ RunnerExit(s))
  /\ WF_vars(CancelAll)

FairSpec == Spec /\ Fairness
----------------------------------------------------------------------------
(* Properties                                                              *)

\* Every variable keeps its type, and no queue outgrows promptQueueSize.
TypeOK ==
  /\ current   \in [Keys -> Sessions \cup {NoSession}]
  /\ home      \in [Sessions -> Keys \cup {NoKey}]
  /\ cancelled \in [Sessions -> BOOLEAN]
  /\ queue     \in [Sessions -> Seq(Events)]
  /\ \A s \in Sessions : Len(queue[s]) <= QueueCap
  /\ history   \in [Sessions -> Seq(Events)]
  /\ runLock   \in [Sessions -> Events \cup {NoEvent}]
  /\ runner    \in [Sessions -> RunnerStates]
  /\ pc        \in [Events -> Steps]
  /\ target    \in [Events -> Sessions \cup {NoSession}]
  /\ prev      \in [Events -> Sessions \cup {NoSession}]
  /\ snapshot  \in [Events -> Seq(Events)]
  /\ result    \in [Events -> Results]
  /\ outcome   \in [Events -> Outcomes]
  /\ shutdown  \in {"up", "signalled", "drained"}

\* A handler that finds a session under a key gets one that was made for that
\* key and that nobody has cancelled: sessions leave the map before Cancel.
MappedIsLive ==
  \A k \in Keys : current[k] # NoSession =>
    /\ home[current[k]] = k
    /\ ~cancelled[current[k]]

\* No session keeps a runner and a model call going with nobody able to stop
\* it: one that is out of the map is cancelled, or somebody is about to.
NoOrphan ==
  \A s \in Sessions : home[s] # NoKey /\ ~cancelled[s] =>
    \/ current[home[s]] = s
    \/ \E e \in Events : prev[e] = s

\* The map and the contexts agree: what the map offers is live, and what it no
\* longer offers is cancelled, or its remover is about to.
LiveSessionsAreMapped == MappedIsLive /\ NoOrphan

QueueInPlace(s) ==
  \A i \in 1..Len(queue[s]) :
    /\ pc[queue[s][i]] = "queued"
    /\ target[queue[s][i]] = s /\ KeyOf[queue[s][i]] = home[s]
    /\ \A j \in 1..Len(queue[s]) : queue[s][j] = queue[s][i] => j = i

HistoryInPlace(s) ==
  \A i \in 1..Len(history[s]) :
    /\ pc[history[s][i]] \in {"reply", "done"}
    /\ target[history[s][i]] = s
    /\ \A j \in 1..Len(history[s]) : history[s][j] = history[s][i] => j = i

\* A prompt is in the queue of one session, that of its own channel, once and
\* only while it waits; a history holds the finished turns of its own session,
\* each once.
PromptInOnePlace == \A s \in Sessions : QueueInPlace(s) /\ HistoryInPlace(s)

HoldsRunLock(e) == pc[e] \in {"running", "abandon", "save", "reply", "compacting"}

\* Whoever reads the history and later writes it back, a turn or /compact, has
\* the run lock all the while, and what it writes back extends what is stored:
\* no turn is overwritten by one that started from an older history.
NoLostTurn ==
  \A e \in Events : HoldsRunLock(e) =>
    /\ runLock[target[e]] = e
    /\ pc[e] = "compacting" \/ (pc[e] # "reply" /\ ~Isolated(e))
         => snapshot[e] = history[target[e]]

\* cancelReplyText is sent only while the service shuts down: /new and /stop
\* take the session out of the map first, so their turns end in silence.
CancelNoticeOnlyAtShutdown ==
  \A e \in Events : outcome[e] = "cancelNotice" => shutdown # "up"

SessionGone(e) == target[e] \in Sessions /\ Cancelled(target[e])

\* A message that gets neither a reply, an error nor a notice, and for which
\* the model did not choose silence, belonged to a session that was reset.
UnansweredOnlyIfReset ==
  \A e \in Events :
    KindOf[e] = "user" /\ outcome[e] \in {"dropped", "discarded"}
      => SessionGone(e)

\* What an author gets to see tells apart a reset, which is silent, a shutdown,
\* which is announced, and everything else, which is answered.
SilenceIsMeant == CancelNoticeOnlyAtShutdown /\ UnansweredOnlyIfReset

StoppedEarly(e) ==
  pc[e] \in {"ready", "queued", "lock", "running"} /\ SessionGone(e)

\* Once a session is cancelled no prompt that has not got past its run, queued
\* or inside it, is answered any more.
StoppedTurnNeverAnswers ==
  \A e \in Events :
    [](StoppedEarly(e)
       => [](outcome[e] \notin {"answered", "noticed"}))

\* How far an event's turn has come, as its conversation shows it.
Progress ==
  [e \in Events |->
     CASE pc[e] = "done"  -> "over"
       [] pc[e] = "reply" -> IF Isolated(e) \/ result[e] = "failedEarly" THEN "passed" ELSE "kept"
       [] OTHER -> "asked"]

Talk == INSTANCE Conversation
          WITH Conversations <- Sessions, owner <- home, stage <- Progress

\* Turns and compactions take many steps, in many goroutines, and work on
\* copies; what they leave behind is as if each had been a single step on the
\* history of that moment, and each event ends once, by what was kept of it.
\* A /compact may end in an error although it folded the history: its file was
\* not written.
ImplementsConversation == Talk!Spec

\* A queued prompt is worked off, unless its session is cancelled.
QueuedIsServed ==
  \A e \in Events :
    pc[e] = "queued" ~> (pc[e] = "done" \/ SessionGone(e))

\* The runner of a cancelled session comes to its end, so neither goroutines
\* nor turns pile up behind /new and /stop.
CancelledRunnerExits ==
  \A s \in Sessions : cancelled[s] ~> runner[s] = "exited"

\* Sessions go on, and those that were cancelled end.
SessionsGoOn == QueuedIsServed /\ CancelledRunnerExits

HasSession == {"launch", "ready", "queued", "lock", "running", "abandon",
               "save", "reply", "lockwait", "compacting"}

\* What the code relies on without checking it: a handler or turn with a
\* session in hand has one of its own key; a session waiting to be cancelled
\* is out of the map for good, and each is waited for only by its remover; only
\* sessions that were published are ever cancelled; and a turn is given up
\* only if its session was.
Bookkeeping ==
  /\ \A e \in Events :
       /\ pc[e] \in HasSession =>
            target[e] \in Sessions /\ home[target[e]] = KeyOf[e]
       /\ prev[e] # NoSession =>
            /\ pc[e] \in {"launch", "cancel"}
            /\ home[prev[e]] = KeyOf[e] /\ current[KeyOf[e]] # prev[e]
       /\ pc[e] = "cancel" => prev[e] # NoSession
       /\ pc[e] = "abandon" => Cancelled(target[e])
       /\ outcome[e] # "open" => pc[e] = "done"
  /\ \A s \in Sessions : home[s] = NoKey => ~cancelled[s]
=============================================================================
