-------------------------- MODULE BackgroundTasks --------------------------
(***************************************************************************)
(* Background workers (src/internal/discordbot/background.go) and the      *)
(* batches in which their results are handed over to the session that      *)
(* started them (service.go, from addBackgroundNotificationToBatch on).    *)
(*                                                                         *)
(* A worker is started in a turn of a session, and its context ends with   *)
(* the context of that session.  The queue of a session holds prompts; a   *)
(* prompt is the set of the workers it tells of, and {} is a prompt of     *)
(* another kind.  What happens between looking a session up and entering   *)
(* its queue is the subject of DiscordSessions.                            *)
(***************************************************************************)
EXTENDS Naturals, Sequences, FiniteSets

CONSTANTS
  Tasks, Keys, Channels,
  KeyOf,      \* the session key of the one who starts a worker
  ChannelOf,  \* the channel of a key: with scope "user" keys share channels
  Boxed,      \* workers that are to have a sandbox
  Patient,    \* workers with a minimum runtime
  QueueCap    \* promptQueueSize

ASSUME TasksAssumption ==
  /\ KeyOf \in [Tasks -> Keys] /\ ChannelOf \in [Keys -> Channels]
  /\ Boxed \subseteq Tasks /\ Patient \subseteq Tasks
  /\ QueueCap \in Nat \ {0}

VARIABLES
  pc,        \* where the goroutine of a worker is
  status,    \* backgroundTask.Status
  canceled,  \* the context of a worker is done
  res,       \* how its work has ended
  long,      \* its minimum runtime is over
  box,       \* its sandbox
  batch,     \* backgroundNotificationBatches: the workers told of, per channel
  armed,     \* the timer of the batch runs
  fired,     \* timers that have fired, or that no batch holds any more
  carry,     \* groups taken from a batch, on their way to a session
  session,   \* whether a key has, has had, or never had a session
  queue,     \* the queue of the session
  received,  \* history: workers whose handoff a turn has taken up
  lost,      \* history: workers whose handoff was dropped or discarded
  shutdown, flush

worker == <<pc, status, canceled, res, long, box>>
post   == <<batch, armed, fired, carry>>
host   == <<session, queue>>
ends   == <<received, lost>>
stop   == <<shutdown, flush>>
vars   == <<worker, post, host, ends, stop>>

Init ==
  /\ pc = [t \in Tasks |-> "none"] /\ status = [t \in Tasks |-> "none"]
  /\ canceled = [t \in Tasks |-> FALSE] /\ res = [t \in Tasks |-> "none"]
  /\ long = [t \in Tasks |-> t \notin Patient] /\ box = [t \in Tasks |-> "none"]
  /\ batch = [c \in Channels |-> {}]
  /\ armed = [c \in Channels |-> FALSE] /\ fired = [c \in Channels |-> 0]
  /\ carry = {}
  /\ session = [k \in Keys |-> "none"] /\ queue = [k \in Keys |-> <<>>]
  /\ received = {} /\ lost = {}
  /\ shutdown = "up" /\ flush = {}

Count(P) == IF P THEN 1 ELSE 0

Told(s) == UNION {s[i] : i \in DOMAIN s}

----------------------------------------------------------------------------
(* The worker                                                              *)

\* start_background_task, called in a turn of the key's present session or of
\* one that has been cancelled since.
Start(t, late) ==
  /\ pc[t] = "none"
  /\ \/ ~late /\ shutdown = "up" /\ session[KeyOf[t]] = "live"
     \/ late /\ session[KeyOf[t]] # "none"
  /\ pc' = [pc EXCEPT ![t] = "spawned"]
  /\ status' = [status EXCEPT ![t] = "queued"]
  /\ canceled' = [canceled EXCEPT ![t] = late]
  /\ UNCHANGED <<res, long, box, post, host, ends, stop>>

\* The goroutine sets the status, whatever it is by now.
Begin(t) ==
  /\ pc[t] = "spawned"
  /\ status' = [status EXCEPT ![t] = "running"]
  /\ pc' = [pc EXCEPT ![t] = IF t \in Boxed THEN "box" ELSE "run"]
  /\ UNCHANGED <<canceled, res, long, box, post, host, ends, stop>>

CreateBox(t) ==
  /\ pc[t] = "box"
  /\ box' = [box EXCEPT ![t] = "up"]
  /\ pc' = [pc EXCEPT ![t] = "run"]
  /\ UNCHANGED <<status, canceled, res, long, post, host, ends, stop>>

\* No sandbox manager, or a failed or cancelled start of the machine, which
\* StartSandbox stops again: the worker has failed, even if it was cancelled.
BoxFails(t) ==
  /\ pc[t] = "box"
  /\ status' = [status EXCEPT ![t] = "failed"]
  /\ res' = [res EXCEPT ![t] = "error"]
  /\ pc' = [pc EXCEPT ![t] = "hand"]
  /\ UNCHANGED <<canceled, long, box, post, host, ends, stop>>

\* The time since the start reaches the minimum runtime.
Elapse(t) ==
  /\ ~long[t] /\ pc[t] \in {"box", "run", "ran"}
  /\ long' = [long EXCEPT ![t] = TRUE]
  /\ UNCHANGED <<pc, status, canceled, res, box, post, host, ends, stop>>

\* One run of the agent comes back.  A run in a cancelled context may still
\* have been successful.
RunReturns(t, r) ==
  /\ pc[t] = "run"
  /\ res' = [res EXCEPT ![t] = r]
  /\ pc' = [pc EXCEPT ![t] = "ran"]
  /\ UNCHANGED <<status, canceled, long, box, post, host, ends, stop>>

\* Variant: each run starts the clock anew.
AgainRestartsClock(t) ==
  /\ pc[t] = "ran" /\ res[t] = "ok" /\ ~canceled[t] /\ t \in Patient
  /\ pc' = [pc EXCEPT ![t] = "run"]
  /\ long' = [long EXCEPT ![t] = FALSE]
  /\ UNCHANGED <<status, canceled, res, box, post, host, ends, stop>>

\* The minimum runtime is not reached: the worker is told to go on.
Again(t) ==
  /\ pc[t] = "ran" /\ res[t] = "ok" /\ ~canceled[t] /\ ~long[t]
  /\ pc' = [pc EXCEPT ![t] = "run"]
  /\ UNCHANGED <<status, canceled, res, long, box, post, host, ends, stop>>

\* Variant: only the error of the run counts.
JudgeByError(t) ==
  /\ pc[t] = "ran" /\ (res[t] = "error" \/ canceled[t] \/ long[t])
  /\ pc' = [pc EXCEPT ![t] = "record"]
  /\ UNCHANGED <<status, canceled, res, long, box, post, host, ends, stop>>

\* The loop is left, and the worker looks at its context for the last time.
Judge(t) ==
  /\ pc[t] = "ran" /\ (res[t] = "error" \/ canceled[t] \/ long[t])
  /\ res' = [res EXCEPT ![t] = IF canceled[t] THEN "canceled" ELSE @]
  /\ pc' = [pc EXCEPT ![t] = "record"]
  /\ UNCHANGED <<status, canceled, long, box, post, host, ends, stop>>

StatusOf == [ok |-> "completed", error |-> "failed", canceled |-> "canceled"]

AfterHand(t) == IF box[t] = "up" THEN "clean" ELSE "done"

\* Variant: a worker that has been cancelled meanwhile keeps what it has.
RecordUnlessCanceled(t) ==
  /\ pc[t] = "record"
  /\ status' = [status EXCEPT ![t] = IF res[t] = "canceled" THEN @ ELSE StatusOf[res[t]]]
  /\ pc' = [pc EXCEPT ![t] = IF res[t] = "canceled" THEN AfterHand(t) ELSE "hand"]
  /\ UNCHANGED <<canceled, res, long, box, post, host, ends, stop>>

\* The end goes into the record, over whatever the status is by now.  A
\* cancelled worker hands nothing over.
Record(t) ==
  /\ pc[t] = "record"
  /\ status' = [status EXCEPT ![t] = StatusOf[res[t]]]
  /\ pc' = [pc EXCEPT ![t] = IF res[t] = "canceled" THEN AfterHand(t) ELSE "hand"]
  /\ UNCHANGED <<canceled, res, long, box, post, host, ends, stop>>

\* The handoff joins the batch of its channel and restarts the batch's timer.
Hand(t) ==
  LET c == ChannelOf[KeyOf[t]] IN
  /\ pc[t] = "hand"
  /\ batch' = [batch EXCEPT ![c] = @ \cup {t}]
  /\ armed' = [armed EXCEPT ![c] = TRUE]
  /\ pc' = [pc EXCEPT ![t] = AfterHand(t)]
  /\ UNCHANGED <<status, canceled, res, long, box, fired, carry, host, ends, stop>>

\* The sandbox is stopped or deleted, or, after two minutes, left alone.
Clean(t) ==
  /\ pc[t] = "clean"
  /\ box' = [box EXCEPT ![t] = "gone"]
  /\ pc' = [pc EXCEPT ![t] = "done"]
  /\ UNCHANGED <<status, canceled, res, long, post, host, ends, stop>>

CleanFails(t) ==
  /\ pc[t] = "clean"
  /\ box' = [box EXCEPT ![t] = "stuck"]
  /\ pc' = [pc EXCEPT ![t] = "done"]
  /\ UNCHANGED <<status, canceled, res, long, post, host, ends, stop>>

\* The worker's Cancel is there until the end is recorded.
Active == {"spawned", "box", "run", "ran", "record"}

\* cancel_background_task: the status is overwritten even if the worker has
\* come to its end.
Cancel(t) ==
  /\ pc[t] # "none"
  /\ canceled' = [canceled EXCEPT ![t] = @ \/ pc[t] \in Active]
  /\ status' = [status EXCEPT ![t] = "canceled"]
  /\ UNCHANGED <<pc, res, long, box, post, host, ends, stop>>

----------------------------------------------------------------------------
(* The batches                                                             *)

Fire(c) ==
  /\ armed[c]
  /\ armed' = [armed EXCEPT ![c] = FALSE]
  /\ fired' = [fired EXCEPT ![c] = @ + 1]
  /\ UNCHANGED <<worker, batch, carry, host, ends, stop>>

\* Variant: each session is told of all workers of the channel.
GroupsByChannel(c, by) ==
  {[key |-> k, tasks |-> batch[c], by |-> by] : k \in {KeyOf[t] : t \in batch[c]}}

\* One prompt per session, for all the workers it has to be told of.
Groups(c, by) ==
  {[key |-> k, tasks |-> {t \in batch[c] : KeyOf[t] = k}, by |-> by] :
     k \in {KeyOf[t] : t \in batch[c]}}

\* processBackgroundNotificationBatch.  Nobody stops the timer of a batch that
\* something else has taken: it finds none, or the next one early.
Process(c, by) ==
  /\ carry' = carry \cup Groups(c, by)
  /\ batch' = [batch EXCEPT ![c] = {}]
  /\ armed' = [armed EXCEPT ![c] = FALSE]

TimerProcesses(c) ==
  /\ fired[c] > 0
  /\ fired' = [fired EXCEPT ![c] = @ - 1 + Count(armed[c])]
  /\ Process(c, "timer")
  /\ UNCHANGED <<worker, host, ends, stop>>

\* queueBackgroundPrompt.  A key without a session gets one.
Deliver(g) ==
  /\ Len(queue[g.key]) < QueueCap
  /\ carry' = carry \ {g}
  /\ session' = [session EXCEPT ![g.key] = "live"]
  /\ queue' = [queue EXCEPT ![g.key] = Append(@, g.tasks)]
  /\ UNCHANGED <<worker, batch, armed, fired, ends, stop>>

\* The queue is full, the file of the new session cannot be written, or the
\* session's context is done.
Dropped(g) ==
  /\ Len(queue[g.key]) >= QueueCap \/ session[g.key] # "live" \/ shutdown # "up"
  /\ carry' = carry \ {g}
  /\ lost' = lost \cup g.tasks
  /\ UNCHANGED <<worker, batch, armed, fired, host, received, stop>>

----------------------------------------------------------------------------
(* The sessions                                                            *)

\* The context of the session of k ends: its workers are cancelled with it,
\* and what waited in its queue is gone.
EndSession(k) ==
  /\ canceled' = [t \in Tasks |-> canceled[t] \/ (KeyOf[t] = k /\ pc[t] # "none")]
  /\ lost' = lost \cup Told(queue[k])
  /\ queue' = [queue EXCEPT ![k] = <<>>]

\* A first message, or /new.
Open(k) ==
  /\ shutdown = "up"
  /\ session' = [session EXCEPT ![k] = "live"]
  /\ EndSession(k)
  /\ UNCHANGED <<pc, status, res, long, box, post, received, stop>>

\* /stop.
Close(k) ==
  /\ shutdown = "up" /\ session[k] = "live"
  /\ session' = [session EXCEPT ![k] = "ended"]
  /\ EndSession(k)
  /\ UNCHANGED <<pc, status, res, long, box, post, received, stop>>

\* A prompt of another kind.
Enter(k) ==
  /\ shutdown = "up" /\ session[k] = "live" /\ Len(queue[k]) < QueueCap
  /\ queue' = [queue EXCEPT ![k] = Append(@, {})]
  /\ UNCHANGED <<worker, post, session, ends, stop>>

Take(k) ==
  /\ queue[k] # <<>>
  /\ received' = received \cup Head(queue[k])
  /\ queue' = [queue EXCEPT ![k] = Tail(@)]
  /\ UNCHANGED <<worker, post, session, lost, stop>>

\* The runner of a session whose context is done leaves its queue behind.
Discard(k) ==
  /\ shutdown # "up" /\ queue[k] # <<>>
  /\ lost' = lost \cup Told(queue[k])
  /\ queue' = [queue EXCEPT ![k] = <<>>]
  /\ UNCHANGED <<worker, post, session, received, stop>>

----------------------------------------------------------------------------
(* The end of the process: the batches are flushed, the sessions and the   *)
(* workers are cancelled.                                                  *)

\* Every session's context is a child of the one that is cancelled here.
Signal ==
  /\ shutdown = "up"
  /\ shutdown' = "signalled"
  /\ canceled' = [t \in Tasks |-> pc[t] # "none"]
  /\ UNCHANGED <<pc, status, res, long, box, post, host, ends, flush>>

\* processAllPendingBatches: the channels that have a batch now.
BeginFlush ==
  /\ shutdown = "signalled"
  /\ shutdown' = "flushing"
  /\ flush' = {c \in Channels : batch[c] # {}}
  /\ UNCHANGED <<worker, post, host, ends>>

FlushOne(c) ==
  /\ shutdown = "flushing" /\ c \in flush
  /\ Process(c, "shutdown")
  /\ fired' = [fired EXCEPT ![c] = @ + Count(armed[c])]
  /\ flush' = flush \ {c}
  /\ UNCHANGED <<worker, host, ends, shutdown>>

CancelAll ==
  /\ shutdown = "flushing" /\ flush = {} /\ \A g \in carry : g.by # "shutdown"
  /\ shutdown' = "down"
  /\ session' = [k \in Keys |-> IF session[k] = "live" THEN "ended" ELSE session[k]]
  /\ lost' = lost \cup UNION {Told(queue[k]) : k \in Keys}
  /\ queue' = [k \in Keys |-> <<>>]
  /\ UNCHANGED <<worker, post, received, flush>>

\* The process does not wait for its workers.
Exit ==
  /\ shutdown = "down"
  /\ shutdown' = "gone"
  /\ UNCHANGED <<worker, post, host, ends, flush>>

----------------------------------------------------------------------------

Work(t) ==
  \/ Begin(t) \/ CreateBox(t) \/ BoxFails(t)
  \/ \E r \in {"ok", "error"} : RunReturns(t, r)
  \/ Again(t) \/ Judge(t) \/ Record(t) \/ Hand(t)
  \/ Clean(t) \/ CleanFails(t)

Up == shutdown # "gone"

Next ==
  /\ Up
  /\ \/ \E t \in Tasks :
          \/ Work(t) \/ Elapse(t) \/ Cancel(t)
          \/ \E late \in BOOLEAN : Start(t, late)
     \/ \E c \in Channels : Fire(c) \/ TimerProcesses(c) \/ FlushOne(c)
     \/ \E g \in carry : Deliver(g) \/ Dropped(g)
     \/ \E k \in Keys : Open(k) \/ Close(k) \/ Enter(k) \/ Take(k) \/ Discard(k)
     \/ Signal \/ BeginFlush \/ CancelAll \/ Exit

Spec == Init /\ [][Next]_vars

(***************************************************************************)
(* Runs of the agent, sandbox commands and turns come to an end, time goes *)
(* on, and timers and goroutines that can go on do.                        *)
(***************************************************************************)
Fairness ==
  /\ \A t \in Tasks : WF_vars(Up /\ Work(t)) /\ WF_vars(Up /\ Elapse(t))
  /\ \A c \in Channels :
       /\ WF_vars(Up /\ Fire(c)) /\ WF_vars(Up /\ TimerProcesses(c))
       /\ WF_vars(Up /\ FlushOne(c))
  /\ \A t \in Tasks :
       WF_vars(Up /\ \E g \in carry : t \in g.tasks /\ (Deliver(g) \/ Dropped(g)))
  /\ \A k \in Keys : WF_vars(Up /\ (Take(k) \/ Discard(k)))

FairSpec == Spec /\ Fairness

----------------------------------------------------------------------------
(* Properties                                                              *)

Steps == Active \cup {"none", "hand", "clean", "done"}

WorkersTyped ==
  /\ pc \in [Tasks -> Steps]
  /\ status \in [Tasks -> {"none", "queued", "running", "completed", "failed", "canceled"}]
  /\ canceled \in [Tasks -> BOOLEAN]
  /\ res \in [Tasks -> {"none", "ok", "error", "canceled"}]
  /\ long \in [Tasks -> BOOLEAN]
  /\ box \in [Tasks -> {"none", "up", "gone", "stuck"}]

AnyGroup == [key : Keys, tasks : (SUBSET Tasks) \ {{}}, by : {"timer", "shutdown"}]

PostTyped ==
  /\ batch \in [Channels -> SUBSET Tasks]
  /\ armed \in [Channels -> BOOLEAN] /\ fired \in [Channels -> Nat]
  /\ carry \subseteq AnyGroup

HostTyped ==
  /\ session \in [Keys -> {"none", "live", "ended"}]
  /\ queue \in [Keys -> Seq(SUBSET Tasks)]
  /\ \A k \in Keys : Len(queue[k]) <= QueueCap

\* Every variable keeps its type, no queue outgrows promptQueueSize, and no
\* group that is on its way is empty.
TypeOK ==
  /\ WorkersTyped /\ PostTyped /\ HostTyped
  /\ received \subseteq Tasks /\ lost \subseteq Tasks
  /\ shutdown \in {"up", "signalled", "flushing", "down", "gone"} /\ flush \subseteq Channels

HandedOver(t) == pc[t] \in {"clean", "done"} /\ res[t] \in {"ok", "error"}

\* The number of places in which the handoff of a worker is.
Places(t) ==
  Cardinality({c \in Channels : t \in batch[c]})
    + Cardinality({g \in carry : t \in g.tasks})
    + Cardinality({p \in Keys \X (1..QueueCap) :
                     p[2] <= Len(queue[p[1]]) /\ t \in queue[p[1]][p[2]]})
    + Count(t \in received) + Count(t \in lost)

\* A worker that finished or failed is told of once, and a worker that was
\* cancelled never; its handoff waits or has arrived in one place, and only a
\* session of the key that started it gets to see it.
HandoffInOnePlace ==
  /\ \A t \in Tasks : Places(t) = Count(HandedOver(t))
  /\ \A g \in carry : \A t \in g.tasks : KeyOf[t] = g.key
  /\ \A k \in Keys : \A t \in Told(queue[k]) : KeyOf[t] = k

Doomed(t) == canceled[t] /\ pc[t] \in Active \ {"record"}

\* A worker that is cancelled, by itself or with its session, before its last
\* look at the context comes to be cancelled, or fails to get its sandbox; it
\* is never reported as finished.
CancelledNeverFinishes ==
  [][\A t \in Tasks : Doomed(t) =>
       \/ Doomed(t)'
       \/ pc'[t] = "record" /\ res'[t] = "canceled"
       \/ pc'[t] = "hand" /\ res'[t] = "error"]_vars

\* What get_background_task shows: a worker that is over reads as what it came
\* to, or as canceled; it does not read as over while it works, unless as
\* canceled; and it reads so only if its context is done or if somebody has
\* called for its cancellation after its end.
StatusIsTrue ==
  \A t \in Tasks :
    /\ pc[t] \in {"clean", "done"} => status[t] \in {StatusOf[res[t]], "canceled"}
    /\ status[t] \in {"completed", "failed"} => pc[t] \in {"hand", "clean", "done"}
    /\ status[t] = "canceled" => canceled[t] \/ pc[t] \in {"hand", "clean", "done"}

\* Unless the process ends first, a worker comes to its end, however long its
\* minimum runtime; its sandbox
\* does not outlive it unless it could not be stopped; and the session's turn
\* gets the handoff, or the queue and the sessions have lost it.
EverythingEnds ==
  \A t \in Tasks :
    pc[t] = "spawned" ~>
      \/ pc[t] = "done" /\ box[t] # "up" /\ (HandedOver(t) => t \in received \cup lost)
      \/ ~Up
=============================================================================
