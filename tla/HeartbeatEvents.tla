-------------------------- MODULE HeartbeatEvents --------------------------
(***************************************************************************)
(* What wakes the agent without a user (src/internal/discordbot):          *)
(* system events, files that the webhook and the command line leave in a   *)
(* directory and the heartbeat loop collects (heartbeat.go), and scheduled *)
(* wakeups, kept in memory and watched by a loop of their own (cron.go).   *)
(* Both end as prompts in the bounded queue of the heartbeat session.      *)
(*                                                                         *)
(* Time is relative: due[w] is how long a wakeup has still to wait, nap    *)
(* how long the wakeup loop has still to sleep, both in units of the       *)
(* loop's shortest sleep.  The steps of the loops take no time.            *)
(***************************************************************************)
EXTENDS Naturals, Sequences, FiniteSets

CONSTANTS
  Events,      \* system events
  Immediate,   \* those of mode "now"; the others wait for a heartbeat
  Wakeups,     \* ids of wakeups, each is scheduled at most once
  Cron,        \* those that recur
  Horizon,     \* the longest time a wakeup is scheduled ahead
  Nap,         \* idleSleep
  QueueCap,    \* promptQueueSize
  MaxCrashes   \* bound on the restarts

ASSUME HeartbeatAssumption ==
  /\ Immediate \subseteq Events /\ Cron \subseteq Wakeups
  /\ Events \cap Wakeups = {}
  /\ Horizon \in Nat \ {0} /\ Nap \in Nat \ {0} /\ QueueCap \in Nat \ {0}
  /\ MaxCrashes \in Nat

VARIABLES
  file,       \* the file of an event
  hpc, batch, \* the heartbeat loop, and the events it has in hand
  plan,       \* scheduledWakeupManager.items
  due,        \* time until NextRunAt
  wpc, ripe,  \* the wakeup loop, and the wakeups it has in hand
  nap,        \* time until the loop's timer fires
  queue,      \* the prompts in the queue of the heartbeat session
  handed,     \* history: what has been put in the queue since it was last due
  excused,    \* history: events whose file could not be removed
  crashes

events  == <<file, hpc, batch>>
wakeups == <<plan, due, wpc, ripe, nap>>
history == <<handed, excused>>
vars    == <<events, wakeups, queue, history, crashes>>

Things == Events \cup Wakeups

Init ==
  /\ file = [e \in Events |-> "none"]
  /\ hpc = "select" /\ batch = {}
  /\ plan = [w \in Wakeups |-> "new"] /\ due = [w \in Wakeups |-> 0]
  /\ wpc = "check" /\ ripe = {} /\ nap = 0
  /\ queue = <<>>
  /\ handed = {} /\ excused = {}
  /\ crashes = 0

----------------------------------------------------------------------------
(* EnqueueSystemEvent: the file appears before it has its content          *)

Create(e) ==
  /\ file[e] = "none"
  /\ file' = [file EXCEPT ![e] = "partial"]
  /\ UNCHANGED <<hpc, batch, wakeups, queue, history, crashes>>

\* The client is told that the event is queued.  A writer that fails or dies
\* never gets here.
Written(e) ==
  /\ file[e] \in {"partial", "aside"}
  /\ file' = [file EXCEPT ![e] = "whole"]
  /\ UNCHANGED <<hpc, batch, wakeups, queue, history, crashes>>

----------------------------------------------------------------------------
(* enqueueHeartbeat                                                        *)

\* The prompt enters the queue of the session, which is created if need be.
Accepted(things) ==
  /\ Len(queue) < QueueCap
  /\ queue' = Append(queue, things)
  /\ handed' = handed \cup things

\* The checklist cannot be read, no session can be made, its context is done,
\* or its queue is full.
Refused == UNCHANGED <<queue, handed>>

----------------------------------------------------------------------------
(* runHeartbeatLoop                                                        *)

Whole(mode) == {e \in mode : file[e] = "whole"}

\* A look at the directory takes in hand the events of a mode.  A file that
\* has not its whole content is renamed to .corrupt, unless the rename fails;
\* its writer goes on in the renamed file, and the next look reads that, too.
Collect(mode) ==
  /\ batch' = Whole(mode)
  /\ \E renamed \in SUBSET {e \in Events : file[e] = "partial"} :
       file' = [e \in Events |-> IF e \in renamed THEN "aside" ELSE file[e]]
  /\ UNCHANGED <<wakeups, queue, history, crashes>>

\* Variant: both tickers look for the same mode.
PollOtherMode ==
  /\ hpc = "select" /\ Collect(Events \ Immediate)
  /\ hpc' = IF batch' = {} THEN "select" ELSE "enqueue"

\* The ticks of the two tickers.
PollEvents ==
  /\ hpc = "select" /\ Collect(Immediate)
  /\ hpc' = IF batch' = {} THEN "select" ELSE "enqueue"

\* Within the active hours, with events or without.
Heartbeat ==
  /\ hpc = "select" /\ Collect(Events \ Immediate)
  /\ hpc' = "enqueue"

HandOver ==
  /\ hpc = "enqueue" /\ Accepted(batch)
  /\ hpc' = "ack"
  /\ UNCHANGED <<file, batch, wakeups, excused, crashes>>

\* Variant: a batch that was refused is acknowledged, too.
AckRefused ==
  /\ hpc = "enqueue" /\ Refused
  /\ hpc' = "ack"
  /\ UNCHANGED <<file, batch, wakeups, excused, crashes>>

KeepBatch ==
  /\ hpc = "enqueue" /\ Refused
  /\ hpc' = "select" /\ batch' = {}
  /\ UNCHANGED <<file, wakeups, excused, crashes>>

\* acknowledgeHeartbeatEvents removes one file after the other ...
RemoveFile(e) ==
  /\ hpc = "ack" /\ e \in batch
  /\ file' = [file EXCEPT ![e] = "gone"]
  /\ batch' = batch \ {e}
  /\ UNCHANGED <<hpc, wakeups, queue, history, crashes>>

\* ... and gives up at the first that it cannot remove.
AckFails ==
  /\ hpc = "ack" /\ batch # {}
  /\ excused' = excused \cup batch
  /\ batch' = {} /\ hpc' = "select"
  /\ UNCHANGED <<file, wakeups, queue, handed, crashes>>

AckDone ==
  /\ hpc = "ack" /\ batch = {}
  /\ hpc' = "select"
  /\ UNCHANGED <<file, batch, wakeups, queue, history, crashes>>

----------------------------------------------------------------------------
(* The tools that schedule and cancel wakeups                              *)

\* At or the first time of Cron is in the future.
Schedule(w, d) ==
  /\ plan[w] = "new" /\ d > 0
  /\ plan' = [plan EXCEPT ![w] = "set"] /\ due' = [due EXCEPT ![w] = d]
  /\ UNCHANGED <<events, wpc, ripe, nap, queue, history, crashes>>

Cancel(w) ==
  /\ plan[w] = "set"
  /\ plan' = [plan EXCEPT ![w] = "cancelled"] /\ due' = [due EXCEPT ![w] = 0]
  /\ UNCHANGED <<events, wpc, ripe, nap, queue, history, crashes>>

----------------------------------------------------------------------------
(* runScheduledWakeupLoop                                                  *)

Planned == {w \in Wakeups : plan[w] = "set"}

DueWakeups == {w \in Planned : due[w] = 0}

CheckWakeups ==
  /\ wpc = "check"
  /\ ripe' = DueWakeups
  /\ wpc' = IF DueWakeups = {} THEN "arm" ELSE "enqueue"
  /\ UNCHANGED <<events, plan, due, nap, queue, history, crashes>>

Remind ==
  /\ wpc = "enqueue" /\ Accepted(ripe)
  /\ wpc' = "ack"
  /\ UNCHANGED <<events, plan, due, ripe, nap, excused, crashes>>

PutOff ==
  /\ wpc = "enqueue" /\ Refused
  /\ wpc' = "arm" /\ ripe' = {}
  /\ UNCHANGED <<events, plan, due, nap, excused, crashes>>

\* Variant: a wakeup that does not recur is kept.
AckKeepsAll ==
  /\ wpc = "ack"
  /\ wpc' = "arm" /\ ripe' = {}
  /\ UNCHANGED <<events, plan, due, nap, queue, history, crashes>>

\* acknowledgeDelivered: the next time is after the delivery; a wakeup that was
\* cancelled meanwhile is left alone.
AckWakeups ==
  /\ wpc = "ack"
  /\ plan' = [w \in Wakeups |-> IF w \in ripe \cap Planned /\ w \notin Cron THEN "done"
                                                                          ELSE plan[w]]
  /\ \E next \in [Cron -> 1..Horizon] :
       due' = [w \in Wakeups |-> IF w \in ripe \cap Planned \cap Cron THEN next[w] ELSE due[w]]
  /\ handed' = handed \ (ripe \cap Cron)
  /\ wpc' = "arm" /\ ripe' = {}
  /\ UNCHANGED <<events, nap, queue, excused, crashes>>

\* The loop sleeps until the first wakeup is due, at least minPoll, and
\* idleSleep if there is none.  Nobody wakes it before that.
Arm ==
  /\ wpc = "arm" /\ wpc' = "sleep"
  /\ IF Planned = {}
       THEN nap' = Nap
       ELSE \E w \in Planned :
              /\ \A v \in Planned : due[w] <= due[v]
              /\ nap' = IF due[w] = 0 THEN 1 ELSE due[w]
  /\ UNCHANGED <<events, plan, due, ripe, queue, history, crashes>>

Wake ==
  /\ wpc = "sleep" /\ nap = 0
  /\ wpc' = "check"
  /\ UNCHANGED <<events, plan, due, ripe, nap, queue, history, crashes>>

----------------------------------------------------------------------------
(* Time, the session, the process                                          *)

Less(n) == IF n = 0 THEN 0 ELSE n - 1

Tick ==
  /\ wpc = "sleep" /\ nap > 0
  /\ nap' = nap - 1
  /\ due' = [w \in Wakeups |-> IF plan[w] = "set" THEN Less(due[w]) ELSE due[w]]
  /\ UNCHANGED <<events, plan, wpc, ripe, queue, handed, excused, crashes>>

\* The runner of the session takes a prompt.
Take ==
  /\ queue # <<>> /\ queue' = Tail(queue)
  /\ UNCHANGED <<events, wakeups, history, crashes>>

\* /stop or /new: the queue goes with its session.
Drop ==
  /\ queue # <<>> /\ queue' = <<>>
  /\ UNCHANGED <<events, wakeups, history, crashes>>

\* The process dies; the files stay, the wakeups do not.
Crash ==
  /\ crashes < MaxCrashes /\ crashes' = crashes + 1
  /\ hpc' = "select" /\ batch' = {}
  /\ excused' = excused \cup (IF hpc = "ack" THEN batch ELSE {})
  /\ plan' = [w \in Wakeups |-> IF plan[w] = "set" THEN "lost" ELSE plan[w]]
  /\ due' = [w \in Wakeups |-> 0]
  /\ wpc' = "check" /\ ripe' = {} /\ nap' = 0
  /\ queue' = <<>>
  /\ UNCHANGED <<file, handed>>

HeartbeatLoop ==
  \/ PollEvents \/ Heartbeat \/ HandOver \/ KeepBatch
  \/ \E e \in Events : RemoveFile(e)
  \/ AckFails \/ AckDone

WakeupLoop == CheckWakeups \/ Remind \/ PutOff \/ AckWakeups \/ Arm \/ Wake

Next ==
  \/ \E e \in Events : Create(e) \/ Written(e)
  \/ HeartbeatLoop \/ WakeupLoop
  \/ \E w \in Wakeups : Cancel(w) \/ \E d \in 1..Horizon : Schedule(w, d)
  \/ Tick \/ Take \/ Drop \/ Crash

Spec == Init /\ [][Next]_vars

(***************************************************************************)
(* Time goes on, the loops run, both tickers tick again and again and the  *)
(* runner empties the queue; what there is to hand over is refused only    *)
(* finitely often.                                                         *)
(***************************************************************************)
Fairness ==
  /\ WF_vars(Tick) /\ WF_vars(Take)
  /\ WF_vars(HandOver \/ KeepBatch \/ AckFails \/ AckDone) /\ WF_vars(WakeupLoop)
  /\ SF_vars(PollEvents) /\ SF_vars(Heartbeat)
  /\ <>[][~(KeepBatch /\ batch # {}) /\ ~PutOff]_vars

FairSpec == Spec /\ Fairness

----------------------------------------------------------------------------
(* Properties                                                              *)

\* Every variable keeps its type, and a loop has something in hand only
\* between its look at it and the acknowledgement.
TypeOK ==
  /\ file \in [Events -> {"none", "partial", "aside", "whole", "gone"}]
  /\ hpc \in {"select", "enqueue", "ack"} /\ batch \subseteq Events
  /\ plan \in [Wakeups -> {"new", "set", "cancelled", "done", "lost"}]
  /\ due \in [Wakeups -> 0..Horizon]
  /\ wpc \in {"check", "enqueue", "ack", "arm", "sleep"} /\ ripe \subseteq Wakeups
  /\ nap \in Nat
  /\ queue \in Seq(SUBSET Things) /\ Len(queue) <= QueueCap
  /\ handed \subseteq Things /\ excused \subseteq Events
  /\ crashes \in 0..MaxCrashes
  /\ hpc = "select" => batch = {}
  /\ ripe # {} <=> wpc \in {"enqueue", "ack"}
  /\ \A e \in batch : file[e] = "whole"

\* An event whose client was told it is queued is on the disk until it has
\* been put in the queue of the session.
EventIsKept == \A e \in Events : file[e] = "gone" => e \in handed

\* Nothing is put in the queue twice for one occasion, but an event whose file
\* could not be removed after the first time.
NothingTwice ==
  [][Len(queue') > Len(queue) => queue'[Len(queue')] \cap handed \subseteq excused]_vars

\* A wakeup is put in the queue only when it is due.
NeverEarly ==
  [][\A w \in Wakeups : w \in handed' \ handed => due[w] = 0]_vars

\* A wakeup that was cancelled stays cancelled, one that recurs as well, and is
\* put in the queue only when the loop had it in hand before.
CancelledStays ==
  [][\A w \in Wakeups : plan[w] = "cancelled" =>
       /\ plan'[w] = "cancelled" /\ due'[w] = 0
       /\ w \in handed' \ handed => w \in ripe]_vars

\* Each occasion reaches the queue once and not before its time, however the
\* loops, their acknowledgements, cancellations and a crash interleave, and
\* no acknowledgement brings back what was cancelled.
OnceInTime == NothingTwice /\ NeverEarly /\ CancelledStays

\* An event comes to be handed over, and so does a wakeup unless it is
\* cancelled or lost with the process.
AllComesUp ==
  /\ \A e \in Events : file[e] = "whole" ~> e \in handed
  /\ \A w \in Wakeups : plan[w] = "set" ~> w \in handed \/ plan[w] \in {"cancelled", "lost"}
=============================================================================
