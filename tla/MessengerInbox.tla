--------------------------- MODULE MessengerInbox ---------------------------
(***************************************************************************)
(* What comes in from Messenger (src/internal/messenger/messenger.go: the   *)
(* message part of makeEventHandler, relay, enqueueDispatch, dispatchLoop): *)
(* the server delivers a message again after a reconnect, old ones come     *)
(* after a start, a message's handler runs on the one dispatcher and may    *)
(* panic, and the process restarts with nothing but its cookies.            *)
(***************************************************************************)
EXTENDS Naturals, Sequences, FiniteSets

CONSTANTS
  Msgs,        \* messages, each with an id of its own
  SeenLimit,   \* ids that are remembered before old ones are forgotten (500)
  Day,         \* age at which an id may be forgotten
  Slack,       \* a message this much older than the process is still new (5 s)
  LastTime,    \* bound on the clock
  MaxTaken,    \* bound on the messages accepted
  MaxRestarts  \* bound on restarts

VARIABLES
  time,        \* the clock
  written,     \* per message: when it was sent, 0 while it was not
  born,        \* Client.startTime
  seen,        \* per message: Client.seen, 0 if it is not there
  ledger,      \* history: the messages accepted, with the time and the process
  waiting,     \* Client.dispatchQ, as places in the ledger
  handling,    \* the place the dispatcher is at, or 0
  handled,     \* history: the places handled, in order
  restarts

inboxvars == <<time, written, born, seen, ledger, waiting, handling, handled, restarts>>

Init ==
  /\ time = 1 /\ born = 1 /\ restarts = 0
  /\ written = [m \in Msgs |-> 0] /\ seen = [m \in Msgs |-> 0]
  /\ ledger = <<>> /\ waiting = <<>> /\ handling = 0 /\ handled = <<>>

Ticks ==
  /\ time < LastTime /\ time' = time + 1
  /\ UNCHANGED <<written, born, seen, ledger, waiting, handling, handled, restarts>>

Written(m) ==
  /\ written[m] = 0 /\ written' = [written EXCEPT ![m] = time]
  /\ UNCHANGED <<time, born, seen, ledger, waiting, handling, handled, restarts>>

\* Variant: a full memory is emptied.
PrunedAll ==
  IF Cardinality({m \in Msgs : seen[m] > 0}) =< SeenLimit THEN seen
  ELSE [m \in Msgs |-> 0]

\* The ids left once old ones are forgotten.
Pruned ==
  IF Cardinality({m \in Msgs : seen[m] > 0}) =< SeenLimit THEN seen
  ELSE [m \in Msgs |-> IF seen[m] + Day < time THEN 0 ELSE seen[m]]

Stale(m) == written[m] + Slack < born

\* relay, whichever list of the table the message is in.  It is remembered
\* before it is handled.
Relay(m) ==
  /\ written[m] > 0 /\ ~Stale(m) /\ seen[m] = 0
  /\ Len(ledger) < MaxTaken
  /\ seen' = [Pruned EXCEPT ![m] = time]
  /\ ledger' = Append(ledger, [msg |-> m, at |-> time, born |-> born, life |-> restarts])
  /\ waiting' = Append(waiting, Len(ledger) + 1)
  /\ UNCHANGED <<time, written, born, handling, handled, restarts>>

\* dispatchLoop
Dispatch ==
  /\ handling = 0 /\ waiting # <<>>
  /\ handling' = Head(waiting) /\ waiting' = Tail(waiting)
  /\ UNCHANGED <<time, written, born, seen, ledger, handled, restarts>>

\* runDispatched: the handler returns, or panics and is caught.
RunDispatched ==
  /\ handling # 0
  /\ handled' = Append(handled, handling) /\ handling' = 0
  /\ UNCHANGED <<time, written, born, seen, ledger, waiting, restarts>>

\* A new process knows no ids, and what waited is gone.
Restarts ==
  /\ restarts < MaxRestarts /\ restarts' = restarts + 1
  /\ born' = time
  /\ seen' = [m \in Msgs |-> 0]
  /\ waiting' = <<>> /\ handling' = 0
  /\ UNCHANGED <<time, written, ledger, handled>>

Next ==
  \/ Ticks \/ Dispatch \/ RunDispatched \/ Restarts
  \/ \E m \in Msgs : Written(m) \/ Relay(m)

Spec == Init /\ [][Next]_inboxvars

----------------------------------------------------------------------------
Places == 1..Len(ledger)

\* Every variable keeps its type.
TypeOK ==
  /\ time \in 1..LastTime /\ born \in 1..LastTime /\ restarts \in 0..MaxRestarts
  /\ written \in [Msgs -> 0..LastTime] /\ seen \in [Msgs -> 0..LastTime]
  /\ ledger \in Seq([msg : Msgs, at : 1..LastTime, born : 1..LastTime, life : 0..MaxRestarts])
  /\ waiting \in Seq(Places) /\ handled \in Seq(Places) /\ handling \in 0..Len(ledger)

\* A message is taken a second time only by a process that started, but for
\* the slack, before it was sent, or more than a day after it was last taken.
TakenOnce ==
  \A i, j \in Places :
    (i < j /\ ledger[i].msg = ledger[j].msg) =>
      \/ ledger[i].at + Day < ledger[j].at
      \/ ledger[i].life < ledger[j].life /\ ledger[j].born =< written[ledger[j].msg] + Slack

\* What the running process has taken is handled, handled now or waiting, in
\* the order it came.
HandledInOrder ==
  LET now == IF handling = 0 THEN <<>> ELSE <<handling>>
      all == handled \o now \o waiting
  IN  /\ \A i, j \in 1..Len(all) : i < j => all[i] < all[j]
      /\ \A i \in Places : ledger[i].life = restarts => \E j \in 1..Len(all) : all[j] = i

\* Both together: a message is taken once, and handled in its turn.
InboxIsSound == TakenOnce /\ HandledInOrder
=============================================================================
