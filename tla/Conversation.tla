---------------------------- MODULE Conversation ----------------------------
(***************************************************************************)
(* What the session layer of the Discord service promises to the authors   *)
(* of messages and commands (processPrompt, compactHistory and the         *)
(* handlers in src/internal/discordbot/service.go, by what they leave      *)
(* behind): every conversation looks as if its turns and compactions had   *)
(* been made one at a time, each in a single step on what the one before   *)
(* left; a turn is kept in a conversation of its own channel; and each     *)
(* event ends once, with an answer only if its turn was kept.              *)
(* DiscordSessions implements this.                                        *)
(***************************************************************************)
EXTENDS Naturals, Sequences

CONSTANTS
  Events,             \* messages, reactions, handoffs, heartbeats, dreams, commands
  Conversations,      \* sessions
  Keys, KeyOf,        \* the channels, and the one an event is from
  KindOf,
  IsolatedHeartbeat,  \* heartbeats leave no trace in a conversation, as dreams
  NoKey

VARIABLES
  owner,    \* the channel of a conversation; NoKey before it is opened
  history,  \* the turns of a conversation that are kept verbatim
  stage,    \* whether an event's turn is kept, passed over, or all is over
  outcome   \* what became of the event

vars == <<owner, history, stage, outcome>>

Commands == {"new", "stop", "compact"}

Traceless(e) == KindOf[e] = "dream" \/ (KindOf[e] = "heartbeat" /\ IsolatedHeartbeat)

Init ==
  /\ owner   = [s \in Conversations |-> NoKey]
  /\ history = [s \in Conversations |-> <<>>]
  /\ stage   = [e \in Events |-> "asked"]
  /\ outcome = [e \in Events |-> "open"]

\* A summary takes the place of the oldest turns.
Shortened(h) == {h} \cup {SubSeq(h, i, Len(h)) : i \in 1..Len(h)}

Open(s, k) ==
  /\ owner[s] = NoKey
  /\ owner' = [owner EXCEPT ![s] = k]
  /\ UNCHANGED <<history, stage, outcome>>

\* A turn is added to what its conversation holds at that moment.
Keep(e, s) ==
  /\ stage[e] = "asked" /\ KindOf[e] \notin Commands /\ ~Traceless(e)
  /\ stage' = [stage EXCEPT ![e] = "kept"]
  /\ owner[s] = KeyOf[e]
  /\ \E h \in Shortened(Append(history[s], e)) : history' = [history EXCEPT ![s] = h]
  /\ UNCHANGED <<owner, outcome>>

\* The turn leaves no trace: an isolated heartbeat, or a run that broke off.
Pass(e) ==
  /\ stage[e] = "asked" /\ KindOf[e] \notin Commands
  /\ stage' = [stage EXCEPT ![e] = "passed"]
  /\ UNCHANGED <<owner, history, outcome>>

\* /compact shortens what the conversation holds at that moment; its author may
\* be told of an error all the same, when that could not be written down.
Fold(e, s) ==
  /\ stage[e] = "asked" /\ KindOf[e] = "compact"
  /\ stage' = [stage EXCEPT ![e] = "over"]
  /\ \E o \in {"done", "errored"} : outcome' = [outcome EXCEPT ![e] = o]
  /\ owner[s] = KeyOf[e]
  /\ \E h \in Shortened(history[s]) : history' = [history EXCEPT ![s] = h]
  /\ UNCHANGED owner

\* How an event may end, by what became of its turn.
Endings(e) ==
  CASE stage[e] = "kept"   -> {"answered", "noticed", "silent", "errored"}
    [] stage[e] = "passed" -> IF KindOf[e] = "dream" THEN {"silent"}
                              ELSE IF Traceless(e) THEN {"answered", "silent"}
                              ELSE IF KindOf[e] = "heartbeat" THEN {"silent"} ELSE {"errored"}
    [] stage[e] = "asked"  -> IF KindOf[e] \in Commands THEN {"done", "errored"}
                              ELSE {"errored", "cancelNotice", "discarded", "dropped"}
                                     \cup (IF KindOf[e] = "user" THEN {"queueFull"} ELSE {})
                                     \cup (IF KindOf[e] \in {"heartbeat", "dream"} THEN {"silent"} ELSE {})
    [] OTHER -> {}

Finish(e) ==
  /\ stage[e] # "over"
  /\ stage' = [stage EXCEPT ![e] = "over"]
  /\ \E o \in Endings(e) : outcome' = [outcome EXCEPT ![e] = o]
  /\ UNCHANGED <<owner, history>>

\* The work in between is not seen here.
Unseen == UNCHANGED vars

Next ==
  \/ Unseen
  \/ \E s \in Conversations, k \in Keys : Open(s, k)
  \/ \E e \in Events :
       Pass(e) \/ Finish(e) \/ \E s \in Conversations : Keep(e, s) \/ Fold(e, s)

Spec == Init /\ [][Next]_vars
=============================================================================
