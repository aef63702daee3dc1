------------------------ MODULE PendingNotifications ------------------------
(***************************************************************************)
(* Automation notifications of the bridge (src/internal/bridge): the POST  *)
(* handler, the queue it keeps in Postgres, and the drains that work the   *)
(* queue off.  A drain is run by the ticker and by every request with a    *)
(* dedupe key; nothing keeps two of them apart.                            *)
(*                                                                         *)
(* Every database operation is an action that may fail; a process may die  *)
(* between any two actions.  A notification is an item for a destination,  *)
(* which is a thread or a route.  A platform may connect and disconnect at *)
(* any time, so each look at its state may find either.                    *)
(***************************************************************************)
EXTENDS Integers, FiniteSets

CONSTANTS
  Items,        \* what the pollers have to tell
  Manual,       \* those that are posted without a dedupe key
  Dests,        \* threads and routes
  Notes,        \* the notifications that are posted, <<item, destination>>
  Routes,       \* the destinations that are routes
  Malformed,    \* messenger threads whose id is not a number
  Handlers,     \* goroutines that serve requests
  Drainers,     \* the ticker
  MaxAttempts,  \* failed sends after which a row is dropped: 3 in the code
  MaxPosts,     \* bound on the requests
  MaxCrashes,   \* bound on the restarts
  NoKey, NoNote

ASSUME NotificationsAssumption ==
  /\ Notes \subseteq Items \X Dests
  /\ Manual \subseteq Items /\ Routes \subseteq Dests
  /\ Malformed \subseteq Dests \ Routes
  /\ Handlers \cap Drainers = {}
  /\ MaxAttempts \in Nat \ {0}
  /\ MaxPosts \in Nat /\ MaxCrashes \in Nat
  /\ NoKey \notin Notes /\ NoNote \notin Notes

VARIABLES
  rows,       \* pending_notifications: the rows [id, note, attempts]
  delivered,  \* notification_deliveries: the keys marked delivered
  nextId,     \* the sequence of the row ids
  muted,      \* destinations muted with /notify
  pc,
  req,        \* per handler, the notification it was asked to deliver
  todo,       \* per drain, the listed rows that are not yet worked off
  arrived,    \* history: what has arrived at its destination
  waived,     \* history: what was dropped because muted, malformed or tried too often
  told,       \* history: every "sent" and "pending" a client was told, <<note, answer>>
  posts, crashes

env     == <<muted, posts, crashes>>
history == <<arrived, waived, told>>
store   == <<rows, delivered, nextId>>
vars    == <<store, env, pc, req, todo, history>>

Procs == Handlers \cup Drainers
Row   == [id : Nat, note : Notes, attempts : Nat]

\* Variant: the key names the item only, for every destination.
UnscopedKey(n) == IF n[1] \in Manual THEN NoKey ELSE <<n[1], CHOOSE d \in Dests : TRUE>>

\* scopedDedupeKey: one key per item and destination; none without a key.
Key(n) == IF n[1] \in Manual THEN NoKey ELSE n

\* isNotificationDisabled; a route is never muted.
Silenced(n) == n[2] \in muted \ Routes

Init ==
  /\ rows = {} /\ delivered = {} /\ nextId = 1
  /\ muted = {}
  /\ pc = [p \in Procs |-> "idle"]
  /\ req = [h \in Handlers |-> NoNote]
  /\ todo = [p \in Procs |-> {}]
  /\ arrived = {} /\ waived = {} /\ told = {}
  /\ posts = 0 /\ crashes = 0

Goto(p, label) == pc' = [pc EXCEPT ![p] = label]

\* The request of a handler is answered.
Answer(h) == Goto(h, "idle") /\ req' = [req EXCEPT ![h] = NoNote]

\* The answers that say that a notification is taken care of.
Answers == {"sent", "pending"}

Told(n, a) == told' = told \cup {<<n, a>>}

AddRow(n) ==
  /\ rows' = rows \cup {[id |-> nextId, note |-> n, attempts |-> 0]}
  /\ nextId' = nextId + 1

MarkKey(n) == delivered' = delivered \cup ({Key(n)} \ {NoKey})

----------------------------------------------------------------------------
(* handleAutomationNotification                                            *)

Post(h, n) ==
  /\ pc[h] = "idle" /\ posts < MaxPosts
  /\ posts' = posts + 1
  /\ req' = [req EXCEPT ![h] = n]
  /\ Goto(h, IF Key(n) = NoKey THEN "direct" ELSE "ask")
  /\ UNCHANGED <<store, muted, crashes, todo, history>>

\* A request with a key that could not be answered: 503, the client retries.
Refuse(h) ==
  /\ pc[h] \in {"ask", "insert", "select"}
  /\ Answer(h)
  /\ UNCHANGED <<store, env, todo, history>>

\* IsDelivered: the client is told "sent".
AnswerDelivered(h) ==
  /\ pc[h] = "ask" /\ Key(req[h]) \in delivered
  /\ Told(req[h], "sent") /\ Answer(h)
  /\ UNCHANGED <<store, env, todo, arrived, waived>>

\* Not delivered: the mute switch decides.
AskMuted(h) ==
  /\ pc[h] = "ask" /\ Key(req[h]) \notin delivered
  /\ \/ Silenced(req[h]) /\ Goto(h, "waive") /\ waived' = waived \cup {req[h]}
     \/ ~Silenced(req[h]) /\ Goto(h, "insert") /\ UNCHANGED waived
  /\ UNCHANGED <<store, env, req, todo, arrived, told>>

\* A muted notification counts as delivered; the error is ignored.
WaivePost(h) ==
  /\ pc[h] = "waive"
  /\ Answer(h)
  /\ MarkKey(req[h]) \/ UNCHANGED delivered
  /\ UNCHANGED <<rows, nextId, env, todo, history>>

Twins(n) == {r \in rows : Key(r.note) = Key(n)}

\* SavePending, INSERT ... ON CONFLICT DO NOTHING.
InsertKeyed(h) ==
  /\ pc[h] = "insert"
  /\ \/ Twins(req[h]) = {} /\ AddRow(req[h]) /\ Goto(h, "list")
     \/ Twins(req[h]) # {} /\ Goto(h, "select") /\ UNCHANGED <<rows, nextId>>
  /\ UNCHANGED <<delivered, env, req, todo, history>>

\* SavePending's second statement: the row in the way may be gone by now.
SelectTwin(h) ==
  /\ pc[h] = "select" /\ Twins(req[h]) # {}
  /\ Goto(h, "list")
  /\ UNCHANGED <<store, env, req, todo, history>>

\* A request without a key is sent at once: to a route directly, and if that
\* fails it may be saved.
DirectRoute(h) ==
  /\ pc[h] = "direct" /\ req[h][2] \in Routes
  /\ \/ Answer(h) /\ Told(req[h], "sent") /\ arrived' = arrived \cup {req[h]}
     \/ /\ Goto(h, "save") /\ UNCHANGED <<req, told>>
        /\ arrived' = arrived \/ arrived' = arrived \cup {req[h]}
  /\ UNCHANGED <<store, env, todo, waived>>

\* A muted thread is not told; one whose platform is down is saved for later.
DirectThread(h) ==
  /\ pc[h] = "direct" /\ req[h][2] \notin Routes
  /\ \/ Silenced(req[h]) /\ Answer(h)
     \/ ~Silenced(req[h]) /\ (Goto(h, "tell") \/ Goto(h, "save")) /\ UNCHANGED req
  /\ UNCHANGED <<store, env, todo, history>>

\* savePending, while it finds the platform down.
Save(h) ==
  /\ pc[h] = "save"
  /\ AddRow(req[h]) /\ Told(req[h], "pending") /\ Answer(h)
  /\ UNCHANGED <<delivered, env, todo, arrived, waived>>

\* The platform is up by now, or the insert fails: a thread is told after all,
\* and a route is given up, its client being told "sent".
SaveFails(h) ==
  /\ pc[h] = "save"
  /\ IF req[h][2] \in Routes THEN Answer(h) /\ Told(req[h], "sent")
                             ELSE Goto(h, "tell") /\ UNCHANGED <<req, told>>
  /\ UNCHANGED <<store, env, todo, arrived, waived>>

\* notify: whether it arrives or not, the client is told "sent".
Tell(h) ==
  /\ pc[h] = "tell"
  /\ Answer(h) /\ Told(req[h], "sent")
  /\ arrived' = arrived \/ arrived' = arrived \cup {req[h]}
  /\ UNCHANGED <<store, env, todo, waived>>

----------------------------------------------------------------------------
(* drainPending                                                            *)

StartDrain(d) ==
  /\ d \in Drainers /\ pc[d] = "idle"
  /\ Goto(d, "list")
  /\ UNCHANGED <<store, env, req, todo, history>>

List(p) ==
  /\ pc[p] = "list"
  /\ Goto(p, "row")
  /\ todo' = [todo EXCEPT ![p] = rows]
  /\ UNCHANGED <<store, env, req, history>>

ListFails(p) ==
  /\ pc[p] = "list"
  /\ Goto(p, "row")
  /\ UNCHANGED <<store, env, req, todo, history>>

\* A request is answered "pending" when its drain is over.
EndDrain(p) ==
  /\ pc[p] = "row" /\ todo[p] = {}
  /\ IF p \in Handlers THEN Answer(p) /\ Told(req[p], "pending")
                       ELSE Goto(p, "idle") /\ UNCHANGED <<req, told>>
  /\ UNCHANGED <<store, env, todo, arrived, waived>>

\* The rows are listed oldest first; a row is a copy from when it was listed.
Head(p) == CHOOSE r \in todo[p] : \A s \in todo[p] : r.id <= s.id

At(p, label, n) == pc[p] = label /\ todo[p] # {} /\ Head(p).note = n

Leave(p) == todo' = [todo EXCEPT ![p] = @ \ {Head(p)}] /\ Goto(p, "row")

\* IsDelivered fails, or the platform of the row is not connected.
SkipRow(p, n) ==
  /\ At(p, "row", n)
  /\ \/ Key(n) # NoKey
     \/ ~Silenced(n) /\ Head(p).attempts < MaxAttempts
  /\ Leave(p)
  /\ UNCHANGED <<store, env, req, history>>

\* Variant: a duplicate is passed over but stays in the queue.
PassOverDuplicate(p, n) ==
  /\ At(p, "row", n) /\ Key(n) \in delivered
  /\ Leave(p)
  /\ UNCHANGED <<store, env, req, history>>

\* Its key is already marked delivered.
DropDuplicate(p, n) ==
  /\ At(p, "row", n) /\ Key(n) \in delivered
  /\ Goto(p, "delete")
  /\ UNCHANGED <<store, env, req, todo, history>>

\* Muted, or tried too often.
GiveUpRow(p, n) ==
  /\ At(p, "row", n) /\ Key(n) \notin delivered
  /\ Silenced(n) \/ Head(p).attempts >= MaxAttempts
  /\ Goto(p, "giveup")
  /\ waived' = waived \cup {n}
  /\ UNCHANGED <<store, env, req, todo, arrived, told>>

\* A row given up counts as delivered; the error is ignored.
MarkGivenUp(p, n) ==
  /\ At(p, "giveup", n)
  /\ Goto(p, "delete")
  /\ MarkKey(n) \/ UNCHANGED delivered
  /\ UNCHANGED <<rows, nextId, env, req, todo, history>>

TryRow(p, n) ==
  /\ At(p, "row", n) /\ Key(n) \notin delivered
  /\ ~Silenced(n) /\ Head(p).attempts < MaxAttempts
  /\ Goto(p, "send")
  /\ UNCHANGED <<store, env, req, todo, history>>

SendDone(p, n) ==
  /\ At(p, "send", n) /\ n[2] \notin Malformed
  /\ Goto(p, "mark")
  /\ arrived' = arrived \cup {n}
  /\ UNCHANGED <<store, env, req, todo, waived, told>>

\* Variant: the error of the send is only logged.
SendErrorLogged(p, n) ==
  /\ At(p, "send", n) /\ n[2] \notin Malformed
  /\ Goto(p, "mark")
  /\ UNCHANGED <<store, env, req, todo, history>>

\* An error does not mean that nothing has arrived.
SendFails(p, n) ==
  /\ At(p, "send", n) /\ n[2] \notin Malformed
  /\ Goto(p, "failed")
  /\ arrived' = arrived \/ arrived' = arrived \cup {n}
  /\ UNCHANGED <<store, env, req, todo, waived, told>>

SendMalformed(p, n) ==
  /\ At(p, "send", n) /\ n[2] \in Malformed
  /\ Goto(p, "delete")
  /\ waived' = waived \cup {n}
  /\ UNCHANGED <<store, env, req, todo, arrived, told>>

CountFailure(p, n) ==
  /\ At(p, "failed", n)
  /\ rows' = {IF r.id = Head(p).id THEN [r EXCEPT !.attempts = @ + 1] ELSE r : r \in rows}
  /\ Leave(p)
  /\ UNCHANGED <<delivered, nextId, env, req, history>>

\* The error of IncPendingAttempts is ignored.
CountingFails(p, n) ==
  /\ At(p, "failed", n)
  /\ Leave(p)
  /\ UNCHANGED <<store, env, req, history>>

MarkSent(p, n) ==
  /\ At(p, "mark", n)
  /\ MarkKey(n) /\ Goto(p, "delete")
  /\ UNCHANGED <<rows, nextId, env, req, todo, history>>

\* The row stays, and will be sent again.
MarkSentFails(p, n) ==
  /\ At(p, "mark", n) /\ Key(n) # NoKey
  /\ Leave(p)
  /\ UNCHANGED <<store, env, req, history>>

Delete(p, n) ==
  /\ At(p, "delete", n)
  /\ rows' = {r \in rows : r.id # Head(p).id}
  /\ Leave(p)
  /\ UNCHANGED <<delivered, nextId, env, req, history>>

DeleteFails(p, n) ==
  /\ At(p, "delete", n)
  /\ Leave(p)
  /\ UNCHANGED <<store, env, req, history>>

----------------------------------------------------------------------------
(* The environment                                                         *)

\* /notify, which keeps the switches over a restart.
ToggleMute(d) ==
  /\ muted' = IF d \in muted THEN muted \ {d} ELSE muted \cup {d}
  /\ UNCHANGED <<store, posts, crashes, pc, req, todo, history>>

\* Only the database survives.
Crash ==
  /\ crashes < MaxCrashes /\ crashes' = crashes + 1
  /\ pc' = [p \in Procs |-> "idle"]
  /\ req' = [h \in Handlers |-> NoNote]
  /\ todo' = [p \in Procs |-> {}]
  /\ UNCHANGED <<store, muted, posts, history>>

Serve(h) ==
  \/ \E n \in Notes : Post(h, n)
  \/ Refuse(h) \/ AnswerDelivered(h) \/ AskMuted(h) \/ WaivePost(h)
  \/ InsertKeyed(h) \/ SelectTwin(h)
  \/ DirectRoute(h) \/ DirectThread(h) \/ Save(h) \/ SaveFails(h) \/ Tell(h)

DrainRow(p, n) ==
  \/ SkipRow(p, n) \/ DropDuplicate(p, n) \/ GiveUpRow(p, n) \/ MarkGivenUp(p, n)
  \/ TryRow(p, n) \/ SendDone(p, n) \/ SendFails(p, n) \/ SendMalformed(p, n)
  \/ CountFailure(p, n) \/ CountingFails(p, n) \/ MarkSent(p, n) \/ MarkSentFails(p, n)
  \/ Delete(p, n) \/ DeleteFails(p, n)

Drain(p) ==
  \/ StartDrain(p) \/ List(p) \/ ListFails(p) \/ EndDrain(p)
  \/ \E n \in Notes : DrainRow(p, n)

Next ==
  \/ \E h \in Handlers : Serve(h)
  \/ \E p \in Procs : Drain(p)
  \/ \E d \in Dests \ Routes : ToggleMute(d)
  \/ Crash

Spec == Init /\ [][Next]_vars

(***************************************************************************)
(* The ticker starts a drain again and again, a drain goes on from row to  *)
(* row, and the queue can be listed once in a while.  What must come back  *)
(* for a single row to leave is asked only of that row: Recovers.          *)
(***************************************************************************)
Fairness ==
  \A d \in Drainers :
    /\ WF_vars(StartDrain(d) \/ EndDrain(d)) /\ SF_vars(List(d))
    /\ WF_vars(\E n \in Notes : DrainRow(d, n))

FairSpec == Spec /\ Fairness

----------------------------------------------------------------------------
(* Properties                                                              *)

Labels == {"idle", "ask", "waive", "insert", "select", "direct", "save", "tell",
           "list", "row", "giveup", "send", "failed", "mark", "delete"}

Queued(n) == \E r \in rows : r.note = n

\* Every variable keeps its type, no two rows have the same id or the same
\* key, and a listed row is one that was inserted.
TypeOK ==
  /\ rows \subseteq Row /\ delivered \subseteq Notes /\ nextId \in Nat \ {0}
  /\ muted \subseteq Dests
  /\ pc \in [Procs -> Labels]
  /\ req \in [Handlers -> Notes \cup {NoNote}]
  /\ todo \in [Procs -> SUBSET Row]
  /\ arrived \subseteq Notes /\ waived \subseteq Notes
  /\ told \subseteq Notes \X Answers
  /\ posts \in 0..MaxPosts /\ crashes \in 0..MaxCrashes
  /\ \A r \in rows : r.id < nextId
  /\ \A r, s \in rows :
       r.id = s.id \/ (Key(r.note) = Key(s.note) /\ Key(r.note) # NoKey) => r = s

\* What a client may rely on: "pending" always, "sent" only of a notification
\* with a key.  Without one "sent" follows a single attempt, whatever came of it
\* (notify only logs its error, and so does a route that could not be saved).
Binding(n, a) == a = "pending" \/ Key(n) # NoKey

\* At-least-once delivery: what a client was told is pending, and what it was
\* told is sent under a dedupe key, is in the queue or has arrived, in spite of
\* failures, crashes and overlapping drains, unless it was muted, malformed or
\* tried too often.  Nothing is said of what is called sent without a key.
AtLeastOnce ==
  \A n \in Notes, a \in Answers :
    <<n, a>> \in told /\ Binding(n, a) => Queued(n) \/ n \in arrived \cup waived

\* A key is marked delivered only when its own notification has arrived at its
\* own destination or was waived: a retry is never answered "sent" in vain.
MarkIsTrue == delivered \subseteq arrived \cup waived

QueuedNotes == {n \in Notes : Queued(n)}

Delivery == INSTANCE DeliveryService
              WITH Keyless <- {n \in Notes : Key(n) = NoKey},
                   queued <- QueuedNotes, marked <- delivered

\* Rows, copies, overlapping drains, failed statements and restarts come to
\* this: a notification is queued until it has arrived or was waived, sent
\* only if it was taken in, marked only when that is true, and told to be
\* pending, or sent under a key, only when it was taken in.
ImplementsDelivery == Delivery!Spec

\* The database and the platform work for a row of n, once in a while.
Recovers(n) ==
  \A d \in Drainers :
    /\ SF_vars(DropDuplicate(d, n) \/ GiveUpRow(d, n) \/ TryRow(d, n))
    /\ SF_vars(CountFailure(d, n)) /\ SF_vars(MarkSent(d, n)) /\ SF_vars(Delete(d, n))

\* A notification for which things work once in a while leaves the queue,
\* whatever becomes of the other rows: a platform that stays down, or a row that
\* can never be deleted, holds up nobody else.
QueueIsWorkedOff ==
  \A n \in Notes : Recovers(n) => (Queued(n) ~> ~Queued(n))
=============================================================================
