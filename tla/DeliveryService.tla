--------------------------- MODULE DeliveryService ---------------------------
(***************************************************************************)
(* What the notifications of the bridge promise to the pollers that post   *)
(* them (src/internal/bridge/notifications.go, pending.go), by the two     *)
(* tables and by what arrives: a notification that was taken in stays      *)
(* queued until it has arrived or was waived, a client is told of one that *)
(* was taken in, and a mark is only made of one that is settled.  Without  *)
(* a dedupe key "sent" means one attempt and no more.                      *)
(* Failures and restarts are not seen at all.  PendingNotifications        *)
(* implements this.                                                        *)
(***************************************************************************)
CONSTANTS
  Notes,    \* the notifications that may be posted
  Keyless   \* those without a dedupe key

VARIABLES
  queued,   \* what waits for its destination
  arrived,  \* what has arrived there, once or more often
  waived,   \* what was dropped with a reason
  marked,   \* what counts as delivered when it is posted again
  told      \* what a client was told, <<notification, "sent" or "pending">>

vars == <<queued, arrived, waived, marked, told>>

Init == queued = {} /\ arrived = {} /\ waived = {} /\ marked = {} /\ told = {}

Settled == arrived \cup waived
Taken   == queued \cup Settled

\* A note without a key is queued with the answer to its client.
Accept(n) ==
  /\ queued' = queued \cup {n}
  /\ told' = IF n \in Keyless THEN told \cup {<<n, "pending">>} ELSE told
  /\ UNCHANGED <<arrived, waived, marked>>

Tell(n) ==
  /\ n \in Taken
  /\ \E a \in {"sent", "pending"} : told' = told \cup {<<n, a>>}
  /\ UNCHANGED <<queued, arrived, waived, marked>>

\* Without a key: tried once, and told "sent" whatever came of it.
TryOnce(n) ==
  /\ n \in Keyless
  /\ arrived' = arrived \/ arrived' = arrived \cup {n}
  /\ told' = told \cup {<<n, "sent">>}
  /\ UNCHANGED <<queued, waived, marked>>

\* What has no key may be sent without being queued.
Arrive(n) ==
  /\ n \in Taken \cup Keyless
  /\ arrived' = arrived \cup {n}
  /\ UNCHANGED <<queued, waived, marked, told>>

\* What has a key may be waived when it is posted.
Waive(n) ==
  /\ n \in Taken \/ n \notin Keyless
  /\ waived' = waived \cup {n}
  /\ UNCHANGED <<queued, arrived, marked, told>>

Mark(n) ==
  /\ n \in Settled \ Keyless
  /\ marked' = marked \cup {n}
  /\ UNCHANGED <<queued, arrived, waived, told>>

Leave(n) ==
  /\ n \in Settled
  /\ queued' = queued \ {n}
  /\ UNCHANGED <<arrived, waived, marked, told>>

\* Listing, skipping, failing and restarting are not seen here.
Unseen == UNCHANGED vars

Next ==
  \/ Unseen
  \/ \E n \in Notes :
       Accept(n) \/ Tell(n) \/ TryOnce(n) \/ Arrive(n) \/ Waive(n) \/ Mark(n) \/ Leave(n)

Spec == Init /\ [][Next]_vars
=============================================================================
