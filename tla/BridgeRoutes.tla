---------------------------- MODULE BridgeRoutes ----------------------------
(***************************************************************************)
(* Routes, and the worker that carries the items of an outbox to them       *)
(* (SendRoute and EditRoute of src/internal/bridge/service.go,              *)
(* src/internal/bnp/worker.go).  Messenger channels are the primary ones:   *)
(* the id of the message there is what the item is acknowledged and later   *)
(* edited by.  WhatsApp and Discord channels mirror it; which bubble        *)
(* mirrors which message is remembered in memory only.                      *)
(*                                                                         *)
(* A bubble is a message as a chat shows it; its number is its id.  The     *)
(* server of the outbox is outside of the repository: it hands out what has *)
(* not been acknowledged as sent, and may give up on what has failed.       *)
(***************************************************************************)
EXTENDS Integers, Sequences, FiniteSets

CONSTANTS
  Items,
  Routes,      \* channel lists that bridge.routes may give the route
  ClaimLimit,  \* items handed out at once
  MaxVersion,  \* bound: texts an item has one after the other
  MaxBubbles,  \* bound
  MaxHitches   \* bound: failed sends and edits, lost acknowledgements, restarts

VARIABLES
  route,     \* the channels of the route: records [platform, id]
  outbox,    \* what the server knows of an item
  bubbles,   \* all that was ever posted
  batch,     \* the items the worker has claimed, the first one at work
  step,      \* what the worker does with it
  at,        \* the channel it is at
  primary,   \* SendRoute's primaryID, or the id to edit
  verdict,   \* what the item will be acknowledged as
  mirrors,   \* waEdits and dcEdits: <<message id, channel>> -> bubble and age
  hitches,
  mishaps    \* per item, the hitches for which it may have to be sent again

rvars == <<route, outbox, bubbles, batch, step, at, primary, verdict, mirrors, hitches, mishaps>>

NoId == 0
Item == batch[1]
Indices == 1..Len(route)
IsPrimary(k) == route[k].platform = "messenger"
Routed == \E k \in Indices : IsPrimary(k)

Init ==
  /\ route \in Routes
  /\ outbox = [i \in Items |-> [status |-> "pending", version |-> 1, id |-> NoId]]
  /\ bubbles = <<>> /\ batch = <<>> /\ step = "idle" /\ at = 1
  /\ primary = NoId /\ verdict = "none"
  /\ mirrors = << >>
  /\ hitches = 0
  /\ mishaps = [i \in Items |-> 0]

\* A failure costs the item at work an excuse if its primary was concerned.
Hitch(n, excused) ==
  /\ hitches + n <= MaxHitches
  /\ hitches' = hitches + n
  /\ mishaps' = IF excused THEN [mishaps EXCEPT ![Item.item] = @ + 1] ELSE mishaps

Smooth == UNCHANGED <<hitches, mishaps>>

----------------------------------------------------------------------------
(* The server of the outbox                                                *)

\* The text of an item that was sent changes.
Revise(i) ==
  /\ outbox[i].status = "sent" /\ outbox[i].version < MaxVersion
  /\ outbox' = [outbox EXCEPT ![i].status = "edit_pending", ![i].version = @ + 1]
  /\ UNCHANGED <<route, bubbles, batch, step, at, primary, verdict, mirrors, hitches, mishaps>>

\* The server learns how it went.  It may try again what has failed.
Informed(how) ==
  IF how = "sent" THEN {[outbox[Item.item] EXCEPT !.status = "sent", !.id = primary]}
  ELSE {outbox[Item.item], [outbox[Item.item] EXCEPT !.status = "failed"]}

TimePasses ==
  /\ \E k \in DOMAIN mirrors : mirrors[k].age # "ancient"
  /\ mirrors' = [k \in DOMAIN mirrors |->
       [mirrors[k] EXCEPT !.age = IF @ = "young" THEN "uneditable" ELSE "ancient"]]
  /\ UNCHANGED <<route, outbox, bubbles, batch, step, at, primary, verdict, hitches, mishaps>>

----------------------------------------------------------------------------
(* The worker: claimItems, sendItem, ackItem                               *)

\* sendItem decides by the item's status how to begin.
Begin(items) ==
  /\ batch' = items
  /\ at' = 1 /\ verdict' = "none"
  /\ IF items = <<>>
       THEN step' = "idle" /\ primary' = NoId
       ELSE LET edits == items[1].status = "edit_pending" /\ items[1].id # NoId
            IN  /\ step' = IF edits THEN "edit" ELSE "send"
                /\ primary' = IF edits THEN items[1].id ELSE NoId

Claim ==
  /\ step = "idle"
  /\ \E n \in 1..ClaimLimit : \E s \in [1..n -> Items] :
       /\ \A j, k \in 1..n : j # k => s[j] # s[k]
       /\ \A j \in 1..n : outbox[s[j]].status \in {"pending", "edit_pending"}
       /\ Begin([j \in 1..n |-> [item |-> s[j], status |-> outbox[s[j]].status,
                                 version |-> outbox[s[j]].version, id |-> outbox[s[j]].id]])
  /\ UNCHANGED <<route, outbox, bubbles, mirrors, hitches, mishaps>>

\* The acknowledgement arrives, or is lost with nothing said to the server.
Ack ==
  /\ step = "ack"
  /\ \/ /\ \E o \in Informed(verdict) : outbox' = [outbox EXCEPT ![Item.item] = o]
        /\ Smooth
     \/ Hitch(1, verdict = "sent") /\ UNCHANGED outbox
  /\ Begin(Tail(batch))
  /\ UNCHANGED <<route, bubbles, mirrors>>

----------------------------------------------------------------------------
(* SendRoute and EditRoute                                                 *)

Posted(how) ==
  Append(bubbles, [item |-> Item.item, at |-> at, version |-> Item.version,
                   of |-> IF IsPrimary(at) THEN NoId ELSE primary, by |-> how])

\* recordMirrorEdit: what is older than a day is forgotten.
Remember(id) ==
  LET kept == {k \in DOMAIN mirrors : mirrors[k].age # "ancient"
                                      \/ route[k[2]].platform # route[at].platform}
  IN  mirrors' = [k \in kept \cup {<<primary, at>>} |->
                    IF k = <<primary, at>> THEN [bubble |-> id, age |-> "young"] ELSE mirrors[k]]

\* A loop over the channels passes over those of the other sort.
Pass ==
  /\ at \in Indices
  /\ \/ step = "send" /\ ~IsPrimary(at)
     \/ step = "mirror" /\ IsPrimary(at)
  /\ at' = at + 1
  /\ UNCHANGED <<route, outbox, bubbles, batch, step, primary, verdict, mirrors, hitches, mishaps>>

\* A primary that fails fails the item; the text may have arrived all the same.
SendPrimary ==
  /\ step = "send" /\ at \in Indices /\ IsPrimary(at)
  /\ Len(bubbles) < MaxBubbles
  /\ \/ /\ bubbles' = Posted("send") /\ primary' = Len(bubbles) + 1
        /\ at' = at + 1 /\ Smooth /\ UNCHANGED <<step, verdict>>
     \/ /\ bubbles' \in {bubbles, Posted("send")}
        /\ step' = "ack" /\ verdict' = "failed" /\ Hitch(1, TRUE)
        /\ UNCHANGED <<primary, at>>
  /\ UNCHANGED <<route, outbox, batch, mirrors>>

\* A mirror that fails is logged; without a primary nothing is remembered.
SendMirror ==
  /\ step = "mirror" /\ at \in Indices /\ ~IsPrimary(at)
  /\ Len(bubbles) < MaxBubbles
  /\ \/ /\ bubbles' = Posted("send") /\ Smooth
        /\ IF primary = NoId THEN UNCHANGED mirrors ELSE Remember(Len(bubbles) + 1)
     \/ /\ bubbles' \in {bubbles, Posted("late")} /\ Hitch(1, FALSE) /\ UNCHANGED mirrors
  /\ at' = at + 1
  /\ UNCHANGED <<route, outbox, batch, step, primary, verdict>>

\* The end of a loop: from the primaries to the mirrors, or to the answer.
EndOfLoop ==
  /\ step \in {"send", "mirror", "edit"} /\ at > Len(route)
  /\ IF step = "send"
       THEN step' = "mirror" /\ at' = 1 /\ UNCHANGED verdict
       ELSE /\ step' = "ack" /\ UNCHANGED at
            /\ verdict' = IF (step = "mirror" /\ primary # NoId) \/ (step = "edit" /\ Routed)
                            THEN "sent" ELSE "failed"
  /\ UNCHANGED <<route, outbox, bubbles, batch, primary, mirrors, hitches, mishaps>>

Shows(b) == [bubbles EXCEPT ![b].version = Item.version]

EditPrimary ==
  /\ step = "edit" /\ at \in Indices /\ IsPrimary(at)
  /\ \/ /\ bubbles' = Shows(primary) /\ at' = at + 1
        /\ Smooth /\ UNCHANGED <<step, verdict>>
     \/ /\ bubbles' \in {bubbles, Shows(primary)} /\ Hitch(1, FALSE)
        /\ step' = "ack" /\ verdict' = "failed" /\ UNCHANGED at
  /\ UNCHANGED <<route, outbox, batch, primary, mirrors>>

\* mirrorEditTarget, and WhatsApp's edit window.
HasMirror == <<primary, at>> \in DOMAIN mirrors
Mirror == mirrors[<<primary, at>>]
Editable == HasMirror /\ (route[at].platform = "discord" \/ Mirror.age = "young")

EditMirrorInPlace ==
  /\ step = "edit" /\ at \in Indices /\ ~IsPrimary(at) /\ Editable
  /\ bubbles' = Shows(Mirror.bubble)
  /\ at' = at + 1
  /\ UNCHANGED <<route, outbox, batch, step, primary, verdict, mirrors, hitches, mishaps>>

\* Variant: the bubble sent in the place of an edit is not remembered.
EditMirrorForgets ==
  /\ step = "edit" /\ at \in Indices /\ ~IsPrimary(at) /\ ~Editable
  /\ Len(bubbles) < MaxBubbles
  /\ bubbles' = Posted("edit")
  /\ at' = at + 1
  /\ UNCHANGED <<route, outbox, batch, step, primary, verdict, mirrors, hitches, mishaps>>

\* Without a bubble that can be edited, or when editing it has failed.
EditMirrorAfresh ==
  /\ step = "edit" /\ at \in Indices /\ ~IsPrimary(at)
  /\ Len(bubbles) < MaxBubbles
  /\ LET tried == IF Editable THEN 1 ELSE 0
     IN  \/ /\ bubbles' = Posted("edit") /\ Remember(Len(bubbles) + 1)
            /\ Hitch(tried, FALSE)
         \/ /\ bubbles' \in {bubbles, Posted("late")} /\ UNCHANGED mirrors
            /\ Hitch(tried + 1, FALSE)
  /\ at' = at + 1
  /\ UNCHANGED <<route, outbox, batch, step, primary, verdict>>

\* The process is replaced: the claim and the mirrors are forgotten.
Restart ==
  /\ batch # <<>> \/ DOMAIN mirrors # {}
  /\ IF batch = <<>> THEN hitches < MaxHitches /\ hitches' = hitches + 1 /\ UNCHANGED mishaps
                     ELSE Hitch(1, TRUE)
  /\ Begin(<<>>)
  /\ mirrors' = << >>
  /\ UNCHANGED <<route, outbox, bubbles>>

Next ==
  \/ \E i \in Items : Revise(i)
  \/ TimePasses \/ Restart
  \/ Claim \/ Ack
  \/ Pass \/ EndOfLoop \/ SendPrimary \/ SendMirror
  \/ EditPrimary \/ EditMirrorInPlace \/ EditMirrorAfresh

Spec == Init /\ [][Next]_rvars

----------------------------------------------------------------------------
(* Properties                                                              *)

\* Every variable keeps its type.
TypeOK ==
  /\ route \in Routes
  /\ outbox \in [Items -> [status : {"pending", "edit_pending", "sent", "failed"},
                           version : 1..MaxVersion, id : 0..MaxBubbles]]
  /\ bubbles \in Seq([item : Items, at : Indices, version : 1..MaxVersion, of : 0..MaxBubbles,
                      by : {"send", "edit", "late"}])
  /\ Len(bubbles) <= MaxBubbles
  /\ batch \in Seq([item : Items, status : {"pending", "edit_pending"}, version : 1..MaxVersion,
                    id : 0..MaxBubbles])
  /\ step \in {"idle", "send", "mirror", "edit", "ack"}
  /\ at \in 1..(Len(route) + 1)
  /\ primary \in 0..Len(bubbles)
  /\ verdict \in {"none", "sent", "failed"}
  /\ \A k \in DOMAIN mirrors :
       /\ k \in (1..Len(bubbles)) \X Indices
       /\ mirrors[k] \in [bubble : 1..Len(bubbles), age : {"young", "uneditable", "ancient"}]
  /\ hitches \in 0..MaxHitches
  /\ mishaps \in [Items -> Nat]

\* What the server has as sent stands in a primary channel with its newest
\* text, under the id that the server has.
SentIsShown ==
  \A i \in Items : outbox[i].status = "sent" =>
    /\ outbox[i].id \in 1..Len(bubbles)
    /\ LET b == bubbles[outbox[i].id]
       IN  b.item = i /\ IsPrimary(b.at) /\ b.version = outbox[i].version

\* An item comes twice to a channel only for a reason: its primary had failed,
\* its acknowledgement was lost, or the process was replaced.  That a mirror
\* fails is no reason.
SentOnceUnlessMishap ==
  Routed => \A i \in Items, k \in Indices :
    Cardinality({b \in 1..Len(bubbles) : bubbles[b].item = i /\ bubbles[b].at = k
                                         /\ bubbles[b].by = "send"}) <= 1 + mishaps[i]

\* An edit goes to the newest bubble that mirrors its message in a channel,
\* not to one that has been superseded.
MirrorIsNewest ==
  \A k \in DOMAIN mirrors : \A b \in 1..Len(bubbles) :
    bubbles[b].of = k[1] /\ bubbles[b].at = k[2] /\ bubbles[b].by # "late"
      => b <= mirrors[k].bubble
=============================================================================
