---------------------------- MODULE PartsInvariants ----------------------------
(***************************************************************************)
(* What is invariant of the parts of MCParts, whatever the instance: for    *)
(* each part an invariant that its steps keep by themselves, as the         *)
(* conjunction of the properties that MCParts states of the part and of     *)
(* what these rest on.  MCParts_proofs proves that they are kept.           *)
(***************************************************************************)
EXTENDS MCParts

----------------------------------------------------------------------------
(* The connection of Messenger                                             *)

ConnectionStates == {"idle", "look", "queue", "cookies", "teardown", "login", "wait"}

\* reloadMu is held by one goroutine.
OneReload == \A c, d \in Connection!Reloading : c = d

\* From Disconnect to Start there is no client that could raise the flag.
NoSocketAtLogin == \A c \in Connection!Callers : where[c] = "login" => socket = "none"

\* A flag that is up in the course of a reload was raised by the old client.
ReloadLowersFlag == flag /\ Connection!Reloading # {} => overtaken

\* armReconnect sets the pending flag with the timer, which clears it.
PendingHasTimer == scheduled <=> timer

\* Before the keepalive runs, a client that is down is somebody's business, or
\* its failure was a quiet one.
LookedAfterFromStart ==
  flag \/ timer \/ quiet \/ socket \in {"dialling", "retrying"} \/ keepalive
    \/ \E c \in Connection!Callers : where[c] # "idle"

ConnectionInv ==
  /\ Connection!TypeOK /\ OneReload /\ NoSocketAtLogin /\ ReloadLowersFlag
  /\ PendingHasTimer /\ Connection!UpIsTrue /\ LookedAfterFromStart

----------------------------------------------------------------------------
(* The pairing of WhatsApp                                                 *)

\* A client that is not paired and has no session that was dialled: its dial is under
\* way, or somebody is about to replace it.
SessionIsOnItsWay ==
  ~loggedIn /\ qr # "live" /\ dial["boot"] \in {"dialling", "done"} =>
    \/ swallowed
    \/ dial["loop"] \in {"sleeping", "connecting", "replacing"}
    \/ qr = "opened" /\ dial[maker] = "dialling"

PairingInv == Pairing!TypeOK /\ SessionIsOnItsWay

----------------------------------------------------------------------------
(* What Messenger brings in                                                *)

\* Nothing known is of the future.
PastIsPast ==
  /\ born =< time
  /\ \A m \in Msgs : written[m] =< time /\ seen[m] =< time

\* What the ledger has of the running process was taken since it started, what it
\* has of earlier ones before.
LedgerIsTrue ==
  \A i \in 1..Len(ledger) :
    LET e == ledger[i]
    IN  /\ e.at =< time /\ e.life =< inboxRestarts /\ written[e.msg] > 0
        /\ e.life = inboxRestarts => e.born = born

\* An id that the running process has forgotten is old.
ForgottenIsOld ==
  \A i \in 1..Len(ledger) :
    LET e == ledger[i]
    IN  e.life = inboxRestarts => seen[e.msg] >= e.at \/ e.at + Day < time

\* The order of arrival, in what is handled, being handled, and waiting.
OrderIsKept ==
  /\ \A i, j \in 1..Len(handled) : i < j => handled[i] < handled[j]
  /\ \A i, j \in 1..Len(inboxWaiting) : i < j => inboxWaiting[i] < inboxWaiting[j]
  /\ \A i \in 1..Len(handled), j \in 1..Len(inboxWaiting) : handled[i] < inboxWaiting[j]
  /\ handling # 0 =>
       /\ \A i \in 1..Len(handled) : handled[i] < handling
       /\ \A j \in 1..Len(inboxWaiting) : handling < inboxWaiting[j]

\* What the running process has taken is in one of these places.
NoneIsLost ==
  \A i \in 1..Len(ledger) : ledger[i].life = inboxRestarts =>
    \/ handling = i
    \/ \E j \in 1..Len(handled) : handled[j] = i
    \/ \E j \in 1..Len(inboxWaiting) : inboxWaiting[j] = i

InboxInv ==
  /\ Inbox!TypeOK /\ PastIsPast /\ LedgerIsTrue /\ ForgottenIsOld
  /\ OrderIsKept /\ NoneIsLost /\ Inbox!TakenOnce

----------------------------------------------------------------------------
(* Sending to Messenger                                                    *)

\* A task was made for this piece: of a text one after the other, of an image one.
Made(c, k) ==
  /\ callAt[c] # "idle" /\ k \in 0..piece[c]
  /\ kind[c] = "image" => k = piece[c]
  /\ kind[c] # "image" => k > 0

\* A message, under way or in the thread, is a piece under its stamp.
IsPiece(m) ==
  /\ m.text \in Calls \X (0..Pieces)
  /\ LET c == m.text[1]
         k == m.text[2]
     IN  Made(c, k) /\ m.stamp = stamps[c][k]

\* What stands in the thread: pieces, and the message that is edited.
ThreadIsMade ==
  /\ \A r \in flight : IsPiece(r)
  /\ \A i \in 1..Len(thread) :
       IsPiece(thread[i]) \/ (thread[i].stamp = Sending!Old /\ thread[i].text[2] = 0
                                /\ kind[thread[i].text[1]] = "edit")

StampsDiffer ==
  \A i, j \in 1..Len(thread) : i # j => thread[i].stamp # thread[j].stamp

\* The edited message is there from the beginning, and only its edit has its stamp.
EditHasItsMessage ==
  \A c \in Calls :
    /\ kind[c] = "edit" =>
         /\ \E i \in 1..Len(thread) : thread[i].stamp = Sending!Old
         /\ Made(c, 1) => stamps[c][1] = Sending!Old
    /\ \A k \in 0..Pieces :
         Made(c, k) /\ stamps[c][k] = Sending!Old => kind[c] = "edit" /\ k = 1

\* How far a call is.
SentIsBehind ==
  \A c \in Calls :
    /\ callAt[c] = "idle" => sent[c] = 0
    /\ callAt[c] \in {"waits", "nudged"} =>
         sent[c] = IF piece[c] = 0 THEN 0 ELSE piece[c] - 1
    /\ sent[c] =< piece[c] /\ (kind[c] # "image" => piece[c] =< sent[c] + 1)
    /\ callAt[c] = "nudged" => try[c] < Tries
    /\ callAt[c] # "done" => callResult[c] = "none"
    /\ callAt[c] # "idle" /\ kind[c] # "image" => piece[c] > 0

\* A piece whose answer came stands, or another task has its stamp.
SentStand ==
  \A c \in Calls : \A k \in 1..sent[c] : Sending!Stands(c, k) \/ Sending!Swallowed(c, k)

ResultIsTrue ==
  \A c \in Calls :
    callResult[c] = "ok" =>
      sent[c] > 0 /\ (kind[c] # "text" => sent[c] = Sending!PiecesOf(c))

SendingInv ==
  /\ Sending!TypeOK /\ ThreadIsMade /\ StampsDiffer /\ EditHasItsMessage /\ SentIsBehind
  /\ SentStand /\ ResultIsTrue /\ Sending!PiecesStandOnce

----------------------------------------------------------------------------
(* The sessions of the bridge                                              *)

\* What the instance has to be: events have a lane and a thread of their own.
BridgeSound ==
  /\ Plans \subseteq SUBSET Events
  /\ \A e \in Events : e.thread \in Threads
  /\ Nobody \notin Events

\* Once it is called, an event stays called.
BridgeCalled == {e \in Events : pc[e] \notin {"absent", "waiting", "enter"}}

BridgeTyped ==
  /\ pc \in [Events -> Bridge!Phases]
  /\ plan \subseteq Events
  /\ waiting \in [Lanes -> Seq(Events)]
  /\ cancels \in [Threads -> Bridge!Runs \cup {Nobody}]
  /\ newest \in [Threads -> Bridge!Runs \cup {Nobody}]
  /\ DOMAIN held = Events
  /\ stopped \subseteq BridgeCalled \cap Bridge!Runs

\* An event is in the plan, in one place of its own lane, or in hand.
InOnePlace ==
  /\ \A e \in plan : pc[e] = "absent"
  /\ \A l \in Lanes : \A i \in 1..Len(waiting[l]) :
       /\ waiting[l][i].lane = l /\ pc[waiting[l][i]] = "waiting"
       /\ \A j \in 1..Len(waiting[l]) : waiting[l][j] = waiting[l][i] => j = i

\* The entries of /stop are of runs at work, each under its thread.
EntriesAreActive ==
  \A t \in Threads : cancels[t] # Nobody =>
    cancels[t] \in Bridge!Active \ stopped /\ cancels[t].thread = t

\* The newest run of a thread has been called, and works or has ended.
NewestWasCalled ==
  \A t \in Threads : newest[t] # Nobody =>
    newest[t].thread = t /\ pc[newest[t]] \notin {"absent", "waiting", "enter",
                                                  "stopping", "compacting"}

\* What /stop has in hand is a run whose entry is gone.
TakenForGood ==
  \A s \in Events : pc[s] = "stopping" =>
    \E r \in BridgeCalled \cap Bridge!Runs : held[s] = <<r>> /\ \A t \in Threads : cancels[t] # r

\* The newest run has the entry until it ends or is being stopped.
NewestHasEntry ==
  \A t \in Threads : \A e \in Bridge!Active \ stopped :
    (newest[t] = e /\ \A s \in Events : pc[s] = "stopping" => held[s] # <<e>>)
      => cancels[t] = e

BridgeInv ==
  /\ BridgeSound /\ BridgeTyped /\ InOnePlace /\ EntriesAreActive /\ NewestWasCalled
  /\ TakenForGood /\ NewestHasEntry

----------------------------------------------------------------------------
(* The files of the bridge                                                 *)

\* What memory and file may hold.
BridgeShape(f, m) ==
  /\ f = "history" => m \in [Threads -> Bridge!Histories]
  /\ f = "allowlist" => m \subseteq Threads
  /\ f = "notifs" => m \in [Threads -> {NoOverlay} \cup SUBSET (Feeds \cup {"*"})]

\* Who works on a copy of the history.
Copying(e) == pc[e] \in {"running", "back", "compacting"}

BridgeShaped ==
  /\ \A f \in Bridge!Files : BridgeShape(f, Bridge!Memory[f])
  /\ DOMAIN file = Bridge!Files
  /\ \A f \in Bridge!Files : file[f] = Torn \/ BridgeShape(f, file[f])
  /\ DOMAIN blob = Events
  /\ \A f \in Bridge!Files : \A e \in Bridge!Saving(f) : BridgeShape(f, blob[e])
  /\ \A e \in Events : Copying(e) => held[e] \in Bridge!Histories
  /\ current \in [Lanes -> Events \cup {Nobody}]
  /\ clean \subseteq Events /\ trusted \subseteq Bridge!Files
  /\ cleared \in [{"memory", "file", "snapshot"} -> [Threads -> SUBSET Events]]
  /\ restarts \in 0..MaxRestarts

\* Each step is of the handlers that take it.
StepsAreOwn ==
  \A e \in Events :
    /\ pc[e] \in {"start", "running", "back"} => e \in Bridge!Runs
    /\ pc[e] = "compacting" => e.kind = "compact"
    /\ pc[e] = "stopping" => e.kind = "stop"

\* A clean save is the only one of its file, and finds it as it has left it.
CleanIsAlone ==
  \A f \in Bridge!Files : \A e \in clean \cap Bridge!Saving(f) :
    /\ Bridge!Saving(f) = {e}
    /\ pc[e] = "truncated" => file[f] = Torn

\* Nobody is in the middle of a file that is trusted.
TrustedIsWhole ==
  \A f \in trusted : \A e \in Bridge!Saving(f) : pc[e] # "truncated"

Unsaved(f) == \E e \in Events : Bridge!FileOf(e) = f /\ pc[e] = "save"

\* What a clean save writes is what memory holds, as long as nobody else has
\* changed it.
CleanIsCurrent ==
  \A f \in Bridge!Files : \A e \in clean \cap Bridge!Saving(f) :
    ~Unsaved(f) => blob[e] = Bridge!Memory[f]

FilesInv ==
  /\ BridgeInv /\ BridgeShaped /\ StepsAreOwn /\ CleanIsAlone /\ TrustedIsWhole
  /\ CleanIsCurrent /\ Bridge!FilesAreCurrent

----------------------------------------------------------------------------
(* What /new deletes                                                       *)

\* Events that may be in a history.
Written == {x \in Events : pc[x] \in {"save", "marshalled", "truncated", "end", "done"}}

\* What is deleted, whether that is reported or not; and what is deleted from
\* the file as well.
Deleting(t) ==
  {n \in Events : n.kind = "new" /\ n.thread = t
                  /\ pc[n] \in {"save", "marshalled", "truncated", "end"}}
Gone(t) ==
  {x \in Events : x \in cleared["memory"][t] \/ \E n \in Deleting(t) : x \in held[n]}
Deleted(t) ==
  {x \in Events : \/ x \in cleared["file"][t]
                  \/ \E n \in Deleting(t) : n \in clean /\ pc[n] = "end" /\ x \in held[n]}

\* Nothing is in a history, in a copy of one, or in a file before it is written.
OnlyWritten ==
  /\ \A t \in Threads :
       /\ Bridge!Elems(hist[t]) \subseteq Written
       /\ cleared["file"][t] \subseteq cleared["memory"][t] /\ cleared["memory"][t] \subseteq Written
       /\ \A n \in Deleting(t) : held[n] \subseteq Written
       /\ file["history"] # Torn => Bridge!Elems(file["history"][t]) \subseteq Written
       /\ \A e \in Bridge!Saving("history") : Bridge!Elems(blob[e][t]) \subseteq Written
  /\ \A e \in Events : Copying(e) => Bridge!Elems(held[e]) \subseteq Written

\* What is deleted is in no history, and in no copy that is still to be put back.
GoneFromMemory ==
  /\ \A t \in Threads : Gone(t) \cap Bridge!Elems(hist[t]) = {}
  /\ \A e \in Events : Copying(e) => Gone(e.thread) \cap Bridge!Elems(held[e]) = {}

\* What is reported is in no file and in no save, and what is saved without
\* interference is not in the save.
GoneFromFiles ==
  /\ \A t \in Threads :
       /\ file["history"] # Torn => Deleted(t) \cap Bridge!Elems(file["history"][t]) = {}
       /\ \A e \in Bridge!Saving("history") : Deleted(t) \cap Bridge!Elems(blob[e][t]) = {}
  /\ \A n \in clean \cap Bridge!Saving("history") :
       n.kind = "new" => held[n] \cap Bridge!Elems(blob[n][n.thread]) = {}

KeepInv == FilesInv /\ OnlyWritten /\ GoneFromMemory /\ GoneFromFiles

\* The snapshot holds what the files once held, without what was synced as gone.
SnapshotIsBehind ==
  /\ DOMAIN synced = Bridge!Files
  /\ \A f \in Bridge!Files : synced[f] = Torn \/ BridgeShape(f, synced[f])
  /\ \A t \in Threads :
       /\ cleared["snapshot"][t] \subseteq cleared["file"][t]
       /\ synced["history"] # Torn =>
            /\ Bridge!Elems(synced["history"][t]) \subseteq Written
            /\ cleared["snapshot"][t] \cap Bridge!Elems(synced["history"][t]) = {}

BackupInv == KeepInv /\ SnapshotIsBehind

----------------------------------------------------------------------------
(* Routes and the outbox                                                   *)

\* What the worker has claimed is what the server still has, item by item.
ClaimsAreCurrent ==
  /\ step = "idle" <=> batch = <<>>
  /\ \A j \in 1..Len(batch) :
       /\ batch[j].status = outbox[batch[j].item].status
       /\ batch[j].version = outbox[batch[j].item].version
       /\ batch[j].id = outbox[batch[j].item].id
  /\ \A j, l \in 1..Len(batch) : j # l => batch[j].item # batch[l].item

\* The id that the server has is that of the item's message in a primary channel.
IdsAreMessages ==
  \A i \in Items :
    /\ outbox[i].status = "pending" => outbox[i].id = 0
    /\ outbox[i].status = "edit_pending" => outbox[i].id # 0
    /\ outbox[i].id # 0 =>
         /\ outbox[i].id \in 1..Len(bubbles)
         /\ bubbles[outbox[i].id].item = i /\ Outbox!IsPrimary(bubbles[outbox[i].id].at)
    /\ outbox[i].status = "sent" =>
         outbox[i].id # 0 /\ bubbles[outbox[i].id].version = outbox[i].version

\* The message the worker has is one of the item at work; when it is to be
\* acknowledged it has the item's text.
Shown ==
  \/ step \in {"send", "mirror"} /\ primary # 0
  \/ step = "edit" /\ \E k \in Outbox!Indices : k < at /\ Outbox!IsPrimary(k)
  \/ step = "ack" /\ verdict = "sent"

WorkIsTrue ==
  batch # <<>> =>
    /\ primary # 0 =>
         bubbles[primary].item = batch[1].item /\ Outbox!IsPrimary(bubbles[primary].at)
    /\ Shown => primary # 0 /\ bubbles[primary].version = batch[1].version
    /\ step \in {"send", "mirror"} => batch[1].id = 0
    /\ step = "edit" => primary = batch[1].id /\ primary # 0
    /\ step = "send" /\ primary = 0 => \A k \in Outbox!Indices : k < at => ~Outbox!IsPrimary(k)
    /\ step = "mirror" /\ primary = 0 => ~Outbox!Routed
    /\ step = "ack" => verdict # "none"

\* The bubbles of an item in a channel that an attempt to send it posted.
Copies(i, k) ==
  {b \in 1..Len(bubbles) : bubbles[b].item = i /\ bubbles[b].at = k /\ bubbles[b].by = "send"}

\* The attempt that succeeded, or that is under way, may have posted one.
MayHavePosted(i, k) ==
  \/ outbox[i].id # 0
  \/ /\ batch # <<>> /\ batch[1].item = i
     /\ \/ step = "ack" /\ verdict = "sent"
        \/ step = "send" /\ k < at /\ Outbox!IsPrimary(k)
        \/ step = "mirror" /\ (k < at \/ Outbox!IsPrimary(k))

Spare(i, k) == IF MayHavePosted(i, k) THEN 1 ELSE 0

CopiesAreExcused ==
  Outbox!Routed => \A i \in Items, k \in Outbox!Indices :
    Outbox!Cardinality(Copies(i, k)) =< mishaps[i] + Spare(i, k)

\* What is remembered of a message in a channel that mirrors is a bubble there.
MirrorsAreThere ==
  \A k \in DOMAIN mirrors :
    bubbles[mirrors[k].bubble].at = k[2] /\ ~Outbox!IsPrimary(k[2])

OutboxInv ==
  /\ Outbox!TypeOK /\ ClaimsAreCurrent /\ IdsAreMessages /\ WorkIsTrue
  /\ CopiesAreExcused /\ MirrorsAreThere /\ Outbox!MirrorIsNewest

\* What an entry of the outbox, a bubble and a claim are made of.
Entries == [status : {"pending", "edit_pending", "sent", "failed"}, version : 1..MaxVersion,
            id : 0..MaxBubbles]
Bubbles == [item : Items, at : Outbox!Indices, version : 1..MaxVersion, of : 0..MaxBubbles,
            by : {"send", "edit", "late"}]
Claimed == [item : Items, status : {"pending", "edit_pending"}, version : 1..MaxVersion,
            id : 0..MaxBubbles]

----------------------------------------------------------------------------
(* The health watch                                                        *)

\* The alert that stands is the one that the state remembers.
AlertIsRemembered ==
  /\ told \in {"dead", "loggedOut"} <=> lastDead
  /\ alivePending => lastDead
  /\ ~armed => ~lastDead

\* While a loss stands and the platform is up again, the cooldown has not passed.
CooldownHolds ==
  lastDead => upFor =< sinceNotify /\ (upFor > 0 => sinceNotify < MinNotify)

\* The checks that found the platform down are in deadSince, and in lastNotify
\* as long as the loss has not been reported.
DownIsCounted ==
  downFor > 0 =>
    /\ deadFor >= Health!Least(downFor - 1, DeadAfter)
    /\ lastDead \/ sinceNotify >= Health!Least(downFor, MinNotify)

HealthInv ==
  /\ Health!TypeOK
  /\ AlertIsRemembered /\ CooldownHolds /\ DownIsCounted
  /\ downFor > DeadAfter /\ downFor >= MinNotify => lastDead

----------------------------------------------------------------------------
(* The live message                                                        *)

\* The call that the next signal is of, as the turn goes on.
After(s) == IF s.kind = "tool" THEN s.call + 1 ELSE s.call
Expected == IF signals = <<>> THEN call ELSE signals[1].call

\* Signals come in the order of the calls, without a gap but for lost ones.
SignalsFollow ==
  lostReset \/
    \A i \in 1..Len(signals) :
      After(signals[i]) = IF i = Len(signals) THEN call ELSE signals[i + 1].call

\* What is to be shown is the note of one tool, or the text of the call whose
\* next signal is expected.
PreviewIsCurrent ==
  lostReset \/
    IF justReset THEN \E s \in preview : preview = {s}
                 ELSE \A a \in preview : a = [kind |-> "delta", call |-> Expected]

\* As long as no edit is late, the answer stands and none is under way.
NoneIsLate ==
  turn = "replaced" /\ ~late => renderer # "editing" /\ shown = Live!Only("answer")

LiveInv ==
  /\ Live!TypeOK /\ SignalsFollow /\ PreviewIsCurrent /\ NoneIsLate

----------------------------------------------------------------------------
(* The pollers of the feeds                                                *)

\* A pass: an article is posted that the table did not have when the pass asked,
\* nor one with its title, and it begins with the first thread.
PassIsSound ==
  /\ known \subseteq settled
  /\ stage # "post" => channel = 1
  /\ stage \in {"baseline", "seed"} => poller = "tech"
  /\ stage = "post" =>
       News!Article.guid \notin known /\ (News!ByTitle => News!Article.title \notin titles)

\* The threads so far have the article that is posted, and all threads have one
\* of each title that makes another a twin.
ReachedSoFar ==
  poller # "tech" =>
    /\ stage = "post" =>
         \A k \in 1..Len(Channels) : k < channel => News!Article \in got[Channels[k]]
    /\ titles # News!NoTitles =>
         \A x \in titles : \E b \in Articles :
           b.title = x /\ \A t \in News!Targets : b \in got[t]

\* What a thread has had today is counted, but for slips, and the count is not
\* over the share, but for slips.
WithinShare(counted, had, slipped) ==
  /\ counted =< MaxPerDay + slipped
  /\ had =< counted + slipped /\ had =< MaxPerDay + slipped
SharesAdd ==
  poller = "tech" =>
    \A t \in News!Targets : WithinShare(deliveries[t], gotToday[t], slips)

\* What a new feed had is settled, or about to be, and known to every pass.
NewFeedIsSettled ==
  slips = 0 /\ poller = "tech" =>
    /\ settled = {} => \A t \in News!Targets : got[t] = {}
    /\ stage \in {"ask", "article", "post"} => settled # {}
    /\ \A a \in history :
         /\ \/ a.guid \in settled
            \/ /\ stage = "seed" \/ (stage = "baseline" /\ settled = {})
               /\ \E k \in 1..Len(todo) : todo[k] = a
         /\ stage \in {"article", "post"} => a.guid \in known
    /\ \A t \in News!Targets : got[t] \cap history = {}

\* What a thread has is settled or being posted, and a pass knows the titles of
\* all that is settled.
OneOfATitle ==
  slips = 0 /\ News!ByTitle =>
    /\ stage \in {"article", "post"} =>
         /\ titles # News!NoTitles
         /\ \A a \in Articles : a.guid \in settled => a.title \in titles
    /\ \A t \in News!Targets : \A a \in got[t] :
         a.guid \in settled \/ (stage = "post" /\ a = News!Article)
    /\ \A t \in News!Targets : \A a, b \in got[t] : a.title = b.title => a = b

NewsInv ==
  /\ News!TypeOK /\ PassIsSound /\ ReachedSoFar /\ SharesAdd /\ NewFeedIsSettled
  /\ OneOfATitle /\ News!SettledIsDelivered

----------------------------------------------------------------------------
(* Quotas                                                                  *)

\* The token that came in answer is the one the service would take next.
FreshIsValid == phase = "store" => fresh = valid[Quotas!Account]

\* The receiver has the warning, the note of it is still to come.
Unnoted(a) == Quotas!Noting /\ Quotas!Account = a /\ due = period

\* Notes are of periods that have begun, and the file's are in memory once it is
\* read.
NoteIsTrue(a) ==
  /\ warned[a] =< period /\ saved[a] =< period /\ snapshot[a] =< period
  /\ warned[a] = period \/ saved[a] = period \/ snapshot[a] = period \/ Unnoted(a)
       => warnings[a] >= 1
  /\ saved[a] # period /\ ~Unnoted(a) => warnings[a] =< faults + forgotten[a]
  /\ phase # "idle" /\ saved[a] = period => warned[a] = period
  /\ (phase = "warn" \/ Quotas!Noting) /\ due < period => warned[a] < period

\* What the pass is about to warn of is not noted yet.
NotesAreTrue ==
  /\ due =< period
  /\ \A a \in Quotas!Names : NoteIsTrue(a)
  /\ phase = "warn" /\ due = period => warned[Quotas!Account] # period
  /\ phase = "write" => warned[Quotas!Account] = due

QuotaInv ==
  /\ Quotas!TypeOK /\ FreshIsValid /\ NotesAreTrue
  /\ Quotas!TokensAreKept /\ Quotas!WarnedOncePerPeriod

----------------------------------------------------------------------------
(* Calls of a model                                                        *)

\* How often each back end has been asked at each step.
AskedSoFar ==
  /\ asking = "prepare" => attempt = 0
  /\ client \in {"zen", "vision"} =>
       /\ attempt =< AskedAtMost
       /\ asking \in {"ask", "retry"} => attempt < AskedAtMost
  /\ client \notin {"zen", "vision"} => asking # "retry"
  /\ client = "responses" => attempt =< 2 /\ (asking = "ask" => attempt < 2)
  /\ client \in {"chat", "chat_stream"} => attempt =< 1 /\ (asking = "ask" => attempt = 0)
  /\ asking \in {"asked", "stream"} => attempt > 0

\* The words of a stream are its own, from the first on.
WordsAreThisAttempts ==
  /\ asking = "asked" => words = <<>>
  /\ asking = "stream" =>
       /\ ~Models!Whole /\ Len(words) =< Words
       /\ \A i \in 1..Len(words) :
            /\ words[i][1] = attempt /\ words[i][2] = i
            /\ client \in {"vision", "responses"} => words[i][3] = "text"

\* What is forwarded ends with what the stream has brought.
ForwardedAsTheyCome ==
  asking \in {"asked", "stream"} /\ Models!Forwards =>
    /\ Len(words) =< Len(told_words)
    /\ \A i \in 1..Len(words) : told_words[Len(told_words) - Len(words) + i] = words[i]

\* A marker comes with the whole answer or after an error; a stream of
\* "responses" that is read on has brought none.
MarkersAreTrue ==
  asking = "stream" =>
    /\ client = "responses" => ~complained
    /\ finished => complained \/ Len(words) = Words

ModelInv ==
  /\ Models!TypeOK /\ AskedSoFar /\ WordsAreThisAttempts /\ ForwardedAsTheyCome
  /\ MarkersAreTrue /\ Models!CallsAreSound
  /\ (outcome = "ok" => asking = "done")
  /\ (asking = "asked" => ~complained /\ ~finished)

----------------------------------------------------------------------------
(* Configuration                                                           *)

\* The fields of which a kind of value is expected have one.
Decoded(c) ==
  /\ DOMAIN c = DOMAIN Settings!Defaults
  /\ \A n \in Counted : c[n] \in Int
  /\ c.routes \in Seq(Seq([platform : STRING, ids : SUBSET STRING]))
  /\ c.jids_env \in {"none", "empty", "filled"}

\* What resolvePaths leaves: a forced sandbox is one, the lists that are excluded
\* have those of the program, and a list that a variable holds is not empty.
Resolved(c) ==
  /\ c.force => c.sandbox
  /\ Settings!DefaultExclude \subseteq c.exclude
  /\ c.jids_env = "filled" => c.jids # {}

SettingInv ==
  /\ Settings!TypeOK
  /\ configStage \in {"read", "decoded", "resolved"} => Decoded(config)
  /\ configStage = "read" => config = Settings!Defaults
  /\ configStage = "resolved" => Resolved(config) /\ config.jids_env # "empty"
  /\ configFile \in Files
  /\ Settings!AcceptedIsUsable

----------------------------------------------------------------------------
(* Sandboxes                                                               *)

\* What a call has in hand, it has at these places: between Launch and the
\* answer of the start, which stops its process by force when it has failed.
OwnInPlace ==
  \A c \in Users :
    LET place == sandboxCall[c].at
        failed == place \in {"terminating", "killing", "settling"} /\ sandboxCall[c].job = "start"
    IN  /\ own[c] # NoProc =>
             place \in {"launched", "waiting"} \/ (failed /\ sandboxCall[c].force)
        /\ place = "waiting" \/ failed => own[c] # NoProc

SeenInPlace ==
  \A c \in Users : sandboxSeen[c] # NoProc => sandboxCall[c].at \in {"settling", "removing"}

\* Each process belongs to one start.
OwnIsOne == \A c, d \in Users : own[c] # NoProc /\ own[c] = own[d] => c = d

\* Nobody knows of a process that is not started yet.
KnownIsStarted ==
  \A p \in Procs :
    proc[p] = "unused" =>
      p # active /\ p \notin ended /\ \A c \in Users : own[c] # p /\ sandboxSeen[c] # p

\* Whoever has company is known to.
AloneOrCrowded ==
  \A p, q \in Containers!Company : p # q => p \in crowded

\* What a stop has seen, or a failed start has started, is on its way out from
\* the moment at which the stop has acted.
SettlingIsTrue ==
  \A c \in Users : \A p \in Containers!Alive \ crowded :
    (sandboxSeen[c] = p \/ (own[c] = p /\ sandboxCall[c].at = "settling")) => sudo

SandboxInv ==
  /\ Containers!TypeOK /\ OwnInPlace /\ SeenInPlace /\ OwnIsOne /\ KnownIsStarted
  /\ AloneOrCrowded /\ Containers!BookIsTrue
  /\ SettlingIsTrue /\ Containers!StoppedIsTrue

\* What a call of a tool is made of.
CallType ==
  [job : Containers!Jobs \cup {"none"}, force : BOOLEAN, at : Containers!Places]

----------------------------------------------------------------------------
(* All parts                                                               *)

PartsInv ==
  /\ part \in Parts
  /\ BackupInv /\ OutboxInv /\ HealthInv /\ LiveInv /\ NewsInv /\ QuotaInv /\ ConnectionInv
  /\ PairingInv /\ SendingInv /\ InboxInv /\ ModelInv /\ SettingInv /\ SandboxInv

----------------------------------------------------------------------------
(* Names for groups of steps, and for parts of the invariants              *)

\* Events of the library move neither a goroutine nor reloadMu.
LibraryStep ==
  Connection!Connected \/ Connection!DialFails \/ Connection!TransientDisconnect
  \/ Connection!Reconnected \/ Connection!PermanentError
    \/ Connection!GivesUp \/ Connection!KeepaliveTick

\* A goroutine outside of reloadMu: the timer fires, it looks, queues, waits.
OutsideStep(c) ==
  Connection!Fire(c) \/ Connection!Look(c) \/ Connection!Upload(c) \/ Connection!Waited(c)

\* Within a reload, and at its end.
ReloadStep(c) ==
  Connection!Fails(c) \/ Connection!CookiesLoaded(c) \/ Connection!Replace(c)
  \/ Connection!Started(c)

Entry == [msg : Msgs, at : 1..LastTime, born : 1..LastTime, life : 0..MaxRestarts]

\* A handler or a command goes a step on that no entry, no queue and no other
\* event sees: from a step of a called or just called event to a later one.
BridgeGoes(e) ==
  /\ UNCHANGED <<plan, waiting, cancels, newest, stopped>>
  /\ DOMAIN held' = Events
  /\ \A s \in Events : s # e => held'[s] = held[s]
  /\ \/ /\ pc[e] \in {"start", "running", "back", "save", "marshalled", "truncated"}
        /\ \E p \in {"running", "back", "save", "marshalled", "truncated", "end"} :
             pc' = [pc EXCEPT ![e] = p]
     \/ /\ pc[e] \in {"enter", "compacting"}
        /\ \E p \in {"compacting", "save", "end", "done"} : pc' = [pc EXCEPT ![e] = p]

BridgePlain(e) ==
  \/ Bridge!Refuse(e) \/ Bridge!CloneHistory(e) \/ Bridge!RunReturns(e) \/ Bridge!RunFails(e)
     \/ Bridge!WriteBack(e)
  \/ Bridge!New(e) \/ Bridge!Compact(e) \/ Bridge!CompactDone(e) \/ Bridge!SetAllowed(e)
     \/ Bridge!SetMuted(e)
  \/ Bridge!Record(e) \/ Bridge!Marshal(e) \/ Bridge!Truncate(e) \/ Bridge!Write(e)
     \/ Bridge!SaveFails(e)

\* The steps between the saves: an event goes on, from outside of a save to
\* outside of a save, and may copy a history.
BridgeQuiet(e, p) ==
  /\ pc' = [pc EXCEPT ![e] = p] /\ p \in Bridge!Phases
  /\ {pc[e], p} \cap {"save", "marshalled", "truncated"} = {} /\ pc[e] \notin {"end", "done"}
  /\ p \in {"start", "running", "back"} => e \in Bridge!Runs
  /\ p = "compacting" => e.kind = "compact"
  /\ p = "stopping" => e.kind = "stop"
  /\ \A s \in Events : s # e => held'[s] = held[s]
  /\ p \in {"running", "back", "compacting"} =>
       held'[e] = hist[e.thread] \/ (Copying(e) /\ held'[e] = held[e])
  /\ e.kind = "new" => p # "end"
  /\ current' \in [Lanes -> Events \cup {Nobody}]
  /\ UNCHANGED <<hist, allow, mutes, blob, file, clean, trusted, synced, cleared, restarts>>

\* The steps that change what memory holds: it is to be saved then.
BridgeChanges(e) ==
  /\ pc' = [pc EXCEPT ![e] = "save"]
  /\ pc[e] \in {"enter", "back", "compacting"}
  /\ \A f \in Bridge!Files : f # Bridge!FileOf(e) => Bridge!Memory'[f] = Bridge!Memory[f]
  /\ hist' \in [Threads -> Bridge!Histories] /\ allow' \subseteq Threads
  /\ mutes' \in [Threads -> {NoOverlay} \cup SUBSET (Feeds \cup {"*"})]
  /\ \A s \in Events : s # e => held'[s] = held[s]
  /\ UNCHANGED <<current, blob, file, clean, trusted, synced, cleared, restarts>>

\* The disk a process may find, and what of it is reported as gone.
DiskFits(d, place) ==
  /\ DOMAIN d = Bridge!Files /\ place \in {"file", "snapshot"}
  /\ \A f \in Bridge!Files : d[f] = Torn \/ BridgeShape(f, d[f])
  /\ \A t \in Threads :
       /\ cleared[place][t] \subseteq Written
       /\ d["history"] # Torn =>
            /\ Bridge!Elems(d["history"][t]) \subseteq Written
            /\ cleared[place][t] \cap Bridge!Elems(d["history"][t]) = {}

BridgeQuietly(e) ==
  \/ Bridge!Refuse(e) \/ Bridge!Register(e) \/ Bridge!CloneHistory(e) \/ Bridge!RunReturns(e)
  \/ Bridge!RunFails(e) \/ Bridge!StopLook(e) \/ Bridge!StopCancel(e) \/ Bridge!Compact(e)

\* A bubble more needs an attempt that had none, or an excuse.
StaysExcused(i, k) ==
  \/ Copies(i, k)' \subseteq Copies(i, k) /\ mishaps'[i] = mishaps[i] /\ Spare(i, k) =< Spare(i, k)'
  \/ Copies(i, k)' \subseteq Copies(i, k) /\ mishaps'[i] = mishaps[i] + 1
  \/ /\ Copies(i, k)' \subseteq Copies(i, k) \cup {Len(bubbles) + 1} /\ Spare(i, k) = 0
     /\ mishaps'[i] = mishaps[i] /\ Spare(i, k)' = 1
  \/ /\ Copies(i, k)' \subseteq Copies(i, k) \cup {Len(bubbles) + 1} /\ Spare(i, k) = 0
     /\ mishaps'[i] = mishaps[i] + 1

\* The bubbles stand where they were, with the texts of what was sent.
MessagesStay ==
  /\ \A b \in 1..Len(bubbles) :
       b \in 1..Len(bubbles') /\ bubbles'[b].item = bubbles[b].item
       /\ bubbles'[b].at = bubbles[b].at
  /\ \A i \in Items : outbox[i].status = "sent" =>
       bubbles'[outbox[i].id].version = bubbles[outbox[i].id].version

Mirrors == [bubble : 1..Len(bubbles), age : {"young", "uneditable", "ancient"}]

MirrorsTyped ==
  \A k \in DOMAIN mirrors :
    /\ k \in (1..Len(bubbles)) \X Outbox!Indices
    /\ mirrors[k] \in [bubble : 1..Len(bubbles), age : {"young", "uneditable", "ancient"}]

MirrorsAreSound == MirrorsTyped /\ MirrorsAreThere /\ Outbox!MirrorIsNewest

\* The accounts there is no way into any more.
Lost == {a \in Quotas!Names : stored[a] # valid[a] /\ ~(phase = "store" /\ Quotas!Account = a)}

\* A step that loses one is a fault or a restart.
LosesForAReason ==
  \/ Lost' \subseteq Lost /\ faults + reboots =< faults' + reboots'
  \/ /\ Lost' \subseteq Lost \cup {Quotas!Account}
     /\ faults + reboots + 1 =< faults' + reboots'
=============================================================================
