------------------------------- MODULE MCParts -------------------------------
(***************************************************************************)
(* The parts beside the sessions of Discord, in one run.  They share no     *)
(* state, so a behaviour is one of one part: the first state says which,    *)
(* and the variables of the others stay as they are.                        *)
(***************************************************************************)
EXTENDS Integers, Sequences, FiniteSets
LOCAL INSTANCE TLC

CONSTANTS
  Parts,
  Events, Lanes, Detaching, Threads, Open, Admins, Feeds, CfgMuted, Keep, Plans,
  MaxRestarts, Nobody, NoOverlay, Torn,
  Items, Routes, ClaimLimit, MaxVersion, MaxBubbles, MaxHitches,
  DeadAfter, MinNotify, Watched,
  Scripts, Platforms, QueueSize, MaxDots,
  Articles, Channels, Pollers, MaxPerDay, MaxDays, MaxSlips,
  Accounts, Watches, MaxTokens, MaxPeriods, MaxFaults, MaxReboots,
  Attempts, Uploads, MaxSessions,
  Calls, Mixes, Pieces, Tries, LastMs,
  Msgs, SeenLimit, Day, Slack, LastTime, MaxTaken,
  Clients, AskedAtMost, Words,
  Limits, Tokens, Durations, Clocks, Catalogues, RouteSets, Switches,
  Users, Procs, NoProc

ASSUME EventsAreSound ==
  /\ Plans \subseteq SUBSET Events /\ Nobody \notin Events
  /\ \A e \in Events :
       /\ e.thread \in Threads /\ e.target \in Threads
       /\ e.kind \in {"mute", "unmute"} => e.feed \in Feeds \cup {"*"}
  /\ CfgMuted \in [Threads -> SUBSET (Feeds \cup {"*"})] /\ Keep \in Nat \ {0}
ASSUME NoProcIsNone == NoProc \notin Procs
ASSUME SessionsAreCounted == MaxSessions \in Nat \ {0}
ASSUME MessagesAreCounted ==
  /\ LastTime \in Nat \ {0} /\ MaxRestarts \in Nat /\ SeenLimit \in Nat
  /\ Day \in Nat /\ Slack \in Nat
ASSUME MixesAreSound ==
  /\ Pieces \in Nat \ {0} /\ Tries \in Nat \ {0} /\ LastMs \in Nat \ {0}
  /\ Mixes \subseteq [Calls -> {"text", "image", "edit"}]
  /\ \A k \in Mixes : \A c, d \in Calls : k[c] = "edit" /\ k[d] = "edit" => c = d
ASSUME ScriptsAreReports ==
  Scripts \subseteq Seq({"delta", "tool"}) /\ QueueSize \in Nat /\ MaxDots \in Nat
ASSUME CallsAreBounded ==
  /\ AskedAtMost \in Nat \ {0} /\ Words \in Nat \ {0}
  /\ Clients \subseteq {"zen", "vision", "chat", "chat_stream", "responses"}
ASSUME ArticlesAreNamed ==
  /\ IsFiniteSet(Articles) /\ Len(Channels) \in Nat
  /\ \A a, b \in Articles : a.guid = b.guid => a = b
  /\ \A a \in Articles : a.title # "-"
  /\ MaxPerDay \in Nat /\ MaxDays \in Nat \ {0} /\ MaxSlips \in Nat
ASSUME AccountsAreListed ==
  /\ Len(Accounts) \in Nat \ {0}
  /\ MaxTokens \in Nat \ {0} /\ MaxPeriods \in Nat \ {0}
  /\ MaxFaults \in Nat /\ MaxReboots \in Nat
ASSUME RoutesAreLists ==
  /\ \A r \in Routes : Len(r) \in Nat
  /\ ClaimLimit \in Nat /\ MaxVersion \in Nat \ {0} /\ MaxBubbles \in Nat /\ MaxHitches \in Nat
ASSUME ChecksAreCounted == DeadAfter \in Nat /\ MinNotify \in Nat

VARIABLES
  part,
  plan, waiting, current, pc, hist, allow, mutes, cancels, newest, stopped, held, blob,
  file, clean, trusted, synced, cleared, restarts,
  route, outbox, bubbles, batch, step, at, primary, verdict, mirrors, hitches, mishaps,
  subject, armed, deadFor, lastDead, alivePending, sinceNotify, told, drained, upFor, downFor,
  platform, script, call, turn, reply, signals, renderer, preview, justReset, edit, dots,
  shown, lostReset, late,
  poller, published, settled, deliveries, stage, todo, known, titles, channel, got, gotToday,
  history, day, slips,
  watch, valid, stored, over, period, ask, phase, due, fresh, warned, saved, snapshot,
  warnings, forgotten, faults, reboots,
  flag, scheduled, timer, keepalive, socket, where, overtaken, quiet,
  loggedIn, stray, online, dial, qr, maker, older, swallowed,
  kind, thread, flight, callAt, piece, stamps, try, sent, callResult, callCancelled, now,
  time, written, born, seen, ledger, inboxWaiting, handling, handled, inboxRestarts,
  client, asking, attempt, words, complained, finished, told_words, answer, outcome,
  gaveUp, spent, refused,
  configStage, configFile, config,
  sudo, rootfs, active, proc, sandboxCall, own, sandboxSeen, ended, crowded

Bridge == INSTANCE BridgeSessions
Outbox == INSTANCE BridgeRoutes
Health == INSTANCE HealthWatch
Live == INSTANCE LiveMessage
News == INSTANCE FeedPollers
Quotas == INSTANCE QuotaWatches
Connection == INSTANCE MessengerConnection
Pairing == INSTANCE WhatsAppPairing
Sending == INSTANCE MessengerSending
             WITH at <- callAt, result <- callResult, cancelled <- callCancelled
Inbox == INSTANCE MessengerInbox WITH waiting <- inboxWaiting, restarts <- inboxRestarts
Models == INSTANCE ModelCalls
            WITH Attempts <- AskedAtMost, step <- asking, got <- words, shown <- told_words,
                 result <- outcome, cancelled <- gaveUp
Settings == INSTANCE Configuration WITH stage <- configStage, file <- configFile
Containers == INSTANCE Sandboxes WITH call <- sandboxCall, seen <- sandboxSeen

\* A file that can be decoded sets settings there are, to values of their kind.
Files == Limits \cup Tokens \cup Durations \cup Clocks \cup Catalogues \cup RouteSets
           \cup Switches
Counted == {"window", "max_tokens", "trigger", "target", "preserve", "timeout", "exec_timeout",
            "poll", "every", "sync", "dream_every", "retry_initial", "retry_max"}
ASSUME FilesAreDecoded ==
  \A f \in Files :
    /\ DOMAIN f \subseteq DOMAIN Settings!Defaults
    /\ \A n \in Counted \cap DOMAIN f : f[n] \in Int
    /\ "routes" \in DOMAIN f =>
         f.routes \in Seq(Seq([platform : STRING, ids : SUBSET STRING]))
    /\ "jids_env" \in DOMAIN f => f.jids_env \in {"none", "empty", "filled"}

bridgevars == <<plan, waiting, current, pc, hist, allow, mutes, cancels, newest, stopped,
                held, blob, file, clean, trusted, synced, cleared, restarts>>
outboxvars == <<route, outbox, bubbles, batch, step, at, primary, verdict, mirrors, hitches,
                mishaps>>
healthvars == <<subject, armed, deadFor, lastDead, alivePending, sinceNotify, told, drained,
                upFor, downFor>>
livevars == <<platform, script, call, turn, reply, signals, renderer, preview, justReset,
              edit, dots, shown, lostReset, late>>
newsvars == <<poller, published, settled, deliveries, stage, todo, known, titles, channel,
              got, gotToday, history, day, slips>>
quotavars == <<watch, valid, stored, over, period, ask, phase, due, fresh, warned, saved,
               snapshot, warnings, forgotten, faults, reboots>>
connectionvars == <<flag, scheduled, timer, keepalive, socket, where, overtaken, quiet>>
pairingvars == <<loggedIn, stray, online, dial, qr, maker, older, swallowed>>
sendingvars == <<kind, thread, flight, callAt, piece, stamps, try, sent, callResult,
                 callCancelled, now>>
inboxvars == <<time, written, born, seen, ledger, inboxWaiting, handling, handled,
               inboxRestarts>>
modelvars == <<client, asking, attempt, words, complained, finished, told_words, answer,
               outcome, gaveUp, spent, refused>>
settingvars == <<configStage, configFile, config>>
sandboxvars == <<sudo, rootfs, active, proc, sandboxCall, own, sandboxSeen, ended, crowded>>
vars == <<part, bridgevars, outboxvars, healthvars, livevars, newsvars, quotavars,
          connectionvars, pairingvars, sendingvars, inboxvars, modelvars, settingvars,
          sandboxvars>>

\* The instances: what the events of the threads are, and how many come.
Own(id, what, lane, t) ==
  [id |-> id, kind |-> what, lane |-> lane, thread |-> t, target |-> t, feed |-> "-"]
For(id, what, lane, t, u, f) ==
  [id |-> id, kind |-> what, lane |-> lane, thread |-> t, target |-> u, feed |-> f]
MCEvents == {
  Own(1, "message", "inbox", "home"), Own(2, "message", "inbox", "home"),
  Own(3, "reaction", "frames", "home"), Own(4, "new", "inbox", "home"),
  Own(5, "stop", "inbox", "home"), Own(6, "compact", "inbox", "home"),
  For(7, "note", "post", "home", "home", "news"), For(8, "note", "post", "home", "home", "games"),
  For(9, "allow", "inbox", "home", "guest", "-"), For(10, "block", "inbox", "home", "guest", "-"),
  Own(11, "message", "inbox", "guest"),
  For(12, "mute", "inbox", "home", "home", "news"),
  For(13, "unmute", "inbox", "home", "home", "games"),
  For(14, "mute", "frames", "home", "home", "*"), For(15, "mute", "inbox", "guest", "home", "news"),
  For(16, "sync", "store", "home", "home", "history"),
  For(17, "sync", "store", "home", "home", "history"),
  For(18, "sync", "store", "home", "home", "notifs")}
MCPlans == {{e \in MCEvents : e.id \in I} : I \in
             {{1, 2, 16}, {1, 4, 16, 17}, {3, 4, 7}, {4, 6, 7}, {4, 7, 16, 17}, {1, 3, 5}, {1, 6, 7},
              {9, 10, 11}, {12, 13, 14}, {13, 15, 18}, {8, 12}}}
MCCfgMuted == [home |-> {"games"}, guest |-> {}]

On(p, i) == [platform |-> p, id |-> i]
MCRoutes == {<<On("whatsapp", 2), On("messenger", 1), On("discord", 3)>>,
             <<On("messenger", 1), On("messenger", 1)>>, <<On("discord", 3)>>}

MCScripts == {<<"delta", "tool", "delta", "tool", "delta">>,
              <<"delta", "delta", "tool", "tool", "delta">>, <<>>, <<"tool">>}

MCArticles == {[guid |-> 1, title |-> "one", stale |-> TRUE, fits |-> FALSE],
               [guid |-> 2, title |-> "two", stale |-> FALSE, fits |-> TRUE],
               [guid |-> 3, title |-> "two", stale |-> FALSE, fits |-> TRUE]}
MCChannels == <<"left", "right">>
MCAccounts == <<"first", "second">>

MCMixes == {[c \in Calls |-> IF c = "reply" THEN "text" ELSE k] : k \in {"image", "edit"}}

\* Configuration files, each about a few fields and all they may be set to.
Unset == 0 - 2
Nonsense == 0 - 1
Numbers == {-1, 0, 1}
MCLimits ==
  [{"max_agent_loops", "max_tool_calls", "max_attempts", "max_log"} -> Numbers]
    \cup [{"max_file_bytes", "ack_max_chars"} -> Numbers]
MCTokens ==
  [window : {0, 3, 5}, max_tokens : 0..5, compaction : BOOLEAN, trigger : {-1, 0, 2, 3},
   target : {-1, 0, 1, 3}, preserve : {0, 2}]
MCDurations ==
  [{"timeout", "retry_max", "exec_timeout", "min_runtime", "setup_timeout", "sync"}
     -> {Unset, Nonsense, 0}]
MCClocks ==
  [every : {Unset, Nonsense, 1}, poll : {Unset, Nonsense, 0}, heartbeat_target : BOOLEAN,
   event_webhook : BOOLEAN, active_start : {Unset, 1}, active_end : {Unset, Nonsense, 1},
   dream : BOOLEAN, sleep_start : {Unset, 1}, sleep_end : {Unset, Nonsense, 1}]
Models1 == [name : {"", "a", "b"}, id : {"", "x"}, enabled : BOOLEAN]
MCCatalogues ==
  [model : {"a", "x"}, models : {<<>>} \cup [1..1 -> Models1] \cup [1..2 -> Models1]]
Place == [platform : {"messenger", "whatsapp", "irc"}, ids : SUBSET {"messenger", "whatsapp"}]
MCRouteSets ==
  [bridge : BOOLEAN,
   routes : {<<>>, << <<>> >>} \cup {<<r>> : r \in [1..1 -> Place] \cup [1..2 -> Place]}]
MCSwitches ==
  [messenger : BOOLEAN, cookies : BOOLEAN, jids_env : {"none", "empty", "filled"},
   persistence : BOOLEAN, dsn : BOOLEAN, exclude : {{}, {"logs"}}, sandbox : BOOLEAN,
   force : BOOLEAN, session : {<<"workspace", ".element-orion">>, <<"elsewhere">>}]

\* The calls of a sandbox can change places.
Alike == Permutations(Users)

One(S) == CHOOSE x \in S : TRUE

\* A part that is not looked at begins in one of its initial states.
Init ==
  /\ part \in Parts
  /\ part = "bridge" \/ plan = One(Plans)
  /\ part = "outbox" \/ route = One(Routes)
  /\ part = "health" \/ subject = One(Watched)
  /\ part = "live" \/ platform = One(Platforms)
  /\ part = "live" \/ script = <<>>
  /\ part = "news" \/ poller = One(Pollers)
  /\ part = "quotas" \/ watch = One(Watches)
  /\ part = "sending" \/ kind = One(Mixes)
  /\ part = "models" \/ client = One(Clients)
  /\ part = "pairing" \/ loggedIn = FALSE
  /\ part = "settings" \/ configFile = One(Limits)
  /\ part = "sandboxes" \/ sudo = FALSE
  /\ part = "sandboxes" \/ rootfs = FALSE
  /\ Bridge!Init /\ Outbox!Init /\ Health!Init /\ Live!Init /\ News!Init /\ Quotas!Init
  /\ Connection!Init /\ Pairing!Init /\ Sending!Init /\ Inbox!Init /\ Models!Init
  /\ Settings!Init /\ Containers!Init

\* One operator for each part: a step of it, and of nothing else.
BridgeStep ==
  /\ part = "bridge" /\ Bridge!Next
  /\ UNCHANGED <<part, outboxvars, healthvars, livevars, newsvars, quotavars,
                 connectionvars, pairingvars, sendingvars, inboxvars, modelvars,
                 settingvars, sandboxvars>>

OutboxStep ==
  /\ part = "outbox" /\ Outbox!Next
  /\ UNCHANGED <<part, bridgevars, healthvars, livevars, newsvars, quotavars,
                 connectionvars, pairingvars, sendingvars, inboxvars, modelvars,
                 settingvars, sandboxvars>>

HealthStep ==
  /\ part = "health" /\ Health!Next
  /\ UNCHANGED <<part, bridgevars, outboxvars, livevars, newsvars, quotavars,
                 connectionvars, pairingvars, sendingvars, inboxvars, modelvars,
                 settingvars, sandboxvars>>

LiveStep ==
  /\ part = "live" /\ Live!Next
  /\ UNCHANGED <<part, bridgevars, outboxvars, healthvars, newsvars, quotavars,
                 connectionvars, pairingvars, sendingvars, inboxvars, modelvars,
                 settingvars, sandboxvars>>

NewsStep ==
  /\ part = "news" /\ News!Next
  /\ UNCHANGED <<part, bridgevars, outboxvars, healthvars, livevars, quotavars,
                 connectionvars, pairingvars, sendingvars, inboxvars, modelvars,
                 settingvars, sandboxvars>>

QuotasStep ==
  /\ part = "quotas" /\ Quotas!Next
  /\ UNCHANGED <<part, bridgevars, outboxvars, healthvars, livevars, newsvars,
                 connectionvars, pairingvars, sendingvars, inboxvars, modelvars,
                 settingvars, sandboxvars>>

ConnectionStep ==
  /\ part = "connection" /\ Connection!Next
  /\ UNCHANGED <<part, bridgevars, outboxvars, healthvars, livevars, newsvars,
                 quotavars, pairingvars, sendingvars, inboxvars, modelvars,
                 settingvars, sandboxvars>>

PairingStep ==
  /\ part = "pairing" /\ Pairing!Next
  /\ UNCHANGED <<part, bridgevars, outboxvars, healthvars, livevars, newsvars,
                 quotavars, connectionvars, sendingvars, inboxvars, modelvars,
                 settingvars, sandboxvars>>

SendingStep ==
  /\ part = "sending" /\ Sending!Next
  /\ UNCHANGED <<part, bridgevars, outboxvars, healthvars, livevars, newsvars,
                 quotavars, connectionvars, pairingvars, inboxvars, modelvars,
                 settingvars, sandboxvars>>

InboxStep ==
  /\ part = "inbox" /\ Inbox!Next
  /\ UNCHANGED <<part, bridgevars, outboxvars, healthvars, livevars, newsvars,
                 quotavars, connectionvars, pairingvars, sendingvars, modelvars,
                 settingvars, sandboxvars>>

ModelsStep ==
  /\ part = "models" /\ Models!Next
  /\ UNCHANGED <<part, bridgevars, outboxvars, healthvars, livevars, newsvars,
                 quotavars, connectionvars, pairingvars, sendingvars, inboxvars,
                 settingvars, sandboxvars>>

SettingsStep ==
  /\ part = "settings" /\ Settings!Next
  /\ UNCHANGED <<part, bridgevars, outboxvars, healthvars, livevars, newsvars,
                 quotavars, connectionvars, pairingvars, sendingvars, inboxvars,
                 modelvars, sandboxvars>>

SandboxesStep ==
  /\ part = "sandboxes" /\ Containers!Next
  /\ UNCHANGED <<part, bridgevars, outboxvars, healthvars, livevars, newsvars,
                 quotavars, connectionvars, pairingvars, sendingvars, inboxvars,
                 modelvars, settingvars>>

Next ==
  \/ BridgeStep \/ OutboxStep \/ HealthStep \/ LiveStep
  \/ NewsStep \/ QuotasStep \/ ConnectionStep \/ PairingStep
  \/ SendingStep \/ InboxStep \/ ModelsStep \/ SettingsStep
  \/ SandboxesStep

Spec == Init /\ [][Next]_vars

----------------------------------------------------------------------------
(* Properties                                                              *)

\* Every variable of every part keeps its type.
PartsTyped ==
  /\ part \in Parts
  /\ part = "bridge" => Bridge!TypeOK
  /\ part = "outbox" => Outbox!TypeOK
  /\ part = "health" => Health!TypeOK
  /\ part = "live" => Live!TypeOK
  /\ part = "news" => News!TypeOK
  /\ part = "quotas" => Quotas!TypeOK
  /\ part = "connection" => Connection!TypeOK
  /\ part = "pairing" => Pairing!TypeOK
  /\ part = "sending" => Sending!TypeOK
  /\ part = "inbox" => Inbox!TypeOK
  /\ part = "models" => Models!TypeOK
  /\ part = "settings" => Settings!TypeOK
  /\ part = "sandboxes" => Containers!TypeOK

\* /stop finds the newest run of a bridge thread while it is at work, and
\* nothing else.
StopReachesNewest ==
  part = "bridge" => Bridge!StopReachesNewest

\* The files of the bridge hold what its memory does once it is saved, and what
\* /new has reported as gone stays gone: a run or /compact at work brings back only
\* what it had copied; a restart finds gone what a clean save took from the file,
\* and a new container what was synced after such a save.
NothingComesBack ==
  part = "bridge" => Bridge!FilesAreCurrent /\ Bridge!ClearedStaysCleared

\* What the outbox server has as sent is shown, nothing is sent twice without a
\* reason, and edits go to the newest mirror.
OutboxIsTrue ==
  part = "outbox" => Outbox!SentIsShown /\ Outbox!SentOnceUnlessMishap /\ Outbox!MirrorIsNewest

\* What the health watch has said last is true, but for its delays.
LastAlertIsTrue ==
  part = "health" => Health!LastAlertIsTrue

\* The live message shows the text of one model call at a time, and the answer
\* that took its place until an edit of a renderer that goes on covers it.
LiveMessageIsTrue ==
  part = "live" => Live!PreviewIsOneCall /\ Live!AnswerStays

\* What a poller has settled the bridge has taken, and no thread is flooded.
NewsIsDelivered ==
  part = "news" => News!SettledIsDelivered /\ News!ShareIsKept /\ News!NoFlood

\* A rotated token is lost only by a fault or a restart.  A quota is warned of once
\* in its period, and again for a fault, or for a restart that came between the POST
\* and the end of the write of its note or that found an older file.
QuotasAreKept ==
  part = "quotas" => Quotas!TokensAreKept /\ Quotas!WarnedOncePerPeriod

\* A client that is down is being looked after: the Messenger client says that it
\* is connected only with a socket, and has an attempt, a timer or the library at
\* work on it when it is down; a WhatsApp that is logged out comes to show a code.
ClientsComeBack ==
  /\ part = "connection" => Connection!UpIsTrue /\ Connection!DownIsLookedAfter
  /\ part = "pairing" => Pairing!CodeIsComing

\* Pieces of a text stand in the thread once and in order, and who is told that
\* they do is told the truth.
SendsAreSound ==
  part = "sending" => Sending!SendsAreSound

\* A message is taken once, and handled in the order of arrival.
InboxIsSound ==
  part = "inbox" => Inbox!InboxIsSound

\* An answer is the words of one attempt, whole unless its stream stopped early or
\* held an error, and no back end is asked too often.
CallsAreSound ==
  part = "models" => Models!CallsAreSound

\* What configuration is accepted can be run.
AcceptedIsUsable ==
  part = "settings" => Settings!AcceptedIsUsable

\* The book of sandboxes has the process that is there, and what was stopped ends.
SandboxesAreKnown ==
  part = "sandboxes" => Containers!BookIsTrue /\ Containers!StoppedIsTrue
=============================================================================
