# Element Orion: specifications, model checks and proofs

Element Orion (repository `lumen-agent`) is one Go process that runs an agent
for Discord, and bridges it to Messenger and WhatsApp. This directory holds TLA+
modules that model its concurrent and stateful parts, the TLC configurations
that check them on small instances, and proofs, checked by TLAPS, of what holds
for every instance. `PROJECT.json` lists the components, runs, source lines,
hazards and theorems; this file says what they mean.

To check a run: `tlc -config X.cfg M` with the module and configuration that
`PROJECT.json` names. To check a proof: `tlapm X_proofs.tla`.

## 1. The system

| Component | State | Operations | Talks to |
|---|---|---|---|
| Discord sessions (`discordbot/service.go`) | map from channel to session; per session a prompt queue, a history, a run lock, a context | messages, reactions, `/new`, `/stop`, `/compact`, turns, shutdown | agent runner, session files, background workers, heartbeats |
| Agent turn (`agent/agent.go`, `agent/compaction.go`) | working history, rounds, attempts | ask the model, retry, run tools, compact, settle | LLM clients, tools, sessions |
| LLM back ends (`llm/`) | none but counters | requests, streams, retries of the zen back end | HTTP APIs |
| Tools (`tools/`) | resource locks; the file system, remote services | about forty tools | background workers, wakeups, sandbox |
| Background workers (`discordbot/background.go`) | task table, batches of handoffs | start, run, cancel, hand over | sessions, runner, sandbox |
| Heartbeats and events (`discordbot/heartbeat.go`, `eventwebhook/`, `heartbeatstate/`) | event files, nudge state | create, poll, enqueue, acknowledge | sessions |
| Scheduled wakeups (`discordbot/cron.go`) | list of wakeups, in memory | schedule, cancel, fire | tools, heartbeat session |
| Dream loop, live message (`discordbot/dream.go`, `thinking.go`) | a placeholder message, a signal channel | render, finish, discard | sessions |
| Bridge conversations and commands (`bridge/service.go`, `commands.go`) | histories, allow lists, mutes, run cancels | runs, `/new`, `/stop`, `/compact`, `/notify` | runner, messenger, whatsapp |
| Automation notifications (`bridge/notifications.go`, `pending.go`, `neon/`) | Postgres tables of pending rows and delivery marks | POST, drain, mark, delete | messenger, whatsapp, discord |
| Routes, mirrors, outbox worker (`bridge/service.go`, `bnp/`) | mirror table | send, edit, claim, acknowledge | outbox server |
| Health watch (`bridge/healthwatch.go`) | armed and dead flags, cooldown | check, alert | messenger, whatsapp |
| Messenger, WhatsApp clients | connection flag, reconnect flag, queues | connect, relay, dispatch, send | their servers |
| Notification pollers (`notify/`) | tables of what was seen | poll, send, rotate a token | bridge |
| Sandboxes (`sandbox/`) | book of active processes; machines and directories of the host | create, start, stop, delete, execute | systemd-nspawn, background workers |
| Snapshot store (`persist/`) | rows of the session directory and identity files | restore, sync, touch | Postgres, disk |
| Configuration, secrets, skills, prompt context, vision, dashboard, audit log, http | read at start, or append-only | | all |

Interaction is by shared memory under mutexes, buffered channels with a default
case, contexts, files, and rows in Postgres. What is hard about it:

- handlers, runners, tickers and HTTP requests are goroutines that read state,
  leave the lock for seconds (a model call, a send) and then act on what they read;
- queues are bounded and most senders do not wait;
- contexts are cancelled at any moment, by commands and by the shutdown;
- sends may fail after they have arrived; statements and files fail singly;
- the container may be replaced at any moment, with only Postgres surviving;
- histories are cut and compacted while calls in them still await results.

What makes each component correct is listed with its module in section 3; what
is not modelled is in section 6. The `hazards` of `PROJECT.json` give
the line of code at which each difficulty bites and the property that watches it.

## 2. Modules

| Module | Models | Instance | Proofs |
|---|---|---|---|
| `DiscordSessions` | session map, queues, runners, turns, `/new`, `/stop`, `/compact`, shutdown | `MCDiscordSessions` | `DiscordSessions_proofs` |
| `Conversation` | what the session layer promises, implemented by `DiscordSessions` | `MCDiscordSessions` | `DiscordSessions_proofs` |
| `ResourceLocks` | the locks that tools take on files | `MCResourceLocks` | `ResourceLocks_proofs` |
| `PendingNotifications` | notification requests, the queue in Postgres, its drains | `MCPendingNotifications` | `PendingNotifications_proofs` |
| `DeliveryService` | what that queue promises, implemented by `PendingNotifications` | `MCPendingNotifications` | `PendingNotifications_proofs` |
| `SnapshotStore` | restore, sync and loss of the container | `MCSnapshotStore` | `SnapshotStore_proofs` |
| `HeartbeatEvents` | event files, heartbeat loop, wakeup loop | `MCHeartbeatEvents` | `HeartbeatEvents_proofs` |
| `BackgroundTasks` | workers, their records, the batches of their handoffs | `MCBackgroundTasks` | `BackgroundTasks_proofs` |
| `LockService` | what the locks promise, implemented by `ResourceLocks` | `MCResourceLocks` | `ResourceLocks_proofs` |
| `AgentTurn` | the model/tool loop, trimming, compaction, what the user is told | `MCAgentTurn` | `AgentTurn_proofs` |
| `BridgeSessions` | bridge threads: runs, commands, notes in the history, overlays and their files | `MCParts` | `MCParts_proofs` |
| `BridgeRoutes` | routes, mirrors, edits, the outbox worker | `MCParts` | `MCParts_proofs` |
| `HealthWatch` | the alerts about one platform | `MCParts` | `MCParts_proofs` |
| `LiveMessage` | the message that shows a turn at work | `MCParts` | `MCParts_proofs` |
| `FeedPollers` | Steam updates, free games, crack watch, technology news | `MCParts` | `MCParts_proofs` |
| `QuotaWatches` | the Supabase and Neon quotas, the rotated token | `MCParts` | `MCParts_proofs` |
| `MessengerConnection` | connected flag, reconnect timer, cookie reload, keepalive | `MCParts` | `MCParts_proofs` |
| `MessengerSending` | pieces, stamps and retries of sends, images and edits | `MCParts` | `MCParts_proofs` |
| `MessengerInbox` | relay, memory of seen messages, dispatcher | `MCParts` | `MCParts_proofs` |
| `WhatsAppPairing` | login, QR sessions, reconnect loop | `MCParts` | `MCParts_proofs` |
| `ModelCalls` | attempts, streams and answers of the model and vision back ends | `MCParts` | `MCParts_proofs` |
| `Configuration` | defaults, resolution, validation | `MCParts` | `MCParts_proofs` |
| `Sandboxes` | starts, stops, deletes, and the book of active processes | `MCParts` | `MCParts_proofs` |

Each module stands alone: what it needs of a neighbour is a nondeterministic
choice over what the neighbour may do. So a turn in `DiscordSessions` ends with
any result, and `AgentTurn` is the detail behind that; the prompt queue is a
plain bounded queue in `HeartbeatEvents`, and `DiscordSessions` is the detail
behind that. `ModelCalls` is the detail behind one request of `AgentTurn`,
`MessengerSending` behind a send of `PendingNotifications` or `BridgeRoutes`, and
what a poller of `FeedPollers` posts is a request there.

`MCParts` puts thirteen modules into one run. They share no state, so a behaviour is
one of one part: `part` is chosen in the first state, one operator per part takes a
step of it, and the variables of the others stay as they are. The number of states
is therefore the sum, not the product, and each property speaks of its own part.
`PartsInvariants` extends it with the inductive invariants of the parts, which
`MCParts_proofs` proves for every value of the constants.

Operators whose names say so in the comment above them (`Variant: ...`) are not
part of the specification. They are plausible mistakes in the code; with one in
the place of the definition it varies, the property named for it in
`PROJECT.json` fails.

## 3. What is modelled, and what the runs show

### Sessions: `DiscordSessions`

An event is one call of a gateway handler, or of the heartbeat and worker loops
that enqueue prompts. `pc[e]` follows its goroutine: look up the session
(`handleMessageCreate`), maybe build one (`resetSession`, which publishes it in
the map, starts its runner and cancels the session it replaced, in that order
and outside of the lock), enqueue without waiting, and then the steps of the
runner with that prompt (`processPrompt`): run lock, snapshot of the history, the
run, one look at the context, saving, replying. Commands take the session from
the map under the lock and cancel it afterwards. A session identity is used once.
Contents are abstracted to what a run ends with: a reply, silence, an error, a
panic. `/compact` sets the folded history and persists it afterwards, so that it may
have folded and answer with an error. A prompt of the dream is treated as `processPrompt`
would; nothing enqueues one at this commit.

- `sessions_safety`: two messages, `/new`, `/stop` and `/compact` of one
  channel, three identities, a queue of one. Five events in one channel is the
  least with which a message can lose its session twice; more identities than
  three are never used by them, and a queue of one makes "full" common.
  `LiveSessionsAreMapped`: the map offers no dead session (`MappedIsLive`) and no
  live session is unreachable (`NoOrphan`). `PromptInOnePlace`: no prompt is doubled
  or lost sight of. `ImplementsConversation`: turns and `/compact` of one session take
  many steps each, in several goroutines, on copies of its history; what they leave behind
  is a behaviour of `Conversation`, in which each is one step on the history of that moment,
  in a session of the event's own channel, and in which an event ends once, answered only if
  its turn was kept or it leaves none; only a `/compact` may end in an error after it has
  folded the history. The mapping is `Progress`: a turn counts as kept
  from the step that saves it. With the run lock left out of `/compact` a turn is lost,
  and TLC finds a step that no step of `Conversation` explains.
  `SilenceIsMeant`: the author gets the notice of a cancellation at the shutdown only
  (`CancelNoticeOnlyAtShutdown`), and nothing only after a reset
  (`UnansweredOnlyIfReset`).
- `sessions_liveness`: a message and an isolated heartbeat against `/stop` and
  shutdown. `SessionsGoOn`: what is queued is served or its session ends
  (`QueuedIsServed`), and the runner of a cancelled session exits
  (`CancelledRunnerExits`). `StoppedTurnNeverAnswers`.

Fairness: a goroutine that can take its next step takes it (weak fairness, per
event and per runner); the run lock is a `sync.Mutex`, whose starvation mode
serves each waiter (strong fairness of taking it). Nobody is obliged to send a
message or a signal.

### Locks: `ResourceLocks`

`resourceLockManager.Lock` registers a reference to each key in one critical
section, then takes the one token of each entry in the order of the keys, and can
be cancelled between any two; releasing gives the tokens back and then drops the
references, deleting an entry with its last one. Run `locks`: three calls, two
keys, two identities of entries per key, so that an entry can be deleted and made
anew while a call is still busy with the old. Three calls are the fewest with one
holder, one waiter and one newcomer. `BooksAreRight`: the counts, entries and tokens
agree with who holds and who waits. `ImplementsLockService`: with `holds` as the keys
of the calls that have all their tokens, the detailed locks are an instance of
`LockService`, which grants a call all its keys at once while nobody has any of
them. `AcquireReturns` needs a fair channel (waiting receivers are served in order)
and tools that end.

### Notifications: `PendingNotifications`

A POST is asked for, muted or not, stored under its key (or sent directly when
there is none), answered and drained; `ticker` stands for the ticker, which drains
as well. A drain lists the rows and then asks, sends,
marks and deletes, or counts a failure, each in a statement of its own that may
fail. A send that fails may have arrived. A restart loses all but the rows and
the marks.

- `notifications_safety`: an item with a key for a thread and for a malformed
  thread, one without a key for a thread and a route; one handler, the ticker,
  two POSTs, one crash. Every answer of the handler is recorded, whatever it is worth.
  `AtLeastOnce`: what a client was told is pending, and what it was told is sent under
  a key, is queued, arrived, muted, malformed or used up its attempts. Without a key
  "sent" binds nobody (`Binding`): it follows one attempt, whatever came of it.
  `ImplementsDelivery`: whatever happens is a behaviour of `DeliveryService`, in which a
  notification enters the queue and leaves it only when it has arrived or was waived,
  only what was taken in or has no key is sent, and a mark or a binding answer is given
  only where it is true (`MarkIsTrue`: a mark never stands for something that was not sent).
  Failing statements, lists that have aged and restarts are not seen there.
- `notifications_liveness`: two items with a key, whose rows wait side by side, no
  crash. `QueueIsWorkedOff` asks for nothing but that drains run and list, and that the
  statements and sends of the one row come through once in a while (`Recovers`, strong
  fairness, as the code's retry makes no progress under less). Nothing is asked of
  the other row: its platform may stay down and its statements fail for ever.

### Snapshots: `SnapshotStore`

A restore at boot, then syncs on request, on the ticker and at shutdown. A sync
walks the directory, compares hashes with the rows, stores file by file and
deletes the rows of files it has not found; files change during all of it.
Identity files outside of the directory are stored but never deleted. The process
dies anywhere, with or without its disk. Run `snapshots`: a file at the top, one
in a subdirectory, one identity file, two contents, three writes, two restarts.
The two kinds of session file matter because `Restore` asks for top-level files
only. Deadlock is not checked, as the process may have stopped for good.
`SyncIsComplete` compares hash and data of each file that was left alone with the
disk. Its exception (`torn`) is a file that changed between being hashed and being read
in the sync that stored it last: data of another content stand under its hash then, and
stay there as long as the file has that hash, since only hashes are compared.
`BackupIsKept` excepts files removed on purpose and broken-off restores. `Converges` is under the
assumption that the database and the disk fail only finitely often.

### Heartbeats and wakeups: `HeartbeatEvents`

Event files appear in two steps, as the client that writes them is another
process or a handler. A poll that finds one half written puts it aside under another
name (`aside`), where its writer may still complete it; the loop reads the others, tries to enqueue them for the heartbeat
session and acknowledges each by deleting its file, or keeps all of them for the
next tick. The wakeup loop looks at what is due, enqueues, acknowledges and chooses
its next sleep from what it knows. Time passes in steps of `Tick`; `Horizon` bounds
how far ahead a wakeup is set and `Nap` is the idle sleep, so that only their order
matters. Run `heartbeat_events`: an event of each mode, a one-shot and a repeated
wakeup, a queue of one, one crash. `EventIsKept`: a file goes only after its event
was queued. `OnceInTime`: nothing is queued twice for one occasion, no wakeup comes
before its time, and a cancelled one stays cancelled although the loop acknowledges
what it took in hand before. `AllComesUp`: everything comes up; how late is not
bounded. The loops are fair, and what there is to hand
over is refused only finitely often.

### Background workers: `BackgroundTasks`

A worker is started in a turn of a session and its context is a child of that
session's, so that `/new` and `/stop` reach it through `EndSession`, the shutdown
through `Signal`, and `cancel_background_task` through `Cancel`. `pc[t]` follows
`runBackgroundTask`: the status is set to running whatever it is, the sandbox is
made, the agent runs again (`Again`) until the minimum runtime is over, the context
is looked at for the last time (`Judge`), the record is written (`Record`), the
handoff joins the batch of the channel (`Hand`), the sandbox is cleaned up. A batch
restarts its timer with each handoff; a timer that has fired, or whose batch was
flushed, cannot be stopped any more and is counted in `fired`. `Process` takes a batch
and groups it by session; each group is one prompt that enters the session's queue
(`Deliver`) or is dropped. Sessions are what matters here: live, ended, or never made.

Run `background_tasks`: two workers of one channel and two session keys (scope
"user"), one with a minimum runtime, one with a sandbox, a queue of one with other
prompts in it; `/new`, `/stop`, cancellations and the shutdown at any moment and any
number of times. Two workers are the fewest that share a batch; nothing in the state
grows, so there is no other bound. Deadlock is not checked, as the process ends.
`HandoffInOnePlace`: a result is told of once, to its own session, and a cancelled
worker's never. `StatusIsTrue`: what the tools show of a worker against what became of
it. `CancelledNeverFinishes`: a cancellation before the last look is never overruled.
`EverythingEnds`: workers end, sandboxes are cleaned up, handoffs arrive or are lost.
Fairness: runs of the agent and sandbox commands return (requests and tools have
timeouts, the clean-up has two minutes), time passes, timers fire, a runner takes up
what is in its queue. New workers that ended every three seconds could put a batch off
for ever; with finitely many workers this does not happen.

### The agent turn: `AgentTurn`

Messages keep their role, the calls they make or answer, their size and their
turn; text is absent, a reply, or the token that declines to reply. `Ask`,
`Receive`, `RunTool` and `Collect` are the rounds of `Runner.Run`. `Trim`,
`Normalize`, `HeadLength` and `Compacted` are the history functions as operators
on sequences. `Settle` and `SettleFailed` are what `processPrompt` makes of the
outcome. The room that a system prompt leaves of the token budget is a choice per
request, because the prompt is put together anew each time.

Run `agent_turn`: two turns of up to three rounds; responses without calls, with
one more parallel-safe call than allowed, or with `compact_context` before another
tool; a trigger of five tokens, with which one round of messages of size one and
two is compacted; rooms of nothing, of three and of six tokens. Two turns are
needed for a turn to begin with a history that was compacted. Deadlock is not
checked: the bound on the turns is reached, or the session is cancelled.
`RequestIsSound`: neither a kept history (`NoOpenCall`) nor a request
(`RequestIsPaired`) has a call without a result, whichever of the limit, compaction
and trimming cut it, and the newest message is in the request (`NewestIsShown`).
`ReplyIsOwn`, `LastWordIsTold`: what the user is told belongs to this turn. `TurnEnds`: rounds, attempts and back-off come to an
end, provided that requests and tools return, which their timeouts see to.

`NewestIsShown` and `LastWordIsTold` leave out the turns that have compacted their own
history, in which what they say need not hold: see section 5.

### The parts of the run `parts`

All of these are safety properties: the parts have no fairness, and deadlock is not
checked because a turn, a call, a configuration or a bounded clock comes to its end.

**Bridge threads: `BridgeSessions`, `StopReachesNewest`, `NothingComesBack`.** An
event is a message, a reaction, a command or a notification. It waits in the lane of
the goroutine that will call its handler (`Arrive`, `Take`); the WhatsApp library goes
on without a handler that takes too long (`Detach`), and notifications have a goroutine
each. `Refuse` is every gate: the thread, the permission, the mute. A run registers
under its thread (`Register`), copies the history, and writes its own copy back
(`WriteBack`); `/stop` takes the entry under the lock and cancels it afterwards
(`StopLook`, `StopCancel`); `/new`, `/compact`, `/allow`, `/block`, `/mute`, `/unmute`
and recorded notifications change what they change under the lock and save afterwards.
A save is `Marshal` under the lock, then `Truncate` and `Write` outside of it, so two
of them can overlap. The snapshot store copies a file as it finds it (`Sync`). A
restart on the same disk keeps the local files (`Restart`); a new container begins with
those of the snapshot, as far as the restore comes (`Replace`). Eleven plans of two to
four events each, one restart. The plans are the sets of events that meet on one thread
or one file: a run against `/new` with syncs between, two runs against `/stop`, a note
against `/compact`, and so on.
`StopReachesNewest`: `/stop` finds the newest run of its thread while it is at work,
and nothing else. `NothingComesBack`: a file whose last save was clean holds what
memory does, and what `/new` reported as gone stays gone, whoever runs, compacts, saves
or restarts meanwhile. The exceptions are the smallest with which the code does this: a
run or `/compact` that was at work when `/new` came puts back what it had copied, and
nothing else; after a restart what counts is what a clean save, one that no other save
overlapped and that did not fail, has taken from the file; in a new container, what was
synced after such a save. What they let through is in section 5.

**Routes and the outbox: `BridgeRoutes`, `OutboxIsTrue`.** The worker claims a batch
and takes each item through `SendRoute` (`SendPrimary`, `SendMirror`, in two loops over
the channels, `Pass` and `EndOfLoop`) or `EditRoute` (`EditPrimary`,
`EditMirrorInPlace`, `EditMirrorAfresh`), then acknowledges it (`Ack`). A mirror is
remembered under the primary's message, with an age: young, past WhatsApp's edit
window, past the day after which it is forgotten. A send that fails may have arrived,
an acknowledgement may be lost, the process may be replaced: two such hitches. Two
items, a batch of two, two texts per item, four bubbles, a route with all three
platforms, one with two primaries, one without a primary. `SentIsShown`,
`SentOnceUnlessMishap`, `MirrorIsNewest`. The server of the outbox is not part of the
repository: it hands out what it does not have as sent.

**Health watch: `HealthWatch`, `LastAlertIsTrue`.** `FoundUp` and `FoundDown` are
`checkHealth` for an armed platform, `FirstUp` and `NotArmed` for one that is not, in
time counted in checks; the platform goes up and down as it likes. What the last alert
said is true, but for exactly those delays, however a platform flaps within the cooldown.
`dead_after` is two checks and the cooldown four, so that one is longer than the other
and several flaps fit into it.

**Live message: `LiveMessage`, `LiveMessageIsTrue`.** A turn feeds signals into a
bounded channel and drops what does not fit; the renderer's `select` may take any
channel that is ready, its edits take time, and the turn does not wait for it. Four
scripts of up to five signals, a queue of two. `PreviewIsOneCall`: the text of two
model calls is never mixed unless the signal between them was dropped. `AnswerStays`:
once the turn counts its answer as given, the chat shows it, until the renderer has an
edit under way beside the answer's or begins one after it (`late`); a renderer that has
been told to stop and sees it never covers the answer. A late edit covers it for good:
section 5.

**Pollers: `FeedPollers`, `NewsIsDelivered`.** One behaviour is about one of the four
feeds. A pass fetches, asks the table, passes over or posts each article to each
thread, and settles it; technology news seed a new feed silently and count deliveries
per day. A post goes to the bridge's own handler, and an article counts as
had by a thread when that handler has taken it (queued it, had it before, or left it out as
muted); whether it then reaches a chat is `PendingNotifications`. Three articles, two of one title and one out of date or unfit, two threads,
a share of one per day, two days, two failures. `SettledIsDelivered`, `ShareIsKept`,
`NoFlood`.

**Quotas: `QuotaWatches`, `QuotasAreKept`.** A pass over two accounts: `Refresh` uses
the token of the database up, `Store` puts the new one there, `Look` is the quota. A
warning is three steps, the POST (`Warn`), the note in memory (`Note`) and the file
(`WriteNotes`); the snapshot store syncs the file at its own time (`Sync`), and a restart
finds the file as it was, as the snapshot has it, or none. `TokensAreKept`: each fault or
restart costs one account at most. `WarnedOncePerPeriod`: a second warning in a period
costs a fault, or a restart that came before the file was written or that found an older
file than it left (`forgotten`); what is noted was received. Two periods, two faults, one
restart, four tokens.

**Messenger's connection: `MessengerConnection`, `ClientsComeBack`.** `flag` and
`scheduled` are the two flags of the client; `where[c]` is the step of each goroutine
in `attemptReconnect` and `ReloadCookies`, which timers and cookie uploads run. Events
of the library come at any time. Three attempts and one upload; nothing in the state
grows. `UpIsTrue` and `DownIsLookedAfter` each name the one case in which they do not
hold, by the history variables `overtaken` and `quiet`.

**Messenger's sends: `MessengerSending`, `SendsAreSound`.** A text, an image with its
upload, or an edit with a continuation, two calls side by side; each piece is a task
with the millisecond of its making as its stamp, `Retry` sends the same task again,
and a request that was given up may still land. Two pieces, two attempts, three
milliseconds: a stamp shared by two calls, and a late first attempt, both occur.
`PiecesStandOnce`, `SuccessIsTrue`.

**Messenger's inbox: `MessengerInbox`, `InboxIsSound`.** `Relay` is the filters of
`relay` and the memory of what was seen, `Pruned` its cleaning, `Dispatch` and
`RunDispatched` the one dispatcher. Two messages, delivered again at any time; the
memory is pruned at each message, a day is one step of the clock, and so is the slack;
one restart. `TakenOnce`, `HandledInOrder`.

**WhatsApp's login: `WhatsAppPairing`, `ClientsComeBack`.** The dial at boot, QR sessions,
and the loop of `scheduleReconnect` with its flag. The boot and the loop may dial side by
side; each replaces the client, opens its QR channel and dials after that. The sessions of
replaced clients stay open (`older`, two at most), and a code of one may be scanned: then
its device is paired (`stray`) and `IsLoggedIn`, which reads the newest client, does not
see it. `CodeIsComing`: a newest client that is not paired has a code open or on its way,
but for the window in which the loop has decided to end and has not yet reset its flag
(`swallowed`).

**Model calls: `ModelCalls`, `CallsAreSound`.** One call of one of five clients. The
server refuses, fails, complains in the stream, stops early or sends its end marker;
the caller may go away, the budget of time may pass. `AnswerIsOneAttempts`: the answer
is the words of one attempt in their order, from the first on; words are missing at its end
only if the stream stopped without its marker or brought an error payload, and never from
"responses". An answer without a word of text is taken only from a chat stream, or from a
zen stream of thoughts that brought no error. `AskedWithinReason`. Three attempts, two
words.

**Configuration: `Configuration`, `AcceptedIsUsable`.** A file sets some fields;
`Decode` lays them over the defaults, `Resolve` and `Validate` follow, and
`OverrideWorkspaceRoot` moves the directories. The files are all combinations within
seven groups of fields that are looked at together: numbers around zero, token budgets,
durations, clock settings, catalogues of models, routes, and switches with their
addresses. `TurnsCanRun` and `PartsCanStart` say what the other modules take for
granted of their settings.

**Sandboxes: `Sandboxes`, `SandboxesAreKnown`.** Calls of `CreateSandbox`, `StartSandbox`,
`StopSandbox` and `DeleteSandbox` of one name, each a sequence of commands whose outcome
the host decides; the process of each start with the goroutine that waits for it
(`Boots`, `Exits`, `Clear`); and `active`, the book of the manager. Inspecting, listing
and executing change nothing that the manager keeps; different names share only the
mutex. `BookIsTrue`: a process is in the book from the end of `setActive` until it is
cleared. `StoppedIsTrue`: what a stop found and reported as stopped, what a failed start
had started and what was found before a directory was removed is on its way out. Both
except processes that overlap (`crowded`), as entries are set and cleared by name, and
the second one where `Kill` may be refused (`use_sudo`). Two calls and two processes, so
that two starts may overlap, or follow each other with stops and deletes between and
beside them. The calls are interchangeable (`Alike`), which is sound as the run checks
invariants only; the processes are taken in a fixed order.

`PartsTyped` is the type invariant of all thirteen.

### Bounds

Every constant called `Max...`, `Horizon`, `Nap`, `QueueCap`, `LastMs`, `LastTime` or
`Plans` is a bound that the configurations give. `QueueCap`, `MaxRounds`, `MaxCalls`, `MaxAttempts`, `Trigger`
and `Preserve` are settings of the program with smaller values; the proofs hold for
all values. `MaxPosts`, `MaxCrashes`, `MaxWrites`, `MaxRestarts`, `MaxTurns`,
`Horizon`, and in the parts `Plans`, `MaxVersion`, `MaxBubbles`, `MaxHitches`, `Scripts`,
`MaxDays`, `MaxSlips`, `MaxTokens`, `MaxPeriods`, `MaxFaults`, `MaxReboots`,
`MaxSessions`, `LastMs`, `LastTime` and `MaxTaken` only keep the instances finite.
The comments of the constants say what a bound is on. In each part the bounds let every
action happen and every exception that a property names.

## 4. What is proved

Each `*_proofs` module has one inductive invariant, with one lemma per group of
conjuncts that a step may disturb, and the theorems follow from it. The assumptions
are the named `ASSUME`s on the constants: queues and attempts are positive, markers
such as `NoSession` are outside of the sets they mark; nothing bounds the number of
events, sessions, calls, files, notes or restarts. Every safety invariant of the passing
runs is proved, so a run shows on a small instance, and on the way to a mistake in the
model, what its theorem says of all of them.

- Sessions. `IInv` is the conjunction of the safety invariants with `Bookkeeping`.
  None of them is inductive alone: `NoOrphan` needs that whoever removed a session
  still has it in hand, `PromptInOnePlace` needs to know in which step a prompt is
  when its turn enters the history, and `NoLostTurn` (who reads a history and later writes
  it back has the run lock in between, and a copy that is still current) needs both. Theorems
  `TypeCorrect`, `MapHoldsLiveSessions`, `NoSessionOrphaned` (together
  `MapAndContextsAgree`), `TurnsAreSerialised`, `PromptsStayInPlace`,
  `NoticeMeansShutdown`, `SilenceMeansReset` (together `SilenceIsAlwaysMeant`).
  `ImplementsTheConversation` is the refinement, for any number of sessions and events:
  `KindsFit` is added, that each step is taken for the kind of event it is made for, and then
  saving a turn maps to `Keep` or `Pass` and storing a compaction to `Fold` (`NoLostTurn` says that the
  copy written back is the history of that moment), publishing to `Open`, each way to
  end to `Finish`, and every other step is unseen. `StoppedMeansStopped`
  is a temporal theorem: a prompt that is stopped early has no step to an answer, an
  invariant of the suffix that is proved with the same `IInv`.
- The agent turn. `NoOpenCall` is not inductive: while tools run there are open calls, and
  a history is cut at places that know nothing of them. `IInv` of `AgentTurn_proofs` adds
  that calls stand before their results and that the only calls without one are those in
  hand (`HistoriesAreSound`), that all calls are of rounds that are over, so that those of
  the next response are new (`CallsArePast`), that what this turn has added stands behind
  what was kept (`TurnIsBehind`), and where the counters stand (`LimitsHold`). Below it are
  lemmas about the history functions for every history: `Normalize` keeps the order and
  leaves both halves of a pair or neither (`NormalizeKeeps`, `NormalizePairs`), `Trim`
  gives a paired request with the newest message (`TrimIsPaired`, `TrimShowsNewest`),
  `Compacted` keeps open only what was open (`CompactedKeeps`). Theorems `TurnInvariance`,
  `RequestsStaySound`, `RepliesStayOwn`, `LastWordsAreTold`, under `TurnAssumption`:
  limits are positive and a response may call nothing; budgets may be negative.
- Locks. `IInv` adds to the properties which phase a call may be in with which
  tokens. Counting references is done with the cardinality theorems of finite sets.
  Theorems `LocksTyped`, `LocksExclude`, `LocksShareOneEntry`, `LocksAreCollected`,
  `TokensAreConserved` (together `BooksStayRight`), and `LocksImplementService`: the
  step with which a call has all its tokens maps to `Grant`, the one with which it lets
  go of them to `Release`, and every other to a stutter. That a grant finds nobody else with
  any of the keys is where the invariant is needed.
- Notifications. `IInv` adds what a handler and a drain know at each of their steps,
  of rows that others may have deleted meanwhile (`HandlersOK`, `DrainsOK`), and that
  a listed copy of a row agrees with the row (`CopiesOK`). Theorems
  `NotificationsTyped`, `PromisedIsKept`, `MarksAreTrue`. `ImplementsTheDelivery` is the
  refinement: it needs in addition that what a drain has listed was taken in, whatever
  another drain has done to the row since (`ListedKept`). The notifications in the queue
  are those of the rows; counting a failure replaces a row and is unseen, and deleting
  one is a `Leave` unless another row has the same notification or it was gone already.
- Snapshots. `Inv` adds which of its rows a sync may still delete and why
  (`StaleIsExcused`, `WalkIsExcused`, `DiskIsExcused`), what it has stored so far, that the
  hashes in hand are those of the files left alone (`HashesAreFresh`), and that a row not
  excepted has the data of its hash (`RowsAreWhole`).
  Theorems `SnapshotTyped`, `SyncsAreComplete`, `BackupsAreKept`, `IdentitiesAreKept`.
- Heartbeats. `Inv` adds that what is being acknowledged has been queued, that a file
  still there after it was queued is one that could not be deleted, and that what the
  loop has in hand is due; a cancelled wakeup has no due time (`CancelledIsOff`). Theorems
  `HeartbeatTyped`, `EventsAreKept`, and the action properties `NothingComesTwice`,
  `NothingComesEarly` and `NothingCancelledComesBack` (together `OnceAndInTime`).
- Background workers. `Inv` adds which ends are possible at which step (`EndsAreKnown`):
  without it not even the types are inductive, because the status is looked up by the end.
  Theorems `BackgroundTyped`, `RecordsAreTrue`, and the action property
  `CancelledStaysCancelled`. `HandoffsStayInOnePlace` is about a number of places, and a
  sum is hard to reason about: it is proved with `Apart`, which says of each two of the
  places that a handoff is not in both, nor in one of them twice.
- The parts. `PartsInv` (in `PartsInvariants`) is the conjunction of one invariant per part;
  for each, a section of `MCParts_proofs` shows that it holds at first and that the part's
  own steps keep it, and the last section that a step of `MCParts` is one of a part and
  leaves the variables of the others alone. Theorems `PartsInvariance`, `PartsStayTyped`,
  and one for each property of the run. What had to be added to the properties says most
  about why they hold:
  - bridge runs: an event is in one place of the plan or of its lane (`InOnePlace`), so a
    run registers once, and an entry that `/stop` has in hand cannot come back
    (`TakenForGood`) before its run is cancelled. `StopsReachNewestRuns`.
  - bridge files and histories: a clean save is the only one of its file and writes what
    memory holds (`CleanIsAlone`, `CleanIsCurrent`); what is deleted is in no history, copy,
    save or file (`GoneFromMemory`, `GoneFromFiles`), which needs that nothing is in one
    before it is written (`OnlyWritten`); the snapshot has what the files once had, without
    what was synced as gone (`SnapshotIsBehind`). `NothingEverComesBack`.
  - outbox: what the worker has claimed agrees with the server (`ClaimsAreCurrent`), the
    message it has in hand is the item's and shows its text (`WorkIsTrue`), and the copies
    in a channel are paid for by the attempt under way or by a mishap (`CopiesAreExcused`).
    `OutboxStaysTrue`.
  - health watch: bounds that relate the two counters of the watch to how long the platform
    has been up or down (`CooldownHolds`, `DownIsCounted`). `AlertsAreTrue`.
  - live message: the signals on their way follow each other call by call
    (`SignalsFollow`), so the preview can only be of the call that comes next; as long as no edit
    is late, none is under way once the answer stands (`NoneIsLate`).
    `LiveMessageStaysTrue`.
  - pollers: `ReachedSoFar`, `SharesAdd`, `NewFeedIsSettled` and `OneOfATitle` say what is
    true in the middle of a pass. `NewsStaysDelivered`.
  - quotas: what is fresh is what the service takes next, and a note, in memory, file or
    snapshot, is of a period that has begun and of a warning that was received; a warning
    without a note is the one in hand or was paid for (`FreshIsValid`, `NotesAreTrue`).
    Counting accounts uses cardinalities.
    `QuotasStayKept`.
  - clients: one reload at a time, no socket from its `Disconnect` to its `Start`, and the
    pending flag set exactly while a timer is; a WhatsApp client that is not paired has a
    session that was dialled, or one on its way (`SessionIsOnItsWay`). `ClientsStayLookedAfter`.
  - sends: what stands or is under way is a piece with the stamp of its task
    (`ThreadIsMade`), and no two in the thread have one stamp. `SendsStaySound`.
  - inbox: what was forgotten is old, and what is handled, in hand and waiting is in the
    order of arrival (`ForgottenIsOld`, `OrderIsKept`, `NoneIsLost`). `InboxStaysSound`.
  - model calls: how often each back end was asked at each step, that the words of a
    stream are its own, and that a marker without an error comes after all of them
    (`AskedSoFar`, `WordsAreThisAttempts`, `MarkersAreTrue`). `CallsStaySound`.
  - configuration: what each stage has settled (`Decoded`, `Resolved`). `AcceptedStaysUsable`.
  - sandboxes: which calls have a process in hand, each its own, and that whoever has company
    is known to (`OwnInPlace`, `OwnIsOne`, `AloneOrCrowded`). `SandboxesStayKnown`.

  The assumptions are those of `MCParts`: events belong to threads of the instance, routes
  and accounts are finite lists, articles have ids of their own, at most one of the calls
  side by side is an edit of a message, and a file has been decoded, so that the fields that
  are compared as numbers are numbers (`FilesAreDecoded`: YAML decodes into typed fields).

Where a type invariant or a part of a property is proved, the runs do not repeat it
under its own name; the types that are part of a checked property are checked with it.

Only model-checked: every liveness property (`SessionsGoOn`, `AcquireReturns`,
`QueueIsWorkedOff`, `Converges`, `AllComesUp`, `TurnEnds`, `EverythingEnds`), because the
prover has no rules for fairness. The two properties that are expected to fail are
violated, and nothing of them is to be proved.

## 5. Where the code and its documentation disagree

Shown by runs that are expected to fail:

- `snapshots_wiped`: a restore that fails in a fresh container is taken for done, and
  the next sync deletes the rows of the session directory.
- `turn_streamed`: `StreamChat` returns the text of a stream without its tool calls, and
  a streamed turn that began with a call ends with the empty-reply notice.

Found while reading. The models do what the code does, so the properties are stated
with these as their exceptions, or they are outside of what is modelled:

Sessions, workers, persistence:

- Two first messages of a channel at once each build a session; the second replaces the
  first together with the prompt in its queue (`service.go:788`, against "one shared
  session per channel", `docs/architecture.md:86`). `UnansweredOnlyIfReset` therefore
  allows a reset by another message.
- `README.md:113` has wakeups more precise than the heartbeat interval. The loop sleeps
  until the earliest wakeup it knows, or an hour when it knows none, and scheduling one
  does not wake it (`cron.go:321`): a wakeup can come up to an hour late. `AllComesUp`
  says only that it comes.
- The handoff of a worker is dropped when the queue is full (`service.go:2927`, against
  `docs/architecture.md:280`); so may be those of a flush at shutdown, as the
  sessions' contexts are done by then. `EverythingEnds` therefore allows a handoff to be lost.
- Cancelling a worker does not settle its record: the goroutine may set it to running
  (`background.go:122`), failed or completed afterwards, and cancelling one that has
  finished makes it read as canceled. `StatusIsTrue` is what remains true.
- `/new` and `/stop` cancel the workers of the session without a handoff.
- `/compact` answers with an error when the folded history could not be persisted
  (`service.go:2568-2572`), though the session goes on with the folded one.
- A notification without a dedupe key is answered "sent" whether or not it arrived: an
  error of the direct send is only logged, and so is a failed save of a route whose send
  failed (`notifications.go:264-270, 306-313`).
- The process does not wait for its workers (`main.go:236`), and their sandboxes, which
  are machines of the host, stay up if it ends before the clean-up.
- A worker that panics ends the process: nothing recovers in `runBackgroundTask`.
- `compact_context` can make a history shorter than it was before the turn. The reply is
  looked for behind the old length and can be missed, which the user reads as the
  empty-reply notice.
- `Touch` within the minimum interval after a sync is consumed without one
  (`persist.go:334`); a file that changes between being hashed and being read is stored
  with the hash of the former content, and if it comes to have that content again, the
  wrong data stay (`persist.go:249-258`).
- `Restore` looks only at top-level files to find out if there is local state, and then
  overwrites nested ones (against "existing local files always win", `persist.go:106`).
- A row is dropped after three attempts, whoever drains it, and each POST drains
  everything (`pending.go:128`).
- A damaged event file is renamed again at each poll.
- Drains are not kept apart. `pending.go:98-101` says never to send a row after its key
  is marked delivered; a second drain that asked before the mark was set does.

Bridge:

- A run of a bridge conversation writes back the history that `/new` has cleared, and a
  notification recorded meanwhile is lost (`bridge/service.go:504, 620`). A new container
  begins with the last snapshot (`bridge/service.go:637-640`): what was cleared after it is
  there again.
- The three files are marshalled under the lock and written outside of it: an older
  state can replace a newer one, and a file that two saves tore is read as empty at the
  next start.
- Messenger has one dispatcher, so a `/stop` typed during a run is handled after it
  (against `commands.go:426-428`); only a reaction's run can be stopped that way.
- A run that was cancelled, or stays silent, leaves its placeholder in the thread.
- `/unmute <feed>` while all are muted unmutes all of them, and the first `/mute`
  replaces what the configuration mutes by a list of its own.
- On recovery the health watch means to drain the pending queue (`pending.go:80`), but
  compares the last 13 bytes of a message with a suffix of 14 (`healthwatch.go:96`), so
  it never does. A platform that was reported dead and turns out to be logged out is not
  reported again.
- Of two Messenger channels in one route only the last one's message can be edited. An
  item for a route without one is acknowledged as failed though its mirrors have it.
- The live message's renderer may begin or finish an edit after it was told to stop and
  cover the answer (`thinking.go:154`, and the dots on Messenger), for good and against
  "finally replaced by the complete reply" (`thinking.go:23-24`).

Clients:

- Messenger: `IsConnected` is read before `reloadMu` is taken, so attempts stack and a
  later one tears down a connection that is up (against `messenger.go:225-228`). The old
  client's return between `setConnected(false)` and its `Disconnect` leaves the flag up
  without a socket. A first dial that fails without an event, or a cookie upload that
  fails before the first connection, is not retried.
- Messenger: `SendText` reports success with the id of an earlier piece when a later one
  failed. A stamp is a millisecond, which two sends can share: the server drops one.
- Messenger: what waited for the dispatcher at a restart is lost, since it is marked as
  seen before it is handled and too old when it is delivered again. Reactions run the
  agent on the goroutine that reads frames, as messages once did.
- WhatsApp: a request to reconnect that arrives after the loop has decided to end, and
  before it resets its flag, is swallowed. A code of a client that was replaced can still be
  scanned; its device is then paired, while `IsLoggedIn` reads the newest client
  (`whatsmeow_client.go:387, 670`) and goes on asking for a code.

Model back ends, pollers, configuration:

- A zen, vision or chat stream that is cut off is taken for whole; error payloads in a
  chat stream are ignored. A zen stream that brings thoughts and no reply text is an answer
  without text (`zen.go:304-309`, against "no reply text is an error", `zen.go:241-242`); text
  beside an error payload is an answer (`vision.go:355-360`, against `vision.go:315-316`); the words of a failed zen attempt stay in the live message
  with those of the next. A huge `Retry-After` overflows the duration
  (`parseRetryAfter`). `responsesClient.chatStream` ignores overrides of model and URL.
- Pollers post nothing without a database, though `notify.New` logs that they "will run
  without dedupe". Technology news that could not be delivered are settled all the same.
  The seeding of a new feed can break off, and the rest of it is then posted. An error
  with one organisation of Neon ends the whole pass. A rotated Supabase token that does
  not get into the database is lost for good; its warnings are per day, not per cycle.
  A quota warning is posted before it is noted in the file, and the file may be lost with the
  container: after a restart in between it comes again.
- `target_tokens` is not compared with a trigger that is derived, and a trigger may
  exceed the budget. Durations that are not positive are accepted, and their readers fall
  back. `OverrideWorkspaceRoot` moves the session and memory directories, and neither
  the WhatsApp store nor the sandboxes.
- The book of the sandboxes goes by name. Two starts of a name at once both start a
  process; the second fails as the directory is in use, and stops the machine of the
  first on its way out; the entry of the one that lives is deleted by the one that ends
  (`nspawn.go:123`). A process that ends before `setActive` stays in the book for good,
  and every later start says that it is running.
- A forced stop that cannot kill, as `sudo` may not let it, says stopped all the same
  (`nspawn.go:147`), as does one that has waited for 5 s. A delete without force of a
  sandbox that is stopped fails, since there is no machine to terminate. What a
  `debootstrap` that was broken off has unpacked is taken for a root file system
  (`needsBootstrap`).
- Exports of a Neon database cannot work: the two ends of the pipe are swapped
  (`neonexport.go`, `dumpEncrypt`).

## 6. What is not modelled

Wording and format of prompts, replies, summaries and audit entries; sizes other than
the ones a property is about; the parsing of times, cron expressions, JSON, feeds and
cookies; the contents of tools. A model call, a send and a statement are single steps
with every outcome they can have, where no module is about them. Data races in the sense
of the Go memory model are not modelled: all shared state of the modelled components is
accessed under its mutex or through channels.

Of the parts in `MCParts`: `/model`, `/status`, `/help` and the lists of subscriptions of
the bridge; typing indicators and attachments of the clients; overrides and formats of
requests; configuration fields that are passed on unchecked.

Not modelled at all, with the reason: the dream loop and the nudge state (one goroutine
whose only state is a file of its own); the tools (file editing and remote calls without
shared state beyond the locks); prompt context, skills and secrets (read and formatted);
Neon exports; the dashboard, the audit log and the
HTTP server (reads and appends); the session id and the gate of the zen back end; process
start and shutdown beyond the signal that the modules have as an action.

The parts of `MCParts` are checked one at a time. Their meeting points are
nondeterministic choices on both sides; that a Messenger which is down makes the sends of
a drain fail, for example, is not derived from `MessengerConnection` but allowed by
`PendingNotifications` at any moment.

## 7. Plan

What would come next, in this order:

1. `AgentTurn` as the detail of one step of `Conversation`, and abstract specifications
   behind `SnapshotStore` and `BackgroundTasks`, with the refinements proved from the
   invariants of section 4.
2. Liveness of the parts: a route's item is sent in the end, a dead Messenger comes back,
   under fairness of their servers.
3. Algorithms as operators against reference definitions: message splitting, text
   editing tools, active hours, share-based splitting of a history for its summary.

New runs take the place of weaker ones where the whole would become too slow to check
at each change; a run that shows a divergence goes once the code or its text is repaired.
