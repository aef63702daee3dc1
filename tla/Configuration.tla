--------------------------- MODULE Configuration ---------------------------
(***************************************************************************)
(* Loading config.yaml (src/internal/config/config.go: Load, defaultConfig, *)
(* resolvePaths, validate, and the functions that read a value later), and  *)
(* moving the workspace with a flag.  What the other parts take for granted *)
(* of their settings is what has to hold of every file that is accepted.    *)
(* Only fields whose values decide something are kept; a file sets some of  *)
(* them, Blank is the empty string and Garbled one that does not parse.     *)
(***************************************************************************)
EXTENDS Integers, Sequences

\* Sets of files, that is of functions from some fields to values, one set for
\* each part of the file.
CONSTANTS Limits, Tokens, Durations, Clocks, Catalogues, RouteSets, Switches

VARIABLES
  stage,      \* "read", "decoded", "resolved", "accepted", "refused"
  file,       \* what the file sets
  config      \* the settings

configvars == <<stage, file, config>>

Blank == -2
Garbled == -1

\* The variable that holds a list: none is named, or it is "empty" or "filled".
NoVariable == "none"

DefaultWindow == 24000

Defaults ==
  [ max_agent_loops |-> 12, max_tool_calls |-> 24, max_attempts |-> 3, max_log |-> 200,
    max_file_bytes |-> 1000, ack_max_chars |-> 300,
    window |-> DefaultWindow, max_tokens |-> 4000,
    compaction |-> TRUE, trigger |-> 0, target |-> 0, preserve |-> 12,
    timeout |-> 180, retry_initial |-> 2, retry_max |-> 8, exec_timeout |-> 120,
    min_runtime |-> Blank, setup_timeout |-> 1200, poll |-> 5, every |-> 30,
    sync |-> Blank, dream_every |-> 360,
    heartbeat_target |-> FALSE, event_webhook |-> FALSE,
    active_start |-> Blank, active_end |-> Blank,
    dream |-> FALSE, sleep_start |-> Blank, sleep_end |-> Blank,
    model |-> "gpt-4.1-mini", models |-> <<>>,
    bridge |-> FALSE, routes |-> <<>>, messenger |-> FALSE, cookies |-> FALSE,
    jids_env |-> NoVariable, jids |-> {},
    persistence |-> FALSE, dsn |-> FALSE, exclude |-> {},
    sandbox |-> FALSE, force |-> FALSE,
    session |-> <<"workspace", ".element-orion">>, memory |-> <<>>, store |-> <<>> ]

DefaultExclude == {"sandboxes", "whatsapp", "incoming-attachments", "logs"}

Init ==
  /\ stage = "read" /\ config = Defaults
  /\ file \in Limits \cup Tokens \cup Durations \cup Clocks \cup Catalogues \cup RouteSets
              \cup Switches

\* defaultConfig, with the file's values over it.
Decode ==
  /\ stage = "read" /\ stage' = "decoded"
  /\ config' = [f \in DOMAIN Defaults |-> IF f \in DOMAIN file THEN file[f] ELSE Defaults[f]]
  /\ UNCHANGED file

----------------------------------------------------------------------------
(* resolvePaths                                                            *)

Positive(n, default) == IF n =< 0 THEN default ELSE n
Filled(d, default) == IF d = Blank THEN default ELSE d
Under(dir, name) == Append(dir, name)

ResolvedTasks(c) ==
  [c EXCEPT !.max_tool_calls = Positive(@, 24), !.max_log = Positive(@, 200),
            !.sandbox = @ \/ c.force, !.setup_timeout = Filled(@, 1200)]

ResolvedDirectories(c) ==
  [c EXCEPT !.memory = IF @ = <<>> THEN Under(c.session, "memory") ELSE @,
            !.store = IF @ = <<>> THEN Under(c.session, "whatsapp") ELSE @]

ResolvedLists(c) ==
  [c EXCEPT !.jids = IF c.jids_env = "filled" THEN {"variable"} ELSE @]

ResolvedModelCalls(c) ==
  [c EXCEPT !.window = Positive(@, DefaultWindow), !.max_attempts = Positive(@, 3)]

ResolvedRetries(c) ==
  [c EXCEPT !.retry_initial = Filled(@, 2), !.retry_max = Filled(@, 8)]

ResolvedLoops(c) ==
  [c EXCEPT !.ack_max_chars = Positive(@, 300), !.poll = Filled(@, 5),
            !.dream_every = Filled(@, 360)]

ResolvedExclude(c) == [c EXCEPT !.exclude = @ \cup DefaultExclude]

\* A variable that is named and holds nothing is an error, an empty list would
\* let everybody in.
Resolve ==
  /\ stage = "decoded"
  /\ stage' = IF config.jids_env = "empty" THEN "refused" ELSE "resolved"
  /\ config' = ResolvedExclude(ResolvedLoops(ResolvedRetries(ResolvedModelCalls(ResolvedLists(
                 ResolvedDirectories(ResolvedTasks(config)))))))
  /\ UNCHANGED file

----------------------------------------------------------------------------
(* validate                                                                *)

ActiveEntry(c) ==
  {i \in 1..Len(c.models) : c.models[i].enabled /\ c.model \in {c.models[i].name, c.models[i].id}}

ValidModels(c) ==
  /\ \A i \in 1..Len(c.models) : c.models[i].name # "" /\ c.models[i].id # ""
  /\ \A i, j \in 1..Len(c.models) : i # j => c.models[i].name # c.models[j].name
  /\ c.models # <<>> => ActiveEntry(c) # {}

ValidLimits(c) ==
  c.max_agent_loops > 0 /\ c.max_tool_calls > 0 /\ c.max_file_bytes > 0

ValidCompaction(c) ==
  c.compaction =>
    /\ c.trigger >= 0 /\ c.target >= 0 /\ c.preserve >= 0
    /\ (c.trigger > 0 /\ c.target > 0) => c.target < c.trigger

Parses(d) == d \notin {Blank, Garbled}

\* Variant: a window of just the answer's size is let through.
ValidModelCallsLoose(c) ==
  /\ Parses(c.timeout) /\ Parses(c.retry_initial) /\ Parses(c.retry_max)
  /\ c.max_attempts > 0 /\ c.window > 0 /\ c.max_tokens > 0
  /\ c.window >= c.max_tokens

ValidModelCalls(c) ==
  /\ Parses(c.timeout) /\ Parses(c.retry_initial) /\ Parses(c.retry_max)
  /\ c.max_attempts > 0 /\ c.window > 0 /\ c.max_tokens > 0
  /\ c.window > c.max_tokens

ValidTasks(c) ==
  /\ Parses(c.exec_timeout)
  /\ c.min_runtime # Garbled /\ c.max_log > 0
  /\ c.sandbox => Parses(c.setup_timeout)

\* validateRoutes: an id for the platform the channel is on.
ValidRoutes(c) ==
  \A r \in 1..Len(c.routes) :
    /\ c.routes[r] # <<>>
    /\ \A i \in 1..Len(c.routes[r]) :
         LET ch == c.routes[r][i]
         IN  ch.platform \in {"messenger", "whatsapp", "discord"} /\ ch.platform \in ch.ids

HeartbeatEnabled(c) == c.every # Blank /\ c.heartbeat_target

ValidHours(start, end) ==
  /\ (start = Blank) = (end = Blank)
  /\ Garbled \notin {start, end}

ValidHeartbeat(c) ==
  /\ c.every # Garbled /\ Parses(c.poll) /\ c.ack_max_chars > 0
  /\ ValidHours(c.active_start, c.active_end)

ValidDream(c) ==
  c.dream => /\ Parses(c.dream_every)
             /\ ValidHours(c.sleep_start, c.sleep_end) /\ c.sleep_start # Blank

ValidParts(c) ==
  /\ c.event_webhook => HeartbeatEnabled(c)
  /\ c.messenger => c.cookies
  /\ c.bridge => ValidRoutes(c)
  /\ c.persistence => c.dsn /\ c.sync # Garbled

Validate ==
  /\ stage = "resolved"
  /\ stage' = IF /\ ValidModels(config) /\ ValidLimits(config) /\ ValidCompaction(config)
                 /\ ValidModelCalls(config) /\ ValidTasks(config) /\ ValidHeartbeat(config)
                 /\ ValidDream(config) /\ ValidParts(config)
              THEN "accepted" ELSE "refused"
  /\ UNCHANGED <<file, config>>

\* The flag moves the workspace, and with it a session directory that was in
\* it and the memory in that; the directories derived from it stay.
OverrideWorkspaceRoot ==
  /\ stage = "accepted" /\ Head(config.session) # "override"
  /\ LET moved == IF config.session = <<"workspace", ".element-orion">>
                  THEN <<"override", ".element-orion">> ELSE config.session
     IN  config' = [config EXCEPT
           !.session = moved,
           !.memory = IF @ = Under(config.session, "memory") THEN Under(moved, "memory") ELSE @]
  /\ UNCHANGED <<stage, file>>

Next == Decode \/ Resolve \/ Validate \/ OverrideWorkspaceRoot

Spec == Init /\ [][Next]_configvars

----------------------------------------------------------------------------
(* What the parts read                                                     *)

InputBudget(c) == IF c.window - c.max_tokens =< 0 THEN c.window ELSE c.window - c.max_tokens

Trigger(c) ==
  IF ~c.compaction THEN 0
  ELSE IF c.trigger > 0 THEN c.trigger
  ELSE Positive((InputBudget(c) * 3) \div 4, InputBudget(c))

Target(c) ==
  IF ~c.compaction THEN 0
  ELSE IF c.target > 0 THEN c.target
  ELSE Positive((Trigger(c) * 2) \div 3, Trigger(c) \div 2)

PreserveRecent(c) == IF ~c.compaction THEN 0 ELSE Positive(c.preserve, 12)

\* A duration as its reader gets it.
Lasts(d, default) == Positive(d, default)

\* Every variable keeps its type.
TypeOK ==
  /\ stage \in {"read", "decoded", "resolved", "accepted", "refused"}
  /\ DOMAIN config = DOMAIN Defaults /\ DOMAIN file \subseteq DOMAIN Defaults

\* Whatever the file says, a turn of an accepted configuration has at least
\* one model call with one attempt and room for its answer, and compaction
\* begins above what it leaves, unless only the target was given.
TurnsCanRun ==
  LET c == config
  IN  /\ c.max_agent_loops > 0 /\ c.max_tool_calls > 0 /\ c.max_attempts > 0
      /\ InputBudget(c) > 0 /\ InputBudget(c) + c.max_tokens =< c.window
      /\ c.compaction =>
           /\ PreserveRecent(c) > 0 /\ Trigger(c) > 0
           /\ Target(c) < Trigger(c) \/ (c.target > 0 /\ c.trigger = 0)

\* Loops and clients have what they read without asking: a model, times that
\* are more than nothing, hours with both ends, channels with an address, and
\* no list that is empty because its variable was.
PartsCanStart ==
  LET c == config
  IN  /\ c.models # <<>> => ActiveEntry(c) # {}
      /\ \A d \in {Lasts(c.timeout, 180), Lasts(c.exec_timeout, 120), Lasts(c.poll, 5),
                   Lasts(c.every, 30), Lasts(c.sync, 1), Lasts(c.dream_every, 360),
                   Lasts(c.retry_initial, 2), Lasts(c.retry_max, 8)} : d > 0
      /\ c.event_webhook => c.heartbeat_target
      /\ c.dream => Blank \notin {c.sleep_start, c.sleep_end}
      /\ c.bridge => \A r \in 1..Len(c.routes) :
           \E i \in 1..Len(c.routes[r]) : c.routes[r][i].platform \in c.routes[r][i].ids
      /\ c.jids_env # NoVariable => c.jids # {}
      /\ DefaultExclude \subseteq c.exclude
      /\ c.force => c.sandbox

\* Both together, of every file that validation lets pass.
AcceptedIsUsable == stage = "accepted" => TurnsCanRun /\ PartsCanStart
=============================================================================
