------------------------- MODULE MessengerConnection -------------------------
(***************************************************************************)
(* The connection of the Messenger client (src/internal/messenger/          *)
(* messenger.go): the flag IsConnected reads, the reload of the cookies     *)
(* that both an upload and the automatic reconnect run, the one timer that  *)
(* arms the reconnect, and the keepalive that arms it as a safety net.  The *)
(* library's socket is the environment: its events come at any time.        *)
(***************************************************************************)
CONSTANTS
  Attempts,   \* goroutines of fired timers; more than one, attempts stack
  Uploads     \* goroutines that serve a cookie upload

VARIABLES
  flag,       \* Client.connected
  scheduled,  \* Client.reconnScheduled
  timer,      \* a time.AfterFunc that has not fired
  keepalive,  \* the ticker started with the first connection runs
  socket,     \* of the client in use
  where,      \* per goroutine, the step it is at in attemptReconnect and ReloadCookies
  overtaken,  \* history: the flag was last raised while a reload was on its way
              \* to take that socket down
  quiet       \* history: the last failure was one that nobody hears of, a dial
              \* or the library's retries without an event, or an upload

armvars == <<scheduled, timer>>
mcvars == <<flag, scheduled, timer, keepalive, socket, where, overtaken, quiet>>

Callers == Attempts \cup Uploads

Init ==
  /\ flag = FALSE /\ scheduled = FALSE /\ timer = FALSE /\ keepalive = FALSE
  /\ socket = "dialling"
  /\ where = [c \in Callers |-> "idle"]
  /\ overtaken = FALSE /\ quiet = FALSE

\* setConnected.  Raised while a reload is between its own setConnected(false)
\* and its Disconnect, the flag will outlive the socket.
Says(up) ==
  /\ flag' = up
  /\ overtaken' = (up /\ \E c \in Callers : where[c] \in {"cookies", "teardown"})

\* armReconnect, with the flag as it is after the step.
Arm ==
  IF scheduled \/ flag' THEN UNCHANGED armvars
                        ELSE scheduled' = TRUE /\ timer' = TRUE

----------------------------------------------------------------------------
(* Events of the library                                                   *)

Connected ==
  /\ socket = "dialling" /\ socket' = "up"
  /\ quiet' = FALSE
  /\ Says(TRUE)
  /\ keepalive' = TRUE
  /\ UNCHANGED <<armvars, where>>

\* Connect returns an error, which is logged.
DialFails ==
  /\ socket = "dialling" /\ socket' = "dead" /\ quiet' = TRUE
  /\ UNCHANGED <<flag, armvars, keepalive, where, overtaken>>

TransientDisconnect ==
  /\ socket \in {"dialling", "up"} /\ socket' = "retrying"
  /\ Says(FALSE)
  /\ UNCHANGED <<armvars, keepalive, where, quiet>>

Reconnected ==
  /\ socket = "retrying" /\ socket' = "up"
  /\ Says(TRUE)
  /\ UNCHANGED <<armvars, keepalive, where, quiet>>

\* Variant: a refused reconnect is logged and that is all.
PermanentErrorLogged ==
  /\ socket \in {"dialling", "up", "retrying"} /\ socket' = "dead"
  /\ quiet' = FALSE
  /\ Says(FALSE)
  /\ UNCHANGED <<armvars, keepalive, where>>

PermanentError ==
  /\ socket \in {"dialling", "up", "retrying"} /\ socket' = "dead"
  /\ quiet' = FALSE
  /\ Says(FALSE)
  /\ Arm
  /\ UNCHANGED <<keepalive, where>>

\* The library stops trying without an event.
GivesUp ==
  /\ socket = "retrying" /\ socket' = "dead" /\ quiet' = TRUE
  /\ UNCHANGED <<flag, armvars, keepalive, where, overtaken>>

----------------------------------------------------------------------------
(* The timer, the attempts, the keepalive                                  *)

KeepaliveTick ==
  /\ keepalive /\ ~flag /\ ~scheduled
  /\ UNCHANGED flag
  /\ Arm
  /\ UNCHANGED <<keepalive, socket, where, overtaken, quiet>>

Fire(a) ==
  /\ timer /\ where[a] = "idle" /\ a \in Attempts
  /\ timer' = FALSE /\ scheduled' = FALSE
  /\ where' = [where EXCEPT ![a] = "look"]
  /\ UNCHANGED <<flag, keepalive, socket, overtaken, quiet>>

\* IsConnected, before it queues for reloadMu.
Look(a) ==
  /\ where[a] = "look"
  /\ where' = [where EXCEPT ![a] = IF flag THEN "idle" ELSE "queue"]
  /\ UNCHANGED <<flag, armvars, keepalive, socket, overtaken, quiet>>

\* The cookies are on disk, the reload is called.
Upload(u) ==
  /\ u \in Uploads /\ where[u] = "idle"
  /\ where' = [where EXCEPT ![u] = "queue"]
  /\ UNCHANGED <<flag, armvars, keepalive, socket, overtaken, quiet>>

\* The goroutine that holds reloadMu.
Reloading == {c \in Callers : where[c] \in {"cookies", "teardown", "login"}}

\* An attempt sleeps up to 20 s for the socket and then looks again.
Waited(a) ==
  /\ where[a] = "wait"
  /\ where' = [where EXCEPT ![a] = "idle"]
  /\ UNCHANGED flag
  /\ Arm
  /\ UNCHANGED <<keepalive, socket, overtaken, quiet>>

----------------------------------------------------------------------------
(* ReloadCookies                                                           *)

Lock(c) ==
  /\ where[c] = "queue" /\ Reloading = {}
  /\ where' = [where EXCEPT ![c] = "cookies"]
  /\ Says(FALSE)
  /\ UNCHANGED <<armvars, keepalive, socket, quiet>>

\* The reload returns an error: an attempt arms the next one, an upload is
\* answered with the error.
Fails(c) ==
  /\ where[c] \in {"cookies", "login"}
  /\ where' = [where EXCEPT ![c] = "idle"]
  /\ UNCHANGED flag
  /\ IF c \in Attempts THEN Arm ELSE UNCHANGED armvars
  /\ quiet' = (quiet \/ c \in Uploads)
  /\ UNCHANGED <<keepalive, socket, overtaken>>

CookiesLoaded(c) ==
  /\ where[c] = "cookies"
  /\ where' = [where EXCEPT ![c] = "teardown"]
  /\ UNCHANGED <<flag, armvars, keepalive, socket, overtaken, quiet>>

\* Disconnect and NewClient.
Replace(c) ==
  /\ where[c] = "teardown"
  /\ socket' = "none"
  /\ where' = [where EXCEPT ![c] = "login"]
  /\ UNCHANGED <<flag, armvars, keepalive, overtaken, quiet>>

\* LoadMessagesPage succeeds; Start dials on a goroutine of its own.
Started(c) ==
  /\ where[c] = "login"
  /\ socket' = "dialling"
  /\ where' = [where EXCEPT ![c] = IF c \in Attempts THEN "wait" ELSE "idle"]
  /\ UNCHANGED <<flag, armvars, keepalive, overtaken, quiet>>

Next ==
  \/ Connected \/ DialFails \/ TransientDisconnect \/ Reconnected
  \/ PermanentError \/ GivesUp \/ KeepaliveTick
  \/ \E c \in Callers :
       \/ Fire(c) \/ Look(c) \/ Upload(c) \/ Waited(c)
       \/ Lock(c) \/ Fails(c) \/ CookiesLoaded(c) \/ Replace(c) \/ Started(c)

Spec == Init /\ [][Next]_mcvars

----------------------------------------------------------------------------
\* Every variable keeps its type.
TypeOK ==
  /\ flag \in BOOLEAN /\ scheduled \in BOOLEAN /\ timer \in BOOLEAN
  /\ keepalive \in BOOLEAN /\ overtaken \in BOOLEAN /\ quiet \in BOOLEAN
  /\ socket \in {"none", "dialling", "up", "retrying", "dead"}
  /\ where \in [Callers -> {"idle", "look", "queue", "cookies", "teardown", "login", "wait"}]

\* IsConnected is true only while the socket is up.  What can make it lie: the
\* old client comes back in the moments between a reload's look at the cookies
\* and its Disconnect, and the new one does not get as far as an event.
UpIsTrue == flag => socket = "up" \/ overtaken

\* Whenever the flag is down somebody will do something about it: a timer, an
\* attempt, an upload, the library, or the keepalive, which can act because no
\* stale pending flag stops it.  Only before the first connection, which is
\* what starts the keepalive, may a failure that makes no event leave the
\* client down with nobody to bring it back.
DownIsLookedAfter ==
  ~flag =>
    \/ timer
    \/ \E c \in Callers : where[c] # "idle"
    \/ socket \in {"dialling", "retrying"}
    \/ keepalive /\ ~scheduled
    \/ quiet /\ ~keepalive
=============================================================================
