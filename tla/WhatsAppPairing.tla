--------------------------- MODULE WhatsAppPairing ---------------------------
(***************************************************************************)
(* The login of the WhatsApp client (src/internal/whatsapp/                 *)
(* whatsmeow_client.go, src/internal/bridge/service.go Run): the dial at    *)
(* boot, the QR sessions, and the loop that opens a fresh one after a       *)
(* logout.  One flag, reconnecting, keeps a second loop from starting, but  *)
(* the dial at boot and the loop may both be at Connect.  Every Connect of  *)
(* a device that is not paired replaces the client; the replaced one goes   *)
(* on to show its code, and may be the one that is paired.                  *)
(***************************************************************************)
EXTENDS Integers

CONSTANTS MaxSessions  \* bound: QR channels of replaced clients, those beyond uncounted

VARIABLES
  loggedIn,   \* the device of the client is paired (Store.ID is set)
  stray,      \* the device of a replaced client is
  online,     \* WhatsmeowClient.connected
  dial,       \* "boot", the dial loop of Service.Run, and "loop", the goroutine of
              \* scheduleReconnect; not idle: reconnecting; -> where it is
  qr,         \* the QR channel of the client: closed, opened, or its dial has succeeded
  maker,      \* who opened it
  older,      \* QR channels of replaced clients that are open
  swallowed   \* history: a request for a reconnect found the flag of a loop
              \* that had its last dial under way or behind it

wavars == <<loggedIn, stray, online, dial, qr, maker, older, swallowed>>

Dialers == {"boot", "loop"}

Init ==
  /\ loggedIn \in BOOLEAN /\ stray = FALSE /\ online = FALSE
  /\ dial = [d \in Dialers |-> IF d = "boot" THEN "connecting" ELSE "idle"]
  /\ qr = "closed" /\ maker = "boot" /\ older = 0
  /\ swallowed = FALSE

To(d, place) == dial' = [dial EXCEPT ![d] = place]

\* scheduleReconnect, where the QR channel of the client is, or has come to, qr'.
Schedule ==
  /\ IF dial["loop"] = "idle" THEN To("loop", "sleeping") ELSE UNCHANGED dial
  /\ swallowed' = (swallowed \/ (dial["loop"] \in {"dialling", "leaving"} /\ qr' # "live"))

\* What an event asks for if the device is not paired.
ScheduleUnlessPaired == IF loggedIn THEN UNCHANGED <<dial, swallowed>> ELSE Schedule

----------------------------------------------------------------------------
(* Connect                                                                 *)

\* Is the device paired?
Connect(d) ==
  /\ dial[d] = "connecting"
  /\ To(d, IF loggedIn THEN "dialling" ELSE "replacing")
  /\ UNCHANGED <<loggedIn, stray, online, qr, maker, older, swallowed>>

\* A fresh client, and its QR channel before its dial.
Replace(d) ==
  /\ dial[d] = "replacing" /\ To(d, "dialling")
  /\ loggedIn' = FALSE /\ stray' = (stray \/ loggedIn)
  /\ older' = IF qr = "closed" \/ older = MaxSessions THEN older ELSE older + 1
  /\ qr' = "opened" /\ maker' = d
  /\ swallowed' = FALSE
  /\ UNCHANGED online

\* The dial of a client that was replaced meanwhile makes no session of its own.
DialSucceeds(d) ==
  /\ dial[d] = "dialling"
  /\ To(d, IF d = "boot" THEN "done" ELSE "leaving")
  /\ qr' = IF qr = "opened" /\ maker = d THEN "live" ELSE qr
  /\ swallowed' = (swallowed /\ qr' # "live")
  /\ UNCHANGED <<loggedIn, stray, online, maker, older>>

\* The channel that was opened for it stays behind.  Both try again, after 20 s
\* and 15 s.
DialFails(d) ==
  /\ dial[d] = "dialling"
  /\ To(d, IF d = "boot" THEN "connecting" ELSE "sleeping")
  /\ swallowed' = (swallowed /\ d = "boot")
  /\ UNCHANGED <<loggedIn, stray, online, qr, maker, older>>

----------------------------------------------------------------------------
(* Events                                                                  *)

Connected ==
  /\ loggedIn \/ stray
  /\ online' = TRUE
  /\ UNCHANGED <<loggedIn, stray, dial, qr, maker, older, swallowed>>

Disconnected ==
  /\ online' = FALSE
  /\ UNCHANGED <<loggedIn, stray, qr, maker, older>>
  /\ ScheduleUnlessPaired

\* The client, or a replaced one, is logged out.
LoggedOut ==
  /\ \/ loggedIn /\ loggedIn' = FALSE /\ UNCHANGED stray
     \/ stray /\ stray' = FALSE /\ UNCHANGED loggedIn
  /\ online' = FALSE
  /\ UNCHANGED <<qr, maker, older>>
  /\ Schedule

\* The code is scanned, that of the client, or that of a replaced one, which
\* IsLoggedIn does not look at.
Paired ==
  /\ \/ /\ qr = "live" \/ (qr = "opened" /\ dial[maker] = "dialling")
        /\ ~loggedIn /\ loggedIn' = TRUE /\ swallowed' = FALSE /\ UNCHANGED stray
     \/ older > 0 /\ stray' = TRUE /\ UNCHANGED <<loggedIn, swallowed>>
  /\ UNCHANGED <<online, dial, qr, maker, older>>

\* After the pairing; or the codes have run out, or the connection is lost.
ChannelCloses ==
  /\ \/ qr # "closed" /\ qr' = "closed" /\ UNCHANGED older
     \/ older > 0 /\ older' = older - 1 /\ UNCHANGED qr
  /\ UNCHANGED <<loggedIn, stray, online, maker>>
  /\ ScheduleUnlessPaired

----------------------------------------------------------------------------
(* The loop of scheduleReconnect                                           *)

Wakes ==
  /\ dial["loop"] = "sleeping"
  /\ To("loop", IF loggedIn THEN "leaving" ELSE "connecting")
  /\ UNCHANGED <<loggedIn, stray, online, qr, maker, older, swallowed>>

Leaves ==
  /\ dial["loop"] = "leaving" /\ To("loop", "idle")
  /\ UNCHANGED <<loggedIn, stray, online, qr, maker, older, swallowed>>

Next ==
  \/ \E d \in Dialers : Connect(d) \/ Replace(d) \/ DialSucceeds(d) \/ DialFails(d)
  \/ Connected \/ Disconnected \/ LoggedOut \/ Paired \/ ChannelCloses
  \/ Wakes \/ Leaves

Spec == Init /\ [][Next]_wavars

----------------------------------------------------------------------------
\* Every variable keeps its type.
TypeOK ==
  /\ loggedIn \in BOOLEAN /\ stray \in BOOLEAN /\ online \in BOOLEAN /\ swallowed \in BOOLEAN
  /\ dial \in [Dialers -> {"idle", "sleeping", "connecting", "replacing", "dialling", "leaving", "done"}]
  /\ dial["boot"] \notin {"idle", "sleeping", "leaving"} /\ dial["loop"] # "done"
  /\ qr \in {"closed", "opened", "live"} /\ maker \in Dialers
  /\ older \in 0..MaxSessions

\* A device that is not paired has a QR session that was dialled, or one on its way:
\* the page does not wait for a code for ever, unless the session ended in the moment
\* between the loop's last dial, or last look, and the reset of its flag.
CodeIsComing ==
  ~loggedIn => \/ qr = "live"
               \/ dial["boot"] # "done"
               \/ dial["loop"] \in {"sleeping", "connecting", "replacing", "dialling"}
               \/ swallowed
=============================================================================
