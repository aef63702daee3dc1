----------------------------- MODULE MCParts_proofs -----------------------------
(***************************************************************************)
(* Theorems about the parts of MCParts, for any events, routes, scripts,    *)
(* accounts, calls, messages, files and users, and any bounds.              *)
(*                                                                         *)
(* Each part has its section: its invariant (PartsInvariants) begins, the   *)
(* steps of the part keep it, and it implies what MCParts says of the part. *)
(* The last section puts the parts together: a step of MCParts is one of    *)
(* each part, or leaves the part as it is.                                  *)
(***************************************************************************)
EXTENDS PartsInvariants, FiniteSets, SequenceTheorems, FiniteSetTheorems, TLAPS

----------------------------------------------------------------------------
(* The connection of Messenger                                             *)

LEMMA ConnectionInit == Connection!Init => ConnectionInv
BY DEF Connection!Init, ConnectionInv, Connection!TypeOK, OneReload, NoSocketAtLogin,
   ReloadLowersFlag, PendingHasTimer,
       Connection!UpIsTrue, LookedAfterFromStart, Connection!Reloading

LEMMA LibraryKeeps == ConnectionInv /\ LibraryStep => ConnectionInv'
<1> SUFFICES ASSUME ConnectionInv, LibraryStep PROVE ConnectionInv'
  OBVIOUS
<1> USE DEF ConnectionInv, LibraryStep, Connection!Connected, Connection!DialFails,
            Connection!TransientDisconnect, Connection!Reconnected, Connection!PermanentError,
            Connection!GivesUp, Connection!KeepaliveTick
<1>1. UNCHANGED where
  OBVIOUS
<1>2. Connection!Reloading' = Connection!Reloading
  BY <1>1 DEF Connection!Reloading
<1>3. Connection!TypeOK'
  BY DEF Connection!Says, Connection!Arm, Connection!armvars, Connection!TypeOK
<1>4. OneReload'
  BY <1>2 DEF OneReload
<1>5. NoSocketAtLogin'
  BY <1>1 DEF NoSocketAtLogin
<1>6. ReloadLowersFlag'
  BY <1>1, <1>2 DEF Connection!Says, ReloadLowersFlag, NoSocketAtLogin, Connection!Reloading,
     Connection!Callers
<1>7. PendingHasTimer'
  BY DEF Connection!Arm, Connection!armvars, PendingHasTimer
<1>8. Connection!UpIsTrue'
  BY DEF Connection!Says, Connection!UpIsTrue
<1>9. LookedAfterFromStart'
  BY <1>1 DEF Connection!Says, Connection!Arm, Connection!armvars, PendingHasTimer,
     LookedAfterFromStart
<1> QED
  BY <1>3, <1>4, <1>5, <1>6, <1>7, <1>8, <1>9

LEMMA OutsideKeeps ==
  ASSUME NEW c \in Connection!Callers, ConnectionInv, OutsideStep(c)
  PROVE  ConnectionInv'
<1> USE DEF ConnectionInv
<1>1. /\ where[c] \notin {"cookies", "teardown", "login"}
      /\ \E s \in {"idle", "look", "queue"} : where' = [where EXCEPT ![c] = s]
      /\ where \in [Connection!Callers -> ConnectionStates]
  BY DEF OutsideStep, Connection!Fire, Connection!Look, Connection!Upload, Connection!Waited,
     Connection!TypeOK, ConnectionStates
<1>2. Connection!Reloading' = Connection!Reloading
  BY <1>1 DEF Connection!Reloading
<1>3. UNCHANGED <<flag, socket, overtaken, keepalive, quiet>>
  BY DEF OutsideStep, Connection!Fire, Connection!Look, Connection!Upload, Connection!Waited,
     Connection!armvars
<1>4. Connection!TypeOK'
  BY <1>1, <1>3 DEF OutsideStep, Connection!Fire, Connection!Look, Connection!Upload,
     Connection!Waited, Connection!Arm, Connection!armvars, Connection!TypeOK, ConnectionStates
<1>5. OneReload' /\ ReloadLowersFlag' /\ Connection!UpIsTrue'
  BY <1>2, <1>3 DEF OneReload, ReloadLowersFlag, Connection!UpIsTrue
<1>6. NoSocketAtLogin'
  BY <1>1, <1>3 DEF NoSocketAtLogin
<1>7. PendingHasTimer'
  BY DEF OutsideStep, Connection!Fire, Connection!Look, Connection!Upload, Connection!Waited,
     Connection!Arm, Connection!armvars, PendingHasTimer
<1>8. LookedAfterFromStart'
  <2>1. CASE Connection!Fire(c)
    BY <2>1, <1>1 DEF Connection!Fire, LookedAfterFromStart, Connection!TypeOK
  <2>2. CASE Connection!Look(c)
    BY <2>2, <1>1, <1>3 DEF Connection!Look, LookedAfterFromStart, Connection!TypeOK
  <2>3. CASE Connection!Upload(c)
    BY <2>3, <1>1 DEF Connection!Upload, LookedAfterFromStart, Connection!TypeOK
  <2>4. CASE Connection!Waited(c)
    BY <2>4 DEF Connection!Waited, Connection!Arm, Connection!armvars, PendingHasTimer,
       LookedAfterFromStart
  <2> QED
    BY <2>1, <2>2, <2>3, <2>4 DEF OutsideStep
<1> QED
  BY <1>4, <1>5, <1>6, <1>7, <1>8

\* A reload begins when nobody has reloadMu, and lowers the flag.
LEMMA LockKeeps ==
  ASSUME NEW c \in Connection!Callers, ConnectionInv, Connection!Lock(c)
  PROVE  ConnectionInv'
<1> USE DEF ConnectionInv
<1>1. where' = [where EXCEPT ![c] = "cookies"] /\ where \in [Connection!Callers -> ConnectionStates]
  BY DEF Connection!Lock, Connection!TypeOK, ConnectionStates
<1>2. Connection!Reloading' = {c}
  BY <1>1 DEF Connection!Lock, Connection!Reloading
<1>3. ~flag'
  BY DEF Connection!Lock, Connection!Says
<1>4. Connection!TypeOK' /\ PendingHasTimer'
  BY <1>1 DEF Connection!Lock, Connection!Says, Connection!armvars, Connection!TypeOK,
     PendingHasTimer, ConnectionStates
<1>5. NoSocketAtLogin'
  BY <1>1 DEF Connection!Lock, NoSocketAtLogin
<1>6. LookedAfterFromStart'
  BY <1>1 DEF LookedAfterFromStart
<1> QED
  BY <1>2, <1>3, <1>4, <1>5, <1>6 DEF OneReload, ReloadLowersFlag, Connection!UpIsTrue

LEMMA ReloadKeeps ==
  ASSUME NEW c \in Connection!Callers, ConnectionInv, ReloadStep(c)
  PROVE  ConnectionInv'
<1> USE DEF ConnectionInv, ReloadStep, Connection!Fails, Connection!CookiesLoaded,
            Connection!Replace, Connection!Started
<1>1. /\ where[c] \in {"cookies", "teardown", "login"}
      /\ \E s \in {"idle", "teardown", "login", "wait"} : where' = [where EXCEPT ![c] = s]
      /\ where \in [Connection!Callers -> ConnectionStates]
  BY DEF Connection!TypeOK, ConnectionStates
<1>2. Connection!Reloading = {c} /\ Connection!Reloading' \subseteq {c}
  BY <1>1 DEF Connection!Reloading, OneReload
<1>3. UNCHANGED <<flag, overtaken, keepalive>>
  BY DEF Connection!armvars
<1>4. flag => overtaken
  BY <1>2 DEF ReloadLowersFlag
<1>5. Connection!TypeOK'
  BY <1>1 DEF Connection!Arm, Connection!armvars, Connection!TypeOK, ConnectionStates
<1>6. OneReload' /\ ReloadLowersFlag' /\ Connection!UpIsTrue'
  BY <1>2, <1>3, <1>4 DEF OneReload, ReloadLowersFlag, Connection!UpIsTrue
<1>7. NoSocketAtLogin'
  <2> SUFFICES ASSUME NEW d \in Connection!Callers, where'[d] = "login" PROVE socket' = "none"
    BY DEF NoSocketAtLogin
  <2>1. d = c
    BY <1>2 DEF Connection!Reloading
  <2> QED
    BY <2>1, <1>1 DEF NoSocketAtLogin
<1>8. PendingHasTimer'
  BY DEF Connection!Arm, Connection!armvars, PendingHasTimer
<1>9. LookedAfterFromStart'
  <2>1. CASE Connection!Fails(c)
    BY <2>1, <1>3 DEF Connection!Arm, Connection!armvars, PendingHasTimer, LookedAfterFromStart,
       Connection!TypeOK, Connection!Callers
  <2>2. CASE Connection!CookiesLoaded(c)
    BY <2>2, <1>1 DEF LookedAfterFromStart
  <2>3. CASE Connection!Replace(c)
    BY <2>3, <1>1 DEF LookedAfterFromStart
  <2>4. CASE Connection!Started(c)
    BY <2>4 DEF LookedAfterFromStart
  <2> QED
    BY <2>1, <2>2, <2>3, <2>4
<1> QED
  BY <1>5, <1>6, <1>7, <1>8, <1>9

LEMMA ConnectionStutters == ConnectionInv /\ UNCHANGED connectionvars => ConnectionInv'
BY DEF ConnectionInv, Connection!TypeOK, OneReload, NoSocketAtLogin, ReloadLowersFlag,
   PendingHasTimer,
       Connection!UpIsTrue, LookedAfterFromStart, Connection!Reloading, connectionvars,
       Connection!armvars

LEMMA ConnectionMoves ==
  ConnectionInv /\ [Connection!Next]_connectionvars => ConnectionInv'
<1> SUFFICES ASSUME ConnectionInv, [Connection!Next]_connectionvars PROVE ConnectionInv'
  OBVIOUS
<1>1. CASE LibraryStep
  BY <1>1, LibraryKeeps
<1>2. CASE \E c \in Connection!Callers : OutsideStep(c)
  BY <1>2, OutsideKeeps
<1>3. CASE \E c \in Connection!Callers : Connection!Lock(c)
  BY <1>3, LockKeeps
<1>4. CASE \E c \in Connection!Callers : ReloadStep(c)
  BY <1>4, ReloadKeeps
<1>5. CASE UNCHANGED connectionvars
  BY <1>5, ConnectionStutters
<1> QED
  BY <1>1, <1>2, <1>3, <1>4, <1>5 DEF Connection!Next, LibraryStep, OutsideStep, ReloadStep

\* A client that is down is never forgotten: a timer, a goroutine, the library
\* or the keepalive is on its way, but for quiet failures before the first
\* connection (messenger.go: armReconnect, attemptReconnect).
LEMMA ConnectionHolds ==
  ConnectionInv => Connection!UpIsTrue /\ Connection!DownIsLookedAfter
BY DEF ConnectionInv, Connection!TypeOK, PendingHasTimer, LookedAfterFromStart,
       Connection!DownIsLookedAfter

----------------------------------------------------------------------------
(* The pairing of WhatsApp                                                 *)

LEMMA PairingBegins == Pairing!Init => PairingInv
<1> SUFFICES ASSUME Pairing!Init PROVE PairingInv
  OBVIOUS
<1>1. dial["boot"] = "connecting" /\ dial["loop"] = "idle"
  BY DEF Pairing!Init, Pairing!Dialers
<1>2. 0 \in 0..MaxSessions
  BY SessionsAreCounted
<1>3. Pairing!TypeOK
  BY <1>1, <1>2 DEF Pairing!Init, Pairing!TypeOK, Pairing!Dialers
<1> QED
  BY <1>1, <1>3 DEF Pairing!Init, PairingInv, SessionIsOnItsWay

\* One of the two dials, or the loop, goes on.
LEMMA PairingDials ==
  ASSUME PairingInv, NEW d \in Pairing!Dialers,
         \/ Pairing!Connect(d) \/ Pairing!Replace(d) \/ Pairing!DialSucceeds(d)
         \/ Pairing!DialFails(d) \/ Pairing!Wakes \/ Pairing!Leaves
  PROVE  PairingInv'
<1> USE DEF Pairing!Dialers, Pairing!To
<1>1. d \in {"boot", "loop"} /\ Pairing!TypeOK
  BY DEF PairingInv
<1>2. older' \in 0..MaxSessions
  BY <1>1, SessionsAreCounted
  DEF Pairing!TypeOK, Pairing!Connect, Pairing!Replace, Pairing!DialSucceeds, Pairing!DialFails,
      Pairing!Wakes, Pairing!Leaves
<1>3. CASE Pairing!Connect(d)
  BY <1>1, <1>2, <1>3 DEF Pairing!Connect, PairingInv, Pairing!TypeOK, SessionIsOnItsWay
<1>4. CASE Pairing!Replace(d)
  BY <1>1, <1>2, <1>4 DEF Pairing!Replace, PairingInv, Pairing!TypeOK, SessionIsOnItsWay
<1>5. CASE Pairing!DialSucceeds(d)
  <2>1. swallowed' \in BOOLEAN /\ (qr' # "live" => swallowed' = swallowed)
    BY <1>1, <1>5 DEF Pairing!DialSucceeds, Pairing!TypeOK
  <2>2. Pairing!TypeOK'
    BY <1>1, <1>2, <1>5, <2>1 DEF Pairing!DialSucceeds, Pairing!TypeOK
  <2>3. CASE d = "boot"
    <3>1. /\ dial'["boot"] = "done" /\ dial'["loop"] = dial["loop"] /\ dial["boot"] = "dialling"
          /\ UNCHANGED <<loggedIn, maker>>
          /\ qr' = IF qr = "opened" /\ maker = "boot" THEN "live" ELSE qr
      BY <1>1, <1>5, <2>3 DEF Pairing!DialSucceeds, Pairing!TypeOK
    <3> QED
      BY <1>1, <2>1, <2>2, <3>1 DEF PairingInv, SessionIsOnItsWay, Pairing!TypeOK
  <2>4. CASE d = "loop"
    <3>1. /\ dial["loop"] = "dialling" /\ dial'["loop"] = "leaving" /\ dial'["boot"] = dial["boot"]
          /\ UNCHANGED <<loggedIn, maker>>
          /\ qr' = IF qr = "opened" /\ maker = "loop" THEN "live" ELSE qr
      BY <1>1, <1>5, <2>4 DEF Pairing!DialSucceeds, Pairing!TypeOK
    <3> QED
      BY <1>1, <2>1, <2>2, <3>1 DEF PairingInv, SessionIsOnItsWay, Pairing!TypeOK
  <2> QED
    BY <1>1, <2>3, <2>4
<1>6. CASE Pairing!DialFails(d)
  <2>1. swallowed' \in BOOLEAN /\ (d = "boot" => swallowed' = swallowed)
    BY <1>1, <1>6 DEF Pairing!DialFails, Pairing!TypeOK
  <2> QED
    BY <1>1, <1>2, <1>6, <2>1
    DEF Pairing!DialFails, PairingInv, Pairing!TypeOK, SessionIsOnItsWay
<1>7. CASE Pairing!Wakes \/ Pairing!Leaves
  BY <1>1, <1>2, <1>7
  DEF Pairing!Wakes, Pairing!Leaves, PairingInv, Pairing!TypeOK, SessionIsOnItsWay
<1> QED
  BY <1>3, <1>4, <1>5, <1>6, <1>7

\* A request for a reconnect: the loop is at work then, or the request is lost.
LEMMA PairingSchedules ==
  ASSUME Pairing!TypeOK, Pairing!Schedule
  PROVE  /\ dial' \in [Pairing!Dialers -> {"idle", "sleeping", "connecting", "replacing",
                                            "dialling", "leaving", "done"}]
         /\ dial'["boot"] = dial["boot"] /\ dial'["loop"] # "idle"
         /\ dial'["loop"] = dial["loop"] \/ dial'["loop"] = "sleeping"
         /\ swallowed' \in BOOLEAN /\ (swallowed => swallowed')
         /\ dial["loop"] \in {"dialling", "leaving"} /\ qr' # "live" => swallowed'
<1> QED
  BY DEF Pairing!TypeOK, Pairing!Schedule, Pairing!To, Pairing!Dialers

\* What the clients report.
LEMMA PairingHears ==
  ASSUME PairingInv,
         \/ Pairing!Connected \/ Pairing!Disconnected \/ Pairing!LoggedOut \/ Pairing!Paired
         \/ Pairing!ChannelCloses
  PROVE  PairingInv'
<1>1. Pairing!TypeOK
  BY DEF PairingInv
<1>2. CASE Pairing!Connected
  BY <1>2 DEF Pairing!Connected, PairingInv, Pairing!TypeOK, SessionIsOnItsWay
<1>3. CASE Pairing!Paired
  BY <1>3 DEF Pairing!Paired, PairingInv, Pairing!TypeOK, SessionIsOnItsWay
<1>4. ASSUME Pairing!Disconnected \/ Pairing!LoggedOut \/ Pairing!ChannelCloses
      PROVE  /\ loggedIn' \in BOOLEAN /\ stray' \in BOOLEAN /\ online' \in BOOLEAN
             /\ older' \in 0..MaxSessions /\ maker' = maker
             /\ qr' = qr \/ qr' = "closed"
  <2> USE <1>1, SessionsAreCounted DEF Pairing!TypeOK
  <2>1. CASE Pairing!Disconnected
    BY <2>1 DEF Pairing!Disconnected
  <2>2. CASE Pairing!LoggedOut
    BY <2>2 DEF Pairing!LoggedOut
  <2>3. CASE Pairing!ChannelCloses
    BY <2>3 DEF Pairing!ChannelCloses
  <2> QED
    BY <1>4, <2>1, <2>2, <2>3
<1>6. ASSUME Pairing!Disconnected \/ Pairing!LoggedOut \/ Pairing!ChannelCloses
      PROVE  Pairing!Schedule \/ (loggedIn /\ UNCHANGED <<loggedIn, dial, swallowed>>)
  <2>1. CASE Pairing!Disconnected
    BY <2>1, Zenon DEF Pairing!Disconnected, Pairing!ScheduleUnlessPaired
  <2>2. CASE Pairing!LoggedOut
    BY <2>2, Zenon DEF Pairing!LoggedOut
  <2>3. CASE Pairing!ChannelCloses
    BY <2>3, Zenon DEF Pairing!ChannelCloses, Pairing!ScheduleUnlessPaired
  <2> QED
    BY <1>6, <2>1, <2>2, <2>3
<1>5. ASSUME Pairing!Disconnected \/ Pairing!LoggedOut \/ Pairing!ChannelCloses
      PROVE  PairingInv'
  <2>1. CASE Pairing!Schedule
    <3>1. /\ dial' \in [Pairing!Dialers -> {"idle", "sleeping", "connecting", "replacing",
                                            "dialling", "leaving", "done"}]
          /\ dial'["boot"] = dial["boot"] /\ dial'["loop"] # "idle"
          /\ dial'["loop"] = dial["loop"] \/ dial'["loop"] = "sleeping"
          /\ swallowed' \in BOOLEAN /\ (swallowed => swallowed')
          /\ dial["loop"] \in {"dialling", "leaving"} /\ qr' # "live" => swallowed'
      BY <1>1, <2>1, PairingSchedules
    <3>2. Pairing!TypeOK'
      BY <1>1, <1>4, <1>5, <3>1 DEF Pairing!TypeOK
    <3>3. SessionIsOnItsWay'
      BY <1>1, <1>4, <1>5, <3>1, <3>2 DEF PairingInv, SessionIsOnItsWay, Pairing!TypeOK, Pairing!Dialers
    <3> QED
      BY <3>2, <3>3 DEF PairingInv
  <2>2. CASE loggedIn /\ UNCHANGED <<loggedIn, dial, swallowed>>
    BY <1>1, <1>4, <1>5, <2>2 DEF PairingInv, Pairing!TypeOK, SessionIsOnItsWay
  <2> QED
    BY <1>5, <1>6, <2>1, <2>2
<1> QED
  BY <1>2, <1>3, <1>5

LEMMA PairingMoves == PairingInv /\ [Pairing!Next]_pairingvars => PairingInv'
<1>1. ASSUME PairingInv, UNCHANGED pairingvars PROVE PairingInv'
  BY <1>1 DEF pairingvars, PairingInv, Pairing!TypeOK, SessionIsOnItsWay
<1>2. "loop" \in Pairing!Dialers
  BY DEF Pairing!Dialers
<1> QED
  BY <1>1, <1>2, PairingDials, PairingHears DEF Pairing!Next

LEMMA PairingHolds == PairingInv => Pairing!CodeIsComing
BY DEF PairingInv, SessionIsOnItsWay, Pairing!TypeOK, Pairing!Dialers, Pairing!CodeIsComing

----
(* What Messenger brings in                                                *)

LEMMA InboxBegins == Inbox!Init => InboxInv
BY MessagesAreCounted
   DEF Inbox!Init, InboxInv, Inbox!TypeOK, Inbox!Places, PastIsPast, LedgerIsTrue,
       ForgottenIsOld, OrderIsKept, NoneIsLost, Inbox!TakenOnce

\* The types, one entry and one place at a time.
LEMMA InboxElements ==
  ASSUME Inbox!TypeOK
  PROVE  /\ Len(ledger) \in Nat /\ Len(handled) \in Nat /\ Len(inboxWaiting) \in Nat
         /\ \A i \in 1..Len(ledger) :
              /\ ledger[i] \in Entry /\ ledger[i].msg \in Msgs
              /\ ledger[i].at \in Nat /\ ledger[i].born \in Nat /\ ledger[i].life \in Nat
         /\ \A i \in 1..Len(handled) : handled[i] \in 1..Len(ledger)
         /\ \A i \in 1..Len(inboxWaiting) : inboxWaiting[i] \in 1..Len(ledger)
         /\ time \in Nat /\ born \in Nat /\ inboxRestarts \in Nat /\ handling \in Nat
         /\ \A m \in Msgs : written[m] \in Nat /\ seen[m] \in Nat
<1>1. ledger \in Seq(Entry)
  BY DEF Inbox!TypeOK, Entry
<1>2. \A e \in Entry : e.msg \in Msgs /\ e.at \in Nat /\ e.born \in Nat /\ e.life \in Nat
  BY MessagesAreCounted DEF Entry
<1>3. \A i \in 1..Len(ledger) : ledger[i] \in Entry
  BY <1>1
<1>4. /\ inboxWaiting \in Seq(1..Len(ledger)) /\ handled \in Seq(1..Len(ledger))
      /\ Len(ledger) \in Nat
  BY <1>1 DEF Inbox!TypeOK, Inbox!Places
<1>5. /\ Len(handled) \in Nat /\ \A i \in 1..Len(handled) : handled[i] \in 1..Len(ledger)
      /\ Len(inboxWaiting) \in Nat
      /\ \A i \in 1..Len(inboxWaiting) : inboxWaiting[i] \in 1..Len(ledger)
  BY <1>4
<1>6. /\ time \in Nat /\ born \in Nat /\ inboxRestarts \in Nat /\ handling \in Nat
      /\ \A m \in Msgs : written[m] \in Nat /\ seen[m] \in Nat
  BY <1>4, MessagesAreCounted DEF Inbox!TypeOK
<1> QED
  BY <1>2, <1>3, <1>4, <1>5, <1>6

\* Time passes, and a message is written: what is known stays.
LEMMA InboxClock ==
  ASSUME InboxInv, Inbox!Ticks \/ \E m \in Msgs : Inbox!Written(m)
  PROVE  InboxInv'
<1>0. /\ UNCHANGED <<born, seen, ledger, inboxWaiting, handling, handled, inboxRestarts>>
      /\ time' \in 1..LastTime /\ written' \in [Msgs -> 0..LastTime]
      /\ time' >= time /\ time > 0
      /\ \A m \in Msgs : \/ written'[m] = written[m]
                         \/ written[m] = 0 /\ written'[m] =< time'
  <2>1. time \in 1..LastTime /\ written \in [Msgs -> 0..LastTime]
    BY DEF InboxInv, Inbox!TypeOK
  <2>2. CASE Inbox!Ticks
    BY <2>1, <2>2, MessagesAreCounted DEF Inbox!Ticks
  <2>3. ASSUME NEW m \in Msgs, Inbox!Written(m)
        PROVE  /\ UNCHANGED <<time, born, seen, ledger, inboxWaiting, handling, handled,
                              inboxRestarts>>
               /\ written' = [written EXCEPT ![m] = time] /\ written[m] = 0
    BY <2>3 DEF Inbox!Written
  <2> QED
    BY <2>1, <2>2, <2>3, MessagesAreCounted
<1>1. /\ \A i \in 1..Len(ledger) : ledger[i].msg \in Msgs /\ ledger[i].at \in Nat
      /\ time \in Nat /\ time' \in Nat /\ born \in Nat
      /\ \A m \in Msgs : written[m] \in Nat /\ written'[m] \in Nat /\ seen[m] \in Nat
  BY <1>0, InboxElements, MessagesAreCounted DEF InboxInv
<1>2. Inbox!TypeOK'
  BY <1>0 DEF InboxInv, Inbox!TypeOK, Inbox!Places
<1>3. PastIsPast'
  BY <1>0, <1>1 DEF InboxInv, PastIsPast
<1>4. LedgerIsTrue'
  BY <1>0, <1>1 DEF InboxInv, LedgerIsTrue
<1>5. ForgottenIsOld'
  BY SMTT(30), <1>0, <1>1, MessagesAreCounted DEF InboxInv, ForgottenIsOld
<1>6. OrderIsKept' /\ NoneIsLost'
  BY <1>0, <1>1 DEF InboxInv, OrderIsKept, NoneIsLost
<1>7. Inbox!TakenOnce'
  <2>1. \A i \in 1..Len(ledger) : written'[ledger[i].msg] = written[ledger[i].msg]
    BY <1>0, <1>1 DEF InboxInv, LedgerIsTrue
  <2> QED
    BY SMTT(30), <2>1, <1>0 DEF InboxInv, Inbox!TakenOnce, Inbox!Places
<1> QED
  BY <1>2, <1>3, <1>4, <1>5, <1>6, <1>7 DEF InboxInv

\* A message is taken.
LEMMA InboxTakes ==
  ASSUME InboxInv, NEW m \in Msgs, Inbox!Relay(m)
  PROVE  InboxInv'
<1> DEFINE n == Len(ledger) + 1
           e == [msg |-> m, at |-> time, born |-> born, life |-> inboxRestarts]
<1>1. /\ ledger \in Seq(Entry) /\ e \in Entry /\ n \in Nat /\ Len(ledger) \in Nat
      /\ time \in 1..LastTime
      /\ seen \in [Msgs -> 0..LastTime] /\ seen' = [Inbox!Pruned EXCEPT ![m] = time]
      /\ written[m] > 0 /\ seen[m] = 0 /\ ~(written[m] + Slack < born)
      /\ UNCHANGED <<time, written, born, handling, handled, inboxRestarts>>
  BY InboxElements
  DEF InboxInv, Inbox!Relay, Inbox!Stale, Inbox!TypeOK, Entry
<1>2. /\ ledger' = Append(ledger, e) /\ Len(ledger') = n
      /\ ledger'[n] = e /\ \A i \in 1..Len(ledger) : ledger'[i] = ledger[i]
  BY <1>1 DEF Inbox!Relay
<1>3. /\ inboxWaiting' = Append(inboxWaiting, n) /\ inboxWaiting \in Seq(1..Len(ledger))
      /\ Len(inboxWaiting') = Len(inboxWaiting) + 1 /\ Len(inboxWaiting) \in Nat
      /\ inboxWaiting'[Len(inboxWaiting) + 1] = n
      /\ \A i \in 1..Len(inboxWaiting) : inboxWaiting'[i] = inboxWaiting[i]
  BY DEF InboxInv, Inbox!Relay, Inbox!TypeOK, Inbox!Places
<1>4. /\ \A i \in 1..Len(ledger) :
           /\ ledger[i].msg \in Msgs /\ ledger[i].at \in Nat /\ ledger[i].life \in Nat
      /\ \A i \in 1..Len(handled) : handled[i] \in 1..Len(ledger)
      /\ \A i \in 1..Len(inboxWaiting) : inboxWaiting[i] \in 1..Len(ledger)
  BY InboxElements DEF InboxInv
<1>5. /\ seen' \in [Msgs -> 0..LastTime] /\ seen'[m] = time
      /\ \A k \in Msgs : k # m =>
           seen'[k] = seen[k] \/ (seen'[k] = 0 /\ seen[k] + Day < time)
  BY SMTT(30), <1>1, MessagesAreCounted DEF Inbox!Pruned
<1>6. Inbox!TypeOK'
  <2>1. ledger' \in Seq(Entry)
    BY <1>1, <1>2
  <2>2. inboxWaiting' \in Seq(1..n)
    <3>1. 1..Len(ledger) \subseteq 1..n /\ n \in 1..n
      BY <1>1
    <3>2. inboxWaiting \in Seq(1..n)
      BY <1>3, <3>1, SeqMonotonic
    <3> QED
      BY <1>3, <3>1, <3>2
  <2>3. handled' \in Seq(1..n)
    <3>1. handled \in Seq(1..Len(ledger)) /\ 1..Len(ledger) \subseteq 1..n
      BY <1>1 DEF InboxInv, Inbox!TypeOK, Inbox!Places
    <3> QED
      BY <1>1, <3>1, SeqMonotonic
  <2>4. handling' \in 0..n
    BY <1>1 DEF InboxInv, Inbox!TypeOK
  <2> QED
    BY <1>1, <1>2, <1>5, <2>1, <2>2, <2>3, <2>4
    DEF InboxInv, Inbox!TypeOK, Inbox!Places, Entry
<1>7. PastIsPast'
  BY <1>1, <1>5 DEF InboxInv, PastIsPast
<1>8. LedgerIsTrue'
  <2> SUFFICES ASSUME NEW i \in 1..n
               PROVE  /\ ledger'[i].at =< time /\ ledger'[i].life =< inboxRestarts
                      /\ written[ledger'[i].msg] > 0
                      /\ ledger'[i].life = inboxRestarts => ledger'[i].born = born
    BY <1>1, <1>2 DEF LedgerIsTrue
  <2>1. inboxRestarts \in Nat
    BY InboxElements DEF InboxInv
  <2>2. CASE i = n
    BY <2>1, <2>2, <1>1, <1>2
  <2>3. CASE i # n
    <3>1. i \in 1..Len(ledger) /\ ledger'[i] = ledger[i]
      BY <2>3, <1>1, <1>2
    <3> QED
      BY <3>1 DEF InboxInv, LedgerIsTrue
  <2> QED
    BY <2>2, <2>3
<1>9. ForgottenIsOld'
  <2> SUFFICES ASSUME NEW i \in 1..n, ledger'[i].life = inboxRestarts
               PROVE  \/ seen'[ledger'[i].msg] >= ledger'[i].at
                      \/ ledger'[i].at + Day < time
    BY <1>1, <1>2 DEF ForgottenIsOld
  <2>1. CASE i = n
    BY <2>1, <1>1, <1>2, <1>5
  <2>2. CASE i # n
    <3>1. /\ i \in 1..Len(ledger) /\ ledger'[i] = ledger[i]
      BY <2>2, <1>1, <1>2
    <3>2. seen[ledger[i].msg] >= ledger[i].at \/ ledger[i].at + Day < time
      BY <3>1 DEF InboxInv, ForgottenIsOld
    <3>3. ledger[i].at =< time /\ ledger[i].msg \in Msgs /\ ledger[i].at \in Nat
      BY <3>1, <1>4 DEF InboxInv, LedgerIsTrue
    <3>4. CASE ledger[i].msg = m
      <4>1. ledger[i].at + Day < time \/ ledger[i].at = 0
        BY <3>2, <3>3, <3>4, <1>1
      <4>2. seen'[m] = time
        BY <1>5
      <4> QED
        BY <3>1, <3>3, <3>4, <4>2
    <3>5. CASE ledger[i].msg # m
      <4> DEFINE k == ledger[i].msg
      <4>1. /\ k \in Msgs /\ seen[k] \in Nat /\ time \in Nat
            /\ seen'[k] = seen[k] \/ seen[k] + Day < time
        BY <3>3, <3>5, <1>1, <1>5
      <4>2. ledger[i].at \in Nat /\ (seen[k] >= ledger[i].at \/ ledger[i].at + Day < time)
        BY <3>2, <3>3
      <4>3. seen'[k] >= ledger[i].at \/ ledger[i].at + Day < time
        BY SMTT(30), <4>1, <4>2, MessagesAreCounted
      <4> QED
        BY <3>1, <4>3
    <3> QED
      BY <3>4, <3>5
  <2> QED
    BY <2>1, <2>2
<1>10. OrderIsKept'
  <2> DEFINE w == Len(inboxWaiting) + 1
  <2>1. \A i \in 1..w : i # w => i \in 1..Len(inboxWaiting)
    BY <1>3
  <2>2. handling \in Nat /\ handling < n
    BY InboxElements, <1>1 DEF InboxInv, Inbox!TypeOK
  <2>3. /\ \A i \in 1..Len(handled) : handled[i] < n
        /\ \A i \in 1..Len(inboxWaiting) : inboxWaiting[i] < n
    BY <1>1, <1>4
  <2>4. \A i, j \in 1..w : i < j => inboxWaiting'[i] < inboxWaiting'[j]
    BY <1>3, <2>1, <2>3 DEF InboxInv, OrderIsKept
  <2>5. \A i \in 1..Len(handled), j \in 1..w : handled[i] < inboxWaiting'[j]
    BY <1>3, <2>1, <2>3 DEF InboxInv, OrderIsKept
  <2>6. handling # 0 => \A j \in 1..w : handling < inboxWaiting'[j]
    BY <1>3, <2>1, <2>2 DEF InboxInv, OrderIsKept
  <2> QED
    BY <1>1, <1>3, <2>4, <2>5, <2>6 DEF InboxInv, OrderIsKept
<1>11. NoneIsLost'
  <2> SUFFICES ASSUME NEW i \in 1..n, ledger'[i].life = inboxRestarts, handling # i,
                      ~\E j \in 1..Len(handled) : handled[j] = i
               PROVE  \E j \in 1..Len(inboxWaiting') : inboxWaiting'[j] = i
    BY <1>1, <1>2 DEF NoneIsLost
  <2>1. CASE i = n
    BY <2>1, <1>3
  <2>2. CASE i # n
    <3>1. i \in 1..Len(ledger) /\ ledger'[i] = ledger[i]
      BY <2>2, <1>1, <1>2
    <3>2. PICK j \in 1..Len(inboxWaiting) : inboxWaiting[j] = i
      BY <3>1 DEF InboxInv, NoneIsLost
    <3> QED
      BY <3>2, <1>3
  <2> QED
    BY <2>1, <2>2
<1>12. Inbox!TakenOnce'
  <2> SUFFICES ASSUME NEW i \in 1..n, NEW j \in 1..n, i < j,
                      ledger'[i].msg = ledger'[j].msg
               PROVE  \/ ledger'[i].at + Day < ledger'[j].at
                      \/ /\ ledger'[i].life < ledger'[j].life
                         /\ ledger'[j].born =< written[ledger'[j].msg] + Slack
    <3>1. written' = written /\ Len(ledger') = n
      BY <1>1, <1>2
    <3> HIDE DEF n
    <3> QED
      BY <3>1 DEF Inbox!TakenOnce, Inbox!Places
  <2>1. CASE j # n
    <3>1. i \in 1..Len(ledger) /\ j \in 1..Len(ledger)
      BY SMTT(30), <2>1, <1>1
    <3>2. ledger'[i] = ledger[i] /\ ledger'[j] = ledger[j]
      BY <3>1, <1>2
    <3> QED
      BY <3>1, <3>2 DEF InboxInv, Inbox!TakenOnce, Inbox!Places
  <2>2. CASE j = n
    <3>1. i \in 1..Len(ledger) /\ ledger'[i] = ledger[i] /\ ledger'[j] = e
      BY <2>2, <1>1, <1>2
    <3>2. CASE ledger[i].life = inboxRestarts
      <4>1. seen[m] >= ledger[i].at \/ ledger[i].at + Day < time
        BY <3>1, <3>2 DEF InboxInv, ForgottenIsOld
      <4>2. ledger[i].at \in Nat /\ ledger[i].at > 0
        <5>1. ledger[i] \in Entry
          BY <1>1, <3>1
        <5> QED
          BY <5>1, MessagesAreCounted DEF Entry
      <4>3. ledger[i].at + Day < time
        BY <4>1, <4>2, <1>1
      <4> QED
        BY <3>1, <4>3
    <3>3. CASE ledger[i].life # inboxRestarts
      <4>1. ledger[i].life < inboxRestarts
        <5>1. ledger[i].life =< inboxRestarts
          BY <3>1 DEF InboxInv, LedgerIsTrue
        <5>2. ledger[i].life \in Nat /\ inboxRestarts \in Nat
          BY <3>1, InboxElements DEF InboxInv
        <5> QED
          BY <5>1, <5>2, <3>3
      <4> QED
        BY SMTT(30), <3>1, <4>1, <1>1, InboxElements, MessagesAreCounted DEF InboxInv
    <3> QED
      BY <3>2, <3>3
  <2> QED
    BY <2>1, <2>2
<1> QED
  BY <1>6, <1>7, <1>8, <1>9, <1>10, <1>11, <1>12 DEF InboxInv

\* The dispatcher goes on, and a new process begins.
LEMMA InboxDispatches ==
  ASSUME InboxInv, Inbox!Dispatch \/ Inbox!RunDispatched
  PROVE  InboxInv'
<1>1. /\ UNCHANGED <<time, written, born, seen, ledger, inboxRestarts>>
      /\ inboxWaiting \in Seq(1..Len(ledger)) /\ handled \in Seq(1..Len(ledger))
      /\ Len(handled) \in Nat /\ Len(inboxWaiting) \in Nat /\ Len(ledger) \in Nat
      /\ \A i \in 1..Len(handled) : handled[i] \in 1..Len(ledger)
      /\ \A i \in 1..Len(inboxWaiting) : inboxWaiting[i] \in 1..Len(ledger)
      /\ handling \in 0..Len(ledger)
  BY InboxElements
  DEF InboxInv, Inbox!Dispatch, Inbox!RunDispatched, Inbox!TypeOK, Inbox!Places
<1>2. PastIsPast' /\ LedgerIsTrue' /\ ForgottenIsOld' /\ Inbox!TakenOnce'
  BY <1>1
  DEF InboxInv, PastIsPast, LedgerIsTrue, ForgottenIsOld, Inbox!TakenOnce, Inbox!Places
<1>3. CASE Inbox!Dispatch
  <2>1. /\ inboxWaiting # <<>> /\ inboxWaiting' = Tail(inboxWaiting) /\ handled' = handled
        /\ handling = 0 /\ handling' = inboxWaiting[1] /\ Len(inboxWaiting) > 0
    BY <1>1, <1>3 DEF Inbox!Dispatch
  <2>2. /\ inboxWaiting' \in Seq(1..Len(ledger))
        /\ Len(inboxWaiting') = Len(inboxWaiting) - 1
        /\ \A i \in 1..Len(inboxWaiting') : inboxWaiting'[i] = inboxWaiting[i + 1]
    BY <1>1, <2>1
  <2>3. Inbox!TypeOK'
    <3>1. handling' \in 0..Len(ledger)
      BY <1>1, <2>1
    <3> QED
      BY <1>1, <2>1, <2>2, <3>1 DEF InboxInv, Inbox!TypeOK, Inbox!Places
  <2>4. OrderIsKept'
    BY SMTT(30), <1>1, <2>1, <2>2 DEF InboxInv, OrderIsKept
  <2>5. NoneIsLost'
    <3> SUFFICES ASSUME NEW i \in 1..Len(ledger), ledger[i].life = inboxRestarts,
                        handling' # i, ~\E j \in 1..Len(handled) : handled[j] = i
                 PROVE  \E j \in 1..Len(inboxWaiting') : inboxWaiting'[j] = i
      BY <1>1, <2>1 DEF NoneIsLost
    <3>1. PICK j \in 1..Len(inboxWaiting) : inboxWaiting[j] = i
      BY <2>1 DEF InboxInv, NoneIsLost
    <3>2. j # 1 /\ j - 1 \in 1..Len(inboxWaiting')
      <4>1. j # 1 /\ j \in 1..Len(inboxWaiting)
        BY <3>1, <2>1
      <4>2. Len(inboxWaiting) \in Nat /\ Len(inboxWaiting') = Len(inboxWaiting) - 1
        BY <1>1, <2>2
      <4>3. \A n \in Nat : \A m \in 1..n : m # 1 => m - 1 \in 1..(n - 1)
        OBVIOUS
      <4> QED
        BY <4>1, <4>2, <4>3
    <3>3. inboxWaiting'[j - 1] = i
      <4>1. inboxWaiting'[j - 1] = inboxWaiting[(j - 1) + 1]
        BY <3>2, <2>2
      <4>2. (j - 1) + 1 = j
        BY <3>1
      <4> QED
        BY <4>1, <4>2, <3>1
    <3> QED
      BY <3>2, <3>3
  <2> QED
    BY <1>2, <2>3, <2>4, <2>5 DEF InboxInv
<1>4. CASE Inbox!RunDispatched
  <2>1. /\ handling \in 1..Len(ledger) /\ handled' = Append(handled, handling)
        /\ handling' = 0 /\ UNCHANGED inboxWaiting
    BY <1>1, <1>4 DEF Inbox!RunDispatched
  <2>2. /\ handled' \in Seq(1..Len(ledger)) /\ Len(handled') = Len(handled) + 1
        /\ handled'[Len(handled) + 1] = handling
        /\ \A i \in 1..Len(handled) : handled'[i] = handled[i]
    <3>1. handled \in Seq(1..Len(ledger))
      BY <1>1
    <3> QED
      BY <2>1, <3>1, AppendProperties
  <2>3. Inbox!TypeOK'
    BY SMTT(30), <1>1, <2>1, <2>2 DEF InboxInv, Inbox!TypeOK, Inbox!Places
  <2>4. OrderIsKept'
    <3>1. \A i \in 1..Len(handled') :
            \/ i \in 1..Len(handled) /\ handled'[i] = handled[i]
            \/ i = Len(handled) + 1 /\ handled'[i] = handling
      BY SMTT(30), <1>1, <2>2
    <3>2. handling # 0
      BY <2>1, <1>1
    <3>3. /\ \A i \in 1..Len(handled) : handled[i] < handling
          /\ \A i, j \in 1..Len(handled) : i < j => handled[i] < handled[j]
          /\ \A j \in 1..Len(inboxWaiting) : handling < inboxWaiting[j]
          /\ \A i \in 1..Len(handled), j \in 1..Len(inboxWaiting) : handled[i] < inboxWaiting[j]
          /\ \A i, j \in 1..Len(inboxWaiting) : i < j => inboxWaiting[i] < inboxWaiting[j]
      BY <3>2 DEF InboxInv, OrderIsKept
    <3>4. ASSUME NEW i \in 1..Len(handled'), NEW j \in 1..Len(handled'), i < j
          PROVE  handled'[i] < handled'[j]
      <4>1. i \in 1..Len(handled) /\ handled'[i] = handled[i]
        BY SMTT(30), <3>1, <3>4, <2>2, <1>1
      <4> QED
        BY <3>1, <3>3, <3>4, <4>1
    <3>5. ASSUME NEW i \in 1..Len(handled'), NEW j \in 1..Len(inboxWaiting')
          PROVE  handled'[i] < inboxWaiting'[j]
      BY <3>1, <3>3, <2>1
    <3> QED
      BY <3>3, <3>4, <3>5, <2>1 DEF OrderIsKept
  <2>5. NoneIsLost'
    BY SMTT(30), <1>1, <2>1, <2>2 DEF InboxInv, NoneIsLost
  <2> QED
    BY <1>2, <2>3, <2>4, <2>5 DEF InboxInv
<1> QED
  BY <1>3, <1>4

LEMMA InboxRestarts ==
  ASSUME InboxInv, Inbox!Restarts
  PROVE  InboxInv'
<1>1. /\ inboxRestarts' = inboxRestarts + 1 /\ born' = time
      /\ seen' = [m \in Msgs |-> 0] /\ inboxWaiting' = <<>> /\ handling' = 0
      /\ UNCHANGED <<time, written, ledger, handled>>
      /\ inboxRestarts \in Nat /\ inboxRestarts < MaxRestarts
      /\ time \in 1..LastTime
  BY MessagesAreCounted DEF InboxInv, Inbox!Restarts, Inbox!TypeOK
<1>2. \A i \in 1..Len(ledger) : ledger[i].life \in Nat /\ ledger[i].life =< inboxRestarts
  BY InboxElements DEF InboxInv, LedgerIsTrue
<1>3. Inbox!TypeOK'
  BY <1>1, MessagesAreCounted, InboxElements DEF InboxInv, Inbox!TypeOK, Inbox!Places
<1>4. PastIsPast'
  BY <1>1 DEF InboxInv, PastIsPast
<1>5. LedgerIsTrue' /\ ForgottenIsOld' /\ NoneIsLost'
  BY <1>1, <1>2 DEF InboxInv, LedgerIsTrue, ForgottenIsOld, NoneIsLost
<1>6. OrderIsKept' /\ Inbox!TakenOnce'
  <2>1. \A i, j \in 1..Len(handled) : i < j => handled[i] < handled[j]
    BY DEF InboxInv, OrderIsKept
  <2>2. OrderIsKept'
    <3>1. Len(inboxWaiting') = 0
      BY <1>1
    <3> QED
      BY <1>1, <2>1, <3>1 DEF OrderIsKept
  <2>3. Inbox!TakenOnce
    BY DEF InboxInv
  <2>4. Inbox!TakenOnce'
    BY <1>1, <2>3 DEF Inbox!TakenOnce, Inbox!Places
  <2> QED
    BY <2>2, <2>4
<1> QED
  BY <1>3, <1>4, <1>5, <1>6 DEF InboxInv

LEMMA InboxMoves == InboxInv /\ [Inbox!Next]_inboxvars => InboxInv'
<1>1. ASSUME InboxInv, UNCHANGED inboxvars PROVE InboxInv'
  BY <1>1
  DEF inboxvars, InboxInv, Inbox!TypeOK, Inbox!Places, PastIsPast, LedgerIsTrue,
      ForgottenIsOld, OrderIsKept, NoneIsLost, Inbox!TakenOnce
<1> QED
  BY <1>1, InboxClock, InboxTakes, InboxDispatches, InboxRestarts DEF Inbox!Next

LEMMA Concatenated ==
  ASSUME NEW s \in Seq(Nat), NEW t \in Seq(Nat)
  PROVE  /\ s \o t \in Seq(Nat) /\ Len(s \o t) = Len(s) + Len(t)
         /\ \A i \in 1..(Len(s) + Len(t)) :
              (s \o t)[i] = IF i =< Len(s) THEN s[i] ELSE t[i - Len(s)]
BY ConcatProperties

\* The places handled, at hand and waiting, one after the other.
LEMMA InboxHolds == InboxInv => Inbox!InboxIsSound
<1> SUFFICES ASSUME InboxInv PROVE Inbox!HandledInOrder
  BY DEF InboxInv, Inbox!InboxIsSound
<1> DEFINE hand == IF handling = 0 THEN <<>> ELSE <<handling>>
           all == handled \o hand \o inboxWaiting
           h == Len(handled)
           k == Len(handled) + Len(hand)
<1>1. /\ handled \in Seq(Nat) /\ hand \in Seq(Nat) /\ inboxWaiting \in Seq(Nat)
      /\ h \in Nat /\ Len(inboxWaiting) \in Nat /\ Len(hand) \in Nat
  <2>1. 1..Len(ledger) \subseteq Nat /\ handling \in Nat
    BY DEF InboxInv, Inbox!TypeOK
  <2>2. handled \in Seq(Nat) /\ inboxWaiting \in Seq(Nat)
    BY <2>1, SeqMonotonic DEF InboxInv, Inbox!TypeOK, Inbox!Places
  <2> QED
    BY <2>1, <2>2
<1>2. k \in Nat /\ k = (IF handling = 0 THEN h ELSE h + 1)
  BY <1>1
<1>3. /\ Len(all) = k + Len(inboxWaiting)
      /\ \A i \in 1..Len(all) :
           all[i] = IF i =< h THEN handled[i]
                    ELSE IF i =< k THEN handling ELSE inboxWaiting[i - k]
  <2> DEFINE front == handled \o hand
  <2>1. \A i \in 1..Len(hand) : hand[i] = handling
    OBVIOUS
  <2> HIDE DEF hand
  <2>2. /\ front \in Seq(Nat) /\ Len(front) = k
        /\ \A i \in 1..k : front[i] = IF i =< h THEN handled[i] ELSE hand[i - h]
    BY <1>1, Concatenated
  <2>3. \A i \in 1..k : front[i] = IF i =< h THEN handled[i] ELSE handling
    BY <1>1, <2>1, <2>2
  <2> HIDE DEF front
  <2>4. /\ Len(front \o inboxWaiting) = k + Len(inboxWaiting)
        /\ \A i \in 1..(k + Len(inboxWaiting)) :
             (front \o inboxWaiting)[i] = IF i =< k THEN front[i] ELSE inboxWaiting[i - k]
    <3>1. /\ Len(front \o inboxWaiting) = Len(front) + Len(inboxWaiting)
          /\ \A i \in 1..(Len(front) + Len(inboxWaiting)) :
               (front \o inboxWaiting)[i] =
                 IF i =< Len(front) THEN front[i] ELSE inboxWaiting[i - Len(front)]
      BY <1>1, <2>2, Concatenated
    <3> QED
      BY <2>2, <3>1, Zenon
  <2> HIDE DEF k
  <2>5. all = front \o inboxWaiting
    BY DEF front
  <2> HIDE DEF all
  <2> QED
    BY <1>1, <1>2, <2>3, <2>4, <2>5
<1> HIDE DEF all, k, hand
<1> USE DEF InboxInv, OrderIsKept
<1>4. \A i, j \in 1..Len(all) : i < j => all[i] < all[j]
  <2> SUFFICES ASSUME NEW i \in 1..Len(all), NEW j \in 1..Len(all), i < j
               PROVE  all[i] < all[j]
    OBVIOUS
  <2>1. CASE j =< h
    BY <2>1, <1>1, <1>2, <1>3
  <2>2. CASE h < j /\ j =< k
    <3>1. handling # 0 /\ i =< h /\ all[j] = handling /\ all[i] = handled[i]
      BY <2>2, <1>1, <1>2, <1>3
    <3> QED
      BY <3>1, <1>1
  <2>3. CASE k < j
    <3>1. all[j] = inboxWaiting[j - k] /\ j - k \in 1..Len(inboxWaiting)
      BY <2>3, <1>1, <1>2, <1>3
    <3>2. CASE i =< h
      <4>1. i \in 1..Len(handled) /\ all[i] = handled[i]
        BY <3>2, <1>1, <1>3
      <4>2. \A q \in 1..Len(inboxWaiting) : handled[i] < inboxWaiting[q]
        BY <4>1
      <4> QED
        BY <3>1, <4>1, <4>2
    <3>3. CASE h < i /\ i =< k
      <4>1. handling # 0 /\ all[i] = handling
        BY <3>3, <1>1, <1>2, <1>3
      <4> QED
        BY <3>1, <4>1
    <3>4. CASE k < i
      <4>1. all[i] = inboxWaiting[i - k] /\ i - k \in 1..Len(inboxWaiting) /\ i - k < j - k
        BY SMTT(30), <3>4, <1>1, <1>2, <1>3
      <4> QED
        BY <3>1, <4>1
    <3> QED
      BY <3>2, <3>3, <3>4, <1>1, <1>2
  <2> QED
    BY <2>1, <2>2, <2>3, <1>1, <1>2
<1>5. ASSUME NEW i \in 1..Len(ledger), ledger[i].life = inboxRestarts
      PROVE  \E j \in 1..Len(all) : all[j] = i
  <2>1. CASE handling = i
    <3>1. h + 1 \in 1..Len(all) /\ all[h + 1] = i
      BY <2>1, <1>1, <1>2, <1>3
    <3> QED
      BY <3>1
  <2>2. ASSUME NEW j \in 1..Len(handled), handled[j] = i
        PROVE  \E q \in 1..Len(all) : all[q] = i
    <3>1. j \in 1..Len(all) /\ all[j] = i
      BY SMTT(30), <2>2, <1>1, <1>2, <1>3
    <3> QED
      BY <3>1
  <2>3. ASSUME NEW j \in 1..Len(inboxWaiting), inboxWaiting[j] = i
        PROVE  \E q \in 1..Len(all) : all[q] = i
    <3>1. /\ k + j \in 1..Len(all) /\ ~(k + j =< k) /\ ~(k + j =< h)
          /\ (k + j) - k = j
      BY SMTT(30), <1>1, <1>2, <1>3
    <3>2. all[k + j] = i
      BY <2>3, <3>1, <1>3
    <3> QED
      BY <3>1, <3>2
  <2> QED
    BY <1>5, <2>1, <2>2, <2>3 DEF NoneIsLost
<1> QED
  BY <1>4, <1>5 DEF Inbox!HandledInOrder, Inbox!Places, all, hand

----------------------------------------------------------------------------
(* Sending to Messenger                                                    *)

LEMMA SendingElements ==
  ASSUME Sending!TypeOK
  PROVE  /\ kind \in [Calls -> {"text", "image", "edit"}]
         /\ \A c, d \in Calls : kind[c] = "edit" /\ kind[d] = "edit" => c = d
         /\ now \in Nat /\ now > 0 /\ Pieces \in Nat /\ Pieces > 0
         /\ \A c \in Calls :
              /\ piece[c] \in 0..Pieces /\ sent[c] \in 0..Pieces
              /\ Sending!PiecesOf(c) \in 1..Pieces /\ piece[c] =< Sending!PiecesOf(c)
              /\ kind[c] = "image" => Sending!PiecesOf(c) = 1
              /\ kind[c] # "image" => Sending!PiecesOf(c) = Pieces
         /\ Len(thread) \in Nat /\ thread \in Seq(Sending!Messages)
         /\ \A i \in 1..Len(thread) : thread[i] \in Sending!Messages
         /\ \A m \in Sending!Messages : m.text \in Calls \X (0..Pieces) /\ m.stamp \in 0..LastMs
<1>1. kind \in Mixes /\ thread \in Seq(Sending!Messages)
  BY DEF Sending!TypeOK
<1>2. /\ kind \in [Calls -> {"text", "image", "edit"}]
      /\ \A c, d \in Calls : kind[c] = "edit" /\ kind[d] = "edit" => c = d
  BY <1>1, MixesAreSound
<1>3. \A c \in Calls : Sending!PiecesOf(c) \in 1..Pieces
  BY MixesAreSound DEF Sending!PiecesOf
<1>4. \A m \in Sending!Messages : m.text \in Calls \X (0..Pieces) /\ m.stamp \in 0..LastMs
  BY DEF Sending!Messages, Sending!Texts, Sending!Old
<1>5. Len(thread) \in Nat /\ \A i \in 1..Len(thread) : thread[i] \in Sending!Messages
  BY <1>1
<1>6. /\ now \in Nat /\ now > 0
      /\ \A c \in Calls : piece[c] \in 0..Pieces /\ sent[c] \in 0..Pieces
                            /\ piece[c] =< Sending!PiecesOf(c)
  BY MixesAreSound DEF Sending!TypeOK
<1>7. \A c \in Calls : /\ kind[c] = "image" => Sending!PiecesOf(c) = 1
                       /\ kind[c] # "image" => Sending!PiecesOf(c) = Pieces
  BY DEF Sending!PiecesOf
<1> QED
  BY <1>1, <1>2, <1>3, <1>4, <1>5, <1>6, <1>7, MixesAreSound

LEMMA SendingBegins == Sending!Init => SendingInv
<1> SUFFICES ASSUME Sending!Init PROVE SendingInv
  OBVIOUS
<1> USE DEF Sending!Init
<1>1. /\ kind \in [Calls -> {"text", "image", "edit"}] /\ kind \in Mixes
      /\ \A c, d \in Calls : kind[c] = "edit" /\ kind[d] = "edit" => c = d
  BY MixesAreSound
<1>2. \A c \in Calls, k \in 0..Pieces : ~Made(c, k)
  BY DEF Made
<1>3. \/ /\ thread = <<>> /\ \A c \in Calls : kind[c] # "edit"
      \/ \E c \in Calls : /\ thread = <<[stamp |-> Sending!Old, text |-> <<c, 0>>]>>
                          /\ kind[c] = "edit"
  <2>1. CASE \A c \in Calls : kind[c] # "edit"
    BY <2>1
  <2>2. CASE ~\A c \in Calls : kind[c] # "edit"
    <3> DEFINE d == CHOOSE c \in Calls : kind[c] = "edit"
    <3>1. d \in Calls /\ kind[d] = "edit"
      BY <2>2
    <3>2. thread = <<[stamp |-> Sending!Old, text |-> <<d, 0>>]>>
      BY <2>2
    <3> HIDE DEF d
    <3> QED
      BY <3>1, <3>2
  <2> QED
    BY <2>1, <2>2
<1>4. Sending!TypeOK
  <2>1. Sending!Old \in 0..LastMs /\ 0 \in 0..Pieces /\ now \in 1..LastMs /\ Sending!Old = 0
    BY MixesAreSound DEF Sending!Old
  <2>2. thread \in Seq(Sending!Messages)
    <3>1. <<>> \in Seq(Sending!Messages)
      OBVIOUS
    <3>2. ASSUME NEW c \in Calls
          PROVE  <<[stamp |-> Sending!Old, text |-> <<c, 0>>]>> \in Seq(Sending!Messages)
      <4>1. [stamp |-> Sending!Old, text |-> <<c, 0>>] \in Sending!Messages
        BY <2>1 DEF Sending!Messages, Sending!Texts
      <4> HIDE DEF Sending!Init
      <4> QED
        BY <4>1
    <3> QED
      BY <1>3, <3>1, <3>2
  <2>3. \A c \in Calls : stamps[c] \in [0..Sending!PiecesOf(c) -> Sending!Old..LastMs]
    BY <2>1
  <2>4. \A c \in Calls : Sending!PiecesOf(c) \in Nat
    BY MixesAreSound DEF Sending!PiecesOf
  <2>5. try \in [Calls -> 0..Tries]
    BY MixesAreSound
  <2> QED
    BY <1>1, <2>1, <2>2, <2>3, <2>4, <2>5 DEF Sending!TypeOK
<1>5. ThreadIsMade /\ StampsDiffer /\ Sending!PiecesStandOnce
  BY <1>3 DEF ThreadIsMade, StampsDiffer, Sending!PiecesStandOnce
<1>6. EditHasItsMessage
  <2>1. \A c \in Calls : kind[c] = "edit" => \E i \in 1..Len(thread) : thread[i].stamp = Sending!Old
    BY <1>3
  <2> QED
    BY <1>2, <2>1, MixesAreSound DEF EditHasItsMessage
<1>7. SentIsBehind /\ SentStand /\ ResultIsTrue
  BY DEF SentIsBehind, SentStand, ResultIsTrue
<1> QED
  BY <1>4, <1>5, <1>6, <1>7 DEF SendingInv

\* Nobody makes a task or changes the thread.
LEMMA SentStays ==
  ASSUME SentStand, UNCHANGED <<thread, stamps, sent>>
  PROVE  SentStand'
<1>1. ASSUME NEW c \in Calls, NEW k \in 1..sent'[c]
      PROVE  Sending!Stands(c, k)' \/ Sending!Swallowed(c, k)'
  <2>1. Sending!Stands(c, k) \/ Sending!Swallowed(c, k)
    BY DEF SentStand
  <2>2. Sending!Stands(c, k) => Sending!Stands(c, k)'
    BY DEF Sending!Stands
  <2>3. Sending!Swallowed(c, k) => Sending!Swallowed(c, k)'
    BY DEF Sending!Swallowed
  <2> QED
    BY <2>1, <2>2, <2>3
<1> QED
  BY <1>1 DEF SentStand

LEMMA SendingStays ==
  ASSUME SendingInv, UNCHANGED <<kind, thread, piece, stamps>>,
         \A c \in Calls : callAt[c] = "idle" <=> callAt'[c] = "idle",
         \A r \in flight' :
           r \in flight \/ \E c \in Calls :
             Made(c, piece[c]) /\ r = [stamp |-> stamps[c][piece[c]], text |-> <<c, piece[c]>>]
  PROVE  /\ ThreadIsMade' /\ StampsDiffer' /\ EditHasItsMessage'
         /\ Sending!PiecesStandOnce'
<1>1. \A c \in Calls, k \in 0..Pieces : Made(c, k)' <=> Made(c, k)
  BY DEF Made
<1>2. \A m : IsPiece(m) => IsPiece(m)'
  BY <1>1 DEF IsPiece
<1>3. ASSUME NEW c \in Calls, Made(c, piece[c])
      PROVE  IsPiece([stamp |-> stamps[c][piece[c]], text |-> <<c, piece[c]>>])
  <2>1. piece[c] \in 0..Pieces
    BY SendingElements DEF SendingInv
  <2> QED
    BY <1>3, <2>1 DEF IsPiece
<1>4. ThreadIsMade'
  BY <1>2, <1>3 DEF SendingInv, ThreadIsMade
<1>5. EditHasItsMessage'
  BY <1>1, MixesAreSound DEF SendingInv, EditHasItsMessage
<1> QED
  BY <1>4, <1>5 DEF SendingInv, StampsDiffer, Sending!PiecesStandOnce

\* The caller waits, asks again, or ends without another piece.
LEMMA CallerGoesOn ==
  ASSUME SendingInv, NEW c \in Calls,
         \/ Sending!Cancel(c) \/ Sending!Fails(c) \/ Sending!Retry(c) \/ Sending!GivesUp(c)
  PROVE  SendingInv'
<1> USE DEF Sending!Cancel, Sending!Fails, Sending!Retry, Sending!GivesUp, Sending!Returns
<1>1. /\ UNCHANGED <<kind, thread, piece, stamps, sent, now>>
      /\ callAt[c] \in {"waits", "nudged"}
      /\ callAt \in [Calls -> {"idle", "waits", "nudged", "done"}]
      /\ callResult \in [Calls -> {"none", "ok", "failed"}]
  BY DEF SendingInv, Sending!TypeOK
<1>2. \/ UNCHANGED <<callAt, callResult>>
      \/ UNCHANGED callResult /\ \E a \in {"waits", "nudged"} : callAt' = [callAt EXCEPT ![c] = a]
      \/ /\ callAt' = [callAt EXCEPT ![c] = "done"]
         /\ callResult' = [callResult EXCEPT ![c] =
              IF kind[c] = "text" /\ sent[c] > 0 THEN "ok" ELSE "failed"]
  BY <1>1
<1>3. Made(c, piece[c]) /\ piece[c] \in 0..Pieces
  BY <1>1, SendingElements DEF SendingInv, SentIsBehind, Made
<1>4. \/ flight' = flight
      \/ flight' = flight \cup {[stamp |-> stamps[c][piece[c]], text |-> <<c, piece[c]>>]}
  OBVIOUS
<1>5. \A d \in Calls : callAt[d] = "idle" <=> callAt'[d] = "idle"
  BY <1>1, <1>2
<1>6. /\ ThreadIsMade' /\ StampsDiffer' /\ EditHasItsMessage' /\ Sending!PiecesStandOnce'
  BY <1>1, <1>3, <1>4, <1>5, SendingStays
<1>t. /\ try' \in [Calls -> 0..Tries] /\ callCancelled' \subseteq Calls
      /\ \A d \in Calls : callAt'[d] = "nudged" => try'[d] < Tries
  <2>1. /\ try \in [Calls -> 0..Tries] /\ callCancelled \subseteq Calls
        /\ \A d \in Calls : callAt[d] = "nudged" => try[d] < Tries
    BY DEF SendingInv, SentIsBehind, Sending!TypeOK
  <2>2. CASE Sending!Cancel(c) \/ Sending!GivesUp(c)
    BY <2>1, <2>2, <1>1
  <2>3. CASE Sending!Fails(c)
    BY <2>1, <2>3, <1>1, MixesAreSound
  <2>4. CASE Sending!Retry(c)
    BY <2>1, <2>4, <1>1, MixesAreSound
  <2> QED
    BY <2>2, <2>3, <2>4
<1>7. SentIsBehind'
  BY <1>1, <1>2, <1>t, SendingElements DEF SendingInv, SentIsBehind
<1>8. SentStand'
  <2> HIDE DEF Sending!Cancel, Sending!Fails, Sending!Retry, Sending!GivesUp
  <2>1. \A d, k : Sending!Stands(d, k)' <=> Sending!Stands(d, k)
    BY <1>1 DEF Sending!Stands
  <2>2. \A d, k : Sending!Swallowed(d, k)' <=> Sending!Swallowed(d, k)
    BY <1>1 DEF Sending!Swallowed
  <2> QED
    BY <1>1, <2>1, <2>2 DEF SendingInv, SentStand
<1>9. ResultIsTrue'
  BY <1>1, <1>2 DEF SendingInv, ResultIsTrue, Sending!PiecesOf
<1>10. Sending!TypeOK'
  <2>1. flight' \subseteq Sending!Messages
    <3>1. [stamp |-> stamps[c][piece[c]], text |-> <<c, piece[c]>>] \in Sending!Messages
      <4>1. stamps[c][piece[c]] \in Sending!Old..LastMs
        BY SendingElements DEF SendingInv, Sending!TypeOK
      <4> QED
        BY <4>1, <1>3 DEF Sending!Messages, Sending!Texts
    <3> QED
      BY <3>1, <1>4 DEF SendingInv, Sending!TypeOK
  <2>2. /\ callAt' \in [Calls -> {"idle", "waits", "nudged", "done"}]
        /\ callResult' \in [Calls -> {"none", "ok", "failed"}]
    BY <1>1, <1>2
  <2> QED
    BY <1>1, <1>t, <2>1, <2>2 DEF SendingInv, Sending!TypeOK, Sending!PiecesOf
<1> QED
  BY <1>6, <1>7, <1>8, <1>9, <1>10 DEF SendingInv

\* The network loses a request, and time passes.
LEMMA NetworkLoses ==
  ASSUME SendingInv, Sending!Tick \/ \E r \in flight : Sending!Dropped(r)
  PROVE  SendingInv'
<1>1. /\ UNCHANGED <<kind, thread, callAt, piece, stamps, try, sent, callResult, callCancelled>>
      /\ flight' \subseteq flight /\ now' \in 1..LastMs
  BY MixesAreSound DEF SendingInv, Sending!Tick, Sending!Dropped, Sending!TypeOK
<1>2. /\ ThreadIsMade' /\ StampsDiffer' /\ EditHasItsMessage' /\ Sending!PiecesStandOnce'
  BY <1>1, SendingStays
<1>3. Sending!TypeOK'
  BY <1>1 DEF SendingInv, Sending!TypeOK, Sending!PiecesOf
<1>4. SentIsBehind' /\ ResultIsTrue'
  BY <1>1 DEF SendingInv, Sending!PiecesOf, SentIsBehind, ResultIsTrue
<1>5. SentStand'
  BY <1>1, SentStays DEF SendingInv
<1> QED
  BY <1>2, <1>3, <1>4, <1>5 DEF SendingInv

\* A request lands: it takes the place of the edited message, finds its stamp
\* there, or stands at the end.
LEMMA RequestLands ==
  ASSUME SendingInv, NEW r \in flight, Sending!Lands(r)
  PROVE  SendingInv'
<1> DEFINE n == Len(thread)
           c == r.text[1]
           k == r.text[2]
<1>1. /\ UNCHANGED <<kind, callAt, piece, stamps, try, sent, callResult, callCancelled, now>>
      /\ flight' = flight \ {r} /\ IsPiece(r) /\ r \in Sending!Messages
      /\ n \in Nat /\ thread \in Seq(Sending!Messages)
  BY SendingElements DEF SendingInv, Sending!Lands, ThreadIsMade, Sending!TypeOK
<1>2. /\ c \in Calls /\ k \in 0..Pieces /\ Made(c, k) /\ r.stamp = stamps[c][k]
      /\ r.text = <<c, k>>
  BY <1>1 DEF IsPiece
<1>3. \A d \in Calls, j \in 0..Pieces : Made(d, j)' <=> Made(d, j)
  BY <1>1 DEF Made
<1>4. \A m : IsPiece(m)' <=> IsPiece(m)
  BY <1>1, <1>3 DEF IsPiece
<1>5. /\ \A i \in 1..n : thread[i].text \in Calls \X (0..Pieces)
      /\ \A i \in 1..n : thread[i].stamp \in 0..LastMs
  BY SendingElements DEF SendingInv
<1>6. SentIsBehind' /\ ResultIsTrue'
  BY <1>1 DEF SendingInv, SentIsBehind, ResultIsTrue, Sending!PiecesOf
<1>a. CASE r.stamp = Sending!Old
  <2>1. kind[c] = "edit" /\ k = 1
    BY <1>a, <1>2 DEF SendingInv, EditHasItsMessage
  <2>2. PICK p \in 1..n : thread[p].stamp = Sending!Old
    BY <2>1, <1>2 DEF SendingInv, EditHasItsMessage
  <2>3. thread' = [thread EXCEPT ![p] = r]
    <3>1. thread' = [i \in 1..n |-> IF thread[i].stamp = Sending!Old THEN r ELSE thread[i]]
      BY <1>a DEF Sending!Lands
    <3>2. \A i \in 1..n : thread[i].stamp = Sending!Old <=> i = p
      BY <2>2 DEF SendingInv, StampsDiffer
    <3>3. thread \in [1..n -> Sending!Messages]
      BY <1>1
    <3> QED
      BY <3>1, <3>2, <3>3
  <2>4. /\ thread' \in Seq(Sending!Messages) /\ Len(thread') = n /\ thread'[p] = r
        /\ \A i \in 1..n : i # p => thread'[i] = thread[i]
    BY <1>1, <2>3
  <2>5. thread[p].text \in {<<c, 0>>, <<c, 1>>}
    <3> DEFINE d == thread[p].text[1]
               j == thread[p].text[2]
    <3>1. d \in Calls /\ j \in 0..Pieces /\ thread[p].text = <<d, j>>
      BY <1>5
    <3>2. CASE IsPiece(thread[p])
      <4>1. kind[d] = "edit" /\ j = 1
        BY <3>1, <3>2, <2>2 DEF IsPiece, SendingInv, EditHasItsMessage
      <4> QED
        BY <4>1, <3>1, <2>1, <1>2, SendingElements DEF SendingInv
    <3>3. CASE ~IsPiece(thread[p])
      <4>1. kind[d] = "edit" /\ j = 0
        BY <3>3 DEF SendingInv, ThreadIsMade
      <4> QED
        BY <4>1, <3>1, <2>1, <1>2, SendingElements DEF SendingInv
    <3> QED
      BY <3>2, <3>3
  <2>6. ThreadIsMade'
    BY <1>1, <1>4, <2>4 DEF SendingInv, ThreadIsMade
  <2>7. StampsDiffer'
    BY <2>2, <2>4, <1>a DEF SendingInv, StampsDiffer
  <2>8. EditHasItsMessage'
    <3>1. thread'[p].stamp = Sending!Old
      BY <2>4, <1>a
    <3> QED
      BY <3>1, <2>4, <1>1, <1>3, MixesAreSound DEF SendingInv, EditHasItsMessage
  <2>9. Sending!PiecesStandOnce'
    <3> SUFFICES ASSUME NEW i \in 1..n, NEW j \in 1..n, i < j
                 PROVE  \/ thread'[i].text[1] # thread'[j].text[1]
                        \/ thread'[i].text[2] < thread'[j].text[2]
      BY <2>4 DEF Sending!PiecesStandOnce
    <3>1. CASE i # p /\ j # p
      BY <3>1, <2>4 DEF SendingInv, Sending!PiecesStandOnce
    <3>2. CASE i = p
      <4>1. thread'[j] = thread[j] /\ thread'[i].text = <<c, 1>>
        BY <3>2, <2>1, <2>4, <1>2
      <4>2. thread[j].text[1] = c => thread[j].text[2] # 1
        <5> SUFFICES ASSUME thread[j].text[1] = c, thread[j].text[2] = 1 PROVE FALSE
          OBVIOUS
        <5>1. IsPiece(thread[j])
          BY DEF SendingInv, ThreadIsMade
        <5>2. thread[j].stamp = Sending!Old
          BY <5>1, <1>a, <1>2, <2>1 DEF IsPiece
        <5> QED
          BY <5>2, <2>2, <3>2 DEF SendingInv, StampsDiffer
      <4>3. thread[j].text[1] = c => thread[p].text[2] < thread[j].text[2]
        BY <2>5, <3>2 DEF SendingInv, Sending!PiecesStandOnce
      <4>4. thread[j].text[2] \in Nat
        BY <1>5
      <4> QED
        BY <4>1, <4>2, <4>3, <4>4, <2>5
    <3>3. CASE j = p
      <4>1. thread'[i] = thread[i] /\ thread'[j].text = <<c, 1>>
        BY <3>3, <2>1, <2>4, <1>2
      <4>2. thread[i].text[1] = c => thread[i].text[2] < thread[p].text[2]
        BY <2>5, <3>3 DEF SendingInv, Sending!PiecesStandOnce
      <4>3. thread[i].text[2] \in Nat
        BY <1>5
      <4> QED
        BY <4>1, <4>2, <4>3, <2>5
    <3> QED
      BY <3>1, <3>2, <3>3
  <2>10. SentStand'
    <3> SUFFICES ASSUME NEW d \in Calls, NEW j \in 1..sent[d]
                 PROVE  Sending!Stands(d, j)' \/ Sending!Swallowed(d, j)'
      BY <1>1 DEF SentStand
    <3>1. CASE Sending!Stands(d, j)
      <4>1. PICK i \in 1..n : thread[i].text = <<d, j>>
        BY <3>1 DEF Sending!Stands
      <4>2. CASE i = p
        <5>1. d = c /\ j = 1
          BY <4>1, <4>2, <2>5
        <5> QED
          BY <5>1, <2>1, <2>4, <1>2 DEF Sending!Stands
      <4>3. CASE i # p
        BY <4>1, <4>3, <2>4 DEF Sending!Stands
      <4> QED
        BY <4>2, <4>3
    <3>2. CASE Sending!Swallowed(d, j)
      BY <3>2, <2>2, <2>4, <1>1 DEF Sending!Swallowed
    <3> QED
      BY <3>1, <3>2 DEF SendingInv, SentStand
  <2>11. Sending!TypeOK'
    BY <1>1, <2>4 DEF SendingInv, Sending!TypeOK, Sending!PiecesOf
  <2> QED
    BY <1>6, <2>6, <2>7, <2>8, <2>9, <2>10, <2>11 DEF SendingInv
<1>b. CASE r.stamp # Sending!Old /\ r.stamp \in Sending!Stamps
  <2>1. thread' = thread
    BY <1>b DEF Sending!Lands
  <2>2. /\ ThreadIsMade' /\ StampsDiffer' /\ EditHasItsMessage' /\ Sending!PiecesStandOnce'
    BY <2>1, <1>1, SendingStays
  <2>3. SentStand'
    BY <2>1, <1>1, SentStays DEF SendingInv
  <2>4. Sending!TypeOK'
    BY <2>1, <1>1 DEF SendingInv, Sending!TypeOK, Sending!PiecesOf
  <2> QED
    BY <1>6, <2>2, <2>3, <2>4 DEF SendingInv
<1>c. CASE r.stamp # Sending!Old /\ r.stamp \notin Sending!Stamps
  <2>1. /\ thread' \in Seq(Sending!Messages) /\ Len(thread') = n + 1 /\ thread'[n + 1] = r
        /\ \A i \in 1..n : thread'[i] = thread[i]
    BY <1>1, <1>c DEF Sending!Lands
  <2>2. \A i \in 1..n : thread[i].stamp # r.stamp
    BY <1>c DEF Sending!Stamps
  <2>3. \A i \in 1..(n + 1) : i # n + 1 => i \in 1..n
    BY <1>1
  <2>4. ThreadIsMade'
    BY <1>1, <1>4, <2>1, <2>3 DEF SendingInv, ThreadIsMade
  <2>5. StampsDiffer'
    BY <2>1, <2>2, <2>3 DEF SendingInv, StampsDiffer
  <2>6. EditHasItsMessage'
    <3>1. \A d \in Calls : kind[d] = "edit" =>
            \E i \in 1..Len(thread') : thread'[i].stamp = Sending!Old
      <4> SUFFICES ASSUME NEW d \in Calls, kind[d] = "edit"
                   PROVE  \E i \in 1..Len(thread') : thread'[i].stamp = Sending!Old
        OBVIOUS
      <4>1. PICK i \in 1..n : thread[i].stamp = Sending!Old
        BY DEF SendingInv, EditHasItsMessage
      <4>2. i \in 1..Len(thread') /\ thread'[i].stamp = Sending!Old
        BY <4>1, <2>1, <1>1
      <4> QED
        BY <4>2
    <3> QED
      BY <3>1, <1>1, <1>3, MixesAreSound DEF SendingInv, EditHasItsMessage
  <2>7. ASSUME NEW i \in 1..n, thread[i].text[1] = c
        PROVE  thread[i].text[2] < k
    <3> DEFINE j == thread[i].text[2]
    <3>1. j \in 0..Pieces /\ thread[i].text = <<c, j>>
      BY <1>5, <2>7
    <3>2. CASE IsPiece(thread[i])
      <4>1. Made(c, j) /\ thread[i].stamp = stamps[c][j]
        BY <3>1, <3>2 DEF IsPiece
      <4>2. j # k
        BY <4>1, <2>2, <1>2
      <4>3. k = piece[c]
        <5> SUFFICES ASSUME k < piece[c] PROVE FALSE
          BY <1>2, SendingElements DEF Made, SendingInv
        <5>1. kind[c] # "image" /\ k > 0 /\ k =< sent[c]
          BY <1>2, SendingElements DEF Made, SendingInv, SentIsBehind
        <5>2. k \in 1..sent[c]
          BY <5>1, <1>2, SendingElements DEF SendingInv
        <5>3. Sending!Stands(c, k) \/ Sending!Swallowed(c, k)
          BY <5>2, <1>2 DEF SendingInv, SentStand
        <5>4. CASE Sending!Swallowed(c, k)
          BY <5>4, <1>2, <2>2 DEF Sending!Swallowed
        <5>5. CASE Sending!Stands(c, k)
          <6>1. PICK q \in 1..n : thread[q].text = <<c, k>>
            BY <5>5 DEF Sending!Stands
          <6>2. IsPiece(thread[q])
            BY <6>1, <5>1 DEF SendingInv, ThreadIsMade
          <6>3. thread[q].stamp = stamps[c][k]
            BY <6>1, <6>2 DEF IsPiece
          <6> QED
            BY <6>3, <1>2, <2>2
        <5> QED
          BY <5>3, <5>4, <5>5
      <4> QED
        BY <4>1, <4>2, <4>3, <1>2, SendingElements DEF Made, SendingInv
    <3>3. CASE ~IsPiece(thread[i])
      <4>1. kind[c] = "edit" /\ j = 0
        BY <3>1, <3>3 DEF SendingInv, ThreadIsMade
      <4> QED
        BY <4>1, <1>2 DEF Made
    <3> QED
      BY <3>2, <3>3
  <2>8. Sending!PiecesStandOnce'
    <3> SUFFICES ASSUME NEW i \in 1..(n + 1), NEW j \in 1..(n + 1), i < j
                 PROVE  \/ thread'[i].text[1] # thread'[j].text[1]
                        \/ thread'[i].text[2] < thread'[j].text[2]
      BY <2>1 DEF Sending!PiecesStandOnce
    <3>1. i \in 1..n /\ thread'[i] = thread[i]
      BY <2>1, <1>1
    <3>2. CASE j = n + 1
      BY <3>1, <3>2, <2>1, <2>7
    <3>3. CASE j # n + 1
      BY <3>1, <3>3, <2>1, <2>3 DEF SendingInv, Sending!PiecesStandOnce
    <3> QED
      BY <3>2, <3>3
  <2>9. SentStand'
    <3>1. \A d, j : Sending!Stands(d, j) => Sending!Stands(d, j)'
      BY <2>1, <1>1 DEF Sending!Stands
    <3>2. \A d, j : Sending!Swallowed(d, j) => Sending!Swallowed(d, j)'
      BY <2>1, <1>1 DEF Sending!Swallowed
    <3> QED
      BY <3>1, <3>2, <1>1 DEF SendingInv, SentStand
  <2>10. Sending!TypeOK'
    BY <1>1, <2>1 DEF SendingInv, Sending!TypeOK, Sending!PiecesOf
  <2> QED
    BY <1>6, <2>4, <2>5, <2>6, <2>8, <2>9, <2>10 DEF SendingInv
<1> QED
  BY <1>a, <1>b, <1>c

\* A task is made for the next piece.
LEMMA PieceIsMade ==
  ASSUME SendingInv, NEW c \in Calls,
         \/ Sending!Begin(c) \/ Sending!UploadReturns(c)
         \/ Sending!Answered(c) /\ piece[c] \in 1..(Sending!PiecesOf(c) - 1)
  PROVE  SendingInv'
<1>0. /\ piece[c] \in 0..Pieces /\ sent[c] \in 0..Pieces /\ Pieces \in Nat /\ Pieces > 0
      /\ Sending!PiecesOf(c) \in 1..Pieces
      /\ kind[c] = "image" => Sending!PiecesOf(c) = 1
      /\ kind[c] # "image" => Sending!PiecesOf(c) = Pieces
      /\ now \in Nat /\ now > 0
  BY SendingElements DEF SendingInv
<1>1. PICK k \in 0..Sending!PiecesOf(c) :
        /\ Sending!Make(c, k)
        /\ UNCHANGED <<kind, thread, callResult, callCancelled, now>>
        /\ \/ callAt[c] = "idle" /\ sent' = sent /\ k = 1 /\ kind[c] # "image"
           \/ callAt[c] = "idle" /\ sent' = sent /\ k \in {0, 1} /\ kind[c] = "image"
           \/ /\ callAt[c] = "waits" /\ sent' = [sent EXCEPT ![c] = piece[c]]
              /\ k = piece[c] + 1 /\ piece[c] > 0 /\ kind[c] # "image"
              /\ Sending!Stands(c, piece[c]) \/ Sending!Swallowed(c, piece[c])
  <2>1. CASE Sending!Begin(c)
    BY <2>1, <1>0 DEF Sending!Begin
  <2>2. CASE Sending!UploadReturns(c)
    BY <2>2, <1>0 DEF Sending!UploadReturns
  <2>3. CASE Sending!Answered(c) /\ piece[c] \in 1..(Sending!PiecesOf(c) - 1)
    BY <2>3, <1>0 DEF Sending!Answered
  <2> QED
    BY <2>1, <2>2, <2>3
<1> DEFINE stamp == IF kind[c] = "edit" /\ k = 1 THEN Sending!Old ELSE now
           r == [stamp |-> stamp, text |-> <<c, k>>]
<1>2. k \in 0..Pieces /\ stamp \in Sending!Old..LastMs
  BY <1>0, MixesAreSound DEF SendingInv, Sending!TypeOK, Sending!Old
<1>3. /\ piece' = [piece EXCEPT ![c] = k] /\ piece'[c] = k
      /\ callAt' = [callAt EXCEPT ![c] = "waits"] /\ callAt'[c] = "waits"
      /\ try' = [try EXCEPT ![c] = 1]
      /\ flight' = flight \cup {r}
      /\ \A d \in Calls : d # c => /\ piece'[d] = piece[d] /\ callAt'[d] = callAt[d]
                                   /\ try'[d] = try[d]
  BY <1>1 DEF Sending!Make, SendingInv, Sending!TypeOK
<1>4. /\ DOMAIN stamps' = Calls /\ stamps'[c] = [stamps[c] EXCEPT ![k] = stamp]
      /\ \A d \in Calls : d # c => stamps'[d] = stamps[d]
  BY <1>1 DEF Sending!Make, SendingInv, Sending!TypeOK
<1>5. /\ stamps[c] \in [0..Sending!PiecesOf(c) -> Sending!Old..LastMs]
      /\ stamps'[c] \in [0..Sending!PiecesOf(c) -> Sending!Old..LastMs]
      /\ stamps'[c][k] = stamp
      /\ \A j \in 0..piece[c] : j # k => stamps'[c][j] = stamps[c][j]
  <2>1. stamps[c] \in [0..Sending!PiecesOf(c) -> Sending!Old..LastMs]
    BY DEF SendingInv, Sending!TypeOK
  <2>2. k \in 0..Sending!PiecesOf(c)
    OBVIOUS
  <2> HIDE DEF stamp
  <2>3. 0..piece[c] \subseteq 0..Sending!PiecesOf(c)
    BY <1>0, SendingElements DEF SendingInv
  <2>4. /\ stamps'[c][k] = stamp
        /\ \A j \in 0..Sending!PiecesOf(c) : j # k => stamps'[c][j] = stamps[c][j]
    BY <2>1, <2>2, <1>4
  <2>5. stamps'[c] \in [0..Sending!PiecesOf(c) -> Sending!Old..LastMs]
    BY <2>1, <2>2, <1>2, <1>4
  <2> QED
    BY <2>1, <2>3, <2>4, <2>5
<1>6. ~Made(c, k) /\ \A j \in 0..Pieces : Made(c, j)' <=> Made(c, j) \/ j = k
  BY <1>0, <1>1, <1>2, <1>3 DEF Made
<1>7. \A d \in Calls : d # c => \A j : Made(d, j)' <=> Made(d, j)
  BY <1>1, <1>3 DEF Made
<1>8. ASSUME NEW m, IsPiece(m) PROVE IsPiece(m)'
  <2> DEFINE d == m.text[1]
             j == m.text[2]
  <2>1. d \in Calls /\ j \in 0..Pieces /\ Made(d, j) /\ m.stamp = stamps[d][j]
    BY <1>8 DEF IsPiece
  <2>2. Made(d, j)' /\ m.stamp = stamps'[d][j]
    <3>1. CASE d = c
      <4>1. j \in 0..piece[c] /\ j # k
        BY <2>1, <3>1, <1>6 DEF Made
      <4> QED
        BY <4>1, <2>1, <3>1, <1>5, <1>6
    <3>2. CASE d # c
      BY <2>1, <3>2, <1>4, <1>7
    <3> QED
      BY <3>1, <3>2
  <2> QED
    BY <1>8, <2>2 DEF IsPiece
<1>9. ASSUME NEW m, m = r PROVE IsPiece(m)'
  <2>1. Made(c, k)' /\ stamps'[c][k] = stamp
    BY <1>2, <1>5, <1>6
  <2>2. r.text = <<c, k>> /\ r.stamp = stamp /\ r.text \in Calls \X (0..Pieces)
    BY <1>2
  <2> HIDE DEF r, stamp
  <2> QED
    BY <2>1, <2>2, <1>9 DEF IsPiece
<1>10. ThreadIsMade'
  BY <1>1, <1>3, <1>8, <1>9 DEF SendingInv, ThreadIsMade
<1>11. StampsDiffer' /\ Sending!PiecesStandOnce'
  BY <1>1 DEF SendingInv, StampsDiffer, Sending!PiecesStandOnce
<1>12. EditHasItsMessage'
  <2> SUFFICES ASSUME NEW d \in Calls
               PROVE  /\ kind[d] = "edit" =>
                           /\ \E i \in 1..Len(thread) : thread[i].stamp = Sending!Old
                           /\ Made(d, 1)' => stamps'[d][1] = Sending!Old
                      /\ \A j \in 0..Pieces :
                           Made(d, j)' /\ stamps'[d][j] = Sending!Old
                             => kind[d] = "edit" /\ j = 1
    BY <1>1 DEF EditHasItsMessage
  <2>1. CASE d # c
    BY <2>1, <1>4, <1>7 DEF SendingInv, EditHasItsMessage
  <2>2. CASE d = c
    BY SMTT(30), <2>2, <1>0, <1>5, <1>6 DEF SendingInv, EditHasItsMessage, Sending!Old, Made
  <2> QED
    BY <2>1, <2>2
<1>13. SentIsBehind'
  <2> SUFFICES ASSUME NEW d \in Calls
               PROVE  /\ callAt'[d] = "idle" => sent'[d] = 0
                      /\ callAt'[d] \in {"waits", "nudged"} =>
                           sent'[d] = IF piece'[d] = 0 THEN 0 ELSE piece'[d] - 1
                      /\ sent'[d] =< piece'[d]
                      /\ (kind[d] # "image" => piece'[d] =< sent'[d] + 1)
                      /\ callAt'[d] = "nudged" => try'[d] < Tries
                      /\ callAt'[d] # "done" => callResult[d] = "none"
                      /\ callAt'[d] # "idle" /\ kind[d] # "image" => piece'[d] > 0
    BY <1>1 DEF SentIsBehind
  <2>1. CASE d # c
    <3>1. sent'[d] = sent[d]
      BY <2>1, <1>1 DEF SendingInv, Sending!TypeOK
    <3> QED
      BY <2>1, <3>1, <1>3 DEF SendingInv, SentIsBehind
  <2>2. CASE d = c
    <3>1. sent'[c] = (IF k = 0 THEN 0 ELSE k - 1) /\ k \in Nat
      <4>1. CASE callAt[c] = "idle"
        <5>1. sent[c] = 0
          BY <4>1 DEF SendingInv, SentIsBehind
        <5> QED
          BY <4>1, <5>1, <1>1
      <4>2. CASE callAt[c] # "idle"
        <5>1. sent' = [sent EXCEPT ![c] = piece[c]] /\ k = piece[c] + 1 /\ piece[c] > 0
          BY <4>2, <1>1
        <5>2. sent'[c] = piece[c]
          BY <5>1 DEF SendingInv, Sending!TypeOK
        <5> QED
          BY <5>1, <5>2, <1>0
      <4> QED
        BY <4>1, <4>2, <1>2
    <3>2. callResult[c] = "none"
      BY <1>1 DEF SendingInv, SentIsBehind
    <3>3. /\ callAt'[d] = "waits" /\ piece'[d] = k
          /\ kind[c] # "image" => k > 0
      BY <2>2, <3>1, <1>0, <1>1, <1>3
    <3> QED
      BY <2>2, <3>1, <3>2, <3>3
  <2> QED
    BY <2>1, <2>2
<1>14. SentStand'
  <2> SUFFICES ASSUME NEW d \in Calls, NEW j \in 1..sent'[d]
               PROVE  Sending!Stands(d, j)' \/ Sending!Swallowed(d, j)'
    BY DEF SentStand
  <2>1. j \in 1..sent[d] \/ (d = c /\ j = piece[c] /\ sent' = [sent EXCEPT ![c] = piece[c]])
    <3>1. CASE sent' = sent
      BY <3>1
    <3>2. CASE callAt[c] = "waits" /\ sent' = [sent EXCEPT ![c] = piece[c]]
      <4>1. sent \in [Calls -> 0..Pieces]
        BY DEF SendingInv, Sending!TypeOK
      <4>2. sent[c] >= piece[c] - 1
        BY <3>2, <1>0 DEF SendingInv, SentIsBehind
      <4>3. CASE d = c
        <5>1. sent'[c] = piece[c]
          BY <3>2, <4>1
        <5> QED
          BY <5>1, <4>2, <4>3, <3>2, <1>0
      <4>4. CASE d # c
        BY <3>2, <4>1, <4>4
      <4> QED
        BY <4>3, <4>4
    <3> QED
      BY <3>1, <3>2, <1>1
  <2>2. Sending!Stands(d, j) \/ Sending!Swallowed(d, j)
    <3>1. CASE j \in 1..sent[d]
      BY <3>1 DEF SendingInv, SentStand
    <3>2. CASE j \notin 1..sent[d]
      <4>1. d = c /\ j = piece[c]
        BY <2>1, <3>2
      <4>2. sent'[c] # sent[c]
        BY <3>2, <4>1
      <4> QED
        BY <1>1, <4>1, <4>2
    <3> QED
      BY <3>1, <3>2
  <2>3. stamps'[d][j] = stamps[d][j]
    <3>1. CASE d # c
      BY <3>1, <1>4
    <3>2. CASE d = c
      <4>1. j # k
        BY <2>1, <3>2, <1>0, <1>1 DEF SendingInv, SentIsBehind
      <4>2. j \in 0..piece[c]
        BY <2>1, <3>2, <1>0 DEF SendingInv, SentIsBehind
      <4> QED
        BY <4>1, <4>2, <3>2, <1>5
    <3> QED
      BY <3>1, <3>2
  <2> QED
    BY <2>2, <2>3, <1>1 DEF Sending!Stands, Sending!Swallowed
<1>15. ResultIsTrue'
  <2> SUFFICES ASSUME NEW d \in Calls, callResult[d] = "ok"
               PROVE  sent'[d] > 0 /\ (kind[d] # "text" => sent'[d] = Sending!PiecesOf(d))
    BY <1>1 DEF ResultIsTrue, Sending!PiecesOf
  <2>1. d # c
    BY <1>1 DEF SendingInv, SentIsBehind
  <2>2. sent'[d] = sent[d]
    BY <2>1, <1>1 DEF SendingInv, Sending!TypeOK
  <2> QED
    BY <2>2 DEF SendingInv, ResultIsTrue
<1>16. Sending!TypeOK'
  <2>1. flight' \subseteq Sending!Messages
    <3>1. r \in Sending!Messages
      BY <1>2 DEF Sending!Messages, Sending!Texts
    <3> QED
      BY <3>1, <1>3 DEF SendingInv, Sending!TypeOK
  <2>2. /\ piece' \in [Calls -> 0..Pieces] /\ sent' \in [Calls -> 0..Pieces]
        /\ callAt' \in [Calls -> {"idle", "waits", "nudged", "done"}]
        /\ try' \in [Calls -> 0..Tries]
    <3>1. 1 \in 0..Tries
      BY MixesAreSound
    <3> QED
      BY <3>1, <1>0, <1>1, <1>2, <1>3 DEF SendingInv, Sending!TypeOK
  <2>3. ASSUME NEW d \in Calls
        PROVE  /\ piece'[d] =< Sending!PiecesOf(d)
               /\ stamps'[d] \in [0..Sending!PiecesOf(d) -> Sending!Old..LastMs]
    <3>1. CASE d = c
      BY <3>1, <1>0, <1>3, <1>5
    <3>2. CASE d # c
      BY <3>2, <1>3, <1>4 DEF SendingInv, Sending!TypeOK
    <3> QED
      BY <3>1, <3>2
  <2>4. \A d : Sending!PiecesOf(d)' = Sending!PiecesOf(d)
    BY <1>1 DEF Sending!PiecesOf
  <2> QED
    BY <1>1, <1>4, <2>1, <2>2, <2>3, <2>4 DEF SendingInv, Sending!TypeOK
<1> QED
  BY <1>10, <1>11, <1>12, <1>13, <1>14, <1>15, <1>16 DEF SendingInv

\* The answer to the last piece is there.
LEMMA LastIsAnswered ==
  ASSUME SendingInv, NEW c \in Calls, Sending!Answered(c),
         piece[c] \notin 1..(Sending!PiecesOf(c) - 1)
  PROVE  SendingInv'
<1>0. /\ piece[c] \in 0..Pieces /\ piece[c] =< Sending!PiecesOf(c) /\ sent[c] \in 0..Pieces
      /\ Sending!PiecesOf(c) \in 1..Pieces
  BY SendingElements DEF SendingInv
<1>1. /\ UNCHANGED <<kind, thread, flight, piece, stamps, try, callCancelled, now>>
      /\ callAt[c] = "waits" /\ sent' = [sent EXCEPT ![c] = piece[c]]
      /\ callAt' = [callAt EXCEPT ![c] = "done"]
      /\ callResult' =
           [callResult EXCEPT ![c] = IF piece[c] = 0 THEN "failed" ELSE "ok"]
      /\ Sending!Stands(c, piece[c]) \/ Sending!Swallowed(c, piece[c])
  BY DEF Sending!Answered, Sending!Returns
<1>2. piece[c] = 0 \/ piece[c] = Sending!PiecesOf(c)
  BY <1>0
<1>3. /\ ThreadIsMade' /\ StampsDiffer' /\ EditHasItsMessage' /\ Sending!PiecesStandOnce'
  <2>1. \A d \in Calls : callAt[d] = "idle" <=> callAt'[d] = "idle"
    BY <1>1 DEF SendingInv, Sending!TypeOK
  <2> QED
    BY <1>1, <2>1, SendingStays
<1>4. /\ \A d \in Calls : d # c => /\ sent'[d] = sent[d] /\ callAt'[d] = callAt[d]
                                   /\ callResult'[d] = callResult[d]
      /\ sent'[c] = piece[c] /\ callAt'[c] = "done"
      /\ callResult'[c] = IF piece[c] = 0 THEN "failed" ELSE "ok"
  BY <1>1 DEF SendingInv, Sending!TypeOK
<1>5. SentIsBehind'
  BY <1>0, <1>1, <1>4 DEF SendingInv, SentIsBehind
<1>6. SentStand'
  <2> SUFFICES ASSUME NEW d \in Calls, NEW j \in 1..sent'[d]
               PROVE  Sending!Stands(d, j) \/ Sending!Swallowed(d, j)
    BY <1>1 DEF SentStand, Sending!Stands, Sending!Swallowed
  <2>1. j \in 1..sent[d] \/ (d = c /\ j = piece[c])
    BY <1>0, <1>1, <1>4 DEF SendingInv, SentIsBehind
  <2> QED
    BY <2>1, <1>1 DEF SendingInv, SentStand
<1>7. ResultIsTrue'
  BY <1>0, <1>1, <1>2, <1>4 DEF SendingInv, ResultIsTrue, Sending!PiecesOf
<1>8. Sending!TypeOK'
  BY <1>0, <1>1 DEF SendingInv, Sending!TypeOK, Sending!PiecesOf
<1> QED
  BY <1>3, <1>5, <1>6, <1>7, <1>8 DEF SendingInv

LEMMA SendingMoves == SendingInv /\ [Sending!Next]_sendingvars => SendingInv'
<1>1. ASSUME SendingInv, UNCHANGED sendingvars PROVE SendingInv'
  <2>1. /\ ThreadIsMade' /\ StampsDiffer' /\ EditHasItsMessage' /\ Sending!PiecesStandOnce'
    BY <1>1, SendingStays DEF sendingvars
  <2>2. Sending!TypeOK'
    BY <1>1 DEF sendingvars, SendingInv, Sending!TypeOK, Sending!PiecesOf
  <2>3. SentIsBehind' /\ ResultIsTrue'
    BY <1>1 DEF sendingvars, SendingInv, SentIsBehind, ResultIsTrue, Sending!PiecesOf
  <2>4. SentStand'
    BY <1>1, SentStays DEF sendingvars, SendingInv
  <2> QED
    BY <2>1, <2>2, <2>3, <2>4 DEF SendingInv
<1> QED
  BY <1>1, CallerGoesOn, NetworkLoses, RequestLands, PieceIsMade, LastIsAnswered
  DEF Sending!Next

LEMMA SendingHolds == SendingInv => Sending!SendsAreSound
BY DEF SendingInv, ResultIsTrue, SentStand, Sending!SendsAreSound, Sending!SuccessIsTrue

----------------------------------------------------------------------------
(* The sessions of the bridge                                              *)

----------------------------------------------------------------------------
LEMMA BridgeInit == Bridge!Init => BridgeInv
BY EventsAreSound DEF Bridge!Init, BridgeInv, BridgeSound, BridgeTyped, InOnePlace,
   EntriesAreActive, NewestWasCalled,
       TakenForGood, NewestHasEntry, BridgeCalled, Bridge!Active, Bridge!Runs, Bridge!Phases

\* Who is neither absent nor waiting leaves plan and lanes as they are.
LEMMA PlacesKept ==
  ASSUME BridgeTyped, InOnePlace, NEW e \in Events, pc[e] \notin {"absent", "waiting"}, NEW p,
         pc' = [pc EXCEPT ![e] = p], plan' = plan, waiting' = waiting
  PROVE  InOnePlace'
<1>1. \A x : pc[x] \in {"absent", "waiting"} /\ x \in Events => pc'[x] = pc[x]
  BY DEF BridgeTyped
<1>2. \A x \in plan' : pc'[x] = "absent"
  BY <1>1 DEF InOnePlace, BridgeTyped
<1>3. ASSUME NEW l \in Lanes, NEW i \in 1..Len(waiting[l])
      PROVE  /\ waiting[l][i].lane = l /\ pc'[waiting[l][i]] = "waiting"
             /\ \A j \in 1..Len(waiting[l]) : waiting[l][j] = waiting[l][i] => j = i
  <2>1. waiting[l] \in Seq(Events)
    BY DEF BridgeTyped
  <2>2. waiting[l][i] \in Events
    BY <2>1
  <2> QED
    BY <2>2, <1>1 DEF InOnePlace
<1> QED
  BY <1>2, <1>3 DEF InOnePlace

LEMMA GoesKeeps ==
  ASSUME BridgeInv, NEW e \in Events, BridgeGoes(e)
  PROVE  BridgeInv'
<1> USE DEF BridgeInv
<1>1. PICK p \in Bridge!Phases \ {"absent", "waiting", "enter", "start", "stopping"} :
        pc' = [pc EXCEPT ![e] = p]
  BY DEF BridgeGoes, Bridge!Phases
<1>2. pc[e] \notin {"absent", "waiting", "stopping"} /\ pc \in [Events -> Bridge!Phases]
  BY DEF BridgeGoes, BridgeTyped
<1>3. BridgeCalled \subseteq BridgeCalled' /\ BridgeCalled' \subseteq BridgeCalled \cup {e}
  BY <1>1, <1>2 DEF BridgeCalled, Bridge!Phases
<1>4. BridgeTyped' /\ BridgeSound'
  BY <1>1, <1>2, <1>3 DEF BridgeGoes, BridgeTyped, BridgeSound
<1>5. InOnePlace'
  BY <1>1, <1>2, PlacesKept DEF BridgeGoes
<1>6. NewestWasCalled'
  BY <1>1, <1>2 DEF BridgeGoes, NewestWasCalled, BridgeTyped
<1>7. EntriesAreActive'
  BY <1>1, <1>2 DEF BridgeGoes, EntriesAreActive, Bridge!Active, BridgeTyped, Bridge!Phases
<1>8. TakenForGood'
  <2> SUFFICES ASSUME NEW s \in Events, pc'[s] = "stopping"
               PROVE  \E r \in BridgeCalled' \cap Bridge!Runs : held'[s] = <<r>>
                      /\ \A t \in Threads : cancels'[t] # r
    BY DEF TakenForGood
  <2>1. s # e /\ pc[s] = "stopping"
    BY <1>1, <1>2
  <2> QED
    BY <2>1, <1>3 DEF BridgeGoes, TakenForGood
<1>9. NewestHasEntry'
  <2> SUFFICES ASSUME NEW t \in Threads, NEW x \in Bridge!Active' \ stopped', newest'[t] = x,
                      \A s \in Events : pc'[s] = "stopping" => held'[s] # <<x>>
               PROVE  cancels'[t] = x
    BY DEF NewestHasEntry
  <2>1. newest[t] = x /\ stopped' = stopped /\ cancels' = cancels
    BY DEF BridgeGoes
  <2>2. x \in Bridge!Active
    BY <2>1, <1>1, <1>2 DEF BridgeGoes, Bridge!Active, NewestWasCalled, BridgeSound
  <2>3. \A s \in Events : pc[s] = "stopping" => held[s] # <<x>>
    BY <1>1, <1>2 DEF BridgeGoes
  <2> QED
    BY <2>1, <2>2, <2>3 DEF NewestHasEntry
<1> QED
  BY <1>4, <1>5, <1>6, <1>7, <1>8, <1>9

----------------------------------------------------------------------------
(* The steps that move events between the plan, the lanes and the handlers *)

LEMMA ArriveKeeps ==
  ASSUME BridgeInv, NEW e \in Events, Bridge!Arrive(e)
  PROVE  BridgeInv'
<1> USE DEF BridgeInv
<1>1. /\ e \in plan /\ pc[e] = "absent"
      /\ plan' = plan \ {e} /\ UNCHANGED <<cancels, newest, stopped, held>>
      /\ pc \in [Events -> Bridge!Phases]
  BY DEF Bridge!Arrive, InOnePlace, BridgeTyped, Bridge!runvars
<1>2. PICK p \in {"waiting", "enter"} : pc' = [pc EXCEPT ![e] = p]
  BY DEF Bridge!Arrive
<1>3. BridgeCalled' = BridgeCalled
  BY <1>1, <1>2 DEF BridgeCalled
<1>4. \/ UNCHANGED waiting
      \/ /\ e.lane \in Lanes /\ pc'[e] = "waiting"
         /\ waiting' = [waiting EXCEPT ![e.lane] = Append(waiting[e.lane], e)]
  BY <1>1 DEF Bridge!Arrive
<1>5. BridgeTyped' /\ BridgeSound'
  <2>1. waiting' \in [Lanes -> Seq(Events)]
    <3>1. CASE UNCHANGED waiting
      BY <3>1 DEF BridgeTyped
    <3>2. CASE /\ e.lane \in Lanes
               /\ waiting' = [waiting EXCEPT ![e.lane] = Append(waiting[e.lane], e)]
      <4>1. waiting[e.lane] \in Seq(Events)
        BY <3>2 DEF BridgeTyped
      <4>2. Append(waiting[e.lane], e) \in Seq(Events)
        BY <4>1
      <4> QED
        BY <3>2, <4>2 DEF BridgeTyped
    <3> QED
      BY <3>1, <3>2, <1>4
  <2>2. pc' \in [Events -> Bridge!Phases]
    BY <1>1, <1>2 DEF Bridge!Phases
  <2> QED
    BY <2>1, <2>2, <1>1, <1>3 DEF BridgeTyped, BridgeSound
<1>6. InOnePlace'
  <2>1. \A x \in plan' : pc'[x] = "absent"
    BY <1>1, <1>2 DEF InOnePlace, BridgeTyped
  <2>2. ASSUME NEW l \in Lanes, NEW i \in 1..Len(waiting[l])
        PROVE  waiting[l][i] # e /\ waiting[l][i] \in Events
    BY <1>1 DEF InOnePlace, BridgeTyped
  <2>3. CASE UNCHANGED waiting
    <3>1. \A x \in Events : x # e => pc'[x] = pc[x]
      BY <1>1, <1>2
    <3>2. \A l \in Lanes : \A i \in 1..Len(waiting[l]) :
            /\ waiting[l][i].lane = l /\ pc'[waiting[l][i]] = "waiting"
            /\ \A j \in 1..Len(waiting[l]) : waiting[l][j] = waiting[l][i] => j = i
      BY <2>2, <3>1 DEF InOnePlace
    <3> QED
      BY <2>1, <2>3, <3>2 DEF InOnePlace
  <2>4. CASE /\ e.lane \in Lanes /\ pc'[e] = "waiting"
             /\ waiting' = [waiting EXCEPT ![e.lane] = Append(waiting[e.lane], e)]
    <3> SUFFICES ASSUME NEW l \in Lanes, NEW i \in 1..Len(waiting'[l])
                 PROVE  /\ waiting'[l][i].lane = l /\ pc'[waiting'[l][i]] = "waiting"
                        /\ \A j \in 1..Len(waiting'[l]) :
                             waiting'[l][j] = waiting'[l][i] => j = i
      BY <2>1 DEF InOnePlace
    <3>1. CASE l # e.lane
      <4>1. waiting'[l] = waiting[l]
        BY <3>1, <2>4 DEF BridgeTyped
      <4>2. pc'[waiting[l][i]] = pc[waiting[l][i]]
        BY <4>1, <2>2, <1>1, <1>2
      <4> QED
        BY <4>1, <4>2 DEF InOnePlace
    <3>2. CASE l = e.lane
      <4>1. waiting[l] \in Seq(Events) /\ waiting'[l] = Append(waiting[l], e)
        BY <3>2, <2>4 DEF BridgeTyped
      <4>2. /\ Len(waiting'[l]) = Len(waiting[l]) + 1 /\ Len(waiting[l]) \in Nat
            /\ waiting'[l][Len(waiting[l]) + 1] = e
            /\ \A j \in 1..Len(waiting[l]) : waiting'[l][j] = waiting[l][j]
        BY <4>1
      <4> QED
        BY <4>2, <3>2, <2>2, <2>4, <1>1, <1>2 DEF InOnePlace
    <3> QED
      BY <3>1, <3>2
  <2> QED
    BY <2>3, <2>4, <1>4
<1>7. Bridge!Active' = Bridge!Active
  BY <1>1, <1>2 DEF Bridge!Active, Bridge!Runs
<1>8. NewestWasCalled' /\ EntriesAreActive'
  BY <1>1, <1>2, <1>7 DEF NewestWasCalled, EntriesAreActive, BridgeTyped
<1>9. \A s \in Events : pc'[s] = "stopping" <=> pc[s] = "stopping"
  BY <1>1, <1>2
<1>10. TakenForGood' /\ NewestHasEntry'
  BY <1>1, <1>3, <1>7, <1>9 DEF TakenForGood, NewestHasEntry
<1> QED
  BY <1>5, <1>6, <1>8, <1>10

LEMMA TakeKeeps ==
  ASSUME BridgeInv, NEW l \in Lanes, Bridge!Take(l)
  PROVE  BridgeInv'
<1> USE DEF BridgeInv
<1> DEFINE e == Head(waiting[l])
<1>1. /\ waiting[l] \in Seq(Events) /\ waiting[l] # <<>>
      /\ pc \in [Events -> Bridge!Phases]
      /\ waiting' = [waiting EXCEPT ![l] = Tail(waiting[l])]
      /\ pc' = [pc EXCEPT ![e] = "enter"]
      /\ UNCHANGED <<plan, cancels, newest, stopped, held>>
  BY DEF Bridge!Take, BridgeTyped, Bridge!runvars
<1>2. e \in Events /\ pc[e] = "waiting" /\ e = waiting[l][1] /\ e.lane = l
      /\ Len(waiting[l]) \in Nat \ {0}
  BY <1>1 DEF InOnePlace
<1>3. BridgeCalled' = BridgeCalled
  BY <1>1, <1>2 DEF BridgeCalled
<1>4. BridgeTyped' /\ BridgeSound'
  BY <1>1, <1>2, <1>3 DEF BridgeTyped, BridgeSound, Bridge!Phases
<1>5. InOnePlace'
  <2>1. \A x \in plan' : pc'[x] = "absent"
    BY <1>1, <1>2 DEF InOnePlace, BridgeTyped
  <2> SUFFICES ASSUME NEW k \in Lanes, NEW i \in 1..Len(waiting'[k])
               PROVE  /\ waiting'[k][i].lane = k /\ pc'[waiting'[k][i]] = "waiting"
                      /\ \A j \in 1..Len(waiting'[k]) :
                           waiting'[k][j] = waiting'[k][i] => j = i
    BY <2>1 DEF InOnePlace
  <2>2. CASE k # l
    <3>1. waiting'[k] = waiting[k] /\ waiting[k] \in Seq(Events)
      BY <2>2, <1>1 DEF BridgeTyped
    <3>2. waiting[k][i].lane = k
      BY <3>1 DEF InOnePlace
    <3>3. waiting[k][i] # e
      BY <3>2, <2>2, <1>2
    <3> QED
      BY <3>1, <3>3, <1>1 DEF InOnePlace
  <2>3. CASE k = l
    <3> DEFINE q == waiting[l]
    <3>1. /\ waiting'[k] = Tail(q) /\ Len(Tail(q)) = Len(q) - 1
          /\ \A j \in 1..(Len(q) - 1) : Tail(q)[j] = q[j + 1]
      BY <2>3, <1>1, <1>2 DEF BridgeTyped
    <3>2. i + 1 \in 1..Len(q) /\ q[i + 1] # q[1] /\ q[i + 1] \in Events
      BY <3>1, <1>1, <1>2 DEF InOnePlace
    <3>3. q[i + 1].lane = l /\ pc[q[i + 1]] = "waiting"
      BY <3>2 DEF InOnePlace
    <3>4. \A j \in 1..(Len(q) - 1) : q[j + 1] = q[i + 1] => j = i
      BY <3>2, <1>2 DEF InOnePlace
    <3> QED
      BY <3>1, <3>2, <3>3, <3>4, <2>3, <1>1, <1>2
  <2> QED
    BY <2>2, <2>3
<1>6. Bridge!Active' = Bridge!Active
  BY <1>1, <1>2 DEF Bridge!Active, Bridge!Runs
<1>7. NewestWasCalled' /\ EntriesAreActive'
  BY <1>1, <1>2, <1>6 DEF NewestWasCalled, EntriesAreActive, BridgeTyped
<1>8. \A s \in Events : pc'[s] = "stopping" <=> pc[s] = "stopping"
  BY <1>1, <1>2
<1>9. TakenForGood' /\ NewestHasEntry'
  BY <1>1, <1>3, <1>6, <1>8 DEF TakenForGood, NewestHasEntry
<1> QED
  BY <1>4, <1>5, <1>7, <1>9

----------------------------------------------------------------------------
(* The steps that change an entry                                          *)

\* The entries are nobody's business but the run's that is new.
LEMMA RegisterKeeps ==
  ASSUME BridgeInv, NEW e \in Events, Bridge!Register(e)
  PROVE  BridgeInv'
<1> USE DEF BridgeInv
<1>1. /\ pc[e] = "enter" /\ e \in Bridge!Runs /\ e.thread \in Threads
      /\ pc' = [pc EXCEPT ![e] = "start"] /\ pc \in [Events -> Bridge!Phases]
      /\ cancels' = [cancels EXCEPT ![e.thread] = e]
      /\ newest' = [newest EXCEPT ![e.thread] = e]
      /\ UNCHANGED <<plan, waiting, stopped, held>>
  BY DEF Bridge!Register, Bridge!Enters, Bridge!Runs, BridgeTyped, BridgeSound, Bridge!lanevars
<1>2. BridgeCalled' = BridgeCalled \cup {e} /\ e \notin stopped /\ e \notin BridgeCalled
  BY <1>1 DEF BridgeCalled, BridgeTyped
<1>3. BridgeTyped' /\ BridgeSound'
  BY <1>1, <1>2 DEF BridgeTyped, BridgeSound, Bridge!Phases
<1>4. InOnePlace'
  BY <1>1, PlacesKept
<1>5. Bridge!Active' = Bridge!Active \cup {e}
  BY <1>1 DEF Bridge!Active, Bridge!Runs
<1>6. EntriesAreActive' /\ NewestWasCalled'
  BY <1>1, <1>2, <1>5 DEF EntriesAreActive, NewestWasCalled, BridgeTyped
<1>7. TakenForGood'
  BY <1>1, <1>2 DEF TakenForGood, BridgeTyped
<1>8. NewestHasEntry'
  <2> SUFFICES ASSUME NEW t \in Threads, NEW x \in Bridge!Active' \ stopped', newest'[t] = x,
                      \A s \in Events : pc'[s] = "stopping" => held'[s] # <<x>>
               PROVE  cancels'[t] = x
    BY DEF NewestHasEntry
  <2>1. CASE t = e.thread
    BY <2>1, <1>1 DEF BridgeTyped
  <2>2. CASE t # e.thread
    <3>1. newest[t] = x /\ cancels'[t] = cancels[t] /\ x # Nobody
      BY <2>2, <1>1 DEF BridgeTyped, Bridge!Active, Bridge!Runs, BridgeSound
    <3>2. x # e /\ x \in Bridge!Active \ stopped
      BY <3>1, <2>2, <1>1, <1>5 DEF NewestWasCalled
    <3> QED
      BY <3>1, <3>2, <1>1 DEF NewestHasEntry
  <2> QED
    BY <2>1, <2>2
<1> QED
  BY <1>3, <1>4, <1>6, <1>7, <1>8

\* /stop takes an entry, and whoever had it is in its hand.
LEMMA StopLookKeeps ==
  ASSUME BridgeInv, NEW e \in Events, Bridge!StopLook(e)
  PROVE  BridgeInv'
<1> USE DEF BridgeInv
<1>1. CASE cancels[e.thread] = Nobody
  <2>1. BridgeGoes(e)
    BY <1>1 DEF Bridge!StopLook, Bridge!Enters, BridgeGoes, Bridge!lanevars, BridgeTyped
  <2> QED
    BY <2>1, GoesKeeps
<1>2. CASE cancels[e.thread] # Nobody
  <2> DEFINE r == cancels[e.thread]
  <2>1. /\ pc[e] = "enter" /\ e.kind = "stop" /\ e \notin Bridge!Runs /\ e.thread \in Threads
        /\ pc' = [pc EXCEPT ![e] = "stopping"] /\ pc \in [Events -> Bridge!Phases]
        /\ cancels' = [cancels EXCEPT ![e.thread] = Nobody]
        /\ held' = [held EXCEPT ![e] = <<r>>]
        /\ UNCHANGED <<plan, waiting, newest, stopped>>
    BY <1>2 DEF Bridge!StopLook, Bridge!Enters, Bridge!Runs, BridgeTyped, BridgeSound,
       Bridge!lanevars
  <2>2. r \in Bridge!Active /\ r.thread = e.thread /\ r \in Bridge!Runs /\ r \in Events
        /\ r \in BridgeCalled
    BY <2>1, <1>2 DEF EntriesAreActive, Bridge!Active, Bridge!Runs, BridgeCalled
  <2>3. BridgeCalled' = BridgeCalled \cup {e} /\ Bridge!Active' = Bridge!Active
    BY <2>1 DEF BridgeCalled, Bridge!Active, Bridge!Runs
  <2>4. BridgeTyped' /\ BridgeSound'
    BY <2>1, <2>3 DEF BridgeTyped, BridgeSound, Bridge!Phases
  <2>5. InOnePlace'
    BY <2>1, PlacesKept
  <2>6. EntriesAreActive'
    BY <2>1, <2>3 DEF EntriesAreActive, BridgeTyped
  <2>7. NewestWasCalled'
    BY <2>1 DEF NewestWasCalled, BridgeTyped, BridgeSound
  <2>8. TakenForGood'
    <3> SUFFICES ASSUME NEW s \in Events, pc'[s] = "stopping"
                 PROVE  \E x \in BridgeCalled' \cap Bridge!Runs : held'[s] = <<x>>
                        /\ \A t \in Threads : cancels'[t] # x
      BY DEF TakenForGood
    <3>1. CASE s = e
      <4>1. held'[s] = <<r>>
        BY <3>1, <2>1 DEF BridgeTyped
      <4>2. \A t \in Threads : cancels'[t] # r
        BY <2>1, <2>2, <1>2 DEF EntriesAreActive, BridgeTyped
      <4> QED
        BY <4>1, <4>2, <2>2, <2>3
    <3>2. CASE s # e
      <4>1. pc[s] = "stopping" /\ held'[s] = held[s]
        BY <3>2, <2>1 DEF BridgeTyped
      <4>2. PICK x \in BridgeCalled \cap Bridge!Runs : held[s] = <<x>>
                 /\ \A t \in Threads : cancels[t] # x
        BY <4>1 DEF TakenForGood
      <4>3. x # Nobody
        BY DEF BridgeCalled, BridgeSound
      <4> QED
        BY <4>1, <4>2, <4>3, <2>1, <2>3 DEF BridgeTyped
    <3> QED
      BY <3>1, <3>2
  <2>9. NewestHasEntry'
    <3> SUFFICES ASSUME NEW t \in Threads, NEW x \in Bridge!Active' \ stopped', newest'[t] = x,
                        \A s \in Events : pc'[s] = "stopping" => held'[s] # <<x>>
                 PROVE  cancels'[t] = x
      BY DEF NewestHasEntry
    <3>1. newest[t] = x /\ x \in Bridge!Active \ stopped
      BY <2>1, <2>3
    <3>2. \A s \in Events : pc[s] = "stopping" => held[s] # <<x>>
      <4> SUFFICES ASSUME NEW s \in Events, pc[s] = "stopping" PROVE held[s] # <<x>>
        OBVIOUS
      <4>1. s # e /\ pc'[s] = "stopping"
        BY <2>1
      <4> QED
        BY <4>1, <2>1 DEF BridgeTyped
    <3>3. cancels[t] = x
      BY <3>1, <3>2 DEF NewestHasEntry
    <3>4. t # e.thread
      <4>1. pc'[e] = "stopping" /\ held'[e] = <<r>>
        BY <2>1 DEF BridgeTyped
      <4>2. r # x
        BY <4>1
      <4> QED
        BY <4>2, <3>3
    <3> QED
      BY <3>3, <3>4, <2>1 DEF BridgeTyped
  <2> QED
    BY <2>4, <2>5, <2>6, <2>7, <2>8, <2>9
<1> QED
  BY <1>1, <1>2

\* The run that /stop has in hand is cancelled; no entry is left of it.
LEMMA StopCancelKeeps ==
  ASSUME BridgeInv, NEW e \in Events, Bridge!StopCancel(e)
  PROVE  BridgeInv'
<1> USE DEF BridgeInv
<1>1. /\ pc[e] = "stopping"
      /\ pc' = [pc EXCEPT ![e] = "end"] /\ pc \in [Events -> Bridge!Phases]
      /\ stopped' = stopped \cup Bridge!Elems(held[e])
      /\ UNCHANGED <<plan, waiting, cancels, newest, held>>
  BY DEF Bridge!StopCancel, BridgeTyped, Bridge!lanevars
<1>2. PICK r \in BridgeCalled \cap Bridge!Runs : held[e] = <<r>>
           /\ \A t \in Threads : cancels[t] # r
  BY <1>1 DEF TakenForGood
<1>3. stopped' = stopped \cup {r}
  BY <1>1, <1>2 DEF Bridge!Elems
<1>4. BridgeCalled' = BridgeCalled
  BY <1>1 DEF BridgeCalled
<1>5. BridgeTyped' /\ BridgeSound'
  BY <1>1, <1>3, <1>4 DEF BridgeTyped, BridgeSound, Bridge!Phases
<1>6. InOnePlace' /\ NewestWasCalled'
  <2>1. InOnePlace'
    BY <1>1, PlacesKept
  <2>2. ASSUME NEW t \in Threads, newest[t] # Nobody
        PROVE  pc'[newest[t]] \in {pc[newest[t]], "end"}
    BY <2>2, <1>1 DEF BridgeTyped, Bridge!Runs
  <2> QED
    BY <2>1, <2>2, <1>1 DEF NewestWasCalled
<1>7. EntriesAreActive'
  BY <1>1, <1>2, <1>3 DEF EntriesAreActive, Bridge!Active, BridgeTyped
<1>8. TakenForGood'
  BY <1>1, <1>4 DEF TakenForGood, BridgeTyped
<1>9. NewestHasEntry'
  <2> SUFFICES ASSUME NEW t \in Threads, NEW x \in Bridge!Active' \ stopped', newest'[t] = x,
                      \A s \in Events : pc'[s] = "stopping" => held'[s] # <<x>>
               PROVE  cancels'[t] = x
    BY DEF NewestHasEntry
  <2>1. newest[t] = x /\ x # e /\ x # r
    BY <1>1, <1>3 DEF NewestWasCalled, BridgeSound, Bridge!Active, Bridge!Runs
  <2>2. x \in Bridge!Active \ stopped
    BY <2>1, <1>1, <1>3 DEF Bridge!Active, Bridge!Runs
  <2>3. \A s \in Events : pc[s] = "stopping" => held[s] # <<x>>
    BY <2>1, <1>1, <1>2
  <2> QED
    BY <2>1, <2>2, <2>3, <1>1 DEF NewestHasEntry
<1> QED
  BY <1>5, <1>6, <1>7, <1>8, <1>9

\* A run that ends takes its own entry along, and no other.
LEMMA EndKeeps ==
  ASSUME BridgeInv, NEW e \in Events, Bridge!End(e)
  PROVE  BridgeInv'
<1> USE DEF BridgeInv
<1>1. /\ pc[e] = "end" /\ e.thread \in Threads /\ e # Nobody
      /\ pc' = [pc EXCEPT ![e] = "done"] /\ pc \in [Events -> Bridge!Phases]
      /\ \A t \in Threads : cancels'[t] = IF cancels[t] = e THEN Nobody ELSE cancels[t]
      /\ cancels' \in [Threads -> Bridge!Runs \cup {Nobody}]
      /\ held' = [held EXCEPT ![e] = <<>>]
      /\ UNCHANGED <<plan, waiting, newest, stopped>>
  BY DEF Bridge!End, Bridge!ClearRunCancel, BridgeTyped, BridgeSound, EntriesAreActive,
     Bridge!Active
<1>2. BridgeCalled' = BridgeCalled /\ Bridge!Active' = Bridge!Active \ {e}
  BY <1>1 DEF BridgeCalled, Bridge!Active, Bridge!Runs
<1>3. BridgeTyped' /\ BridgeSound'
  BY <1>1, <1>2 DEF BridgeTyped, BridgeSound, Bridge!Phases
<1>4. InOnePlace' /\ NewestWasCalled'
  <2>1. InOnePlace'
    BY <1>1, PlacesKept
  <2>2. ASSUME NEW t \in Threads, newest[t] # Nobody
        PROVE  pc'[newest[t]] \in {pc[newest[t]], "done"}
    BY <2>2, <1>1 DEF BridgeTyped, Bridge!Runs
  <2> QED
    BY <2>1, <2>2, <1>1 DEF NewestWasCalled
<1>5. EntriesAreActive'
  BY <1>1, <1>2 DEF EntriesAreActive
<1>6. TakenForGood'
  <2> SUFFICES ASSUME NEW s \in Events, pc'[s] = "stopping"
               PROVE  \E r \in BridgeCalled' \cap Bridge!Runs : held'[s] = <<r>>
                      /\ \A t \in Threads : cancels'[t] # r
    BY DEF TakenForGood
  <2>1. s # e /\ pc[s] = "stopping" /\ held'[s] = held[s]
    BY <1>1 DEF BridgeTyped
  <2>2. PICK r \in BridgeCalled \cap Bridge!Runs : held[s] = <<r>>
             /\ \A t \in Threads : cancels[t] # r
    BY <2>1 DEF TakenForGood
  <2>3. r # Nobody
    BY DEF BridgeCalled, BridgeSound
  <2> QED
    BY <2>1, <2>2, <2>3, <1>1, <1>2
<1>7. NewestHasEntry'
  <2> SUFFICES ASSUME NEW t \in Threads, NEW x \in Bridge!Active' \ stopped', newest'[t] = x,
                      \A s \in Events : pc'[s] = "stopping" => held'[s] # <<x>>
               PROVE  cancels'[t] = x
    BY DEF NewestHasEntry
  <2>1. newest[t] = x /\ x # e /\ x \in Bridge!Active \ stopped
    BY <1>1, <1>2
  <2>2. \A s \in Events : pc[s] = "stopping" => held[s] # <<x>>
    BY <1>1 DEF BridgeTyped
  <2> QED
    BY <2>1, <2>2, <1>1 DEF NewestHasEntry
<1> QED
  BY <1>3, <1>4, <1>5, <1>6, <1>7

\* A new process has no run and no entry, and calls nothing again.
LEMMA BootKeeps ==
  ASSUME BridgeInv, NEW d, NEW place, Bridge!Boot(d, place)
  PROVE  BridgeInv'
<1> USE DEF BridgeInv
<1>1. /\ pc' = [e \in Events |-> IF pc[e] = "absent" THEN "absent" ELSE "done"]
      /\ waiting' = [l \in Lanes |-> <<>>]
      /\ cancels' = [t \in Threads |-> Nobody] /\ newest' = [t \in Threads |-> Nobody]
      /\ stopped' = {} /\ held' = [e \in Events |-> <<>>] /\ plan' = plan
  BY DEF Bridge!Boot
<1>2. BridgeTyped' /\ BridgeSound'
  BY <1>1 DEF BridgeTyped, BridgeSound, Bridge!Phases
<1>3. InOnePlace'
  BY <1>1 DEF InOnePlace, BridgeTyped
<1> QED
  BY <1>1, <1>2, <1>3 DEF EntriesAreActive, NewestWasCalled, TakenForGood, NewestHasEntry,
                          Bridge!Active, BridgeSound, Bridge!Runs

LEMMA BridgeStutterKeeps ==
  BridgeInv /\ plan' \subseteq plan /\ UNCHANGED <<waiting, pc, cancels, newest, stopped, held>>
    => BridgeInv'
BY DEF BridgeInv, BridgeSound, BridgeTyped, InOnePlace, EntriesAreActive, NewestWasCalled,
   TakenForGood,
       NewestHasEntry, BridgeCalled, Bridge!Active, Bridge!Runs

----------------------------------------------------------------------------

LEMMA BridgePlainGoes ==
  ASSUME BridgeInv, NEW e \in Events, BridgePlain(e)
  PROVE  BridgeGoes(e)
<1> USE DEF BridgeInv, BridgeTyped, BridgeGoes, Bridge!lanevars, Bridge!runvars, Bridge!Enters
<1>1. CASE Bridge!Refuse(e)
  BY <1>1 DEF Bridge!Refuse
<1>2. CASE Bridge!CloneHistory(e)
  BY <1>2 DEF Bridge!CloneHistory
<1>3. CASE Bridge!RunReturns(e) \/ Bridge!RunFails(e)
  BY <1>3 DEF Bridge!RunReturns, Bridge!RunFails
<1>4. CASE Bridge!WriteBack(e)
  BY <1>4 DEF Bridge!WriteBack
<1>5. CASE Bridge!New(e)
  BY <1>5 DEF Bridge!New
<1>6. CASE Bridge!Compact(e)
  BY <1>6 DEF Bridge!Compact
<1>7. CASE Bridge!CompactDone(e)
  BY <1>7 DEF Bridge!CompactDone
<1>8. CASE Bridge!SetAllowed(e)
  BY <1>8 DEF Bridge!SetAllowed
<1>9. CASE Bridge!SetMuted(e)
  BY <1>9 DEF Bridge!SetMuted
<1>10. CASE Bridge!Record(e)
  BY <1>10 DEF Bridge!Record
<1>11. CASE Bridge!Marshal(e)
  BY <1>11 DEF Bridge!Marshal
<1>12. CASE Bridge!Truncate(e)
  BY <1>12 DEF Bridge!Truncate
<1>13. CASE Bridge!Write(e)
  BY <1>13 DEF Bridge!Write
<1>14. CASE Bridge!SaveFails(e)
  BY <1>14 DEF Bridge!SaveFails
<1> QED
  BY <1>1, <1>2, <1>3, <1>4, <1>5, <1>6, <1>7, <1>8, <1>9, <1>10, <1>11, <1>12, <1>13,
     <1>14 DEF BridgePlain

LEMMA BridgeMoves == BridgeInv /\ [Bridge!Next]_bridgevars => BridgeInv'
<1> SUFFICES ASSUME BridgeInv, [Bridge!Next]_bridgevars PROVE BridgeInv'
  OBVIOUS
<1>1. CASE \E l \in Lanes : Bridge!Take(l)
  BY <1>1, TakeKeeps
<1>2. CASE \E l \in Lanes : Bridge!Detach(l)
  BY <1>2, BridgeStutterKeeps DEF Bridge!Detach, Bridge!runvars
<1>3. CASE \E e \in Events : Bridge!Arrive(e)
  BY <1>3, ArriveKeeps
<1>4. CASE \E e \in Events : Bridge!Register(e)
  BY <1>4, RegisterKeeps
<1>5. CASE \E e \in Events : Bridge!StopLook(e)
  BY <1>5, StopLookKeeps
<1>6. CASE \E e \in Events : Bridge!StopCancel(e)
  BY <1>6, StopCancelKeeps
<1>7. CASE \E e \in Events : Bridge!End(e)
  BY <1>7, EndKeeps
<1>8. CASE \E e \in Events : BridgePlain(e)
  BY <1>8, BridgePlainGoes, GoesKeeps
<1>9. CASE Bridge!Restart \/ Bridge!Replace
  BY <1>9, BootKeeps DEF Bridge!Restart, Bridge!Replace
<1>10. CASE UNCHANGED bridgevars
  BY <1>10, BridgeStutterKeeps DEF bridgevars
<1>11. CASE \E e \in Events : Bridge!Sync(e)
  BY <1>11, BridgeStutterKeeps DEF Bridge!Sync, Bridge!runvars
<1> QED
  BY <1>1, <1>2, <1>3, <1>4, <1>5, <1>6, <1>7, <1>8, <1>9, <1>10, <1>11
  DEF Bridge!Next, BridgePlain

LEMMA BridgeHolds == BridgeInv => Bridge!StopReachesNewest
BY DEF BridgeInv, EntriesAreActive, NewestHasEntry, Bridge!StopReachesNewest

----------------------------------------------------------------------------
(* The files, and what /new deletes                                        *)

LEMMA FilesOfEvents ==
  ASSUME NEW e \in Events
  PROVE  /\ Bridge!FileOf(e) \in Bridge!Files
         /\ Bridge!FileOf(e) = "allowlist" <=> e.kind \in {"allow", "block"}
         /\ Bridge!FileOf(e) = "notifs" <=> e.kind \in {"mute", "unmute"}
         /\ Bridge!FileOf(e) = "history" <=> e.kind \notin {"allow", "block", "mute", "unmute"}
BY DEF Bridge!FileOf, Bridge!Files

\* A history without an event twice stays one, and gets nothing else, when an
\* event is added that it does not have, and when its beginning is dropped.
LEMMA NoHistory == <<>> \in Bridge!Histories /\ Bridge!Elems(<<>>) = {}
<1>1. <<>> \in Seq(Events) /\ Len(<<>>) = 0 /\ DOMAIN <<>> = {}
  BY EmptySeq
<1> QED
  BY <1>1 DEF Bridge!Histories, Bridge!IsInjective, Bridge!Elems

LEMMA HistoryGrows ==
  ASSUME NEW h \in Bridge!Histories, NEW e \in Events, e \notin Bridge!Elems(h)
  PROVE  /\ Append(h, e) \in Bridge!Histories
         /\ Bridge!Elems(Append(h, e)) = Bridge!Elems(h) \cup {e}
<1> DEFINE g == Append(h, e)
           n == Len(h)
<1>1. /\ h \in Seq(Events) /\ n \in Nat /\ DOMAIN h = 1..n
      /\ \A i, j \in 1..n : h[i] = h[j] => i = j
  BY DEF Bridge!Histories, Bridge!IsInjective
<1>2. \A i \in 1..n : h[i] # e
  BY DEF Bridge!Elems
<1>3. /\ g \in Seq(Events) /\ Len(g) = n + 1 /\ DOMAIN g = 1..(n + 1) /\ g[n + 1] = e
      /\ \A i \in 1..n : g[i] = h[i]
  BY <1>1
<1> HIDE DEF g, n
<1>4. \A i, j \in 1..(n + 1) : g[i] = g[j] => i = j
  <2> SUFFICES ASSUME NEW i \in 1..(n + 1), NEW j \in 1..(n + 1), g[i] = g[j], i # j PROVE FALSE
    OBVIOUS
  <2>1. CASE i \in 1..n /\ j \in 1..n
    BY <2>1, <1>1, <1>3
  <2>2. CASE i = n + 1 /\ j \in 1..n
    BY <2>2, <1>2, <1>3
  <2>3. CASE j = n + 1 /\ i \in 1..n
    BY <2>3, <1>2, <1>3
  <2> QED
    BY <2>1, <2>2, <2>3, <1>1
<1>5. {g[i] : i \in 1..(n + 1)} = {h[i] : i \in 1..n} \cup {e}
  BY <1>1, <1>3
<1> QED
  BY <1>3, <1>4, <1>5 DEF Bridge!Histories, Bridge!IsInjective, Bridge!Elems, g, n

LEMMA HistoryTail ==
  ASSUME NEW h \in Bridge!Histories, NEW i \in 1..Len(h)
  PROVE  /\ SubSeq(h, i, Len(h)) \in Bridge!Histories
         /\ Bridge!Elems(SubSeq(h, i, Len(h))) \subseteq Bridge!Elems(h)
<1> DEFINE n == Len(h)
           g == SubSeq(h, i, n)
<1>1. /\ h \in Seq(Events) /\ n \in Nat /\ DOMAIN h = 1..n
      /\ \A k, j \in 1..n : h[k] = h[j] => k = j
  BY DEF Bridge!Histories, Bridge!IsInjective
<1>2. /\ g \in Seq(Events) /\ Len(g) = n - i + 1 /\ DOMAIN g = 1..(n - i + 1)
      /\ \A k \in 1..(n - i + 1) : g[k] = h[k + i - 1] /\ k + i - 1 \in 1..n
  BY <1>1
<1> HIDE DEF g, n
<1>3. \A k, j \in 1..(n - i + 1) : g[k] = g[j] => k = j
  BY <1>1, <1>2
<1>4. Bridge!Elems(g) \subseteq Bridge!Elems(h)
  <2> SUFFICES ASSUME NEW k \in 1..(n - i + 1) PROVE g[k] \in {h[j] : j \in 1..n}
    BY <1>2 DEF Bridge!Elems, n
  <2> QED
    BY <1>2
<1>5. g \in Bridge!Histories
  BY <1>2, <1>3 DEF Bridge!Histories, Bridge!IsInjective
<1> QED
  BY <1>4, <1>5 DEF g, n

LEMMA HistoryKept ==
  ASSUME NEW h \in Bridge!Histories, NEW k \in Bridge!Kept(h)
  PROVE  k \in Bridge!Histories /\ Bridge!Elems(k) \subseteq Bridge!Elems(h)
<1>1. k = h \/ \E i \in 2..Len(h) : k = SubSeq(h, i, Len(h))
  BY DEF Bridge!Kept
<1>2. \A i \in 2..Len(h) : i \in 1..Len(h)
  BY DEF Bridge!Histories
<1> QED
  BY <1>1, <1>2, HistoryTail

LEMMA FilesBegin == Bridge!Init => FilesInv
<1> SUFFICES ASSUME Bridge!Init PROVE FilesInv
  OBVIOUS
<1>1. /\ hist = [t \in Threads |-> <<>>] /\ allow = {} /\ mutes = [t \in Threads |-> NoOverlay]
      /\ current = [l \in Lanes |-> Nobody] /\ clean = {} /\ trusted = Bridge!Files
      /\ cleared = [place \in {"memory", "file", "snapshot"} |-> [t \in Threads |-> {}]]
      /\ restarts = 0
      /\ pc = [e \in Events |-> "absent"] /\ held = [e \in Events |-> <<>>]
      /\ blob = [e \in Events |-> Torn] /\ file = Bridge!Empty
  BY DEF Bridge!Init, Bridge!Empty
<1>2. /\ DOMAIN file = Bridge!Files /\ file["history"] = hist /\ file["allowlist"] = allow
      /\ file["notifs"] = mutes
  BY <1>1 DEF Bridge!Empty, Bridge!Files
<1>3. hist \in [Threads -> Bridge!Histories] /\ allow \subseteq Threads
      /\ mutes \in [Threads -> {NoOverlay} \cup SUBSET (Feeds \cup {"*"})]
  BY <1>1, NoHistory
<1>4. \A f \in Bridge!Files : file[f] = Bridge!Memory[f] /\ BridgeShape(f, file[f])
  BY <1>2, <1>3 DEF Bridge!Memory, Bridge!Files, BridgeShape
<1>5. \A f \in Bridge!Files : Bridge!Saving(f) = {}
  BY <1>1 DEF Bridge!Saving
<1>6. BridgeShaped
  BY <1>1, <1>2, <1>4, <1>5, NoHistory, MessagesAreCounted DEF BridgeShaped, Copying
<1>7. StepsAreOwn
  BY <1>1 DEF StepsAreOwn
<1> QED
  BY <1>1, <1>4, <1>5, <1>6, <1>7, BridgeInit
  DEF FilesInv, CleanIsAlone, TrustedIsWhole, CleanIsCurrent, Bridge!FilesAreCurrent

LEMMA QuietFiles ==
  ASSUME FilesInv, BridgeInv', NEW e \in Events, NEW p, BridgeQuiet(e, p)
  PROVE  FilesInv'
<1>1. \A x \in Events : pc'[x] = IF x = e THEN p ELSE pc[x]
  BY DEF BridgeQuiet, FilesInv, BridgeInv, BridgeTyped
<1>2. /\ pc[e] \notin {"save", "marshalled", "truncated"}
      /\ p \notin {"save", "marshalled", "truncated"}
  BY DEF BridgeQuiet
<1>3. \A f \in Bridge!Files : Bridge!Saving(f)' = Bridge!Saving(f) /\ (Unsaved(f)' <=> Unsaved(f))
  BY <1>1, <1>2 DEF Bridge!Saving, Unsaved
<1>4. \A f \in Bridge!Files : \A x \in Bridge!Saving(f) : pc'[x] = pc[x] /\ x \in Events
  BY <1>1, <1>2 DEF Bridge!Saving
<1>5. /\ UNCHANGED <<hist, allow, mutes, blob, file, clean, trusted, cleared, restarts>>
      /\ Bridge!Memory' = Bridge!Memory
  BY DEF BridgeQuiet, Bridge!Memory
<1>6. BridgeShaped'
  <2>1. ASSUME NEW x \in Events, Copying(x)'
        PROVE  held'[x] \in Bridge!Histories
    <3>1. \A t \in Threads : hist[t] \in Bridge!Histories
      BY DEF FilesInv, BridgeShaped, BridgeShape, Bridge!Memory, Bridge!Files
    <3> QED
      BY <2>1, <3>1, <1>1, EventsAreSound DEF BridgeQuiet, FilesInv, BridgeShaped, Copying
  <2>2. current' \in [Lanes -> Events \cup {Nobody}]
    BY DEF BridgeQuiet
  <2> QED
    BY <2>1, <2>2, <1>3, <1>5 DEF FilesInv, BridgeShaped
<1>7. StepsAreOwn'
  BY <1>1 DEF BridgeQuiet, FilesInv, StepsAreOwn
<1>8. CleanIsAlone' /\ TrustedIsWhole'
  BY <1>3, <1>4, <1>5 DEF FilesInv, BridgeShaped, CleanIsAlone, TrustedIsWhole
<1>9. CleanIsCurrent'
  BY <1>3, <1>5 DEF FilesInv, CleanIsCurrent
<1>10. Bridge!FilesAreCurrent'
  <2> SUFFICES ASSUME NEW f \in trusted,
                      \A x \in Events : Bridge!FileOf(x) = f =>
                        pc'[x] \notin {"save", "marshalled", "truncated"}
               PROVE  file[f] = Bridge!Memory[f]
    BY <1>5 DEF Bridge!FilesAreCurrent
  <2>1. \A x \in Events : Bridge!FileOf(x) = f => pc[x] \notin {"save", "marshalled", "truncated"}
    BY <1>1, <1>2
  <2> QED
    BY <2>1 DEF FilesInv, Bridge!FilesAreCurrent
<1> QED
  BY <1>6, <1>7, <1>8, <1>9, <1>10 DEF FilesInv

LEMMA ChangeFiles ==
  ASSUME FilesInv, BridgeInv', NEW e \in Events, BridgeChanges(e)
  PROVE  FilesInv'
<1>1. \A x \in Events : pc'[x] = IF x = e THEN "save" ELSE pc[x]
  BY DEF BridgeChanges, FilesInv, BridgeInv, BridgeTyped
<1>2. pc[e] \notin {"save", "marshalled", "truncated"}
  BY DEF BridgeChanges
<1>3. \A f \in Bridge!Files : Bridge!Saving(f)' = Bridge!Saving(f)
  BY <1>1, <1>2 DEF Bridge!Saving
<1>4. \A f \in Bridge!Files : \A x \in Bridge!Saving(f) : pc'[x] = pc[x] /\ x \in Events
  BY <1>1, <1>2 DEF Bridge!Saving
<1>5. UNCHANGED <<current, blob, file, clean, trusted, cleared, restarts>>
  BY DEF BridgeChanges
<1>6. BridgeShaped'
  <2>1. \A f \in Bridge!Files : BridgeShape(f, Bridge!Memory[f])'
    BY DEF BridgeChanges, Bridge!Memory, BridgeShape
  <2>2. ASSUME NEW x \in Events, Copying(x)'
        PROVE  held'[x] \in Bridge!Histories
    BY <2>2, <1>1 DEF BridgeChanges, FilesInv, BridgeShaped, Copying
  <2> QED
    BY <2>1, <2>2, <1>3, <1>5 DEF FilesInv, BridgeShaped, BridgeShape
<1>7. StepsAreOwn'
  BY <1>1 DEF FilesInv, StepsAreOwn
<1>8. CleanIsAlone' /\ TrustedIsWhole'
  BY <1>3, <1>4, <1>5 DEF FilesInv, BridgeShaped, CleanIsAlone, TrustedIsWhole
<1>9. Unsaved(Bridge!FileOf(e))'
  BY <1>1 DEF Unsaved
<1>10. CleanIsCurrent'
  <2> SUFFICES ASSUME NEW f \in Bridge!Files, NEW x \in clean \cap Bridge!Saving(f), ~Unsaved(f)'
               PROVE  blob[x] = Bridge!Memory'[f]
    BY <1>3, <1>5 DEF CleanIsCurrent
  <2>1. f # Bridge!FileOf(e)
    BY <1>9
  <2>2. ~Unsaved(f)
    BY <2>1, <1>1, <1>2 DEF Unsaved
  <2> QED
    BY <2>1, <2>2 DEF FilesInv, CleanIsCurrent, BridgeChanges
<1>11. Bridge!FilesAreCurrent'
  <2> SUFFICES ASSUME NEW f \in trusted,
                      \A x \in Events : Bridge!FileOf(x) = f =>
                        pc'[x] \notin {"save", "marshalled", "truncated"}
               PROVE  file[f] = Bridge!Memory'[f]
    BY <1>5 DEF Bridge!FilesAreCurrent
  <2>1. f # Bridge!FileOf(e) /\ f \in Bridge!Files
    BY <1>1 DEF FilesInv, BridgeShaped
  <2>2. \A x \in Events : Bridge!FileOf(x) = f => pc[x] \notin {"save", "marshalled", "truncated"}
    BY <1>1, <1>2
  <2> QED
    BY <2>1, <2>2 DEF FilesInv, Bridge!FilesAreCurrent, BridgeChanges
<1> QED
  BY <1>6, <1>7, <1>8, <1>10, <1>11 DEF FilesInv

\* A save takes what memory holds.
LEMMA MarshalFiles ==
  ASSUME FilesInv, BridgeInv', NEW e \in Events, Bridge!Marshal(e)
  PROVE  FilesInv'
<1> DEFINE F == Bridge!FileOf(e)
           S == Bridge!Saving(F)
<1>1. \A x \in Events : pc'[x] = IF x = e THEN "marshalled" ELSE pc[x]
  BY DEF Bridge!Marshal, FilesInv, BridgeInv, BridgeTyped
<1>2. /\ pc[e] = "save" /\ F \in Bridge!Files
      /\ clean' = IF S = {} THEN clean \cup {e} ELSE clean \ (S \cup {e})
      /\ UNCHANGED <<current, hist, allow, mutes, held, file, trusted, cleared, restarts>>
      /\ Bridge!Memory' = Bridge!Memory
  BY FilesOfEvents DEF Bridge!Marshal, Bridge!lanevars, Bridge!tvars, Bridge!runvars, Bridge!Memory
<1>3. /\ DOMAIN blob' = Events /\ blob'[e] = Bridge!Memory[F]
      /\ \A x \in Events : x # e => blob'[x] = blob[x]
  BY DEF Bridge!Marshal, FilesInv, BridgeShaped
<1>4. /\ S' = S \cup {e} /\ e \notin S /\ S \subseteq Events
      /\ \A f \in Bridge!Files : f # F => Bridge!Saving(f)' = Bridge!Saving(f)
  BY <1>1, <1>2 DEF Bridge!Saving
<1>5. \A f \in Bridge!Files : f # F => e \notin Bridge!Saving(f)
  BY DEF Bridge!Saving
<1>6. \A f \in Bridge!Files : \A x \in Bridge!Saving(f) :
        x \in Events /\ Bridge!FileOf(x) = f /\ (x # e => pc'[x] = pc[x])
  BY <1>1 DEF Bridge!Saving
<1>7. \A f \in Bridge!Files : \A x \in clean' \cap Bridge!Saving(f)' :
        \/ f = F /\ x = e /\ S = {}
        \/ f # F /\ x # e /\ x \in clean \cap Bridge!Saving(f)
  BY <1>2, <1>4, <1>5
<1> HIDE DEF F, S
<1>8. BridgeShaped'
  <2>1. ASSUME NEW f \in Bridge!Files, NEW x \in Bridge!Saving(f)'
        PROVE  BridgeShape(f, blob'[x])
    <3>1. CASE x = e
      <4>1. f = F
        BY <3>1, <2>1, <1>4, <1>5
      <4> QED
        BY <3>1, <4>1, <1>3 DEF FilesInv, BridgeShaped
    <3>2. CASE x # e
      <4>1. x \in Bridge!Saving(f)
        BY <3>2, <2>1, <1>4 DEF S
      <4> QED
        BY <3>2, <4>1, <1>3, <1>6 DEF FilesInv, BridgeShaped
    <3> QED
      BY <3>1, <3>2
  <2>2. clean' \subseteq Events
    BY <1>2 DEF FilesInv, BridgeShaped
  <2>3. \A x \in Events : Copying(x)' => Copying(x)
    BY <1>1 DEF Copying
  <2>4. \A f \in Bridge!Files : \A x \in Bridge!Saving(f)' : BridgeShape(f, blob[x])'
    BY <2>1 DEF BridgeShape
  <2> QED
    BY <2>2, <2>3, <2>4, <1>2, <1>3 DEF FilesInv, BridgeShaped, BridgeShape
<1>9. StepsAreOwn'
  BY <1>1 DEF FilesInv, StepsAreOwn
<1>10. CleanIsAlone'
  <2> SUFFICES ASSUME NEW f \in Bridge!Files, NEW x \in clean' \cap Bridge!Saving(f)'
               PROVE  Bridge!Saving(f)' = {x} /\ (pc'[x] = "truncated" => file[f] = Torn)
    BY <1>2 DEF CleanIsAlone
  <2>1. CASE f = F /\ x = e /\ S = {}
    BY <2>1, <1>1, <1>4 DEF S
  <2>2. CASE f # F /\ x # e /\ x \in clean \cap Bridge!Saving(f)
    BY <2>2, <1>4, <1>6 DEF FilesInv, CleanIsAlone
  <2> QED
    BY <2>1, <2>2, <1>7
<1>11. TrustedIsWhole'
  <2> SUFFICES ASSUME NEW f \in trusted, NEW x \in Bridge!Saving(f)'
               PROVE  pc'[x] # "truncated"
    BY <1>2 DEF TrustedIsWhole
  <2>1. f \in Bridge!Files
    BY DEF FilesInv, BridgeShaped
  <2>2. x = e \/ x \in Bridge!Saving(f)
    BY <2>1, <1>4 DEF S
  <2>3. CASE x = e
    BY <2>3, <1>1
  <2>4. CASE x # e /\ x \in Bridge!Saving(f)
    BY <2>1, <2>4, <1>6 DEF FilesInv, TrustedIsWhole
  <2> QED
    BY <2>2, <2>3, <2>4
<1>12. CleanIsCurrent'
  <2> SUFFICES ASSUME NEW f \in Bridge!Files, NEW x \in clean' \cap Bridge!Saving(f)', ~Unsaved(f)'
               PROVE  blob'[x] = Bridge!Memory[f]
    BY <1>2 DEF CleanIsCurrent
  <2>1. CASE f = F /\ x = e
    BY <2>1, <1>3
  <2>2. CASE f # F /\ x # e /\ x \in clean \cap Bridge!Saving(f)
    <3>1. ~Unsaved(f)
      BY <2>2, <1>1 DEF Unsaved, F
    <3> QED
      BY <2>2, <3>1, <1>3, <1>6 DEF FilesInv, CleanIsCurrent
  <2> QED
    BY <2>1, <2>2, <1>7
<1>13. Bridge!FilesAreCurrent'
  <2> SUFFICES ASSUME NEW f \in trusted,
                      \A x \in Events : Bridge!FileOf(x) = f =>
                        pc'[x] \notin {"save", "marshalled", "truncated"}
               PROVE  file[f] = Bridge!Memory[f]
    BY <1>2 DEF Bridge!FilesAreCurrent
  <2>1. f # F
    BY <1>1 DEF F
  <2>2. \A x \in Events : Bridge!FileOf(x) = f => pc[x] \notin {"save", "marshalled", "truncated"}
    BY <2>1, <1>1 DEF F
  <2> QED
    BY <2>2 DEF FilesInv, Bridge!FilesAreCurrent
<1> QED
  BY <1>8, <1>9, <1>10, <1>11, <1>12, <1>13 DEF FilesInv

\* The file is opened, and empty from then on.
LEMMA TruncateFiles ==
  ASSUME FilesInv, BridgeInv', NEW e \in Events, Bridge!Truncate(e)
  PROVE  FilesInv'
<1> DEFINE F == Bridge!FileOf(e)
<1>1. \A x \in Events : pc'[x] = IF x = e THEN "truncated" ELSE pc[x]
  BY DEF Bridge!Truncate, FilesInv, BridgeInv, BridgeTyped
<1>2. /\ pc[e] = "marshalled" /\ F \in Bridge!Files /\ trusted' = trusted \ {F}
      /\ UNCHANGED <<current, hist, allow, mutes, held, blob, clean, cleared, restarts>>
      /\ Bridge!Memory' = Bridge!Memory
  BY FilesOfEvents DEF Bridge!Truncate, Bridge!lanevars, Bridge!tvars, Bridge!runvars, Bridge!Memory
<1>3. /\ DOMAIN file' = Bridge!Files /\ file'[F] = Torn
      /\ \A f \in Bridge!Files : f # F => file'[f] = file[f]
  BY <1>2 DEF Bridge!Truncate, FilesInv, BridgeShaped
<1>4. /\ \A f \in Bridge!Files : Bridge!Saving(f)' = Bridge!Saving(f)
      /\ \A f \in Bridge!Files : Unsaved(f)' <=> Unsaved(f)
      /\ e \in Bridge!Saving(F)
  BY <1>1, <1>2 DEF Bridge!Saving, Unsaved
<1>5. \A f \in Bridge!Files : \A x \in Bridge!Saving(f) :
        x \in Events /\ (f # F => pc'[x] = pc[x])
  BY <1>1 DEF Bridge!Saving
<1> HIDE DEF F
<1>6. BridgeShaped'
  <2>1. \A x \in Events : Copying(x)' => Copying(x)
    BY <1>1 DEF Copying
  <2>2. \A f \in Bridge!Files : file'[f] = Torn \/ BridgeShape(f, file'[f])
    BY <1>3 DEF FilesInv, BridgeShaped
  <2>3. \A f \in Bridge!Files : file'[f] = Torn \/ BridgeShape(f, file[f])'
    BY <2>2 DEF BridgeShape
  <2> QED
    BY <2>1, <2>3, <1>2, <1>3, <1>4 DEF FilesInv, BridgeShaped, BridgeShape
<1>7. StepsAreOwn'
  BY <1>1 DEF FilesInv, StepsAreOwn
<1>8. CleanIsAlone'
  <2> SUFFICES ASSUME NEW f \in Bridge!Files, NEW x \in clean \cap Bridge!Saving(f)
               PROVE  Bridge!Saving(f) = {x} /\ (pc'[x] = "truncated" => file'[f] = Torn)
    BY <1>2, <1>4 DEF CleanIsAlone
  <2>1. Bridge!Saving(f) = {x}
    BY DEF FilesInv, CleanIsAlone
  <2>2. CASE f = F
    BY <2>1, <2>2, <1>3
  <2>3. CASE f # F
    BY <2>1, <2>3, <1>3, <1>5 DEF FilesInv, CleanIsAlone
  <2> QED
    BY <2>2, <2>3
<1>9. TrustedIsWhole'
  BY <1>2, <1>4, <1>5 DEF FilesInv, BridgeShaped, TrustedIsWhole
<1>10. CleanIsCurrent'
  BY <1>2, <1>4 DEF FilesInv, CleanIsCurrent
<1>11. Bridge!FilesAreCurrent'
  <2> SUFFICES ASSUME NEW f \in trusted, f # F,
                      \A x \in Events : Bridge!FileOf(x) = f =>
                        pc'[x] \notin {"save", "marshalled", "truncated"}
               PROVE  file'[f] = Bridge!Memory[f]
    BY <1>2 DEF Bridge!FilesAreCurrent
  <2>1. f \in Bridge!Files
    BY DEF FilesInv, BridgeShaped
  <2>2. \A x \in Events : Bridge!FileOf(x) = f => pc[x] \notin {"save", "marshalled", "truncated"}
    BY <1>1 DEF F
  <2> QED
    BY <2>1, <2>2, <1>3 DEF FilesInv, Bridge!FilesAreCurrent
<1> QED
  BY <1>6, <1>7, <1>8, <1>9, <1>10, <1>11 DEF FilesInv

\* Who is through with its save leaves the others to theirs.
LEMMA SaveEnds ==
  ASSUME FilesInv, NEW e \in Events, pc[e] \in {"marshalled", "truncated"},
         pc' = [pc EXCEPT ![e] = "end"]
  PROVE  /\ \A x \in Events : pc'[x] = IF x = e THEN "end" ELSE pc[x]
         /\ \A f \in Bridge!Files : Bridge!Saving(f)' = Bridge!Saving(f) \ {e}
         /\ \A f \in Bridge!Files : Unsaved(f)' <=> Unsaved(f)
         /\ e \in Bridge!Saving(Bridge!FileOf(e))
         /\ \A f \in Bridge!Files : f # Bridge!FileOf(e) => e \notin Bridge!Saving(f)
         /\ \A f \in Bridge!Files : \A x \in Bridge!Saving(f)' :
              x \in Events /\ x # e /\ x \in Bridge!Saving(f) /\ pc'[x] = pc[x]
<1>1. \A x \in Events : pc'[x] = IF x = e THEN "end" ELSE pc[x]
  BY DEF FilesInv, BridgeInv, BridgeTyped
<1>2. \A f \in Bridge!Files : Bridge!Saving(f)' = Bridge!Saving(f) \ {e}
  BY <1>1 DEF Bridge!Saving
<1>3. \A f \in Bridge!Files : Unsaved(f)' <=> Unsaved(f)
  BY <1>1 DEF Unsaved
<1>4. /\ e \in Bridge!Saving(Bridge!FileOf(e))
      /\ \A f \in Bridge!Files : f # Bridge!FileOf(e) => e \notin Bridge!Saving(f)
  BY DEF Bridge!Saving
<1>5. \A f \in Bridge!Files : \A x \in Bridge!Saving(f) : x \in Events
  BY DEF Bridge!Saving
<1> QED
  BY <1>1, <1>2, <1>3, <1>4, <1>5

\* The file is written.
LEMMA WriteFiles ==
  ASSUME FilesInv, BridgeInv', NEW e \in Events, Bridge!Write(e)
  PROVE  FilesInv'
<1> DEFINE F == Bridge!FileOf(e)
<1>1. /\ pc[e] = "truncated" /\ pc' = [pc EXCEPT ![e] = "end"] /\ F \in Bridge!Files
      /\ trusted' = IF e \in clean THEN trusted \cup {F} ELSE trusted \ {F}
      /\ UNCHANGED <<current, hist, allow, mutes, held, clean, cleared, restarts>>
      /\ Bridge!Memory' = Bridge!Memory
  BY FilesOfEvents DEF Bridge!Write, Bridge!lanevars, Bridge!tvars, Bridge!runvars, Bridge!Memory
<1>2. PICK c \in {blob[e]} \cup (IF file[F] = Torn THEN {} ELSE {Torn}) :
        file' = [file EXCEPT ![F] = c]
  BY DEF Bridge!Write
<1>3. /\ DOMAIN file' = Bridge!Files /\ file'[F] = c
      /\ \A f \in Bridge!Files : f # F => file'[f] = file[f]
      /\ DOMAIN blob' = Events /\ \A x \in Events : x # e => blob'[x] = blob[x]
  BY <1>1, <1>2 DEF Bridge!Write, FilesInv, BridgeShaped
<1>4. /\ \A x \in Events : pc'[x] = IF x = e THEN "end" ELSE pc[x]
      /\ \A f \in Bridge!Files : Bridge!Saving(f)' = Bridge!Saving(f) \ {e}
      /\ \A f \in Bridge!Files : Unsaved(f)' <=> Unsaved(f)
      /\ e \in Bridge!Saving(F)
      /\ \A f \in Bridge!Files : f # F => e \notin Bridge!Saving(f)
      /\ \A f \in Bridge!Files : \A x \in Bridge!Saving(f)' :
           x \in Events /\ x # e /\ x \in Bridge!Saving(f) /\ pc'[x] = pc[x]
  BY <1>1, SaveEnds
<1>5. e \in clean => c = blob[e] /\ Bridge!Saving(F) = {e}
  BY <1>1, <1>2, <1>4 DEF FilesInv, CleanIsAlone
<1>6. \A x \in Events : Bridge!FileOf(x) = F /\ pc[x] = "save" => Unsaved(F)
  BY DEF Unsaved
<1> HIDE DEF F
<1>7. BridgeShaped'
  <2>1. \A x \in Events : Copying(x)' => Copying(x)
    BY <1>4 DEF Copying
  <2>2. c = Torn \/ BridgeShape(F, c)
    BY <1>1, <1>2, <1>4 DEF FilesInv, BridgeShaped
  <2>3. \A f \in Bridge!Files : file'[f] = Torn \/ BridgeShape(f, file'[f])
    BY <2>2, <1>3 DEF FilesInv, BridgeShaped
  <2>4. \A f \in Bridge!Files : file'[f] = Torn \/ BridgeShape(f, file[f])'
    BY <2>3 DEF BridgeShape
  <2>5. \A f \in Bridge!Files : \A x \in Bridge!Saving(f)' : BridgeShape(f, blob'[x])
    BY <1>3, <1>4 DEF FilesInv, BridgeShaped
  <2>6. \A f \in Bridge!Files : \A x \in Bridge!Saving(f)' : BridgeShape(f, blob[x])'
    BY <2>5 DEF BridgeShape
  <2>7. trusted' \subseteq Bridge!Files
    BY <1>1 DEF FilesInv, BridgeShaped
  <2> QED
    BY <2>1, <2>4, <2>6, <2>7, <1>1, <1>3 DEF FilesInv, BridgeShaped, BridgeShape
<1>8. StepsAreOwn'
  BY <1>4 DEF FilesInv, StepsAreOwn
<1>9. CleanIsAlone'
  <2> SUFFICES ASSUME NEW f \in Bridge!Files, NEW x \in clean \cap Bridge!Saving(f)'
               PROVE  Bridge!Saving(f)' = {x} /\ (pc'[x] = "truncated" => file'[f] = Torn)
    BY <1>1 DEF CleanIsAlone
  <2>1. x \in clean \cap Bridge!Saving(f) /\ x # e /\ pc'[x] = pc[x]
    BY <1>4
  <2>2. Bridge!Saving(f) = {x} /\ (pc[x] = "truncated" => file[f] = Torn)
    BY <2>1 DEF FilesInv, CleanIsAlone
  <2>3. f # F
    BY <2>1, <2>2, <1>4
  <2> QED
    BY <2>1, <2>2, <2>3, <1>3, <1>4
<1>10. TrustedIsWhole'
  <2> SUFFICES ASSUME NEW f \in trusted', NEW x \in Bridge!Saving(f)' PROVE pc'[x] # "truncated"
    BY DEF TrustedIsWhole
  <2>1. f \in Bridge!Files
    BY <1>1 DEF FilesInv, BridgeShaped
  <2>2. x \in Bridge!Saving(f) /\ x # e /\ pc'[x] = pc[x]
    BY <2>1, <1>4
  <2>3. f # F /\ f \in trusted
    BY <2>2, <1>1, <1>5
  <2> QED
    BY <2>2, <2>3 DEF FilesInv, TrustedIsWhole
<1>11. CleanIsCurrent'
  <2> SUFFICES ASSUME NEW f \in Bridge!Files, NEW x \in clean \cap Bridge!Saving(f)', ~Unsaved(f)
               PROVE  blob'[x] = Bridge!Memory[f]
    BY <1>1, <1>4 DEF CleanIsCurrent
  <2> QED
    BY <1>3, <1>4 DEF FilesInv, CleanIsCurrent
<1>12. Bridge!FilesAreCurrent'
  <2> SUFFICES ASSUME NEW f \in trusted',
                      \A x \in Events : Bridge!FileOf(x) = f =>
                        pc'[x] \notin {"save", "marshalled", "truncated"}
               PROVE  file'[f] = Bridge!Memory[f]
    BY <1>1 DEF Bridge!FilesAreCurrent
  <2>1. CASE f = F
    <3>1. e \in clean
      BY <2>1, <1>1
    <3>2. ~Unsaved(F)
      BY <2>1, <1>1, <1>4 DEF Unsaved
    <3> QED
      BY <2>1, <3>1, <3>2, <1>1, <1>3, <1>4, <1>5 DEF FilesInv, CleanIsCurrent
  <2>2. CASE f # F
    <3>1. f \in trusted /\ f \in Bridge!Files
      BY <2>2, <1>1 DEF FilesInv, BridgeShaped
    <3>2. \A x \in Events : Bridge!FileOf(x) = f => pc[x] \notin {"save", "marshalled", "truncated"}
      BY <2>2, <1>4 DEF F
    <3> QED
      BY <2>2, <3>1, <3>2, <1>3 DEF FilesInv, Bridge!FilesAreCurrent
  <2> QED
    BY <2>1, <2>2
<1> QED
  BY <1>7, <1>8, <1>9, <1>10, <1>11, <1>12 DEF FilesInv

\* The file cannot be written.
LEMMA SaveFailsFiles ==
  ASSUME FilesInv, BridgeInv', NEW e \in Events, Bridge!SaveFails(e)
  PROVE  FilesInv'
<1> DEFINE F == Bridge!FileOf(e)
<1>1. /\ pc[e] = "marshalled" /\ pc' = [pc EXCEPT ![e] = "end"] /\ F \in Bridge!Files
      /\ trusted' = trusted \ {F} /\ clean' = clean \ {e}
      /\ UNCHANGED <<current, hist, allow, mutes, held, file, cleared, restarts>>
      /\ Bridge!Memory' = Bridge!Memory
      /\ blob' = [blob EXCEPT ![e] = Torn]
  BY FilesOfEvents
  DEF Bridge!SaveFails, Bridge!lanevars, Bridge!tvars, Bridge!runvars, Bridge!Memory
<1>2. DOMAIN blob' = Events /\ \A x \in Events : x # e => blob'[x] = blob[x]
  BY <1>1 DEF FilesInv, BridgeShaped
<1>3. /\ \A x \in Events : pc'[x] = IF x = e THEN "end" ELSE pc[x]
      /\ \A f \in Bridge!Files : Bridge!Saving(f)' = Bridge!Saving(f) \ {e}
      /\ \A f \in Bridge!Files : Unsaved(f)' <=> Unsaved(f)
      /\ \A f \in Bridge!Files : \A x \in Bridge!Saving(f)' :
           x \in Events /\ x # e /\ x \in Bridge!Saving(f) /\ pc'[x] = pc[x]
  BY <1>1, SaveEnds
<1> HIDE DEF F
<1>4. BridgeShaped'
  <2>1. \A x \in Events : Copying(x)' => Copying(x)
    BY <1>3 DEF Copying
  <2>2. \A f \in Bridge!Files : \A x \in Bridge!Saving(f)' : BridgeShape(f, blob'[x])
    BY <1>2, <1>3 DEF FilesInv, BridgeShaped
  <2>3. \A f \in Bridge!Files : \A x \in Bridge!Saving(f)' : BridgeShape(f, blob[x])'
    BY <2>2 DEF BridgeShape
  <2> QED
    BY <2>1, <2>3, <1>1, <1>2 DEF FilesInv, BridgeShaped, BridgeShape
<1>5. StepsAreOwn'
  BY <1>3 DEF FilesInv, StepsAreOwn
<1>6. CleanIsAlone'
  <2> SUFFICES ASSUME NEW f \in Bridge!Files, NEW x \in clean' \cap Bridge!Saving(f)'
               PROVE  Bridge!Saving(f)' = {x} /\ (pc'[x] = "truncated" => file[f] = Torn)
    BY <1>1 DEF CleanIsAlone
  <2> QED
    BY <1>1, <1>3 DEF FilesInv, CleanIsAlone
<1>7. TrustedIsWhole'
  BY <1>1, <1>3 DEF FilesInv, BridgeShaped, TrustedIsWhole
<1>8. CleanIsCurrent'
  <2> SUFFICES ASSUME NEW f \in Bridge!Files, NEW x \in clean' \cap Bridge!Saving(f)', ~Unsaved(f)
               PROVE  blob'[x] = Bridge!Memory[f]
    BY <1>1, <1>3 DEF CleanIsCurrent
  <2> QED
    BY <1>1, <1>2, <1>3 DEF FilesInv, CleanIsCurrent
<1>9. Bridge!FilesAreCurrent'
  <2> SUFFICES ASSUME NEW f \in trusted, f # F,
                      \A x \in Events : Bridge!FileOf(x) = f =>
                        pc'[x] \notin {"save", "marshalled", "truncated"}
               PROVE  file[f] = Bridge!Memory[f]
    BY <1>1 DEF Bridge!FilesAreCurrent
  <2>1. \A x \in Events : Bridge!FileOf(x) = f => pc[x] \notin {"save", "marshalled", "truncated"}
    BY <1>3 DEF F
  <2> QED
    BY <2>1 DEF FilesInv, Bridge!FilesAreCurrent
<1> QED
  BY <1>4, <1>5, <1>6, <1>7, <1>8, <1>9 DEF FilesInv

\* The handler returns.
LEMMA EndFiles ==
  ASSUME KeepInv, BridgeInv', NEW e \in Events, Bridge!End(e)
  PROVE  FilesInv'
<1>1. /\ pc[e] = "end" /\ pc' = [pc EXCEPT ![e] = "done"] /\ clean' = clean \ {e}
      /\ UNCHANGED <<hist, allow, mutes, blob, file, trusted, restarts>>
      /\ Bridge!Memory' = Bridge!Memory
      /\ held' = [held EXCEPT ![e] = <<>>] /\ current' = Bridge!Freed(e)
  BY DEF Bridge!End, Bridge!tvars, Bridge!Memory
<1> USE DEF KeepInv
<1>2. /\ \A x \in Events : pc'[x] = IF x = e THEN "done" ELSE pc[x]
      /\ held'[e] = <<>> /\ \A x \in Events : x # e => held'[x] = held[x]
  BY <1>1 DEF FilesInv, BridgeInv, BridgeTyped
<1>3. /\ \A f \in Bridge!Files : Bridge!Saving(f)' = Bridge!Saving(f)
      /\ \A f \in Bridge!Files : Unsaved(f)' <=> Unsaved(f)
      /\ \A f \in Bridge!Files : \A x \in Bridge!Saving(f) :
           x \in Events /\ x # e /\ pc'[x] = pc[x]
  BY <1>1, <1>2 DEF Bridge!Saving, Unsaved
<1>4. BridgeShaped'
  <2>1. \A x \in Events : Copying(x)' => held'[x] \in Bridge!Histories
    BY <1>2, NoHistory DEF FilesInv, BridgeShaped, Copying
  <2>2. current' \in [Lanes -> Events \cup {Nobody}]
    BY <1>1 DEF Bridge!Freed, FilesInv, BridgeShaped
  <2>3. cleared' \in [{"memory", "file", "snapshot"} -> [Threads -> SUBSET Events]]
    <3>1. e.kind = "new" => held[e] \subseteq Events /\ e.thread \in Threads
      BY <1>1, EventsAreSound DEF OnlyWritten, Written, Deleting
    <3> QED
      BY <3>1 DEF Bridge!End, FilesInv, BridgeShaped
  <2> QED
    BY <2>1, <2>2, <2>3, <1>1, <1>3 DEF FilesInv, BridgeShaped, BridgeShape
<1>5. StepsAreOwn'
  BY <1>2 DEF FilesInv, StepsAreOwn
<1>6. CleanIsAlone' /\ TrustedIsWhole' /\ CleanIsCurrent'
  BY <1>1, <1>3 DEF FilesInv, BridgeShaped, CleanIsAlone, TrustedIsWhole, CleanIsCurrent
<1>7. Bridge!FilesAreCurrent'
  <2> SUFFICES ASSUME NEW f \in trusted,
                      \A x \in Events : Bridge!FileOf(x) = f =>
                        pc'[x] \notin {"save", "marshalled", "truncated"}
               PROVE  file[f] = Bridge!Memory[f]
    BY <1>1 DEF Bridge!FilesAreCurrent
  <2>1. \A x \in Events : Bridge!FileOf(x) = f => pc[x] \notin {"save", "marshalled", "truncated"}
    BY <1>1, <1>2
  <2> QED
    BY <2>1 DEF FilesInv, Bridge!FilesAreCurrent
<1> QED
  BY <1>4, <1>5, <1>6, <1>7 DEF FilesInv

\* The process is replaced, and reads its files.
LEMMA BootFiles ==
  ASSUME FilesInv, BridgeInv', NEW d, NEW place, DiskFits(d, place), Bridge!Boot(d, place)
  PROVE  FilesInv'
<1> DEFINE read == [f \in Bridge!Files |-> IF d[f] = Torn THEN Bridge!Empty[f] ELSE d[f]]
<1>1. /\ restarts < MaxRestarts /\ restarts' = restarts + 1
      /\ hist' = read["history"] /\ allow' = read["allowlist"] /\ mutes' = read["notifs"]
      /\ pc' = [e \in Events |-> IF pc[e] = "absent" THEN "absent" ELSE "done"]
      /\ current' = [l \in Lanes |-> Nobody]
      /\ held' = [e \in Events |-> <<>>] /\ blob' = [e \in Events |-> Torn]
      /\ clean' = {} /\ trusted' = {f \in Bridge!Files : d[f] # Torn}
      /\ file' = d
      /\ cleared' = [cleared EXCEPT !["memory"] = cleared[place], !["file"] = cleared[place]]
  BY DEF Bridge!Boot
<1>2. \A f \in Bridge!Files : BridgeShape(f, Bridge!Empty[f])
  BY NoHistory DEF BridgeShape, Bridge!Empty, Bridge!Files
<1>3. \A f \in Bridge!Files : BridgeShape(f, read[f])
  BY <1>2 DEF DiskFits
<1>4. \A f \in Bridge!Files : Bridge!Memory'[f] = read[f]
  BY <1>1 DEF Bridge!Memory, Bridge!Files
<1>5. \A f \in Bridge!Files : d[f] # Torn => read[f] = d[f]
  OBVIOUS
<1> HIDE DEF read
<1>6. \A f \in Bridge!Files : Bridge!Saving(f)' = {}
  BY <1>1 DEF Bridge!Saving
<1>7. BridgeShaped'
  <2>1. \A f \in Bridge!Files : BridgeShape(f, Bridge!Memory[f])'
    BY <1>3, <1>4 DEF BridgeShape
  <2>2. restarts' \in 0..MaxRestarts
    BY <1>1, MessagesAreCounted DEF FilesInv, BridgeShaped
  <2>3. cleared' \in [{"memory", "file", "snapshot"} -> [Threads -> SUBSET Events]]
    BY <1>1 DEF FilesInv, BridgeShaped, DiskFits
  <2>4. \A f \in Bridge!Files : file'[f] = Torn \/ BridgeShape(f, file[f])'
    BY <1>1 DEF DiskFits, BridgeShape
  <2>5. DOMAIN file' = Bridge!Files
    BY <1>1 DEF DiskFits
  <2> QED
    BY <2>1, <2>2, <2>3, <2>4, <2>5, <1>1, <1>6, NoHistory DEF BridgeShaped, Copying
<1>8. StepsAreOwn'
  BY <1>1 DEF StepsAreOwn
<1>9. CleanIsAlone' /\ TrustedIsWhole' /\ CleanIsCurrent'
  BY <1>1, <1>6 DEF CleanIsAlone, TrustedIsWhole, CleanIsCurrent
<1>10. Bridge!FilesAreCurrent'
  BY <1>1, <1>4, <1>5 DEF Bridge!FilesAreCurrent
<1> QED
  BY <1>7, <1>8, <1>9, <1>10 DEF FilesInv

\* A lane may go on without its handler.
LEMMA LanesOnlyFiles ==
  ASSUME FilesInv, BridgeInv', current' \in [Lanes -> Events \cup {Nobody}],
         UNCHANGED <<pc, hist, allow, mutes, held, blob, file, clean, trusted, restarts>>,
         cleared' \in [{"memory", "file", "snapshot"} -> [Threads -> SUBSET Events]]
  PROVE  FilesInv'
<1>1. Bridge!Memory' = Bridge!Memory /\ \A f : Bridge!Saving(f)' = Bridge!Saving(f)
  BY DEF Bridge!Memory, Bridge!Saving
<1>2. BridgeShaped'
  BY <1>1 DEF FilesInv, BridgeShaped, BridgeShape, Copying
<1> QED
  BY <1>1, <1>2 DEF FilesInv, StepsAreOwn, CleanIsAlone, TrustedIsWhole, CleanIsCurrent, Unsaved,
     Bridge!FilesAreCurrent

\* Who takes which step.
LEMMA TakeIsQuiet ==
  ASSUME FilesInv, NEW l \in Lanes, Bridge!Take(l)
  PROVE  \E e \in Events : BridgeQuiet(e, "enter")
<1> DEFINE e == Head(waiting[l])
<1>1. /\ e \in Events /\ pc[e] = "waiting" /\ e # Nobody
  <2>1. waiting[l] \in Seq(Events) /\ waiting[l] # <<>> /\ e = waiting[l][1]
        /\ 1 \in 1..Len(waiting[l])
    BY DEF Bridge!Take, FilesInv, BridgeInv, BridgeTyped
  <2> QED
    BY <2>1, EventsAreSound DEF FilesInv, BridgeInv, InOnePlace
<1>2. /\ pc' = [pc EXCEPT ![e] = "enter"] /\ current' = [current EXCEPT ![l] = e]
      /\ UNCHANGED <<hist, allow, mutes, held, blob, file, clean, trusted, synced, cleared, restarts>>
  BY DEF Bridge!Take, Bridge!tvars, Bridge!runvars, Bridge!filevars
<1>3. current' \in [Lanes -> Events \cup {Nobody}]
  BY <1>1, <1>2 DEF FilesInv, BridgeShaped
<1> QED
  BY <1>1, <1>2, <1>3 DEF BridgeQuiet, Bridge!Phases

LEMMA ArriveIsQuiet ==
  ASSUME FilesInv, NEW e \in Events, Bridge!Arrive(e)
  PROVE  \E p \in {"waiting", "enter"} : BridgeQuiet(e, p)
<1>1. pc[e] = "absent"
  BY DEF Bridge!Arrive, FilesInv, BridgeInv, InOnePlace
<1>2. UNCHANGED <<current, hist, allow, mutes, held, blob, file, clean, trusted, synced, cleared, restarts>>
  BY DEF Bridge!Arrive, Bridge!tvars, Bridge!runvars, Bridge!filevars
<1>3. PICK p \in {"waiting", "enter"} : pc' = [pc EXCEPT ![e] = p]
  BY SMTT(30) DEF Bridge!Arrive
<1> QED
  BY <1>1, <1>2, <1>3 DEF BridgeQuiet, Bridge!Phases, FilesInv, BridgeShaped

LEMMA QuietlyIsQuiet ==
  ASSUME FilesInv, NEW e \in Events, BridgeQuietly(e)
  PROVE  \E p \in Bridge!Phases : BridgeQuiet(e, p)
<1>1. /\ UNCHANGED <<hist, allow, mutes, blob, file, clean, trusted, synced, cleared, restarts>>
      /\ pc[e] \in {"enter", "start", "running", "stopping", "compacting"}
  BY DEF BridgeQuietly, Bridge!Refuse, Bridge!Register, Bridge!CloneHistory, Bridge!RunReturns,
     Bridge!RunFails, Bridge!StopLook, Bridge!StopCancel, Bridge!Compact, Bridge!tvars,
     Bridge!filevars, Bridge!Enters
<1>2. current' \in [Lanes -> Events \cup {Nobody}]
  BY DEF BridgeQuietly, Bridge!Refuse, Bridge!Register, Bridge!CloneHistory, Bridge!RunReturns,
     Bridge!RunFails, Bridge!StopLook, Bridge!StopCancel, Bridge!Compact, Bridge!lanevars,
     Bridge!Freed, FilesInv, BridgeShaped
<1>3. /\ \A s \in Events : s # e => held'[s] = held[s]
      /\ \/ held' = held
         \/ pc[e] = "start" /\ held' = [held EXCEPT ![e] = hist[e.thread]]
         \/ e.kind = "compact" /\ held' = [held EXCEPT ![e] = hist[e.thread]]
         \/ e.kind = "stop"
  BY DEF BridgeQuietly, Bridge!Refuse, Bridge!Register, Bridge!CloneHistory, Bridge!RunReturns,
     Bridge!RunFails, Bridge!StopLook, Bridge!StopCancel, Bridge!Compact, Bridge!runvars,
     Bridge!Enters, FilesInv, BridgeInv, BridgeTyped
<1> USE <1>1, <1>2, <1>3 DEF BridgeQuiet, Bridge!Phases
<1>4. CASE Bridge!Refuse(e)
  BY <1>4 DEF Bridge!Refuse, Bridge!runvars
<1>5. CASE Bridge!Register(e)
  BY <1>5 DEF Bridge!Register, Bridge!Enters, Bridge!Runs
<1>6. CASE Bridge!CloneHistory(e)
  BY <1>6 DEF Bridge!CloneHistory, FilesInv, StepsAreOwn, Bridge!Runs, BridgeInv, BridgeTyped
<1>7. CASE Bridge!RunReturns(e)
  BY <1>7 DEF Bridge!RunReturns, FilesInv, StepsAreOwn, Copying, Bridge!runvars
<1>8. CASE Bridge!RunFails(e)
  BY <1>8 DEF Bridge!RunFails, FilesInv, StepsAreOwn, Bridge!Runs, Bridge!runvars
<1>9. CASE Bridge!StopLook(e)
  BY <1>9 DEF Bridge!StopLook, Bridge!Enters
<1>10. CASE Bridge!StopCancel(e)
  BY <1>10 DEF Bridge!StopCancel, FilesInv, StepsAreOwn
<1>11. CASE Bridge!Compact(e)
  BY <1>11 DEF Bridge!Compact, Bridge!Enters, FilesInv, BridgeInv, BridgeTyped
<1> QED
  BY <1>4, <1>5, <1>6, <1>7, <1>8, <1>9, <1>10, <1>11 DEF BridgeQuietly

\* The steps that change memory are those of commands and runs that are not saved yet.
LEMMA RunChanges ==
  ASSUME KeepInv, NEW e \in Events, Bridge!WriteBack(e) \/ Bridge!CompactDone(e)
  PROVE  /\ BridgeChanges(e) /\ e.kind # "new"
         /\ \E h : /\ hist' = [hist EXCEPT ![e.thread] = h]
                   /\ Bridge!Elems(h) \subseteq Bridge!Elems(held[e]) \cup {e}
<1>1. /\ pc[e] \in {"back", "compacting"} /\ pc' = [pc EXCEPT ![e] = "save"]
      /\ UNCHANGED <<allow, mutes, held, current, blob, file, clean, trusted, synced, cleared, restarts>>
  BY DEF Bridge!WriteBack, Bridge!CompactDone, Bridge!runvars, Bridge!lanevars, Bridge!filevars
<1>2. /\ e.kind \in {"message", "reaction", "compact"} /\ Bridge!FileOf(e) = "history"
      /\ e.thread \in Threads /\ held[e] \in Bridge!Histories
  BY <1>1, FilesOfEvents, EventsAreSound
  DEF KeepInv, FilesInv, StepsAreOwn, Bridge!Runs, BridgeShaped, Copying
<1>3. e \notin Bridge!Elems(held[e])
  BY <1>1 DEF KeepInv, OnlyWritten, Written, Copying
<1>4. Append(held[e], e) \in Bridge!Histories
      /\ Bridge!Elems(Append(held[e], e)) = Bridge!Elems(held[e]) \cup {e}
  BY <1>2, <1>3, HistoryGrows
<1>5. PICK h : h \in Bridge!Kept(Append(held[e], e)) \cup Bridge!Kept(held[e])
               /\ hist' = [hist EXCEPT ![e.thread] = h]
  BY DEF Bridge!WriteBack, Bridge!CompactDone
<1>6. h \in Bridge!Histories /\ Bridge!Elems(h) \subseteq Bridge!Elems(held[e]) \cup {e}
  <2>1. CASE h \in Bridge!Kept(held[e])
    BY <2>1, <1>2, HistoryKept
  <2>2. CASE h \in Bridge!Kept(Append(held[e], e))
    BY <2>2, <1>4, HistoryKept
  <2> QED
    BY <2>1, <2>2, <1>5
<1>7. BridgeShape("history", hist) /\ BridgeShape("allowlist", allow)
      /\ BridgeShape("notifs", mutes)
  BY DEF KeepInv, FilesInv, BridgeShaped, Bridge!Memory, Bridge!Files
<1>8. hist' \in [Threads -> Bridge!Histories]
  BY <1>2, <1>5, <1>6, <1>7 DEF BridgeShape
<1>9. \A f \in Bridge!Files : f # "history" => Bridge!Memory'[f] = Bridge!Memory[f]
  BY <1>1 DEF Bridge!Memory, Bridge!Files
<1> QED
  BY <1>1, <1>2, <1>5, <1>6, <1>7, <1>8, <1>9 DEF BridgeChanges, BridgeShape

LEMMA NewChanges ==
  ASSUME KeepInv, NEW e \in Events, Bridge!New(e)
  PROVE  BridgeChanges(e)
<1>1. /\ pc[e] = "enter" /\ e.kind = "new" /\ pc' = [pc EXCEPT ![e] = "save"]
      /\ hist' = [hist EXCEPT ![e.thread] = <<>>]
      /\ \A s \in Events : s # e => held'[s] = held[s]
      /\ UNCHANGED <<allow, mutes, current, blob, file, clean, trusted, synced, cleared, restarts>>
  BY DEF Bridge!New, Bridge!Enters, Bridge!lanevars, Bridge!filevars, KeepInv, FilesInv,
     BridgeInv, BridgeTyped
<1>2. Bridge!FileOf(e) = "history" /\ e.thread \in Threads /\ DOMAIN held = Events
  BY <1>1, FilesOfEvents, EventsAreSound DEF KeepInv, FilesInv, BridgeInv, BridgeTyped
<1>3. BridgeShape("history", hist) /\ BridgeShape("allowlist", allow)
      /\ BridgeShape("notifs", mutes)
  BY DEF KeepInv, FilesInv, BridgeShaped, Bridge!Memory, Bridge!Files
<1>4. hist' \in [Threads -> Bridge!Histories]
  BY <1>1, <1>2, <1>3, NoHistory DEF BridgeShape
<1>5. \A f \in Bridge!Files : f # "history" => Bridge!Memory'[f] = Bridge!Memory[f]
  BY <1>1 DEF Bridge!Memory, Bridge!Files
<1> QED
  BY <1>1, <1>2, <1>3, <1>4, <1>5 DEF BridgeChanges, BridgeShape

LEMMA OverlayChanges ==
  ASSUME KeepInv, NEW e \in Events, Bridge!SetAllowed(e) \/ Bridge!SetMuted(e)
  PROVE  BridgeChanges(e) /\ e.kind # "new" /\ hist' = hist
<1>1. /\ pc[e] = "enter" /\ pc' = [pc EXCEPT ![e] = "save"]
      /\ UNCHANGED <<hist, held, current, blob, file, clean, trusted, synced, cleared, restarts>>
  BY DEF Bridge!SetAllowed, Bridge!SetMuted, Bridge!Enters, Bridge!runvars, Bridge!lanevars,
     Bridge!filevars
<1>2. BridgeShape("history", hist) /\ BridgeShape("allowlist", allow)
      /\ BridgeShape("notifs", mutes)
  BY DEF KeepInv, FilesInv, BridgeShaped, Bridge!Memory, Bridge!Files
<1>3. CASE Bridge!SetAllowed(e)
  <2>1. /\ e.kind \in {"allow", "block"} /\ mutes' = mutes
        /\ allow' \subseteq allow \cup {e.target}
    BY <1>3 DEF Bridge!SetAllowed, Bridge!Enters
  <2>2. e.target \in Threads /\ Bridge!FileOf(e) = "allowlist"
    BY <2>1, EventsAreSound, FilesOfEvents
  <2>3. \A f \in Bridge!Files : f # "allowlist" => Bridge!Memory'[f] = Bridge!Memory[f]
    BY <1>1, <2>1 DEF Bridge!Memory, Bridge!Files
  <2> QED
    BY <1>1, <1>2, <2>1, <2>2, <2>3 DEF BridgeChanges, BridgeShape
<1>4. CASE Bridge!SetMuted(e)
  <2> DEFINE L == IF mutes[e.target] = NoOverlay THEN CfgMuted[e.target] ELSE mutes[e.target]
             m == Bridge!MutedAfter(L, e.feed, e.kind = "mute")
  <2>1. /\ e.kind \in {"mute", "unmute"} /\ allow' = allow
        /\ mutes' = [mutes EXCEPT ![e.target] = m]
    BY <1>4 DEF Bridge!SetMuted, Bridge!Enters
  <2>2. e.target \in Threads /\ e.feed \in Feeds \cup {"*"} /\ Bridge!FileOf(e) = "notifs"
    BY <2>1, EventsAreSound, FilesOfEvents
  <2>3. L \in SUBSET (Feeds \cup {"*"})
    BY <1>2, <2>2, EventsAreSound DEF BridgeShape
  <2>4. m \in SUBSET (Feeds \cup {"*"})
    BY <2>2, <2>3 DEF Bridge!MutedAfter
  <2> HIDE DEF m, L
  <2>5. mutes' \in [Threads -> {NoOverlay} \cup SUBSET (Feeds \cup {"*"})]
    BY <1>2, <2>1, <2>2, <2>4 DEF BridgeShape
  <2>6. \A f \in Bridge!Files : f # "notifs" => Bridge!Memory'[f] = Bridge!Memory[f]
    BY <1>1, <2>1 DEF Bridge!Memory, Bridge!Files
  <2> QED
    BY <1>1, <1>2, <2>1, <2>2, <2>5, <2>6 DEF BridgeChanges, BridgeShape
<1> QED
  BY <1>3, <1>4

LEMMA RecordChanges ==
  ASSUME KeepInv, NEW e \in Events, Bridge!Record(e)
  PROVE  /\ BridgeChanges(e) /\ e.kind # "new"
         /\ \E h : /\ hist' = [hist EXCEPT ![e.thread] = h]
                   /\ Bridge!Elems(h) \subseteq Bridge!Elems(hist[e.thread]) \cup {e}
<1> DEFINE g == Append(hist[e.thread], e)
           i == IF Len(g) > Keep THEN Len(g) - Keep + 1 ELSE 1
           h == SubSeq(g, i, Len(g))
<1>1. /\ pc[e] = "enter" /\ e.kind = "note" /\ pc' = [pc EXCEPT ![e] = "save"]
      /\ hist' = [hist EXCEPT ![e.thread] = h]
      /\ UNCHANGED <<allow, mutes, held, current, blob, file, clean, trusted, synced, cleared, restarts>>
  BY DEF Bridge!Record, Bridge!runvars, Bridge!lanevars, Bridge!filevars
<1>2. Bridge!FileOf(e) = "history" /\ e.thread \in Threads
  BY <1>1, FilesOfEvents, EventsAreSound
<1>3. BridgeShape("history", hist) /\ BridgeShape("allowlist", allow)
      /\ BridgeShape("notifs", mutes)
  BY DEF KeepInv, FilesInv, BridgeShaped, Bridge!Memory, Bridge!Files
<1>4. hist[e.thread] \in Bridge!Histories /\ e \notin Bridge!Elems(hist[e.thread])
  BY <1>1, <1>2, <1>3 DEF BridgeShape, KeepInv, OnlyWritten, Written
<1>5. g \in Bridge!Histories /\ Bridge!Elems(g) = Bridge!Elems(hist[e.thread]) \cup {e}
  BY <1>4, HistoryGrows
<1>6. i \in 1..Len(g)
  BY <1>4, EventsAreSound DEF Bridge!Histories
<1> HIDE DEF g, i
<1>7. h \in Bridge!Histories /\ Bridge!Elems(h) \subseteq Bridge!Elems(g)
  BY <1>5, <1>6, HistoryTail
<1> HIDE DEF h
<1>8. hist' \in [Threads -> Bridge!Histories]
  BY <1>1, <1>2, <1>3, <1>7 DEF BridgeShape
<1>9. \A f \in Bridge!Files : f # "history" => Bridge!Memory'[f] = Bridge!Memory[f]
  BY <1>1 DEF Bridge!Memory, Bridge!Files
<1> QED
  BY <1>1, <1>2, <1>3, <1>5, <1>7, <1>8, <1>9 DEF BridgeChanges, BridgeShape

----------------------------------------------------------------------------
(* Nothing comes back                                                      *)

\* Nothing is known to be gone that was never written, and what is gone from the
\* file is gone from memory.
LEMMA GoneWasWritten ==
  ASSUME KeepInv, NEW t \in Threads
  PROVE  Deleted(t) \subseteq Gone(t) /\ Gone(t) \subseteq Written
BY DEF Deleted, Gone, Deleting, KeepInv, OnlyWritten

\* As long as the same /new are at work with the same in hand, the same is gone.
LEMMA GoneKept ==
  ASSUME NEW t \in Threads, cleared'["memory"] = cleared["memory"], Deleting(t)' = Deleting(t),
         \A n \in Deleting(t) : held'[n] = held[n]
  PROVE  Gone(t)' = Gone(t)
BY DEF Gone

LEMMA DeletedKept ==
  ASSUME NEW t \in Threads, cleared'["file"] = cleared["file"], Deleting(t)' = Deleting(t),
         \A n \in Deleting(t) : held'[n] = held[n],
         \A n \in Deleting(t) : n \in clean' /\ pc'[n] = "end" => n \in clean /\ pc[n] = "end"
  PROVE  Deleted(t)' \subseteq Deleted(t)
BY DEF Deleted

\* What all the histories, copies, saves and the file have in common.
LEMMA SavesOfHistory ==
  ASSUME KeepInv, NEW e \in Bridge!Saving("history")
  PROVE  e \in Events /\ pc[e] \in {"marshalled", "truncated"}
BY DEF Bridge!Saving

\* What a step has to leave behind.
LEMMA OnlyWrittenNext ==
  ASSUME \A t \in Threads :
           /\ Bridge!Elems(hist'[t]) \subseteq Written'
           /\ cleared'["file"][t] \subseteq cleared'["memory"][t]
           /\ cleared'["memory"][t] \subseteq Written'
           /\ \A n \in Deleting(t)' : held'[n] \subseteq Written'
           /\ file'["history"] # Torn => Bridge!Elems(file'["history"][t]) \subseteq Written'
           /\ \A e \in Bridge!Saving("history")' : Bridge!Elems(blob'[e][t]) \subseteq Written',
         \A e \in Events : Copying(e)' => Bridge!Elems(held'[e]) \subseteq Written'
  PROVE  OnlyWritten'
BY DEF OnlyWritten, Bridge!Elems

LEMMA GoneFromMemoryNext ==
  ASSUME \A t \in Threads : Gone(t)' \cap Bridge!Elems(hist'[t]) = {},
         \A e \in Events : Copying(e)' => Gone(e.thread)' \cap Bridge!Elems(held'[e]) = {}
  PROVE  GoneFromMemory'
BY DEF GoneFromMemory, Bridge!Elems

LEMMA GoneFromFilesNext ==
  ASSUME \A t \in Threads :
           /\ file'["history"] # Torn =>
                Deleted(t)' \cap Bridge!Elems(file'["history"][t]) = {}
           /\ \A e \in Bridge!Saving("history")' : Deleted(t)' \cap Bridge!Elems(blob'[e][t]) = {},
         \A n \in clean' \cap Bridge!Saving("history")' :
           n.kind = "new" => held'[n] \cap Bridge!Elems(blob'[n][n.thread]) = {}
  PROVE  GoneFromFiles'
BY DEF GoneFromFiles, Bridge!Elems

LEMMA KeepQuiet ==
  ASSUME KeepInv, FilesInv', NEW e \in Events, NEW p, BridgeQuiet(e, p)
  PROVE  KeepInv'
<1>1. /\ \A x \in Events : pc'[x] = IF x = e THEN p ELSE pc[x]
      /\ \A x \in Events : x # e => held'[x] = held[x]
      /\ UNCHANGED <<hist, blob, file, clean, cleared>>
  BY DEF BridgeQuiet, KeepInv, FilesInv, BridgeInv, BridgeTyped
<1>2. /\ pc[e] \notin {"save", "marshalled", "truncated", "end", "done"}
      /\ p \notin {"save", "marshalled", "truncated"} /\ (e.kind = "new" => p # "end")
      /\ e.thread \in Threads
  BY EventsAreSound DEF BridgeQuiet
<1>3. Written \subseteq Written'
  BY <1>1, <1>2 DEF Written
<1>4. \A t \in Threads : Deleting(t)' = Deleting(t) /\ e \notin Deleting(t)
  BY <1>1, <1>2 DEF Deleting
<1>5. \A t \in Threads : \A n \in Deleting(t) : n \in Events /\ n # e
  BY <1>4 DEF Deleting
<1>6. \A t \in Threads : Gone(t)' = Gone(t)
  BY <1>1, <1>4, <1>5, GoneKept
<1>7. \A t \in Threads : Deleted(t)' \subseteq Deleted(t)
  BY <1>1, <1>4, <1>5, DeletedKept
<1>8. Bridge!Saving("history")' = Bridge!Saving("history")
      /\ \A x \in Bridge!Saving("history") : x \in Events /\ x # e
  BY <1>1, <1>2 DEF Bridge!Saving
<1>9. ASSUME NEW x \in Events, Copying(x)'
      PROVE  \/ Copying(x) /\ held'[x] = held[x]
             \/ x = e /\ held'[e] = hist[e.thread]
  BY <1>1, <1>9 DEF BridgeQuiet, Copying
<1>10. OnlyWritten'
  <2>1. ASSUME NEW x \in Events, Copying(x)'
        PROVE  Bridge!Elems(held'[x]) \subseteq Written'
    BY <2>1, <1>2, <1>3, <1>9 DEF KeepInv, OnlyWritten
  <2>2. \A t \in Threads : \A n \in Deleting(t)' : held'[n] \subseteq Written'
    BY <1>1, <1>3, <1>4, <1>5 DEF KeepInv, OnlyWritten
  <2> QED
    BY <2>1, <2>2, <1>1, <1>3, <1>8, OnlyWrittenNext DEF KeepInv, OnlyWritten
<1>11. GoneFromMemory'
  <2>1. ASSUME NEW x \in Events, Copying(x)'
        PROVE  Gone(x.thread) \cap Bridge!Elems(held'[x]) = {}
    BY <2>1, <1>2, <1>9 DEF KeepInv, GoneFromMemory
  <2>2. \A x \in Events : x.thread \in Threads
    BY EventsAreSound
  <2> QED
    BY <2>1, <2>2, <1>1, <1>6, GoneFromMemoryNext DEF KeepInv, GoneFromMemory
<1>12. GoneFromFiles'
  BY <1>1, <1>7, <1>8, GoneFromFilesNext DEF KeepInv, GoneFromFiles
<1> QED
  BY <1>10, <1>11, <1>12 DEF KeepInv

\* A history is put back, or another file's memory changes.
LEMMA KeepChange ==
  ASSUME KeepInv, FilesInv', NEW e \in Events, BridgeChanges(e), e.kind # "new",
         \/ hist' = hist
         \/ \E h : /\ hist' = [hist EXCEPT ![e.thread] = h]
                   /\ \/ Bridge!Elems(h) \subseteq Bridge!Elems(hist[e.thread]) \cup {e}
                      \/ Copying(e) /\ Bridge!Elems(h) \subseteq Bridge!Elems(held[e]) \cup {e}
  PROVE  KeepInv'
<1>1. /\ \A x \in Events : pc'[x] = IF x = e THEN "save" ELSE pc[x]
      /\ \A x \in Events : x # e => held'[x] = held[x]
      /\ UNCHANGED <<blob, file, clean, cleared>>
  BY DEF BridgeChanges, KeepInv, FilesInv, BridgeInv, BridgeTyped
<1>2. pc[e] \in {"enter", "back", "compacting"} /\ e.thread \in Threads /\ e \notin Written
  BY EventsAreSound DEF BridgeChanges, Written
<1>3. Written \subseteq Written' /\ e \in Written'
  BY <1>1, <1>2 DEF Written
<1>4. \A t \in Threads : Deleting(t)' = Deleting(t) /\ e \notin Deleting(t)
  BY <1>1, <1>2 DEF Deleting
<1>5. \A t \in Threads : \A n \in Deleting(t) : n \in Events /\ n # e
  BY <1>4 DEF Deleting
<1>6. \A t \in Threads : Gone(t)' = Gone(t) /\ e \notin Gone(t)
  BY <1>1, <1>2, <1>4, <1>5, GoneKept, GoneWasWritten
<1>7. \A t \in Threads : Deleted(t)' \subseteq Deleted(t)
  BY <1>1, <1>4, <1>5, DeletedKept
<1>8. Bridge!Saving("history")' = Bridge!Saving("history")
      /\ \A x \in Bridge!Saving("history") : x \in Events /\ x # e
  BY <1>1, <1>2 DEF Bridge!Saving
<1>9. \A x \in Events : Copying(x)' => x # e /\ Copying(x)
  BY <1>1 DEF Copying
<1>10. ASSUME NEW t \in Threads
       PROVE  /\ Bridge!Elems(hist'[t]) \subseteq Written'
              /\ Gone(t) \cap Bridge!Elems(hist'[t]) = {}
  <2>1. CASE hist'[t] = hist[t]
    BY <2>1, <1>3 DEF KeepInv, OnlyWritten, GoneFromMemory
  <2>2. CASE hist'[t] # hist[t]
    <3>1. PICK h : /\ hist' = [hist EXCEPT ![e.thread] = h]
                   /\ \/ Bridge!Elems(h) \subseteq Bridge!Elems(hist[e.thread]) \cup {e}
                      \/ Copying(e) /\ Bridge!Elems(h) \subseteq Bridge!Elems(held[e]) \cup {e}
      BY <2>2
    <3>2. DOMAIN hist = Threads
      BY DEF KeepInv, FilesInv, BridgeShaped, BridgeShape, Bridge!Memory, Bridge!Files
    <3>3. t = e.thread /\ hist'[t] = h
      BY <2>2, <3>1, <3>2
    <3>4. CASE Bridge!Elems(h) \subseteq Bridge!Elems(hist[e.thread]) \cup {e}
      BY <3>3, <3>4, <1>3, <1>6 DEF KeepInv, OnlyWritten, GoneFromMemory
    <3>5. CASE Copying(e) /\ Bridge!Elems(h) \subseteq Bridge!Elems(held[e]) \cup {e}
      BY <3>3, <3>5, <1>3, <1>6 DEF KeepInv, OnlyWritten, GoneFromMemory
    <3> QED
      BY <3>1, <3>4, <3>5
  <2> QED
    BY <2>1, <2>2
<1>11. OnlyWritten'
  <2>1. \A t \in Threads : \A n \in Deleting(t)' : held'[n] \subseteq Written'
    BY <1>1, <1>3, <1>4, <1>5 DEF KeepInv, OnlyWritten
  <2> QED
    BY <2>1, <1>1, <1>3, <1>8, <1>9, <1>10, OnlyWrittenNext DEF KeepInv, OnlyWritten
<1>12. GoneFromMemory'
  <2>1. \A x \in Events : x.thread \in Threads
    BY EventsAreSound
  <2> QED
    BY <2>1, <1>1, <1>6, <1>9, <1>10, GoneFromMemoryNext DEF KeepInv, GoneFromMemory
<1>13. GoneFromFiles'
  BY <1>1, <1>7, <1>8, GoneFromFilesNext DEF KeepInv, GoneFromFiles
<1> QED
  BY <1>11, <1>12, <1>13 DEF KeepInv

\* /new: what it has in hand is what memory held and nobody has a copy of.
LEMMA KeepNew ==
  ASSUME KeepInv, FilesInv', NEW e \in Events, Bridge!New(e), BridgeChanges(e)
  PROVE  KeepInv'
<1>1. /\ \A x \in Events : pc'[x] = IF x = e THEN "save" ELSE pc[x]
      /\ \A x \in Events : x # e => held'[x] = held[x]
      /\ UNCHANGED <<blob, file, clean, cleared>>
  BY DEF BridgeChanges, KeepInv, FilesInv, BridgeInv, BridgeTyped
<1>2. pc[e] = "enter" /\ e.kind = "new" /\ e.thread \in Threads
  BY EventsAreSound DEF Bridge!New, Bridge!Enters
<1>3. held'[e] = {x \in Bridge!Elems(hist[e.thread]) :
                    \A h \in Bridge!Holding(e.thread) : x \notin Bridge!Elems(held[h])}
  BY DEF Bridge!New, KeepInv, FilesInv, BridgeInv, BridgeTyped
<1>4. /\ hist'[e.thread] = <<>> /\ \A t \in Threads : t # e.thread => hist'[t] = hist[t]
      /\ Bridge!Elems(<<>>) = {}
  BY <1>2, NoHistory
  DEF Bridge!New, KeepInv, FilesInv, BridgeShaped, BridgeShape, Bridge!Memory, Bridge!Files
<1>5. Written \subseteq Written'
  BY <1>1, <1>2 DEF Written
<1>6. /\ Deleting(e.thread)' = Deleting(e.thread) \cup {e}
      /\ \A t \in Threads : t # e.thread => Deleting(t)' = Deleting(t)
      /\ \A t \in Threads : e \notin Deleting(t)
  BY <1>1, <1>2 DEF Deleting
<1>7. held'[e] \subseteq Bridge!Elems(hist[e.thread])
  BY <1>3
<1>8. \A t \in Threads : \A x \in Gone(t)' :
        x \in Gone(t) \/ (t = e.thread /\ x \in held'[e])
  <2> SUFFICES ASSUME NEW t \in Threads, NEW x \in Events, x \notin cleared["memory"][t],
                      NEW n \in Deleting(t)', x \in held'[n]
               PROVE  x \in Gone(t) \/ (t = e.thread /\ x \in held'[e])
    BY <1>1 DEF Gone
  <2>1. CASE n = e
    BY <2>1, <1>6
  <2>2. CASE n # e
    <3>1. n \in Deleting(t) /\ held'[n] = held[n]
      BY <2>2, <1>1, <1>6 DEF Deleting
    <3> QED
      BY <3>1 DEF Gone
  <2> QED
    BY <2>1, <2>2
<1>9. \A t \in Threads : Deleted(t)' \subseteq Deleted(t)
  <2> SUFFICES ASSUME NEW t \in Threads, NEW x \in Events, x \notin cleared["file"][t],
                      NEW n \in Deleting(t)', n \in clean, pc'[n] = "end",
                      x \in held'[n]
               PROVE  x \in Deleted(t)
    BY <1>1 DEF Deleted
  <2>1. n # e
    BY <1>1, <1>2
  <2>2. n \in Deleting(t) /\ n \in Events
    BY <2>1, <1>6 DEF Deleting
  <2> QED
    BY <2>1, <2>2, <1>1 DEF Deleted
<1>10. Bridge!Saving("history")' = Bridge!Saving("history")
       /\ \A x \in Bridge!Saving("history") : x \in Events /\ x # e
  BY <1>1, <1>2 DEF Bridge!Saving
<1>11. \A x \in Events : Copying(x)' => x # e /\ Copying(x)
  BY <1>1 DEF Copying
<1>12. OnlyWritten'
  <2>1. \A t \in Threads : Bridge!Elems(hist'[t]) \subseteq Written'
    BY <1>4, <1>5 DEF KeepInv, OnlyWritten
  <2>2. ASSUME NEW t \in Threads, NEW n \in Deleting(t)'
        PROVE  held'[n] \subseteq Written'
    <3>1. CASE n = e
      BY <3>1, <1>2, <1>5, <1>7 DEF KeepInv, OnlyWritten
    <3>2. CASE n # e
      <4>1. n \in Deleting(t) /\ held'[n] = held[n]
        BY <2>2, <3>2, <1>1, <1>6 DEF Deleting
      <4> QED
        BY <4>1, <1>5 DEF KeepInv, OnlyWritten
    <3> QED
      BY <3>1, <3>2
  <2> QED
    BY <2>1, <2>2, <1>1, <1>5, <1>10, <1>11, OnlyWrittenNext DEF KeepInv, OnlyWritten
<1>13. GoneFromMemory'
  <2>1. \A t \in Threads : Gone(t)' \cap Bridge!Elems(hist'[t]) = {}
    BY <1>4, <1>8 DEF KeepInv, GoneFromMemory
  <2>2. ASSUME NEW x \in Events, Copying(x)'
        PROVE  Gone(x.thread)' \cap Bridge!Elems(held'[x]) = {}
    <3>1. x # e /\ Copying(x) /\ held'[x] = held[x] /\ x.thread \in Threads
      BY <2>2, <1>1, <1>11, EventsAreSound
    <3>2. x.thread = e.thread => held'[e] \cap Bridge!Elems(held[x]) = {}
      BY <3>1, <1>3 DEF Bridge!Holding, Copying
    <3> QED
      BY <3>1, <3>2, <1>8 DEF KeepInv, GoneFromMemory
  <2> QED
    BY <2>1, <2>2, GoneFromMemoryNext
<1>14. GoneFromFiles'
  BY <1>1, <1>9, <1>10, GoneFromFilesNext DEF KeepInv, GoneFromFiles
<1> QED
  BY <1>12, <1>13, <1>14 DEF KeepInv

\* The saves: memory stays as it is, and so do the copies.
LEMMA KeepMarshal ==
  ASSUME KeepInv, FilesInv', NEW e \in Events, Bridge!Marshal(e)
  PROVE  KeepInv'
<1> DEFINE S == Bridge!Saving(Bridge!FileOf(e))
<1>1. /\ \A x \in Events : pc'[x] = IF x = e THEN "marshalled" ELSE pc[x]
      /\ pc[e] = "save" /\ UNCHANGED <<hist, held, file, cleared>>
      /\ clean' = IF S = {} THEN clean \cup {e} ELSE clean \ (S \cup {e})
  BY DEF Bridge!Marshal, Bridge!tvars, Bridge!runvars, KeepInv, FilesInv, BridgeInv, BridgeTyped
<1>2. /\ \A x \in Events : x # e => blob'[x] = blob[x]
      /\ Bridge!FileOf(e) = "history" => blob'[e] = hist
  BY DEF Bridge!Marshal, Bridge!Memory, KeepInv, FilesInv, BridgeShaped
<1>3. Written' = Written
  BY <1>1 DEF Written
<1>4. \A t \in Threads : Deleting(t)' = Deleting(t)
  BY <1>1 DEF Deleting
<1>5. \A t \in Threads : Gone(t)' = Gone(t)
  BY <1>1, <1>4, GoneKept
<1>6. \A t \in Threads : Deleted(t)' \subseteq Deleted(t)
  <2>1. \A n \in Events : n \in clean' /\ pc'[n] = "end" => n \in clean /\ pc[n] = "end"
    BY <1>1
  <2>2. \A t \in Threads : \A n \in Deleting(t) : n \in Events
    BY DEF Deleting
  <2> QED
    BY <2>1, <2>2, <1>1, <1>4, DeletedKept
<1>7. \A x \in Bridge!Saving("history")' :
        \/ x = e /\ Bridge!FileOf(e) = "history"
        \/ x \in Bridge!Saving("history") /\ x # e /\ (x \in clean' => x \in clean)
  BY <1>1 DEF Bridge!Saving
<1>8. \A x \in Bridge!Saving("history") : x \in Events
  BY DEF Bridge!Saving
<1>9. \A x \in Events : Copying(x)' => Copying(x)
  BY <1>1 DEF Copying
<1>10. ASSUME NEW t \in Threads, NEW x \in Bridge!Saving("history")'
       PROVE  /\ Bridge!Elems(blob'[x][t]) \subseteq Written
              /\ Deleted(t) \cap Bridge!Elems(blob'[x][t]) = {}
  <2>1. CASE x = e /\ Bridge!FileOf(e) = "history"
    <3>1. Deleted(t) \subseteq Gone(t)
      BY GoneWasWritten
    <3> QED
      BY <2>1, <3>1, <1>2 DEF KeepInv, OnlyWritten, GoneFromMemory
  <2>2. CASE x \in Bridge!Saving("history") /\ x # e
    BY <2>2, <1>2, <1>8 DEF KeepInv, OnlyWritten, GoneFromFiles
  <2> QED
    BY <2>1, <2>2, <1>7
<1>11. ASSUME NEW n \in clean' \cap Bridge!Saving("history")', n.kind = "new"
       PROVE  held[n] \cap Bridge!Elems(blob'[n][n.thread]) = {}
  <2>1. CASE n = e /\ Bridge!FileOf(e) = "history"
    <3>1. e.thread \in Threads
      BY EventsAreSound
    <3>2. e \in Deleting(e.thread)
      BY <2>1, <1>1, <1>11 DEF Deleting
    <3>3. held[e] \subseteq Gone(e.thread)
      <4>1. held[e] \subseteq Events
        BY <3>1, <3>2 DEF KeepInv, OnlyWritten, Written
      <4> QED
        BY <4>1, <3>2 DEF Gone
    <3> QED
      BY <2>1, <3>1, <3>3, <1>2 DEF KeepInv, GoneFromMemory
  <2>2. CASE n \in Bridge!Saving("history") /\ n # e /\ n \in clean
    BY <2>2, <1>2, <1>8, <1>11 DEF KeepInv, GoneFromFiles
  <2> QED
    BY <2>1, <2>2, <1>7
<1>12. OnlyWritten'
  BY <1>1, <1>3, <1>4, <1>9, <1>10, OnlyWrittenNext DEF KeepInv, OnlyWritten
<1>13. GoneFromMemory'
  BY <1>1, <1>5, <1>9, EventsAreSound, GoneFromMemoryNext DEF KeepInv, GoneFromMemory
<1>14. GoneFromFiles'
  BY <1>1, <1>6, <1>10, <1>11, GoneFromFilesNext DEF KeepInv, GoneFromFiles
<1> QED
  BY <1>12, <1>13, <1>14 DEF KeepInv

\* What a save leaves of the rest when it is under way or ends.
LEMMA SaveLeaves ==
  ASSUME KeepInv, NEW e \in Events, NEW p \in {"truncated", "end"},
         pc[e] \in {"marshalled", "truncated"}, pc' = [pc EXCEPT ![e] = p],
         UNCHANGED <<hist, held, cleared>>, clean' \subseteq clean
  PROVE  /\ Written' = Written
         /\ \A t \in Threads : Gone(t)' = Gone(t) /\ Deleting(t)' = Deleting(t)
         /\ \A t \in Threads : \A x \in Deleted(t)' :
              \/ x \in Deleted(t)
              \/ /\ e.kind = "new" /\ t = e.thread /\ e \in clean' /\ p = "end"
                 /\ x \in held[e]
         /\ \A x \in Events : Copying(x)' => Copying(x)
         /\ Bridge!Saving("history")' \subseteq Bridge!Saving("history")
         /\ p = "end" => e \notin Bridge!Saving("history")'
         /\ \A x \in Bridge!Saving("history") : x \in Events
<1>1. \A x \in Events : pc'[x] = IF x = e THEN p ELSE pc[x]
  BY DEF KeepInv, FilesInv, BridgeInv, BridgeTyped
<1>2. Written' = Written
  BY <1>1 DEF Written
<1>3. \A t \in Threads : Deleting(t)' = Deleting(t)
  BY <1>1 DEF Deleting
<1>4. \A t \in Threads : Gone(t)' = Gone(t)
  BY <1>3, GoneKept
<1>5. ASSUME NEW t \in Threads, NEW x \in Deleted(t)', x \notin Deleted(t)
      PROVE  /\ e.kind = "new" /\ t = e.thread /\ e \in clean' /\ p = "end"
             /\ x \in held[e]
  <2>1. x \in Events /\ x \notin cleared["file"][t]
    BY <1>5 DEF Deleted
  <2>2. PICK n \in Deleting(t) : n \in clean' /\ pc'[n] = "end" /\ x \in held[n]
    BY <2>1, <1>3, <1>5 DEF Deleted
  <2>3. n \in Events /\ n.kind = "new" /\ n.thread = t
    BY DEF Deleting
  <2>4. n = e
    <3>1. n # e => pc[n] = "end" /\ n \in clean
      BY <2>2, <2>3, <1>1
    <3> QED
      BY <2>1, <2>2, <3>1, <1>5 DEF Deleted
  <2> QED
    BY <2>2, <2>3, <2>4, <1>1
<1>6. \A x \in Events : Copying(x)' => Copying(x)
  BY <1>1 DEF Copying
<1>7. /\ Bridge!Saving("history")' \subseteq Bridge!Saving("history")
      /\ p = "end" => e \notin Bridge!Saving("history")'
      /\ \A x \in Bridge!Saving("history") : x \in Events
  BY <1>1 DEF Bridge!Saving
<1> QED
  BY <1>2, <1>3, <1>4, <1>5, <1>6, <1>7

LEMMA KeepTruncate ==
  ASSUME KeepInv, FilesInv', NEW e \in Events, Bridge!Truncate(e)
  PROVE  KeepInv'
<1>1. /\ pc[e] = "marshalled" /\ pc' = [pc EXCEPT ![e] = "truncated"]
      /\ UNCHANGED <<hist, held, blob, clean, cleared>>
      /\ file'["history"] = Torn \/ file'["history"] = file["history"]
  BY FilesOfEvents DEF Bridge!Truncate, Bridge!tvars, Bridge!runvars, Bridge!Files, KeepInv,
     FilesInv, BridgeShaped
<1>2. /\ Written' = Written
      /\ \A t \in Threads : Gone(t)' = Gone(t) /\ Deleting(t)' = Deleting(t)
      /\ \A t \in Threads : Deleted(t)' \subseteq Deleted(t)
      /\ \A x \in Events : Copying(x)' => Copying(x)
      /\ Bridge!Saving("history")' \subseteq Bridge!Saving("history")
  BY <1>1, SaveLeaves
<1>3. OnlyWritten'
  BY <1>1, <1>2, OnlyWrittenNext DEF KeepInv, OnlyWritten
<1>4. GoneFromMemory'
  BY <1>1, <1>2, EventsAreSound, GoneFromMemoryNext DEF KeepInv, GoneFromMemory
<1>5. GoneFromFiles'
  BY <1>1, <1>2, GoneFromFilesNext DEF KeepInv, GoneFromFiles
<1> QED
  BY <1>3, <1>4, <1>5 DEF KeepInv

LEMMA KeepSaveFails ==
  ASSUME KeepInv, FilesInv', NEW e \in Events, Bridge!SaveFails(e)
  PROVE  KeepInv'
<1>1. /\ pc[e] = "marshalled" /\ pc' = [pc EXCEPT ![e] = "end"]
      /\ UNCHANGED <<hist, held, file, cleared>> /\ clean' = clean \ {e}
      /\ \A x \in Events : x # e => blob'[x] = blob[x]
  BY DEF Bridge!SaveFails, Bridge!tvars, Bridge!runvars, KeepInv, FilesInv, BridgeShaped
<1>2. /\ Written' = Written
      /\ \A t \in Threads : Gone(t)' = Gone(t) /\ Deleting(t)' = Deleting(t)
      /\ \A t \in Threads : Deleted(t)' \subseteq Deleted(t)
      /\ \A x \in Events : Copying(x)' => Copying(x)
      /\ \A x \in Bridge!Saving("history")' :
           x \in Bridge!Saving("history") /\ x # e /\ x \in Events
  BY <1>1, SaveLeaves
<1>3. OnlyWritten'
  BY <1>1, <1>2, OnlyWrittenNext DEF KeepInv, OnlyWritten
<1>4. GoneFromMemory'
  BY <1>1, <1>2, EventsAreSound, GoneFromMemoryNext DEF KeepInv, GoneFromMemory
<1>5. GoneFromFiles'
  BY <1>1, <1>2, GoneFromFilesNext DEF KeepInv, GoneFromFiles
<1> QED
  BY <1>3, <1>4, <1>5 DEF KeepInv

\* A clean /new writes a history without what it has deleted, and nobody else
\* is about to write another.
LEMMA KeepWrite ==
  ASSUME KeepInv, FilesInv', NEW e \in Events, Bridge!Write(e)
  PROVE  KeepInv'
<1>1. /\ pc[e] = "truncated" /\ pc' = [pc EXCEPT ![e] = "end"]
      /\ UNCHANGED <<hist, held, clean, cleared>>
      /\ \A x \in Events : x # e => blob'[x] = blob[x]
      /\ IF Bridge!FileOf(e) = "history"
           THEN file'["history"] \in {Torn, blob[e]}
           ELSE file'["history"] = file["history"]
  BY FilesOfEvents DEF Bridge!Write, Bridge!tvars, Bridge!runvars, Bridge!Files, KeepInv,
     FilesInv, BridgeShaped
<1>2. /\ Written' = Written
      /\ \A t \in Threads : Gone(t)' = Gone(t) /\ Deleting(t)' = Deleting(t)
      /\ \A t \in Threads : \A x \in Deleted(t)' :
           \/ x \in Deleted(t)
           \/ /\ e.kind = "new" /\ t = e.thread /\ e \in clean
              /\ x \in held[e]
      /\ \A x \in Events : Copying(x)' => Copying(x)
      /\ \A x \in Bridge!Saving("history")' :
           x \in Bridge!Saving("history") /\ x # e /\ x \in Events
  BY <1>1, SaveLeaves
<1>3. Bridge!FileOf(e) = "history" => e \in Bridge!Saving("history")
  BY <1>1 DEF Bridge!Saving
<1>4. e.kind = "new" => Bridge!FileOf(e) = "history"
  BY FilesOfEvents
<1>5. e.kind = "new" /\ e \in clean => Bridge!Saving("history")' = {}
  BY <1>2, <1>3, <1>4 DEF KeepInv, FilesInv, CleanIsAlone, Bridge!Files
<1>6. OnlyWritten'
  <2>1. \A t \in Threads :
          file'["history"] # Torn => Bridge!Elems(file'["history"][t]) \subseteq Written
    BY <1>1, <1>3 DEF KeepInv, OnlyWritten
  <2> QED
    BY <2>1, <1>1, <1>2, OnlyWrittenNext DEF KeepInv, OnlyWritten
<1>7. GoneFromMemory'
  BY <1>1, <1>2, EventsAreSound, GoneFromMemoryNext DEF KeepInv, GoneFromMemory
<1>8. GoneFromFiles'
  <2>1. ASSUME NEW t \in Threads, file'["history"] # Torn
        PROVE  Deleted(t)' \cap Bridge!Elems(file'["history"][t]) = {}
    <3>1. CASE Bridge!FileOf(e) = "history"
      <4>1. file'["history"] = blob[e]
        BY <2>1, <3>1, <1>1
      <4>2. Deleted(t) \cap Bridge!Elems(blob[e][t]) = {}
        BY <3>1, <1>3 DEF KeepInv, GoneFromFiles
      <4>3. e.kind = "new" /\ t = e.thread /\ e \in clean =>
              held[e] \cap Bridge!Elems(blob[e][t]) = {}
        BY <3>1, <1>3 DEF KeepInv, GoneFromFiles
      <4> QED
        BY <4>1, <4>2, <4>3, <1>2
    <3>2. CASE Bridge!FileOf(e) # "history"
      BY <2>1, <3>2, <1>1, <1>2, <1>4 DEF KeepInv, GoneFromFiles
    <3> QED
      BY <3>1, <3>2
  <2>2. ASSUME NEW t \in Threads, NEW x \in Bridge!Saving("history")'
        PROVE  Deleted(t)' \cap Bridge!Elems(blob'[x][t]) = {}
    <3>1. Deleted(t)' \subseteq Deleted(t)
      BY <1>2, <1>5
    <3> QED
      BY <3>1, <1>1, <1>2 DEF KeepInv, GoneFromFiles
  <2> QED
    BY <2>1, <2>2, <1>1, <1>2, GoneFromFilesNext DEF KeepInv, GoneFromFiles
<1> QED
  BY <1>6, <1>7, <1>8 DEF KeepInv

LEMMA KeepEnd ==
  ASSUME KeepInv, FilesInv', NEW e \in Events, Bridge!End(e)
  PROVE  KeepInv'
<1>1. /\ pc[e] = "end" /\ UNCHANGED <<hist, blob, file>>
      /\ \A x \in Events : pc'[x] = IF x = e THEN "done" ELSE pc[x]
      /\ held'[e] = <<>> /\ \A x \in Events : x # e => held'[x] = held[x]
      /\ clean' = clean \ {e} /\ e.thread \in Threads
  BY EventsAreSound DEF Bridge!End, Bridge!tvars, KeepInv, FilesInv, BridgeInv, BridgeTyped
<1>2. \A t \in Threads :
        LET more == IF e.kind = "new" /\ t = e.thread THEN held[e] ELSE {}
        IN  /\ cleared'["memory"][t] = cleared["memory"][t] \cup more
            /\ cleared'["file"][t] =
                 cleared["file"][t] \cup (IF e \in clean THEN more ELSE {})
  BY SMTT(30) DEF Bridge!End, KeepInv, FilesInv, BridgeShaped
<1>3. Written' = Written
  BY <1>1 DEF Written
<1>4. \A t \in Threads : Deleting(t)' = Deleting(t) \ {e}
  BY <1>1 DEF Deleting
<1>5. e.kind = "new" => e \in Deleting(e.thread)
  BY <1>1 DEF Deleting
<1>6. \A t \in Threads : \A n \in Deleting(t) : n \in Events
  BY DEF Deleting
<1>7. \A t \in Threads : Gone(t)' \subseteq Gone(t)
  <2> SUFFICES ASSUME NEW t \in Threads, NEW x \in Gone(t)' PROVE x \in Gone(t)
    OBVIOUS
  <2>1. x \in Events /\ (x \in cleared'["memory"][t] \/ \E n \in Deleting(t)' : x \in held'[n])
    BY DEF Gone
  <2>2. CASE x \in cleared'["memory"][t]
    BY <2>1, <2>2, <1>2, <1>5 DEF Gone
  <2>3. CASE \E n \in Deleting(t)' : x \in held'[n]
    BY <2>1, <2>3, <1>1, <1>4, <1>6 DEF Gone
  <2> QED
    BY <2>1, <2>2, <2>3
<1>8. \A t \in Threads : Deleted(t)' \subseteq Deleted(t)
  <2> SUFFICES ASSUME NEW t \in Threads, NEW x \in Deleted(t)' PROVE x \in Deleted(t)
    OBVIOUS
  <2>1. /\ x \in Events
        /\ \/ x \in cleared'["file"][t]
           \/ \E n \in Deleting(t)' : n \in clean' /\ pc'[n] = "end" /\ x \in held'[n]
    BY DEF Deleted
  <2>2. CASE x \in cleared'["file"][t]
    BY <2>1, <2>2, <1>1, <1>2, <1>5 DEF Deleted
  <2>3. CASE \E n \in Deleting(t)' : n \in clean' /\ pc'[n] = "end" /\ x \in held'[n]
    BY <2>1, <2>3, <1>1, <1>4, <1>6 DEF Deleted
  <2> QED
    BY <2>1, <2>2, <2>3
<1>9. \A x \in Events : Copying(x)' => x # e /\ Copying(x)
  BY <1>1 DEF Copying
<1>10. Bridge!Saving("history")' = Bridge!Saving("history")
       /\ \A x \in Bridge!Saving("history") : x \in Events /\ x # e
  BY <1>1 DEF Bridge!Saving
<1>11. OnlyWritten'
  <2>1. \A t \in Threads : /\ cleared'["file"][t] \subseteq cleared'["memory"][t]
                            /\ cleared'["memory"][t] \subseteq Written
    BY <1>2, <1>5 DEF KeepInv, OnlyWritten
  <2>2. \A t \in Threads : \A n \in Deleting(t)' : held'[n] \subseteq Written
    BY <1>1, <1>4, <1>6 DEF KeepInv, OnlyWritten
  <2> QED
    BY <2>1, <2>2, <1>1, <1>3, <1>9, <1>10, OnlyWrittenNext DEF KeepInv, OnlyWritten
<1>12. GoneFromMemory'
  BY <1>1, <1>7, <1>9, EventsAreSound, GoneFromMemoryNext DEF KeepInv, GoneFromMemory
<1>13. GoneFromFiles'
  BY SMTT(30), <1>1, <1>8, <1>10, GoneFromFilesNext DEF KeepInv, GoneFromFiles
<1> QED
  BY <1>11, <1>12, <1>13 DEF KeepInv

\* What is reported as gone is not on the disk that a new process reads.
LEMMA KeepBoot ==
  ASSUME KeepInv, FilesInv', NEW d, NEW place, DiskFits(d, place), Bridge!Boot(d, place)
  PROVE  KeepInv'
<1>1. /\ hist' = IF d["history"] = Torn THEN [t \in Threads |-> <<>>] ELSE d["history"]
      /\ pc' = [e \in Events |-> IF pc[e] = "absent" THEN "absent" ELSE "done"]
      /\ held' = [e \in Events |-> <<>>] /\ file' = d
      /\ cleared'["memory"] = cleared[place] /\ cleared'["file"] = cleared[place]
  BY DEF Bridge!Boot, Bridge!Files, Bridge!Empty, KeepInv, FilesInv, BridgeShaped
<1>2. Written \subseteq Written'
  BY <1>1 DEF Written
<1>3. \A t \in Threads : Deleting(t)' = {}
  BY <1>1 DEF Deleting
<1>4. \A t \in Threads :
        Gone(t)' \subseteq cleared[place][t] /\ Deleted(t)' \subseteq cleared[place][t]
  BY <1>1, <1>3 DEF Gone, Deleted
<1>5. /\ Bridge!Saving("history")' = {} /\ \A e \in Events : ~Copying(e)'
      /\ Bridge!Elems(<<>>) = {}
  BY <1>1, NoHistory DEF Bridge!Saving, Copying
<1>6. OnlyWritten'
  BY <1>1, <1>2, <1>3, <1>5, OnlyWrittenNext DEF DiskFits
<1>7. GoneFromMemory'
  BY <1>1, <1>4, <1>5, GoneFromMemoryNext DEF DiskFits
<1>8. GoneFromFiles'
  BY <1>1, <1>4, <1>5, GoneFromFilesNext DEF DiskFits
<1> QED
  BY <1>6, <1>7, <1>8 DEF KeepInv

LEMMA KeepLanesOnly ==
  ASSUME KeepInv, FilesInv', UNCHANGED <<pc, hist, held, blob, file, clean>>,
         cleared'["memory"] = cleared["memory"], cleared'["file"] = cleared["file"]
  PROVE  KeepInv'
<1>1. \A t \in Threads :
        Gone(t)' = Gone(t) /\ Deleted(t)' = Deleted(t) /\ Deleting(t)' = Deleting(t)
  BY DEF Gone, Deleted, Deleting
<1>2. /\ Bridge!Saving("history")' = Bridge!Saving("history") /\ Written' = Written
      /\ \A e \in Events : Copying(e)' <=> Copying(e)
  BY DEF Bridge!Saving, Written, Copying
<1>3. OnlyWritten'
  BY <1>1, <1>2, OnlyWrittenNext DEF KeepInv, OnlyWritten
<1>4. GoneFromMemory'
  BY <1>1, <1>2, EventsAreSound, GoneFromMemoryNext DEF KeepInv, GoneFromMemory
<1>5. GoneFromFiles'
  BY <1>1, <1>2, GoneFromFilesNext DEF KeepInv, GoneFromFiles
<1> QED
  BY <1>3, <1>4, <1>5 DEF KeepInv

LEMMA KeepBegins == Bridge!Init => BackupInv
<1> SUFFICES ASSUME Bridge!Init PROVE BackupInv
  OBVIOUS
<1>1. /\ hist = [t \in Threads |-> <<>>] /\ clean = {}
      /\ cleared = [place \in {"memory", "file", "snapshot"} |-> [t \in Threads |-> {}]]
      /\ pc = [e \in Events |-> "absent"] /\ held = [e \in Events |-> <<>>]
      /\ file["history"] = hist /\ synced = file
  BY DEF Bridge!Init, Bridge!Empty
<1>2. /\ Bridge!Saving("history") = {} /\ Bridge!Elems(<<>>) = {}
      /\ \A e \in Events : ~Copying(e)
  BY <1>1, NoHistory DEF Bridge!Saving, Copying
<1>3. \A t \in Threads : Gone(t) = {} /\ Deleted(t) = {} /\ Deleting(t) = {}
  BY <1>1 DEF Gone, Deleted, Deleting
<1>4. KeepInv
  BY <1>1, <1>2, <1>3, FilesBegin DEF KeepInv, OnlyWritten, GoneFromMemory, GoneFromFiles
<1> QED
  BY <1>1, <1>2, <1>4 DEF BackupInv, KeepInv, FilesInv, BridgeShaped, SnapshotIsBehind

\* What is on the disk, and in the snapshot, is what a process may find.
LEMMA DisksFit ==
  ASSUME BackupInv, NEW restored
  PROVE  /\ DiskFits(file, "file")
         /\ DiskFits([f \in Bridge!Files |-> IF f \in restored THEN synced[f] ELSE Bridge!Empty[f]],
                     "snapshot")
<1> USE DEF BackupInv, KeepInv
<1>1. DiskFits(file, "file")
  <2>1. \A t \in Threads : cleared["file"][t] \subseteq Deleted(t)
    BY DEF Deleted, FilesInv, BridgeShaped
  <2> QED
    BY <2>1 DEF DiskFits, FilesInv, BridgeShaped, OnlyWritten, GoneFromFiles
<1>2. /\ "history" \in Bridge!Files /\ Bridge!Empty["history"] = [t \in Threads |-> <<>>]
      /\ \A f \in Bridge!Files : BridgeShape(f, Bridge!Empty[f])
  BY NoHistory DEF BridgeShape, Bridge!Empty, Bridge!Files
<1>3. \A t \in Threads : cleared["snapshot"][t] \subseteq Written
  BY DEF SnapshotIsBehind, OnlyWritten
<1> QED
  BY <1>1, <1>2, <1>3, NoHistory DEF DiskFits, SnapshotIsBehind

\* What is synced stays behind, as long as nothing is less written or reported.
LEMMA SnapshotKept ==
  ASSUME SnapshotIsBehind, synced' = synced, cleared'["snapshot"] = cleared["snapshot"],
         \A t \in Threads : cleared["file"][t] \subseteq cleared'["file"][t],
         Written \subseteq Written'
  PROVE  SnapshotIsBehind'
<1>1. \A f \in Bridge!Files : synced'[f] = Torn \/ BridgeShape(f, synced[f])'
  BY DEF SnapshotIsBehind, BridgeShape
<1> QED
  BY <1>1 DEF SnapshotIsBehind, Bridge!Elems

LEMMA KeepMoves == BackupInv /\ [Bridge!Next]_bridgevars => KeepInv'
<1> SUFFICES ASSUME BackupInv, KeepInv, [Bridge!Next]_bridgevars PROVE KeepInv'
  BY DEF BackupInv
<1>1. BridgeInv'
  BY BridgeMoves DEF KeepInv, FilesInv
<1> USE <1>1
<1>2. ASSUME NEW e \in Events, \E p \in Bridge!Phases : BridgeQuiet(e, p) PROVE KeepInv'
  BY <1>2, QuietFiles, KeepQuiet DEF KeepInv
<1>3. CASE \E l \in Lanes : Bridge!Take(l)
  <2>1. "enter" \in Bridge!Phases
    BY DEF Bridge!Phases
  <2> QED
    BY <1>2, <1>3, <2>1, TakeIsQuiet DEF KeepInv
<1>4. CASE \E l \in Lanes : Bridge!Detach(l)
  <2>1. /\ current' \in [Lanes -> Events \cup {Nobody}]
        /\ UNCHANGED <<pc, hist, allow, mutes, held, blob, file, clean, trusted, cleared, restarts>>
        /\ cleared' \in [{"memory", "file", "snapshot"} -> [Threads -> SUBSET Events]]
    BY <1>4 DEF Bridge!Detach, Bridge!tvars, Bridge!runvars, Bridge!filevars, KeepInv, FilesInv,
       BridgeShaped
  <2> QED
    BY <2>1, LanesOnlyFiles, KeepLanesOnly DEF KeepInv
<1>5. CASE \E e \in Events : Bridge!Arrive(e)
  <2>1. {"waiting", "enter"} \subseteq Bridge!Phases
    BY DEF Bridge!Phases
  <2> QED
    BY <1>2, <1>5, <2>1, ArriveIsQuiet DEF KeepInv
<1>6. CASE \E e \in Events : BridgeQuietly(e)
  BY <1>2, <1>6, QuietlyIsQuiet DEF KeepInv
<1>7. CASE \E e \in Events : Bridge!WriteBack(e) \/ Bridge!CompactDone(e)
  <2>1. PICK e \in Events : Bridge!WriteBack(e) \/ Bridge!CompactDone(e)
    BY <1>7
  <2>2. Copying(e)
    BY <2>1 DEF Bridge!WriteBack, Bridge!CompactDone, Copying
  <2> QED
    BY <2>1, <2>2, RunChanges, ChangeFiles, KeepChange DEF KeepInv
<1>8. CASE \E e \in Events : Bridge!New(e)
  BY <1>8, NewChanges, ChangeFiles, KeepNew DEF KeepInv
<1>9. CASE \E e \in Events : Bridge!SetAllowed(e) \/ Bridge!SetMuted(e)
  BY <1>9, OverlayChanges, ChangeFiles, KeepChange DEF KeepInv
<1>10. CASE \E e \in Events : Bridge!Record(e)
  BY <1>10, RecordChanges, ChangeFiles, KeepChange DEF KeepInv
<1>11. CASE \E e \in Events : Bridge!Marshal(e)
  BY <1>11, MarshalFiles, KeepMarshal DEF KeepInv
<1>12. CASE \E e \in Events : Bridge!Truncate(e)
  BY <1>12, TruncateFiles, KeepTruncate DEF KeepInv
<1>13. CASE \E e \in Events : Bridge!Write(e)
  BY <1>13, WriteFiles, KeepWrite DEF KeepInv
<1>14. CASE \E e \in Events : Bridge!SaveFails(e)
  BY <1>14, SaveFailsFiles, KeepSaveFails DEF KeepInv
<1>15. CASE \E e \in Events : Bridge!End(e)
  BY <1>15, EndFiles, KeepEnd DEF KeepInv
<1>16. CASE Bridge!Restart \/ Bridge!Replace
  BY <1>16, DisksFit, BootFiles, KeepBoot DEF KeepInv, Bridge!Restart, Bridge!Replace
<1>17. CASE UNCHANGED bridgevars
  <2>1. /\ current' \in [Lanes -> Events \cup {Nobody}]
        /\ UNCHANGED <<pc, hist, allow, mutes, held, blob, file, clean, trusted, cleared, restarts>>
        /\ cleared' \in [{"memory", "file", "snapshot"} -> [Threads -> SUBSET Events]]
    BY <1>17 DEF bridgevars, KeepInv, FilesInv, BridgeShaped
  <2> QED
    BY <2>1, LanesOnlyFiles, KeepLanesOnly DEF KeepInv
<1>18. CASE \E e \in Events : Bridge!Sync(e)
  <2>1. /\ current' \in [Lanes -> Events \cup {Nobody}]
        /\ UNCHANGED <<pc, hist, allow, mutes, held, blob, file, clean, trusted, restarts>>
        /\ cleared' \in [{"memory", "file", "snapshot"} -> [Threads -> SUBSET Events]]
        /\ cleared'["memory"] = cleared["memory"] /\ cleared'["file"] = cleared["file"]
    BY <1>18 DEF Bridge!Sync, Bridge!tvars, Bridge!runvars, KeepInv, FilesInv, BridgeShaped
  <2> QED
    BY <2>1, LanesOnlyFiles, KeepLanesOnly DEF KeepInv
<1> QED
  BY <1>3, <1>4, <1>5, <1>6, <1>7, <1>8, <1>9, <1>10, <1>11, <1>12, <1>13, <1>14, <1>15, <1>16,
     <1>17, <1>18 DEF Bridge!Next, BridgeQuietly

LEMMA BackupMoves == BackupInv /\ [Bridge!Next]_bridgevars => BackupInv'
<1> SUFFICES ASSUME BackupInv, KeepInv, [Bridge!Next]_bridgevars PROVE SnapshotIsBehind'
  BY KeepMoves DEF BackupInv
<1>1. /\ SnapshotIsBehind /\ \A e \in Events : pc[e] \in Bridge!Phases
      /\ pc \in [Events -> Bridge!Phases]
  BY DEF BackupInv, KeepInv, FilesInv, BridgeInv, BridgeTyped
<1>2. ASSUME NEW e \in Events, NEW p, BridgeQuiet(e, p) PROVE SnapshotIsBehind'
  BY <1>1, <1>2, SnapshotKept DEF BridgeQuiet, Written
<1>3. ASSUME NEW e \in Events, BridgeChanges(e) PROVE SnapshotIsBehind'
  BY <1>1, <1>3, SnapshotKept DEF BridgeChanges, Written
<1>4. CASE UNCHANGED <<pc, synced, cleared>>
  BY <1>1, <1>4, SnapshotKept DEF Written
<1>5. CASE \E e \in Events :
             \/ Bridge!Marshal(e) \/ Bridge!Truncate(e) \/ Bridge!Write(e) \/ Bridge!SaveFails(e)
  <2>1. /\ UNCHANGED <<synced, cleared>>
        /\ \E e \in Events : \E p \in {"marshalled", "truncated", "end"} :
             pc' = [pc EXCEPT ![e] = p]
    BY <1>5 DEF Bridge!Marshal, Bridge!Truncate, Bridge!Write, Bridge!SaveFails
  <2> QED
    BY <1>1, <2>1, SnapshotKept DEF Written
<1>6. CASE \E e \in Events : Bridge!End(e)
  <2>1. /\ synced' = synced /\ cleared'["snapshot"] = cleared["snapshot"]
        /\ \A t \in Threads : cleared["file"][t] \subseteq cleared'["file"][t]
        /\ \E e \in Events : pc' = [pc EXCEPT ![e] = "done"]
    <3>1. PICK e \in Events : Bridge!End(e)
      BY <1>6
    <3>2. cleared'["snapshot"] = cleared["snapshot"]
      BY <3>1 DEF Bridge!End, KeepInv, FilesInv, BridgeShaped
    <3>3. \A t \in Threads : cleared["file"][t] \subseteq cleared'["file"][t]
      BY SMTT(30), <3>1 DEF Bridge!End, KeepInv, FilesInv, BridgeShaped
    <3> QED
      BY <3>1, <3>2, <3>3 DEF Bridge!End
  <2> QED
    BY <1>1, <2>1, SnapshotKept DEF Written
<1>7. CASE \E e \in Events : Bridge!Sync(e)
  <2>1. PICK e \in Events : Bridge!Sync(e)
    BY <1>7
  <2>2. /\ pc' = pc /\ file' = file /\ e.feed \in Bridge!Files
        /\ synced' = [synced EXCEPT ![e.feed] = file[e.feed]]
        /\ cleared'["file"] = cleared["file"]
        /\ cleared'["snapshot"] =
             IF e.feed = "history" THEN cleared["file"] ELSE cleared["snapshot"]
    BY <2>1 DEF Bridge!Sync, KeepInv, FilesInv, BridgeShaped
  <2>3. DiskFits(file, "file")
    BY DisksFit
  <2>4. Written' = Written
    BY <2>2 DEF Written
  <2>5. \A f \in Bridge!Files : synced'[f] = Torn \/ BridgeShape(f, synced[f])'
    BY <1>1, <2>2, <2>3 DEF SnapshotIsBehind, DiskFits, BridgeShape
  <2> QED
    BY <1>1, <2>2, <2>3, <2>4, <2>5 DEF SnapshotIsBehind, DiskFits, Bridge!Elems
<1>8. ASSUME NEW d, NEW place \in {"file", "snapshot"}, Bridge!Boot(d, place)
      PROVE  SnapshotIsBehind'
  <2>1. /\ synced' = synced /\ cleared'["snapshot"] = cleared["snapshot"]
        /\ cleared'["file"] = cleared[place]
        /\ pc' = [e \in Events |-> IF pc[e] = "absent" THEN "absent" ELSE "done"]
    BY <1>8 DEF Bridge!Boot, KeepInv, FilesInv, BridgeShaped
  <2>2. Written \subseteq Written'
    BY <2>1 DEF Written
  <2>3. \A f \in Bridge!Files : synced'[f] = Torn \/ BridgeShape(f, synced[f])'
    BY <1>1, <2>1 DEF SnapshotIsBehind, BridgeShape
  <2> QED
    BY <1>1, <2>1, <2>2, <2>3 DEF SnapshotIsBehind, Bridge!Elems
<1>9. CASE Bridge!Restart \/ Bridge!Replace
  BY <1>8, <1>9 DEF Bridge!Restart, Bridge!Replace
<1>10. CASE \E l \in Lanes : Bridge!Take(l)
  BY <1>2, <1>10, TakeIsQuiet DEF KeepInv
<1>11. CASE \E e \in Events : Bridge!Arrive(e)
  BY <1>2, <1>11, ArriveIsQuiet DEF KeepInv
<1>12. CASE \E e \in Events : BridgeQuietly(e)
  BY <1>2, <1>12, QuietlyIsQuiet DEF KeepInv
<1>13. CASE \E e \in Events :
              \/ Bridge!WriteBack(e) \/ Bridge!CompactDone(e) \/ Bridge!New(e)
              \/ Bridge!SetAllowed(e) \/ Bridge!SetMuted(e) \/ Bridge!Record(e)
  BY <1>3, <1>13, RunChanges, NewChanges, OverlayChanges, RecordChanges
<1>14. CASE (\E l \in Lanes : Bridge!Detach(l)) \/ UNCHANGED bridgevars
  BY <1>4, <1>14 DEF Bridge!Detach, Bridge!filevars, bridgevars
<1> QED
  BY <1>5, <1>6, <1>7, <1>9, <1>10, <1>11, <1>12, <1>13, <1>14 DEF Bridge!Next, BridgeQuietly

\* What is reported as gone is in memory and file no more.
LEMMA KeepHolds ==
  KeepInv => /\ Bridge!StopReachesNewest /\ Bridge!FilesAreCurrent
             /\ Bridge!ClearedStaysCleared
<1>1. KeepInv => Bridge!ClearedStaysCleared
  <2> SUFFICES ASSUME KeepInv, NEW t \in Threads
               PROVE  cleared["memory"][t] \cap Bridge!Elems(hist[t]) = {}
    BY DEF Bridge!ClearedStaysCleared
  <2>1. cleared["memory"][t] \subseteq Gone(t)
    BY DEF Gone, KeepInv, OnlyWritten, Written
  <2> QED
    BY <2>1 DEF KeepInv, GoneFromMemory
<1> QED
  BY <1>1, BridgeHolds DEF KeepInv, FilesInv

LEMMA BridgeIsTyped == KeepInv => Bridge!TypeOK
<1> SUFFICES ASSUME KeepInv PROVE Bridge!TypeOK
  OBVIOUS
<1>1. \A l \in Lanes : waiting[l] \in Bridge!Histories
  <2> SUFFICES ASSUME NEW l \in Lanes PROVE waiting[l] \in Bridge!Histories
    OBVIOUS
  <2>1. waiting[l] \in Seq(Events) /\ DOMAIN waiting[l] = 1..Len(waiting[l])
    BY DEF KeepInv, FilesInv, BridgeInv, BridgeTyped
  <2> QED
    BY <2>1 DEF Bridge!Histories, Bridge!IsInjective, KeepInv, FilesInv, BridgeInv, InOnePlace
<1>2. BridgeShape("history", hist) /\ BridgeShape("allowlist", allow)
      /\ BridgeShape("notifs", mutes)
  BY DEF KeepInv, FilesInv, BridgeShaped, Bridge!Memory, Bridge!Files
<1>3. \A t \in Threads :
        /\ hist[t] \in Bridge!Histories
        /\ {cancels[t], newest[t]} \subseteq Bridge!Runs \cup {Nobody}
        /\ mutes[t] = NoOverlay \/ mutes[t] \subseteq Feeds \cup {"*"}
  BY <1>2 DEF BridgeShape, KeepInv, FilesInv, BridgeInv, BridgeTyped
<1> QED
  BY <1>1, <1>2, <1>3 DEF Bridge!TypeOK, BridgeShape, KeepInv, FilesInv, BridgeInv, BridgeTyped,
     BridgeShaped

----------------------------------------------------------------------------
(* Routes and the outbox                                                   *)

LEMMA OutboxElements ==
  ASSUME Outbox!TypeOK
  PROVE  /\ Len(route) \in Nat /\ Len(bubbles) \in Nat /\ Len(bubbles) =< MaxBubbles
         /\ Len(batch) \in Nat
         /\ bubbles \in Seq(Bubbles) /\ batch \in Seq(Claimed)
         /\ \A b \in 1..Len(bubbles) : bubbles[b] \in Bubbles
         /\ \A j \in 1..Len(batch) : batch[j] \in Claimed
         /\ \A i \in Items : outbox[i] \in Entries
         /\ outbox \in [Items -> Entries] /\ mishaps \in [Items -> Nat]
         /\ at \in Nat /\ primary \in 0..Len(bubbles)
         /\ batch # <<>> => batch[1] \in Claimed /\ 1 \in 1..Len(batch)
<1>1. /\ bubbles \in Seq(Bubbles) /\ batch \in Seq(Claimed)
      /\ outbox \in [Items -> Entries] /\ mishaps \in [Items -> Nat]
      /\ Len(bubbles) =< MaxBubbles /\ primary \in 0..Len(bubbles)
  BY DEF Outbox!TypeOK, Bubbles, Claimed, Entries
<1>2. Len(route) \in Nat /\ at \in Nat
  BY RoutesAreLists DEF Outbox!TypeOK
<1>3. Len(bubbles) \in Nat /\ \A b \in 1..Len(bubbles) : bubbles[b] \in Bubbles
  BY <1>1
<1>4. Len(batch) \in Nat /\ \A j \in 1..Len(batch) : batch[j] \in Claimed
  BY <1>1
<1>5. batch # <<>> => 1 \in 1..Len(batch)
  BY <1>1, EmptySeq
<1>6. \A i \in Items : outbox[i] \in Entries
  BY <1>1
<1> QED
  BY <1>1, <1>2, <1>3, <1>4, <1>5, <1>6

\* What is posted comes behind what was posted before.
LEMMA PostsComeLast ==
  ASSUME Outbox!TypeOK, batch # <<>>, at \in Outbox!Indices, Len(bubbles) < MaxBubbles,
         NEW how \in {"send", "edit", "late"}, NEW new, new = Outbox!Posted(how)
  PROVE  /\ new \in Seq(Bubbles) /\ Len(new) = Len(bubbles) + 1 /\ Len(new) =< MaxBubbles
         /\ Len(new) \in Nat
         /\ \A b \in 1..Len(bubbles) : b \in 1..Len(new) /\ new[b] = bubbles[b]
         /\ \A b \in 1..Len(new) : b \in 1..Len(bubbles) \/ b = Len(bubbles) + 1
         /\ Len(bubbles) + 1 \in 1..Len(new)
         /\ new[Len(bubbles) + 1] =
              [item |-> batch[1].item, at |-> at, version |-> batch[1].version,
               of |-> IF Outbox!IsPrimary(at) THEN 0 ELSE primary, by |-> how]
<1> DEFINE b == [item |-> batch[1].item, at |-> at, version |-> batch[1].version,
                 of |-> IF Outbox!IsPrimary(at) THEN 0 ELSE primary, by |-> how]
<1>1. primary \in 0..MaxBubbles /\ 0 \in 0..MaxBubbles
  BY OutboxElements, RoutesAreLists
<1>2. batch[1] \in Claimed
  BY OutboxElements
<1>3. b \in Bubbles
  BY <1>1, <1>2 DEF Bubbles, Claimed
<1>4. new = Append(bubbles, b)
  BY DEF Outbox!Posted, Outbox!Item, Outbox!NoId
<1> HIDE DEF b
<1>5. bubbles \in Seq(Bubbles) /\ Len(bubbles) \in Nat /\ MaxBubbles \in Nat
  BY OutboxElements, RoutesAreLists
<1>6. /\ new \in Seq(Bubbles) /\ Len(new) = Len(bubbles) + 1
      /\ \A c \in 1..Len(bubbles) : new[c] = bubbles[c]
      /\ new[Len(bubbles) + 1] = b
  BY <1>3, <1>4, <1>5, AppendProperties
<1> QED
  BY <1>5, <1>6 DEF b

\* An edit changes the text of one bubble.
LEMMA EditsChangeTexts ==
  ASSUME Outbox!TypeOK, batch # <<>>, NEW e \in 1..Len(bubbles), NEW new, new = Outbox!Shows(e)
  PROVE  /\ new \in Seq(Bubbles) /\ Len(new) = Len(bubbles)
         /\ \A b \in 1..Len(bubbles) :
              /\ new[b].item = bubbles[b].item /\ new[b].at = bubbles[b].at
              /\ new[b].of = bubbles[b].of /\ new[b].by = bubbles[b].by
              /\ new[b].version = IF b = e THEN batch[1].version ELSE bubbles[b].version
<1>1. new = [bubbles EXCEPT ![e].version = batch[1].version]
  BY DEF Outbox!Shows, Outbox!Item
<1>2. bubbles \in Seq(Bubbles) /\ bubbles[e] \in Bubbles /\ batch[1] \in Claimed
  BY OutboxElements
<1>3. \A v \in 1..MaxVersion : [bubbles[e] EXCEPT !.version = v] \in Bubbles
  BY <1>2 DEF Bubbles
<1>4. new = [bubbles EXCEPT ![e] = [bubbles[e] EXCEPT !.version = batch[1].version]]
  BY <1>1, <1>2
<1>5. new \in Seq(Bubbles) /\ Len(new) = Len(bubbles)
  BY <1>2, <1>3, <1>4, ExceptSeq DEF Claimed
<1>6. ASSUME NEW b \in 1..Len(bubbles)
      PROVE  new[b] = IF b = e THEN [bubbles[e] EXCEPT !.version = batch[1].version] ELSE bubbles[b]
  BY <1>2, <1>4
<1> QED
  BY ZenonT(40), <1>2, <1>5, <1>6 DEF Bubbles

\* The bubbles of an item in a channel can be counted.
LEMMA CopiesCounted ==
  ASSUME Len(bubbles) \in Nat, NEW i, NEW k, NEW T, NEW x, T \subseteq Copies(i, k) \cup {x}
  PROVE  /\ Outbox!Cardinality(Copies(i, k)) \in Nat /\ Outbox!Cardinality(T) \in Nat
         /\ Outbox!Cardinality(T) =< Outbox!Cardinality(Copies(i, k)) + 1
         /\ T \subseteq Copies(i, k) => Outbox!Cardinality(T) =< Outbox!Cardinality(Copies(i, k))
<1> DEFINE S == Copies(i, k)
<1>1. \A U : Outbox!Cardinality(U) = Cardinality(U)
  BY DEF Outbox!Cardinality, Cardinality
<1>2. IsFiniteSet(1..Len(bubbles)) /\ S \subseteq 1..Len(bubbles)
  BY FS_Interval DEF Copies
<1> HIDE DEF S
<1>3. IsFiniteSet(S) /\ Cardinality(S) \in Nat
  BY <1>2, FS_Subset, FS_CardinalityType
<1>4. /\ IsFiniteSet(S \cup {x})
      /\ \/ Cardinality(S \cup {x}) = Cardinality(S)
         \/ Cardinality(S \cup {x}) = Cardinality(S) + 1
  BY <1>3, FS_AddElement
<1>5. IsFiniteSet(T) /\ Cardinality(T) \in Nat /\ Cardinality(T) =< Cardinality(S \cup {x})
  <2>1. T \subseteq S \cup {x}
    BY DEF S
  <2> QED
    BY <1>4, <2>1, FS_Subset, FS_CardinalityType
<1>6. T \subseteq S => Cardinality(T) =< Cardinality(S)
  BY <1>3, FS_Subset
<1>7. Cardinality(T) =< Cardinality(S) + 1
  BY <1>3, <1>4, <1>5
<1> QED
  BY <1>1, <1>3, <1>5, <1>6, <1>7 DEF S

LEMMA Excuses ==
  ASSUME NEW c \in Nat, NEW d \in Nat, NEW m \in Nat, NEW n, NEW s \in {0, 1}, NEW t \in {0, 1},
         c =< m + s,
         \/ d =< c /\ n = m /\ s =< t
         \/ d =< c /\ n = m + 1
         \/ d =< c + 1 /\ s = 0 /\ n = m /\ t = 1
         \/ d =< c + 1 /\ s = 0 /\ n = m + 1
  PROVE  d =< n + t
OBVIOUS

LEMMA ExcusesStay ==
  ASSUME OutboxInv, route' = route,
         Outbox!Routed => \A i \in Items, k \in Outbox!Indices : StaysExcused(i, k)
  PROVE  CopiesAreExcused'
<1>1. Len(bubbles) \in Nat /\ mishaps \in [Items -> Nat]
  BY OutboxElements DEF OutboxInv
<1>2. Outbox!Indices' = Outbox!Indices /\ (Outbox!Routed' <=> Outbox!Routed)
  BY DEF Outbox!Indices, Outbox!Routed, Outbox!IsPrimary
<1>3. ASSUME Outbox!Routed, NEW i \in Items, NEW k \in Outbox!Indices
      PROVE  Outbox!Cardinality(Copies(i, k)') =< mishaps'[i] + Spare(i, k)'
  <2> DEFINE S == Copies(i, k)
             T == Copies(i, k)'
             x == Len(bubbles) + 1
             s == Spare(i, k)
             t == Spare(i, k)'
             n == mishaps'[i]
  <2>1. StaysExcused(i, k)
    BY <1>3
  <2>2. \/ T \subseteq S /\ n = mishaps[i] /\ s =< t
        \/ T \subseteq S /\ n = mishaps[i] + 1
        \/ T \subseteq S \cup {x} /\ s = 0 /\ n = mishaps[i] /\ t = 1
        \/ T \subseteq S \cup {x} /\ s = 0 /\ n = mishaps[i] + 1
    BY <2>1 DEF StaysExcused
  <2>3. T \subseteq S \cup {x}
    BY <2>2
  <2>4. /\ Outbox!Cardinality(S) \in Nat /\ Outbox!Cardinality(T) \in Nat
        /\ Outbox!Cardinality(T) =< Outbox!Cardinality(S) + 1
        /\ T \subseteq S => Outbox!Cardinality(T) =< Outbox!Cardinality(S)
    BY <1>1, <2>3, CopiesCounted
  <2>5. s \in {0, 1} /\ t \in {0, 1} /\ mishaps[i] \in Nat
    BY <1>1 DEF Spare
  <2>6. Outbox!Cardinality(S) =< mishaps[i] + s
    BY <1>3 DEF OutboxInv, CopiesAreExcused
  <2> HIDE DEF S, T, s, t, n
  <2>7. \/ Outbox!Cardinality(T) =< Outbox!Cardinality(S) /\ n = mishaps[i] /\ s =< t
        \/ Outbox!Cardinality(T) =< Outbox!Cardinality(S) /\ n = mishaps[i] + 1
        \/ Outbox!Cardinality(T) =< Outbox!Cardinality(S) + 1 /\ s = 0 /\ n = mishaps[i] /\ t = 1
        \/ Outbox!Cardinality(T) =< Outbox!Cardinality(S) + 1 /\ s = 0 /\ n = mishaps[i] + 1
    BY <2>2, <2>4
  <2>8. Outbox!Cardinality(T) =< n + t
    BY <2>4, <2>5, <2>6, <2>7, Excuses
  <2> QED
    BY <2>8 DEF T, n, t
<1>4. \A i, k : Outbox!Cardinality(Copies(i, k))' = Outbox!Cardinality(Copies(i, k)')
  BY DEF Outbox!Cardinality
<1> QED
  BY <1>2, <1>3, <1>4 DEF CopiesAreExcused

LEMMA ClaimsStay ==
  ASSUME ClaimsAreCurrent, batch' = batch, outbox' = outbox, step' = "idle" <=> step = "idle"
  PROVE  ClaimsAreCurrent'
BY DEF ClaimsAreCurrent

LEMMA IdsStay ==
  ASSUME IdsAreMessages, MessagesStay, outbox' = outbox, route' = route
  PROVE  IdsAreMessages'
<1>1. ASSUME NEW i \in Items, outbox[i].id # 0
      PROVE  /\ outbox[i].id \in 1..Len(bubbles') /\ bubbles'[outbox[i].id].item = i
             /\ route[bubbles'[outbox[i].id].at].platform = "messenger"
  BY <1>1 DEF IdsAreMessages, MessagesStay, Outbox!IsPrimary
<1>2. ASSUME NEW i \in Items, outbox[i].status = "sent"
      PROVE  outbox[i].id # 0 /\ bubbles'[outbox[i].id].version = outbox[i].version
  BY <1>2 DEF IdsAreMessages, MessagesStay
<1>3. \A i \in Items : /\ outbox[i].status = "pending" => outbox[i].id = 0
                       /\ outbox[i].status = "edit_pending" => outbox[i].id # 0
  BY DEF IdsAreMessages
<1> QED
  BY <1>1, <1>2, <1>3 DEF IdsAreMessages, Outbox!IsPrimary

LEMMA OutboxBegins == Outbox!Init => OutboxInv
<1> SUFFICES ASSUME Outbox!Init PROVE OutboxInv
  OBVIOUS
<1>1. /\ route \in Routes /\ Len(route) \in Nat /\ Len(bubbles) = 0 /\ bubbles = <<>>
      /\ outbox = [i \in Items |-> [status |-> "pending", version |-> 1, id |-> 0]]
      /\ batch = <<>> /\ step = "idle" /\ at = 1 /\ primary = 0 /\ verdict = "none"
      /\ DOMAIN mirrors = {} /\ hitches = 0 /\ mishaps = [i \in Items |-> 0]
  BY RoutesAreLists, EmptySeq DEF Outbox!Init, Outbox!NoId
<1>2. Outbox!TypeOK
  <2>1. bubbles \in Seq(Bubbles) /\ batch \in Seq(Claimed)
    BY <1>1, EmptySeq
  <2>2. outbox \in [Items -> Entries]
    BY <1>1, RoutesAreLists DEF Entries
  <2> QED
    BY <1>1, <2>1, <2>2, RoutesAreLists DEF Outbox!TypeOK, Bubbles, Claimed, Entries
<1>3. ClaimsAreCurrent /\ IdsAreMessages /\ WorkIsTrue /\ MirrorsAreThere /\ Outbox!MirrorIsNewest
  BY <1>1 DEF ClaimsAreCurrent, IdsAreMessages, WorkIsTrue, MirrorsAreThere, Outbox!MirrorIsNewest
<1>4. CopiesAreExcused
  <2>1. ASSUME NEW i \in Items, NEW k PROVE Outbox!Cardinality(Copies(i,
                 k)) =< mishaps[i] + Spare(i, k)
    <3>1. Copies(i, k) = {}
      BY <1>1 DEF Copies
    <3>2. Outbox!Cardinality({}) = Cardinality({})
      BY DEF Outbox!Cardinality, Cardinality
    <3>3. Cardinality({}) = 0
      BY FS_EmptySet
    <3>4. Spare(i, k) \in {0, 1} /\ mishaps[i] = 0
      BY <1>1 DEF Spare
    <3> QED
      BY <3>1, <3>2, <3>3, <3>4
  <2> QED
    BY <2>1 DEF CopiesAreExcused
<1> QED
  BY <1>2, <1>3, <1>4 DEF OutboxInv

LEMMA OutboxHolds ==
  OutboxInv => Outbox!SentIsShown /\ Outbox!SentOnceUnlessMishap /\ Outbox!MirrorIsNewest
<1> SUFFICES ASSUME OutboxInv
             PROVE  Outbox!SentIsShown /\ Outbox!SentOnceUnlessMishap /\ Outbox!MirrorIsNewest
  OBVIOUS
<1>1. Outbox!SentIsShown
  BY DEF OutboxInv, IdsAreMessages, Outbox!SentIsShown
<1>2. ASSUME Outbox!Routed, NEW i \in Items, NEW k \in Outbox!Indices
      PROVE  Outbox!Cardinality(Copies(i, k)) =< 1 + mishaps[i]
  <2>1. Outbox!Cardinality(Copies(i, k)) =< mishaps[i] + Spare(i, k)
    BY <1>2 DEF OutboxInv, CopiesAreExcused
  <2>2. Spare(i, k) \in {0, 1} /\ mishaps[i] \in Nat /\ Len(bubbles) \in Nat
    BY OutboxElements DEF OutboxInv, Spare
  <2>3. Outbox!Cardinality(Copies(i, k)) \in Nat
    BY <2>2, CopiesCounted
  <2> QED
    BY <2>1, <2>2, <2>3
<1>3. Outbox!SentOnceUnlessMishap
  BY <1>2 DEF Outbox!SentOnceUnlessMishap, Copies
<1> QED
  BY <1>1, <1>3 DEF OutboxInv

LEMMA MirrorsAge ==
  ASSUME OutboxInv, Outbox!TimePasses
  PROVE  OutboxInv'
<1> USE DEF OutboxInv
<1>1. UNCHANGED <<route, outbox, bubbles, batch, step, at, primary, verdict, hitches, mishaps>>
  BY DEF Outbox!TimePasses
<1>2. ASSUME NEW k \in DOMAIN mirrors
      PROVE  /\ k \in (1..Len(bubbles)) \X Outbox!Indices
             /\ mirrors'[k] \in Mirrors /\ mirrors'[k].bubble = mirrors[k].bubble
  <2>1. mirrors[k] \in Mirrors /\ k \in (1..Len(bubbles)) \X Outbox!Indices
    BY DEF Outbox!TypeOK, Mirrors
  <2>2. mirrors'[k] = [mirrors[k] EXCEPT !.age =
                         IF mirrors[k].age = "young" THEN "uneditable" ELSE "ancient"]
    BY DEF Outbox!TimePasses
  <2> QED
    BY <2>1, <2>2 DEF Mirrors
<1>3. DOMAIN mirrors' = DOMAIN mirrors
  BY DEF Outbox!TimePasses
<1>4. Outbox!TypeOK'
  BY <1>1, <1>2, <1>3 DEF Outbox!TypeOK, Mirrors, Outbox!Indices
<1>5. ClaimsAreCurrent' /\ IdsAreMessages' /\ WorkIsTrue'
  BY <1>1 DEF ClaimsAreCurrent, IdsAreMessages, WorkIsTrue, Shown, Outbox!Indices,
              Outbox!IsPrimary, Outbox!Routed
<1>6. MirrorsAreThere' /\ Outbox!MirrorIsNewest'
  BY <1>1, <1>2, <1>3 DEF MirrorsAreThere, Outbox!MirrorIsNewest, Outbox!IsPrimary
<1>7. CopiesAreExcused'
  <2>1. \A i, k : StaysExcused(i, k)
    BY <1>1 DEF StaysExcused, Copies, Spare, MayHavePosted, Outbox!IsPrimary
  <2> QED
    BY <1>1, <2>1, ExcusesStay
<1> QED
  BY <1>4, <1>5, <1>6, <1>7

LEMMA RevisedEntry ==
  ASSUME NEW o \in Entries, NEW n, NEW e,
         e = [o EXCEPT !.status = "edit_pending", !.version = n]
  PROVE  e = [status |-> "edit_pending", version |-> n, id |-> o.id]
BY Zenon DEF Entries

LEMMA TextIsRevised ==
  ASSUME OutboxInv, NEW i \in Items, Outbox!Revise(i)
  PROVE  OutboxInv'
<1> USE DEF OutboxInv
<1>1. UNCHANGED <<route, bubbles, batch, step, at, primary, verdict, mirrors, hitches, mishaps>>
  BY DEF Outbox!Revise
<1>2. outbox[i].status = "sent" /\ outbox[i].version < MaxVersion /\ outbox[i] \in Entries
  BY OutboxElements DEF Outbox!Revise
<1>3. /\ outbox' = [outbox EXCEPT ![i] = [status |-> "edit_pending",
                                          version |-> outbox[i].version + 1, id |-> outbox[i].id]]
  <2>1. [outbox[i] EXCEPT !.status = "edit_pending", !.version = outbox[i].version + 1] =
          [status |-> "edit_pending", version |-> outbox[i].version + 1, id |-> outbox[i].id]
    <3>1. ASSUME NEW e, NEW n, e = [outbox[i] EXCEPT !.status = "edit_pending", !.version = n]
          PROVE  e = [status |-> "edit_pending", version |-> n, id |-> outbox[i].id]
      BY <3>1, <1>2, RevisedEntry
    <3> QED
      BY <3>1, Zenon
  <2>2. outbox \in [Items -> Entries]
    BY OutboxElements
  <2> QED
    BY <2>1, <2>2 DEF Outbox!Revise, Entries
<1>4. outbox'[i].status = "edit_pending" /\ outbox'[i].id = outbox[i].id
      /\ outbox' \in [Items -> Entries]
  <2>1. [status |-> "edit_pending", version |-> outbox[i].version + 1,
          id |-> outbox[i].id] \in Entries
    BY <1>2, RoutesAreLists DEF Entries
  <2>2. outbox \in [Items -> Entries]
    BY OutboxElements
  <2> QED
    BY <1>3, <2>1, <2>2
<1>5. \A j \in Items : j # i => outbox'[j] = outbox[j]
  BY <1>3, OutboxElements
<1>6. Outbox!TypeOK'
  BY <1>1, <1>4 DEF Outbox!TypeOK, Outbox!Indices, Entries
<1>7. ClaimsAreCurrent'
  <2>1. ASSUME NEW j \in 1..Len(batch) PROVE batch[j].item \in Items /\ batch[j].item # i
    BY <1>2, OutboxElements DEF ClaimsAreCurrent, Claimed
  <2> QED
    BY <1>1, <1>5, <2>1 DEF ClaimsAreCurrent
<1>8. IdsAreMessages'
  <2>1. outbox[i].id # 0
    BY <1>2 DEF IdsAreMessages
  <2> QED
    BY <1>1, <1>4, <1>5, <2>1 DEF IdsAreMessages, Outbox!IsPrimary
<1>9. WorkIsTrue' /\ MirrorsAreThere' /\ Outbox!MirrorIsNewest'
  BY <1>1 DEF WorkIsTrue, Shown, MirrorsAreThere, Outbox!MirrorIsNewest, Outbox!Indices,
              Outbox!IsPrimary, Outbox!Routed
<1>10. CopiesAreExcused'
  <2>1. ASSUME NEW j \in Items, NEW k PROVE StaysExcused(j, k)
    <3>1. outbox'[j].id = outbox[j].id
      BY <1>4, <1>5
    <3> QED
      BY <1>1, <3>1 DEF StaysExcused, Copies, Spare, MayHavePosted, Outbox!IsPrimary
  <2> QED
    BY <1>1, <2>1, ExcusesStay
<1> QED
  BY <1>6, <1>7, <1>8, <1>9, <1>10

LEMMA ChannelIsPassed ==
  ASSUME OutboxInv, Outbox!Pass
  PROVE  OutboxInv'
<1> USE DEF OutboxInv
<1>1. /\ UNCHANGED <<route, outbox, bubbles, batch, step, primary, verdict, mirrors, hitches,
           mishaps>>
      /\ at' = at + 1 /\ at \in Outbox!Indices
      /\ \/ step = "send" /\ ~Outbox!IsPrimary(at)
         \/ step = "mirror" /\ Outbox!IsPrimary(at)
  BY DEF Outbox!Pass
<1>2. Len(route) \in Nat /\ at \in Nat /\ at \in 1..Len(route)
  BY <1>1, OutboxElements DEF Outbox!Indices
<1>3. at + 1 \in 1..(Len(route) + 1) /\ \A k \in Outbox!Indices : k < at + 1 => k < at \/ k = at
  BY <1>2 DEF Outbox!Indices
<1>4. Outbox!TypeOK'
  BY <1>1, <1>3 DEF Outbox!TypeOK, Outbox!Indices
<1>5. ClaimsAreCurrent' /\ IdsAreMessages' /\ MirrorsAreThere' /\ Outbox!MirrorIsNewest'
  BY <1>1 DEF ClaimsAreCurrent, IdsAreMessages, MirrorsAreThere, Outbox!MirrorIsNewest,
              Outbox!IsPrimary
<1>6. WorkIsTrue'
  BY <1>1, <1>3 DEF WorkIsTrue, Shown, Outbox!Indices, Outbox!IsPrimary, Outbox!Routed
<1>7. CopiesAreExcused'
  <2>1. ASSUME NEW i, NEW k \in Outbox!Indices PROVE StaysExcused(i, k)
    <3>1. MayHavePosted(i, k)' <=> MayHavePosted(i, k)
      <4>1. k < at + 1 <=> k < at \/ k = at
        BY <1>2 DEF Outbox!Indices
      <4> QED
        BY <1>1, <4>1 DEF MayHavePosted, Outbox!IsPrimary
    <3> QED
      BY <1>1, <3>1 DEF StaysExcused, Copies, Spare
  <2> QED
    BY <1>1, <2>1, ExcusesStay
<1> QED
  BY <1>4, <1>5, <1>6, <1>7

LEMMA LoopEnds ==
  ASSUME OutboxInv, Outbox!EndOfLoop
  PROVE  OutboxInv'
<1> USE DEF OutboxInv
<1>1. /\ UNCHANGED <<route, outbox, bubbles, batch, primary, mirrors, hitches, mishaps>>
      /\ step \in {"send", "mirror", "edit"} /\ at > Len(route)
  BY DEF Outbox!EndOfLoop
<1>2. \/ step = "send" /\ step' = "mirror" /\ at' = 1 /\ verdict' = verdict
      \/ /\ step = "mirror" /\ step' = "ack" /\ at' = at
         /\ verdict' = IF primary # 0 THEN "sent" ELSE "failed"
      \/ /\ step = "edit" /\ step' = "ack" /\ at' = at
         /\ verdict' = IF Outbox!Routed THEN "sent" ELSE "failed"
  BY <1>1 DEF Outbox!EndOfLoop, Outbox!NoId
<1>3. Len(route) \in Nat /\ at \in Nat /\ batch # <<>>
  BY <1>1, OutboxElements DEF ClaimsAreCurrent
<1>4. /\ 1 \in 1..(Len(route) + 1)
      /\ \A k \in Outbox!Indices : k \in Nat /\ k > 0 /\ k < at /\ ~(k < 1)
  BY <1>1, <1>3 DEF Outbox!Indices
<1>5. Outbox!TypeOK'
  BY <1>1, <1>2, <1>4 DEF Outbox!TypeOK, Outbox!Indices
<1>6. ClaimsAreCurrent' /\ IdsAreMessages' /\ MirrorsAreThere' /\ Outbox!MirrorIsNewest'
  BY <1>1, <1>2 DEF ClaimsAreCurrent, IdsAreMessages, MirrorsAreThere, Outbox!MirrorIsNewest,
                    Outbox!IsPrimary
<1>7. WorkIsTrue'
  <2>1. (Outbox!Routed' <=> Outbox!Routed) /\ \A k : Outbox!IsPrimary(k)' <=> Outbox!IsPrimary(k)
    BY <1>1 DEF Outbox!Routed, Outbox!IsPrimary, Outbox!Indices
  <2>2. Outbox!Indices' = Outbox!Indices
    BY <1>1 DEF Outbox!Indices
  <2>3. step = "edit" /\ Outbox!Routed => Shown
    BY <1>4 DEF Outbox!Routed, Shown
  <2>4. step = "send" /\ primary = 0 => ~Outbox!Routed
    BY <1>3, <1>4 DEF WorkIsTrue, Outbox!Routed
  <2>5. step' = "ack" /\ verdict' = "sent" => Shown
    BY <1>2, <2>3 DEF Shown
  <2>6. step' = "mirror" /\ primary # 0 => Shown
    BY <1>2 DEF Shown
  <2>7. Shown' => Shown
    BY <1>1, <1>2, <2>5, <2>6 DEF Shown
  <2> QED
    BY <1>1, <1>2, <1>3, <2>1, <2>2, <2>4, <2>7 DEF WorkIsTrue
<1>8. CopiesAreExcused'
  <2>1. ASSUME Outbox!Routed, NEW i \in Items, NEW k \in Outbox!Indices PROVE StaysExcused(i, k)
    <3>1. step = "mirror" => primary # 0
      BY <1>3, <2>1 DEF WorkIsTrue
    <3>2. MayHavePosted(i, k) => MayHavePosted(i, k)'
      BY <1>1, <1>2, <3>1, <1>4 DEF MayHavePosted, Outbox!IsPrimary
    <3>3. Spare(i, k) =< Spare(i, k)'
      BY <3>2 DEF Spare
    <3> QED
      BY <1>1, <3>3 DEF StaysExcused, Copies
  <2> QED
    BY <1>1, <2>1, ExcusesStay
<1> QED
  BY <1>5, <1>6, <1>7, <1>8

LEMMA SentEntry ==
  ASSUME NEW o \in Entries, NEW p, NEW e, e = [o EXCEPT !.status = "sent", !.id = p]
  PROVE  e = [status |-> "sent", version |-> o.version, id |-> p]
BY Zenon DEF Entries

LEMMA FailedEntry ==
  ASSUME NEW o \in Entries, NEW e, e = [o EXCEPT !.status = "failed"]
  PROVE  e = [status |-> "failed", version |-> o.version, id |-> o.id]
BY Zenon DEF Entries

\* A failure of the item at work is one more of all, and may be an excuse.
LEMMA HitchCounts ==
  ASSUME Outbox!TypeOK, NEW n \in Nat, NEW excused \in BOOLEAN, Outbox!Hitch(n, excused),
         excused => batch # <<>>
  PROVE  /\ hitches' \in 0..MaxHitches /\ mishaps' \in [Items -> Nat]
         /\ ~excused => mishaps' = mishaps
         /\ \A i \in Items : excused /\ i = batch[1].item => mishaps'[i] = mishaps[i] + 1
         /\ \A i \in Items : i # batch[1].item => mishaps'[i] = mishaps[i]
<1>1. hitches \in Nat /\ mishaps \in [Items -> Nat] /\ MaxHitches \in Nat
  BY OutboxElements, RoutesAreLists DEF Outbox!TypeOK
<1>2. hitches + n =< MaxHitches /\ hitches' = hitches + n
  BY DEF Outbox!Hitch
<1>3. hitches' \in 0..MaxHitches
  <2>1. hitches + n \in 0..MaxHitches
    BY <1>1, <1>2
  <2> QED
    BY <1>2, <2>1
<1>4. CASE excused
  <2>1. batch[1].item \in Items
    BY <1>4, OutboxElements DEF Claimed
  <2>2. mishaps' = [mishaps EXCEPT ![batch[1].item] = mishaps[batch[1].item] + 1]
    BY <1>4 DEF Outbox!Hitch, Outbox!Item
  <2>3. mishaps[batch[1].item] + 1 \in Nat
    BY <1>1, <2>1
  <2>4. mishaps' \in [Items -> Nat]
    BY <1>1, <2>1, <2>2, <2>3
  <2>5. \A i \in Items : i = batch[1].item => mishaps'[i] = mishaps[i] + 1
    BY <1>1, <2>1, <2>2
  <2>6. \A i \in Items : i # batch[1].item => mishaps'[i] = mishaps[i]
    BY <1>1, <2>1, <2>2
  <2> QED
    BY <1>3, <1>4, <2>4, <2>5, <2>6
<1>5. CASE ~excused
  <2>1. mishaps' = mishaps
    BY <1>5 DEF Outbox!Hitch
  <2> QED
    BY <1>1, <1>3, <1>5, <2>1
<1> QED
  BY <1>4, <1>5

\* A worker that begins an item has nothing posted of it, or a message to edit.
LEMMA WorkBegins ==
  ASSUME Outbox!TypeOK, NEW items \in Seq(Claimed), Outbox!Begin(items),
         route' = route, bubbles' = bubbles, ClaimsAreCurrent', IdsAreMessages'
  PROVE  /\ WorkIsTrue'
         /\ batch' = items /\ at' = 1 /\ verdict' = "none"
         /\ step' \in {"idle", "send", "edit"} /\ primary' \in 0..Len(bubbles)
         /\ \A i, k : k \in Outbox!Indices => (MayHavePosted(i, k)' <=> outbox'[i].id # 0)
<1>1. /\ batch' = items /\ at' = 1 /\ verdict' = "none"
      /\ items = <<>> => step' = "idle" /\ primary' = 0
      /\ items # <<>> /\ items[1].status = "edit_pending" /\ items[1].id # 0 =>
           step' = "edit" /\ primary' = items[1].id
      /\ items # <<>> /\ ~(items[1].status = "edit_pending" /\ items[1].id # 0) =>
           step' = "send" /\ primary' = 0
  BY DEF Outbox!Begin, Outbox!NoId
<1>2. ASSUME items # <<>>
      PROVE  /\ 1 \in 1..Len(items) /\ items[1] \in Claimed /\ items[1].item \in Items
             /\ items[1].status = outbox'[items[1].item].status
             /\ items[1].id = outbox'[items[1].item].id
  <2>1. 1 \in 1..Len(items) /\ items[1] \in Claimed
    BY <1>2, EmptySeq
  <2> QED
    BY <1>1, <2>1 DEF ClaimsAreCurrent, Claimed
<1>3. ASSUME items # <<>>
      PROVE  /\ items[1].status = "pending" => items[1].id = 0
             /\ items[1].status = "edit_pending" => items[1].id # 0
             /\ items[1].status \in {"pending", "edit_pending"}
             /\ items[1].id # 0 =>
                  /\ items[1].id \in 1..Len(bubbles)
                  /\ bubbles[items[1].id].item = items[1].item
                  /\ route[bubbles[items[1].id].at].platform = "messenger"
  BY <1>2, <1>3 DEF IdsAreMessages, Claimed, Outbox!IsPrimary
<1>4. step' \in {"idle", "send", "edit"}
  BY <1>1
<1>5. primary' \in 0..Len(bubbles)
  <2>1. Len(bubbles) \in Nat
    BY OutboxElements
  <2> QED
    BY <1>1, <1>3, <2>1
<1>6. \A k \in Outbox!Indices : ~(k < 1)
  BY OutboxElements DEF Outbox!Indices
<1>7. ~Shown'
  BY <1>1, <1>4, <1>6 DEF Shown, Outbox!Indices
<1>8. WorkIsTrue'
  <2>1. ASSUME items # <<>>, step' = "send"
        PROVE  items[1].id = 0 /\ primary' = 0
    BY <1>1, <1>3, <2>1
  <2>2. ASSUME items # <<>>, step' = "edit"
        PROVE  primary' = items[1].id /\ primary' # 0
    BY <1>1, <1>3, <2>2
  <2>3. items # <<>> => step' \in {"send", "edit"}
    BY <1>1
  <2>4. items # <<>> /\ primary' # 0 => primary' = items[1].id
    BY <1>1
  <2>5. items # <<>> /\ primary' # 0 =>
          bubbles[primary'].item = items[1].item
          /\ route[bubbles[primary'].at].platform = "messenger"
    BY <1>3, <2>4
  <2>6. \A k \in Outbox!Indices : ~(k < at')
    BY <1>1, <1>6
  <2> QED
    BY <1>1, <1>7, <2>1, <2>2, <2>3, <2>5, <2>6
    DEF WorkIsTrue, Outbox!IsPrimary, Outbox!Indices
<1>9. ASSUME NEW i, NEW k \in Outbox!Indices
      PROVE  MayHavePosted(i, k)' <=> outbox'[i].id # 0
  BY <1>1, <1>4, <1>6 DEF MayHavePosted
<1> QED
  BY <1>1, <1>4, <1>5, <1>8, <1>9

LEMMA ItemsAreClaimed ==
  ASSUME OutboxInv, Outbox!Claim
  PROVE  OutboxInv'
<1> USE DEF OutboxInv
<1>1. /\ UNCHANGED <<route, outbox, bubbles, mirrors, hitches, mishaps>> /\ step = "idle"
  BY DEF Outbox!Claim
<1>0. PICK n \in 1..ClaimLimit : \E s \in [1..n -> Items] :
        /\ \A j, k \in 1..n : j # k => s[j] # s[k]
        /\ \A j \in 1..n : outbox[s[j]].status \in {"pending", "edit_pending"}
        /\ Outbox!Begin([j \in 1..n |-> [item |-> s[j], status |-> outbox[s[j]].status,
                                 version |-> outbox[s[j]].version, id |-> outbox[s[j]].id]])
  BY Zenon DEF Outbox!Claim
<1>2. PICK s \in [1..n -> Items] :
        /\ \A j, k \in 1..n : j # k => s[j] # s[k]
        /\ \A j \in 1..n : outbox[s[j]].status \in {"pending", "edit_pending"}
        /\ Outbox!Begin([j \in 1..n |-> [item |-> s[j], status |-> outbox[s[j]].status,
                                 version |-> outbox[s[j]].version, id |-> outbox[s[j]].id]])
  BY <1>0, Zenon
<1> DEFINE items == [j \in 1..n |-> [item |-> s[j], status |-> outbox[s[j]].status,
                                 version |-> outbox[s[j]].version, id |-> outbox[s[j]].id]]
<1>3. ASSUME NEW j \in 1..n
      PROVE  /\ items[j] \in Claimed /\ items[j].item = s[j] /\ s[j] \in Items
             /\ items[j].status = outbox[s[j]].status
             /\ items[j].version = outbox[s[j]].version /\ items[j].id = outbox[s[j]].id
  <2>1. outbox[s[j]] \in Entries
    BY OutboxElements
  <2> QED
    BY <1>2, <2>1 DEF Claimed, Entries
<1>4. n \in Nat /\ n > 0
  BY <1>2, RoutesAreLists
<1>5. items \in [1..n -> Claimed]
  BY <1>3
<1>6. Outbox!Begin(items)
  BY <1>2
<1> HIDE DEF items
<1>7. items \in Seq(Claimed) /\ Len(items) = n /\ items # <<>>
  <2>1. items \in Seq(Claimed)
    BY <1>4, <1>5, SeqDef
  <2>2. Len(items) = n
    BY <1>4, <1>5, <2>1, LenProperties
  <2> QED
    BY <1>4, <2>1, <2>2, EmptySeq
<1>8. ClaimsAreCurrent'
  <2>1. batch' = items /\ step' # "idle"
    BY <1>6, <1>7 DEF Outbox!Begin
  <2> QED
    BY <1>1, <1>2, <1>3, <1>7, <2>1 DEF ClaimsAreCurrent
<1>9. IdsAreMessages'
  BY <1>1 DEF IdsAreMessages, Outbox!IsPrimary
<1>10. /\ WorkIsTrue'
       /\ batch' = items /\ at' = 1 /\ verdict' = "none"
       /\ step' \in {"idle", "send", "edit"} /\ primary' \in 0..Len(bubbles)
       /\ \A i, k : k \in Outbox!Indices => (MayHavePosted(i, k)' <=> outbox'[i].id # 0)
  BY <1>1, <1>6, <1>7, <1>8, <1>9, WorkBegins
<1>11. Outbox!TypeOK'
  <2>1. 1 \in 1..(Len(route) + 1)
    BY OutboxElements
  <2> QED
    BY <1>1, <1>7, <1>10, <2>1 DEF Outbox!TypeOK, Claimed, Outbox!Indices
<1>12. MirrorsAreThere' /\ Outbox!MirrorIsNewest'
  BY <1>1 DEF MirrorsAreThere, Outbox!MirrorIsNewest, Outbox!IsPrimary
<1>13. CopiesAreExcused'
  <2>1. ASSUME NEW i \in Items, NEW k \in Outbox!Indices PROVE StaysExcused(i, k)
    <3>1. MayHavePosted(i, k) <=> MayHavePosted(i, k)'
      BY <1>1, <1>10 DEF MayHavePosted, ClaimsAreCurrent
    <3> QED
      BY <1>1, <3>1 DEF StaysExcused, Copies, Spare
  <2> QED
    BY <1>1, <2>1, ExcusesStay
<1> QED
  BY <1>8, <1>9, <1>10, <1>11, <1>12, <1>13

LEMMA WorkerIsReplaced ==
  ASSUME OutboxInv, Outbox!Restart
  PROVE  OutboxInv'
<1> USE DEF OutboxInv
<1>1. UNCHANGED <<route, outbox, bubbles>> /\ Outbox!Begin(<<>>) /\ DOMAIN mirrors' = {}
  BY DEF Outbox!Restart
<1>2. /\ hitches' \in 0..MaxHitches /\ mishaps' \in [Items -> Nat]
      /\ batch = <<>> => mishaps' = mishaps
      /\ batch # <<>> => \A i \in Items : i = batch[1].item => mishaps'[i] = mishaps[i] + 1
      /\ batch # <<>> => \A i \in Items : i # batch[1].item => mishaps'[i] = mishaps[i]
  <2>1. CASE batch = <<>>
    <3>1. hitches < MaxHitches /\ hitches' = hitches + 1 /\ mishaps' = mishaps
      BY <2>1 DEF Outbox!Restart
    <3>2. hitches \in 0..MaxHitches /\ mishaps \in [Items -> Nat]
      BY OutboxElements DEF Outbox!TypeOK
    <3>3. hitches + 1 \in 0..MaxHitches
      BY <3>1, <3>2, RoutesAreLists
    <3> QED
      BY <2>1, <3>1, <3>2, <3>3
  <2>2. CASE batch # <<>>
    <3>1. Outbox!Hitch(1, TRUE)
      BY <2>2 DEF Outbox!Restart
    <3>2. 1 \in Nat /\ TRUE \in BOOLEAN
      OBVIOUS
    <3> QED
      BY <2>2, <3>1, <3>2, HitchCounts
  <2> QED
    BY <2>1, <2>2
<1>3. <<>> \in Seq(Claimed)
  BY EmptySeq
<1>4. ClaimsAreCurrent'
  <2>1. batch' = <<>> /\ step' = "idle" /\ Len(<<>>) = 0
    BY <1>1, EmptySeq DEF Outbox!Begin
  <2> QED
    BY <2>1 DEF ClaimsAreCurrent
<1>5. IdsAreMessages'
  BY <1>1 DEF IdsAreMessages, Outbox!IsPrimary
<1>6. /\ WorkIsTrue'
      /\ batch' = <<>> /\ at' = 1 /\ verdict' = "none"
      /\ step' \in {"idle", "send", "edit"} /\ primary' \in 0..Len(bubbles)
      /\ \A i, k : k \in Outbox!Indices => (MayHavePosted(i, k)' <=> outbox'[i].id # 0)
  BY <1>1, <1>3, <1>4, <1>5, WorkBegins
<1>7. Outbox!TypeOK'
  <2>1. 1 \in 1..(Len(route) + 1)
    BY OutboxElements
  <2> QED
    BY <1>1, <1>2, <1>3, <1>6, <2>1 DEF Outbox!TypeOK, Claimed, Outbox!Indices
<1>8. MirrorsAreThere' /\ Outbox!MirrorIsNewest'
  BY <1>1 DEF MirrorsAreThere, Outbox!MirrorIsNewest
<1>9. CopiesAreExcused'
  <2>1. ASSUME NEW i \in Items, NEW k \in Outbox!Indices PROVE StaysExcused(i, k)
    <3>1. Copies(i, k)' = Copies(i, k)
      BY <1>1 DEF Copies
    <3>2. CASE batch # <<>> /\ i = batch[1].item
      BY <1>2, <3>1, <3>2 DEF StaysExcused
    <3>3. CASE ~(batch # <<>> /\ i = batch[1].item)
      <4>1. MayHavePosted(i, k) <=> MayHavePosted(i, k)'
        BY <1>1, <1>6, <3>3 DEF MayHavePosted
      <4>2. mishaps'[i] = mishaps[i]
        BY <1>2, <3>3
      <4> QED
        BY <3>1, <4>1, <4>2 DEF StaysExcused, Spare
    <3> QED
      BY <3>2, <3>3
  <2> QED
    BY <1>1, <2>1, ExcusesStay
<1> QED
  BY <1>4, <1>5, <1>6, <1>7, <1>8, <1>9

LEMMA ItemIsAcknowledged ==
  ASSUME OutboxInv, Outbox!Ack
  PROVE  OutboxInv'
<1> USE DEF OutboxInv
<1> DEFINE w == batch[1].item
<1>1. UNCHANGED <<route, bubbles, mirrors>> /\ step = "ack" /\ Outbox!Begin(Tail(batch))
  BY DEF Outbox!Ack
<1>2. /\ batch # <<>> /\ batch \in Seq(Claimed) /\ batch[1] \in Claimed /\ 1 \in 1..Len(batch)
      /\ w \in Items /\ outbox \in [Items -> Entries] /\ outbox[w] \in Entries
      /\ mishaps \in [Items -> Nat] /\ hitches \in 0..MaxHitches
  BY <1>1, OutboxElements DEF ClaimsAreCurrent, Claimed, Outbox!TypeOK
<1>3. /\ batch[1].status = outbox[w].status /\ batch[1].version = outbox[w].version
      /\ batch[1].id = outbox[w].id
  BY <1>2 DEF ClaimsAreCurrent
<1>4. /\ verdict \in {"sent", "failed"}
      /\ primary \in 0..Len(bubbles) /\ primary \in 0..MaxBubbles
      /\ verdict = "sent" => /\ primary # 0 /\ bubbles[primary].item = w
                             /\ Outbox!IsPrimary(bubbles[primary].at)
                             /\ bubbles[primary].version = outbox[w].version
  <2>1. verdict \in {"sent", "failed"}
    BY <1>1, <1>2 DEF WorkIsTrue, Outbox!TypeOK
  <2>2. primary \in 0..Len(bubbles) /\ primary \in 0..MaxBubbles
    BY OutboxElements, RoutesAreLists
  <2>3. verdict = "sent" => Shown
    BY <1>1 DEF Shown
  <2> QED
    BY <1>2, <1>3, <2>1, <2>2, <2>3 DEF WorkIsTrue
<1> DEFINE yes == [status |-> "sent", version |-> outbox[w].version, id |-> primary]
           no == [status |-> "failed", version |-> outbox[w].version, id |-> outbox[w].id]
<1>5. yes \in Entries /\ no \in Entries
  BY <1>2, <1>4 DEF Entries
<1>6. /\ outbox' \in [Items -> Entries]
      /\ \A i \in Items : i # w => outbox'[i] = outbox[i] /\ mishaps'[i] = mishaps[i]
      /\ hitches' \in 0..MaxHitches /\ mishaps' \in [Items -> Nat]
      /\ \/ mishaps' = mishaps /\ verdict = "sent" /\ outbox'[w] = yes
         \/ mishaps' = mishaps /\ verdict = "failed" /\ outbox'[w] = no
         \/ mishaps' = mishaps /\ verdict = "failed" /\ outbox'[w] = outbox[w]
         \/ mishaps'[w] = mishaps[w] + 1 /\ verdict = "sent" /\ outbox'[w] = outbox[w]
  <2>1. CASE /\ \E o \in Outbox!Informed(verdict) : outbox' = [outbox EXCEPT ![w] = o]
             /\ UNCHANGED <<hitches, mishaps>>
    <3>1. PICK o \in Outbox!Informed(verdict) : outbox' = [outbox EXCEPT ![w] = o]
      BY <2>1
    <3>2. \/ verdict = "sent" /\ o = yes
          \/ verdict = "failed" /\ o = outbox[w]
          \/ verdict = "failed" /\ o = no
      <4>1. CASE verdict = "sent"
        <5>1. o = [outbox[w] EXCEPT !.status = "sent", !.id = primary]
          BY <3>1, <4>1 DEF Outbox!Informed, Outbox!Item
        <5> QED
          BY <1>2, <4>1, <5>1, SentEntry
      <4>2. CASE verdict = "failed"
        <5>1. o = outbox[w] \/ o = [outbox[w] EXCEPT !.status = "failed"]
          BY <3>1, <4>2 DEF Outbox!Informed, Outbox!Item
        <5> QED
          BY <1>2, <4>2, <5>1, FailedEntry
      <4> QED
        BY <1>4, <4>1, <4>2
    <3>3. o \in Entries
      BY <1>2, <1>5, <3>2
    <3> HIDE DEF yes, no, w
    <3> QED
      BY <1>2, <2>1, <3>1, <3>2, <3>3
  <2>2. CASE Outbox!Hitch(1, verdict = "sent") /\ UNCHANGED outbox
    <3>1. CASE verdict = "sent"
      <4>1. Outbox!Hitch(1, TRUE)
        BY <2>2, <3>1 DEF Outbox!Hitch
      <4>2. 1 \in Nat /\ TRUE \in BOOLEAN
        OBVIOUS
      <4> HIDE DEF yes, no
      <4> QED
        BY <1>2, <2>2, <3>1, <4>1, <4>2, HitchCounts
    <3>2. CASE verdict = "failed"
      <4>1. Outbox!Hitch(1, FALSE)
        BY <2>2, <3>2 DEF Outbox!Hitch
      <4>2. 1 \in Nat /\ FALSE \in BOOLEAN
        OBVIOUS
      <4>3. hitches' \in 0..MaxHitches /\ mishaps' = mishaps
        BY <1>2, <4>1, <4>2, HitchCounts
      <4> HIDE DEF yes, no
      <4> QED
        BY <1>2, <2>2, <3>2, <4>3
    <3> QED
      BY <1>4, <3>1, <3>2
  <2> QED
    BY <2>1, <2>2 DEF Outbox!Ack, Outbox!Smooth, Outbox!Item
<1>7. /\ Tail(batch) \in Seq(Claimed) /\ Len(Tail(batch)) = Len(batch) - 1 /\ Len(batch) \in Nat
      /\ \A j \in 1..Len(Tail(batch)) : Tail(batch)[j] = batch[j + 1] /\ j + 1 \in 1..Len(batch)
  <2>1. /\ Tail(batch) \in Seq(Claimed) /\ Len(Tail(batch)) = Len(batch) - 1
        /\ \A j \in 1..Len(Tail(batch)) : Tail(batch)[j] = batch[j + 1]
    BY <1>2, HeadTailProperties
  <2>2. Len(batch) \in Nat
    BY <1>2
  <2> QED
    BY <2>1, <2>2
<1>8. \A j \in 1..Len(Tail(batch)) :
        /\ Tail(batch)[j].item \in Items /\ Tail(batch)[j].item # w
        /\ Tail(batch)[j].status = outbox'[Tail(batch)[j].item].status
        /\ Tail(batch)[j].version = outbox'[Tail(batch)[j].item].version
        /\ Tail(batch)[j].id = outbox'[Tail(batch)[j].item].id
  <2> SUFFICES ASSUME NEW j \in 1..Len(Tail(batch))
               PROVE  /\ Tail(batch)[j].item \in Items /\ Tail(batch)[j].item # w
                      /\ Tail(batch)[j].status = outbox'[Tail(batch)[j].item].status
                      /\ Tail(batch)[j].version = outbox'[Tail(batch)[j].item].version
                      /\ Tail(batch)[j].id = outbox'[Tail(batch)[j].item].id
    OBVIOUS
  <2>1. Tail(batch)[j] = batch[j + 1] /\ j + 1 \in 1..Len(batch) /\ j + 1 # 1
    BY <1>7
  <2>2. batch[j + 1].item \in Items /\ batch[j + 1].item # w
    BY <1>2, <2>1, OutboxElements DEF ClaimsAreCurrent, Claimed
  <2>3. /\ batch[j + 1].status = outbox[batch[j + 1].item].status
        /\ batch[j + 1].version = outbox[batch[j + 1].item].version
        /\ batch[j + 1].id = outbox[batch[j + 1].item].id
    BY <2>1 DEF ClaimsAreCurrent
  <2> QED
    BY <1>6, <2>1, <2>2, <2>3
<1>9. ClaimsAreCurrent'
  <2>1. batch' = Tail(batch) /\ (step' = "idle" <=> batch' = <<>>)
    BY <1>1 DEF Outbox!Begin
  <2>2. ASSUME NEW j \in 1..Len(Tail(batch)), NEW l \in 1..Len(Tail(batch)), j # l
        PROVE  Tail(batch)[j].item # Tail(batch)[l].item
    BY <1>7, <2>2 DEF ClaimsAreCurrent
  <2> QED
    BY <1>8, <2>1, <2>2 DEF ClaimsAreCurrent
<1>10. IdsAreMessages'
  <2>1. ASSUME NEW i \in Items, i # w
        PROVE  outbox'[i] = outbox[i]
    BY SMTT(30), <1>6, <2>1
  <2>2. /\ outbox'[w].status = "pending" => outbox'[w].id = 0
        /\ outbox'[w].status = "edit_pending" => outbox'[w].id # 0
        /\ outbox'[w].id # 0 =>
             /\ outbox'[w].id \in 1..Len(bubbles)
             /\ bubbles[outbox'[w].id].item = w /\ Outbox!IsPrimary(bubbles[outbox'[w].id].at)
        /\ outbox'[w].status = "sent" =>
             outbox'[w].id # 0 /\ bubbles[outbox'[w].id].version = outbox'[w].version
    <3>1. CASE outbox'[w] = yes /\ verdict = "sent"
      BY <1>4, <3>1
    <3>2. CASE outbox'[w] = no
      BY <1>2, <3>2 DEF IdsAreMessages
    <3>3. CASE outbox'[w] = outbox[w]
      BY <1>2, <3>3 DEF IdsAreMessages
    <3> QED
      BY <1>6, <3>1, <3>2, <3>3
  <2> HIDE DEF w, yes, no
  <2> QED
    BY <1>1, <2>1, <2>2 DEF IdsAreMessages, Outbox!IsPrimary
<1>11. /\ WorkIsTrue'
       /\ batch' = Tail(batch) /\ at' = 1 /\ verdict' = "none"
       /\ step' \in {"idle", "send", "edit"} /\ primary' \in 0..Len(bubbles)
       /\ \A i, k : k \in Outbox!Indices => (MayHavePosted(i, k)' <=> outbox'[i].id # 0)
  BY <1>1, <1>7, <1>9, <1>10, WorkBegins
<1>12. Outbox!TypeOK'
  <2>1. 1 \in 1..(Len(route) + 1)
    BY OutboxElements
  <2> HIDE DEF w, yes, no
  <2> QED
    BY <1>1, <1>6, <1>7, <1>11, <2>1 DEF Outbox!TypeOK, Claimed, Entries, Outbox!Indices
<1>13. MirrorsAreThere' /\ Outbox!MirrorIsNewest'
  BY <1>1 DEF MirrorsAreThere, Outbox!MirrorIsNewest, Outbox!IsPrimary
<1>14. CopiesAreExcused'
  <2>1. ASSUME NEW i \in Items, NEW k \in Outbox!Indices PROVE StaysExcused(i, k)
    <3>1. Copies(i, k)' = Copies(i, k) /\ (MayHavePosted(i, k)' <=> outbox'[i].id # 0)
      BY <1>1, <1>11 DEF Copies
    <3>2. ASSUME i # w PROVE StaysExcused(i, k)
      <4>1. MayHavePosted(i, k) <=> outbox[i].id # 0
        BY <3>2 DEF MayHavePosted
      <4> QED
        BY <1>6, <3>1, <3>2, <4>1 DEF StaysExcused, Spare
    <3>3. ASSUME i = w, verdict = "sent", outbox'[w] = yes, mishaps' = mishaps
          PROVE  StaysExcused(i, k)
      <4>1. MayHavePosted(i, k)'
        BY <1>4, <3>1, <3>3
      <4>2. Spare(i, k) =< Spare(i, k)'
        BY <4>1 DEF Spare
      <4> QED
        BY <3>1, <3>3, <4>2 DEF StaysExcused
    <3>4. ASSUME i = w, verdict = "failed", outbox'[w].id = outbox[w].id, mishaps' = mishaps
          PROVE  StaysExcused(i, k)
      <4>1. MayHavePosted(i, k) <=> MayHavePosted(i, k)'
        BY <1>1, <3>1, <3>4 DEF MayHavePosted
      <4> QED
        BY <3>1, <3>4, <4>1 DEF StaysExcused, Spare
    <3>5. ASSUME i = w, mishaps'[w] = mishaps[w] + 1
          PROVE  StaysExcused(i, k)
      BY <3>1, <3>5 DEF StaysExcused
    <3>6. no.id = outbox[w].id
      OBVIOUS
    <3> HIDE DEF w, yes, no
    <3> QED
      BY <1>6, <3>2, <3>3, <3>4, <3>5, <3>6
  <2> QED
    BY <1>1, <2>1, ExcusesStay
<1> QED
  BY <1>9, <1>10, <1>11, <1>12, <1>13, <1>14

\* What a step may post leaves the messages as they are, and is a copy of the
\* item in the channel at most.
LEMMA BubblesGrow ==
  ASSUME OutboxInv, batch # <<>>, at \in Outbox!Indices, Len(bubbles) < MaxBubbles,
         NEW how \in {"send", "edit", "late"}, bubbles' \in {bubbles, Outbox!Posted(how)},
         route' = route, outbox' = outbox
  PROVE  /\ bubbles' \in Seq(Bubbles) /\ Len(bubbles') \in Nat
         /\ Len(bubbles) =< Len(bubbles') /\ Len(bubbles') =< MaxBubbles
         /\ \A b \in 1..Len(bubbles) : b \in 1..Len(bubbles') /\ bubbles'[b] = bubbles[b]
         /\ bubbles' = Outbox!Posted(how) => Len(bubbles) + 1 \in 1..Len(bubbles')
         /\ IdsAreMessages'
         /\ \A i, k : Copies(i, k)' \subseteq Copies(i, k) \cup {Len(bubbles) + 1}
         /\ \A i, k : how # "send" \/ i # batch[1].item \/ k # at =>
              Copies(i, k)' \subseteq Copies(i, k)
<1> USE DEF OutboxInv
<1>1. /\ bubbles \in Seq(Bubbles) /\ Len(bubbles) \in Nat /\ Len(bubbles) =< MaxBubbles
  BY OutboxElements
<1> DEFINE n == Len(bubbles)
           new == Outbox!Posted(how)
<1>2. /\ new \in Seq(Bubbles) /\ Len(new) = n + 1 /\ Len(new) =< MaxBubbles /\ Len(new) \in Nat
      /\ \A b \in 1..n : b \in 1..Len(new) /\ new[b] = bubbles[b]
      /\ \A b \in 1..Len(new) : b \in 1..n \/ b = n + 1
      /\ n + 1 \in 1..Len(new)
      /\ new[n + 1].item = batch[1].item /\ new[n + 1].at = at /\ new[n + 1].by = how
  <2> DEFINE b1 == [item |-> batch[1].item, at |-> at, version |-> batch[1].version,
                    of |-> IF Outbox!IsPrimary(at) THEN 0 ELSE primary, by |-> how]
  <2>1. /\ new \in Seq(Bubbles) /\ Len(new) = n + 1 /\ Len(new) =< MaxBubbles /\ Len(new) \in Nat
        /\ \A b \in 1..n : b \in 1..Len(new) /\ new[b] = bubbles[b]
        /\ \A b \in 1..Len(new) : b \in 1..n \/ b = n + 1
        /\ n + 1 \in 1..Len(new)
        /\ new[n + 1] = b1
    BY PostsComeLast
  <2>2. b1.item = batch[1].item /\ b1.at = at /\ b1.by = how
    OBVIOUS
  <2> HIDE DEF b1, n, new
  <2> QED
    BY <2>1, <2>2
<1> HIDE DEF new
<1>3. CASE bubbles' = bubbles /\ bubbles # new
  <2>1. \A i, k : Copies(i, k)' = Copies(i, k)
    BY <1>3 DEF Copies
  <2>2. IdsAreMessages'
    BY <1>3 DEF IdsAreMessages, Outbox!IsPrimary
  <2> QED
    BY <1>1, <1>3, <2>1, <2>2 DEF new
<1>4. CASE bubbles' = new
  <2>1. \A b \in 1..n : b \in 1..Len(bubbles') /\ bubbles'[b] = bubbles[b]
    BY <1>2, <1>4
  <2>2. MessagesStay
    <3>1. \A i \in Items : outbox[i].status = "sent" => outbox[i].id \in 1..n
      BY DEF IdsAreMessages
    <3> QED
      BY <2>1, <3>1 DEF MessagesStay
  <2>3. IdsAreMessages'
    BY <2>2, IdsStay
  <2>4. ASSUME NEW i, NEW k, NEW b \in Copies(i, k)'
        PROVE  \/ b \in Copies(i, k)
               \/ b = n + 1 /\ how = "send" /\ i = batch[1].item /\ k = at
    <3>1. b \in 1..Len(new) /\ new[b].item = i /\ new[b].at = k /\ new[b].by = "send"
      BY <1>4, <2>4 DEF Copies
    <3> QED
      BY <1>2, <3>1 DEF Copies
  <2>5. n =< Len(new)
    BY <1>1, <1>2
  <2> QED
    BY <1>2, <1>4, <2>1, <2>3, <2>4, <2>5 DEF new
<1> QED
  BY <1>3, <1>4 DEF new

LEMMA MirrorsFit == OutboxInv => MirrorsAreSound
BY DEF OutboxInv, Outbox!TypeOK, MirrorsTyped, MirrorsAreSound

\* What is posted is not of a message that is mirrored, or came too late to be known.
LEMMA MirrorsStay ==
  ASSUME OutboxInv, batch # <<>>, at \in Outbox!Indices, Len(bubbles) < MaxBubbles,
         NEW how \in {"send", "edit", "late"}, bubbles' \in {bubbles, Outbox!Posted(how)},
         route' = route, outbox' = outbox, mirrors' = mirrors,
         how = "late" \/ Outbox!IsPrimary(at) \/ primary = 0
  PROVE  MirrorsAreSound'
<1> USE DEF OutboxInv
<1>1. /\ \A b \in 1..Len(bubbles) : b \in 1..Len(bubbles') /\ bubbles'[b] = bubbles[b]
  BY BubblesGrow
<1>2. MirrorsTyped /\ MirrorsAreThere
  BY MirrorsFit DEF MirrorsAreSound
<1>3. MirrorsTyped'
  BY <1>1, <1>2 DEF MirrorsTyped, Outbox!Indices
<1>4. MirrorsAreThere'
  <2>1. \A k \in DOMAIN mirrors : mirrors[k].bubble \in 1..Len(bubbles)
    BY <1>2 DEF MirrorsTyped
  <2> QED
    BY <1>1, <1>2, <2>1 DEF MirrorsAreThere, Outbox!IsPrimary
<1>5. ASSUME NEW k \in DOMAIN mirrors, NEW b \in 1..Len(bubbles'), bubbles'[b].of = k[1],
             bubbles'[b].at = k[2], bubbles'[b].by # "late"
      PROVE  b =< mirrors[k].bubble
  <2>1. CASE b \in 1..Len(bubbles)
    BY <1>1, <1>5, <2>1 DEF Outbox!MirrorIsNewest
  <2>2. CASE b \notin 1..Len(bubbles)
    <3> DEFINE b1 == [item |-> batch[1].item, at |-> at, version |-> batch[1].version,
                      of |-> IF Outbox!IsPrimary(at) THEN 0 ELSE primary, by |-> how]
    <3>1. bubbles' = Outbox!Posted(how)
      BY <2>2
    <3>2. bubbles'[b] = b1
      <4>1. /\ \A c \in 1..Len(bubbles') : c \in 1..Len(bubbles) \/ c = Len(bubbles) + 1
            /\ bubbles'[Len(bubbles) + 1] = b1
        BY <3>1, PostsComeLast
      <4> HIDE DEF b1
      <4> QED
        BY <2>2, <4>1
    <3>3. bubbles'[b].by = how /\ bubbles'[b].of = 0
      BY <1>5, <3>2
    <3>4. k[1] \in 1..Len(bubbles) /\ Len(bubbles) \in Nat
      BY <1>2, OutboxElements DEF MirrorsTyped
    <3> QED
      BY <1>5, <3>3, <3>4
  <2> QED
    BY <2>1, <2>2
<1>6. Outbox!MirrorIsNewest'
  BY <1>5 DEF Outbox!MirrorIsNewest
<1> QED
  BY <1>3, <1>4, <1>6 DEF MirrorsAreSound

\* A bubble that is remembered is the newest.
LEMMA MirrorIsRemembered ==
  ASSUME OutboxInv, batch # <<>>, at \in Outbox!Indices, Len(bubbles) < MaxBubbles,
         NEW how \in {"send", "edit"}, bubbles' = Outbox!Posted(how),
         route' = route, outbox' = outbox, Outbox!Remember(Len(bubbles) + 1),
         ~Outbox!IsPrimary(at), primary # 0
  PROVE  MirrorsAreSound'
<1> USE DEF OutboxInv
<1> DEFINE n == Len(bubbles)
           here == <<primary, at>>
           b1 == [item |-> batch[1].item, at |-> at, version |-> batch[1].version,
                  of |-> IF Outbox!IsPrimary(at) THEN 0 ELSE primary, by |-> how]
<1>1. /\ \A b \in 1..n : b \in 1..Len(bubbles') /\ bubbles'[b] = bubbles[b]
      /\ n + 1 \in 1..Len(bubbles') /\ bubbles'[n + 1] = b1
      /\ \A b \in 1..Len(bubbles') : b \in 1..n \/ b = n + 1
  BY PostsComeLast
<1>2. b1.at = at /\ b1.of = primary
  OBVIOUS
<1>3. /\ n \in Nat /\ primary \in 1..n /\ MirrorsTyped /\ MirrorsAreThere
  BY MirrorsFit, OutboxElements DEF MirrorsAreSound
<1>4. /\ \A k \in DOMAIN mirrors' : k = here \/ k \in DOMAIN mirrors
      /\ \A k \in DOMAIN mirrors' : mirrors'[k] = IF k = here THEN [bubble |-> n + 1,
           age |-> "young"]
                                                  ELSE mirrors[k]
  BY DEF Outbox!Remember
<1> HIDE DEF b1, n
<1>5. here \in (1..Len(bubbles')) \X Outbox!Indices /\ here[1] = primary /\ here[2] = at
  BY <1>1, <1>3
<1> HIDE DEF here
<1>6. MirrorsTyped'
  <2> SUFFICES ASSUME NEW k \in DOMAIN mirrors'
               PROVE  /\ k \in (1..Len(bubbles')) \X Outbox!Indices
                      /\ mirrors'[k] \in [bubble : 1..Len(bubbles'),
                                          age : {"young", "uneditable", "ancient"}]
    BY DEF MirrorsTyped, Outbox!Indices
  <2>1. CASE k = here
    BY <1>1, <1>4, <1>5, <2>1
  <2>2. CASE k # here
    <3>1. /\ mirrors'[k] = mirrors[k] /\ k \in (1..n) \X Outbox!Indices
          /\ mirrors[k] \in [bubble : 1..n, age : {"young", "uneditable", "ancient"}]
      BY <1>3, <1>4, <2>2 DEF MirrorsTyped, n
    <3> QED
      BY <1>1, <3>1
  <2> QED
    BY <2>1, <2>2
<1>7. MirrorsAreThere'
  <2> SUFFICES ASSUME NEW k \in DOMAIN mirrors'
               PROVE  bubbles'[mirrors'[k].bubble].at = k[2] /\ ~Outbox!IsPrimary(k[2])
    BY DEF MirrorsAreThere, Outbox!IsPrimary
  <2>1. CASE k = here
    <3>1. mirrors'[k].bubble = n + 1
      BY <1>4, <2>1
    <3> QED
      BY <1>1, <1>2, <1>5, <2>1, <3>1
  <2>2. CASE k # here
    <3>1. /\ mirrors'[k] = mirrors[k] /\ k \in DOMAIN mirrors /\ mirrors[k].bubble \in 1..n
      BY <1>3, <1>4, <2>2 DEF MirrorsTyped, n
    <3> QED
      BY SMTT(30), <1>1, <1>3, <3>1 DEF MirrorsAreThere
  <2> QED
    BY <2>1, <2>2
<1>8. ASSUME NEW k \in DOMAIN mirrors', NEW b \in 1..Len(bubbles'), bubbles'[b].of = k[1],
             bubbles'[b].at = k[2], bubbles'[b].by # "late"
      PROVE  b =< mirrors'[k].bubble
  <2>1. CASE k = here
    <3>1. mirrors'[k].bubble = n + 1
      BY <1>4, <2>1
    <3>2. b \in Nat /\ (b \in 1..n \/ b = n + 1)
      BY <1>1, <1>3
    <3>3. b =< n + 1
      BY <1>3, <3>2
    <3> QED
      BY <3>1, <3>3
  <2>2. CASE k # here
    <3>1. mirrors'[k] = mirrors[k] /\ k \in DOMAIN mirrors /\ k \in (1..n) \X Outbox!Indices
      BY <1>3, <1>4, <2>2 DEF MirrorsTyped, n
    <3>2. b # n + 1
      BY <1>1, <1>2, <1>8, <2>2, <3>1 DEF here
    <3>3. b \in 1..n
      BY <1>1, <3>2
    <3> QED
      BY <1>1, <1>8, <3>1, <3>3 DEF Outbox!MirrorIsNewest, n
  <2> QED
    BY <2>1, <2>2
<1>9. Outbox!MirrorIsNewest'
  BY <1>8 DEF Outbox!MirrorIsNewest
<1> QED
  BY <1>6, <1>7, <1>9 DEF MirrorsAreSound

\* An edit of a bubble that is no other item's message.
LEMMA BubblesEdited ==
  ASSUME OutboxInv, batch # <<>>, NEW e \in 1..Len(bubbles),
         bubbles' \in {bubbles, Outbox!Shows(e)},
         route' = route, outbox' = outbox, mirrors' = mirrors,
         \A i \in Items : outbox[i].status = "sent" => outbox[i].id # e
  PROVE  /\ bubbles' \in Seq(Bubbles) /\ Len(bubbles') = Len(bubbles)
         /\ IdsAreMessages' /\ MirrorsAreSound'
         /\ \A i, k : Copies(i, k)' = Copies(i, k)
         /\ \A b \in 1..Len(bubbles) :
              /\ bubbles'[b].item = bubbles[b].item /\ bubbles'[b].at = bubbles[b].at
              /\ b # e => bubbles'[b].version = bubbles[b].version
<1> USE DEF OutboxInv
<1>1. bubbles \in Seq(Bubbles)
  BY OutboxElements
<1>2. /\ bubbles' \in Seq(Bubbles) /\ Len(bubbles') = Len(bubbles)
      /\ \A b \in 1..Len(bubbles) :
           /\ bubbles'[b].item = bubbles[b].item /\ bubbles'[b].at = bubbles[b].at
           /\ bubbles'[b].of = bubbles[b].of /\ bubbles'[b].by = bubbles[b].by
           /\ b # e => bubbles'[b].version = bubbles[b].version
  <2>1. CASE bubbles' = bubbles
    BY <1>1, <2>1
  <2>2. CASE bubbles' = Outbox!Shows(e)
    BY <2>2, EditsChangeTexts
  <2> QED
    BY <2>1, <2>2
<1>3. IdsAreMessages'
  <2>1. MessagesStay
    BY <1>2 DEF MessagesStay, IdsAreMessages
  <2> QED
    BY <2>1, IdsStay
<1>4. MirrorsTyped /\ MirrorsAreThere
  BY MirrorsFit DEF MirrorsAreSound
<1>5. MirrorsTyped'
  BY <1>2, <1>4 DEF MirrorsTyped, Outbox!Indices
<1>6. MirrorsAreThere'
  <2>1. \A k \in DOMAIN mirrors : mirrors[k].bubble \in 1..Len(bubbles)
    BY <1>4 DEF MirrorsTyped
  <2> QED
    BY <1>2, <1>4, <2>1 DEF MirrorsAreThere, Outbox!IsPrimary
<1>7. Outbox!MirrorIsNewest'
  BY <1>2 DEF Outbox!MirrorIsNewest
<1>8. \A i, k : Copies(i, k)' = Copies(i, k)
  BY <1>2 DEF Copies
<1> QED
  BY <1>2, <1>3, <1>5, <1>6, <1>7, <1>8 DEF MirrorsAreSound

\* What a step at a channel must leave true.
LEMMA ItemIsStillAtWork ==
  ASSUME OutboxInv, UNCHANGED <<route, outbox, batch>>, batch # <<>>,
         bubbles' \in Seq(Bubbles), Len(bubbles') =< MaxBubbles,
         step' \in {"send", "mirror", "edit", "ack"}, at' \in {at, at + 1}, at \in Outbox!Indices,
         primary' \in 0..Len(bubbles'), verdict' \in {"none", "sent", "failed"},
         hitches' \in 0..MaxHitches, mishaps' \in [Items -> Nat],
         IdsAreMessages', WorkIsTrue', MirrorsAreSound',
         \A i \in Items, k \in Outbox!Indices : StaysExcused(i, k)
  PROVE  OutboxInv'
<1> USE DEF OutboxInv
<1>1. at' \in 1..(Len(route) + 1)
  BY OutboxElements DEF Outbox!Indices
<1>2. Outbox!TypeOK'
  BY <1>1 DEF Outbox!TypeOK, Bubbles, MirrorsAreSound, MirrorsTyped, Outbox!Indices
<1>3. ClaimsAreCurrent'
  BY DEF ClaimsAreCurrent
<1>4. CopiesAreExcused'
  BY ExcusesStay
<1> QED
  BY <1>2, <1>3, <1>4 DEF MirrorsAreSound

LEMMA ChannelIsNext ==
  ASSUME Outbox!TypeOK, NEW k \in Outbox!Indices, at \in Outbox!Indices
  PROVE  k < at + 1 <=> k < at \/ k = at
BY OutboxElements DEF Outbox!Indices

LEMMA ItemAtWork ==
  ASSUME OutboxInv, step \in {"send", "mirror", "edit"}
  PROVE  /\ batch # <<>> /\ batch[1].item \in Items /\ batch[1] \in Claimed
         /\ primary \in 0..Len(bubbles) /\ Len(bubbles) \in Nat
         /\ hitches \in 0..MaxHitches /\ mishaps \in [Items -> Nat]
         /\ verdict \in {"none", "sent", "failed"}
         /\ batch[1].status = outbox[batch[1].item].status
         /\ batch[1].id = outbox[batch[1].item].id
<1> USE DEF OutboxInv
<1>1. batch # <<>>
  BY DEF ClaimsAreCurrent
<1>2. 1 \in 1..Len(batch) /\ batch[1] \in Claimed
  BY <1>1, OutboxElements
<1> QED
  BY <1>1, <1>2, OutboxElements DEF ClaimsAreCurrent, Claimed, Outbox!TypeOK

LEMMA PrimaryIsSent ==
  ASSUME OutboxInv, Outbox!SendPrimary
  PROVE  OutboxInv'
<1> USE DEF OutboxInv
<1>1. /\ UNCHANGED <<route, outbox, batch, mirrors>> /\ step = "send" /\ at \in Outbox!Indices
      /\ Outbox!IsPrimary(at) /\ Len(bubbles) < MaxBubbles
  BY DEF Outbox!SendPrimary
<1>2. /\ batch # <<>> /\ batch[1].item \in Items /\ batch[1] \in Claimed
      /\ primary \in 0..Len(bubbles) /\ Len(bubbles) \in Nat
      /\ hitches \in 0..MaxHitches /\ mishaps \in [Items -> Nat]
      /\ verdict \in {"none", "sent", "failed"}
      /\ batch[1].id = outbox[batch[1].item].id /\ batch[1].id = 0
  BY <1>1, ItemAtWork DEF WorkIsTrue
<1>3. Spare(batch[1].item, at) = 0
  <2>1. ~(at < at)
    BY <1>1, OutboxElements
  <2>2. ~MayHavePosted(batch[1].item, at)
    BY <1>1, <1>2, <2>1 DEF MayHavePosted
  <2> QED
    BY <2>2 DEF Spare
<1>4. bubbles' \in {bubbles, Outbox!Posted("send")}
  BY DEF Outbox!SendPrimary
<1>5. "send" \in {"send", "edit", "late"}
  OBVIOUS
<1>6. /\ bubbles' \in Seq(Bubbles) /\ Len(bubbles') \in Nat
      /\ Len(bubbles) =< Len(bubbles') /\ Len(bubbles') =< MaxBubbles
      /\ \A b \in 1..Len(bubbles) : b \in 1..Len(bubbles') /\ bubbles'[b] = bubbles[b]
      /\ bubbles' = Outbox!Posted("send") => Len(bubbles) + 1 \in 1..Len(bubbles')
      /\ IdsAreMessages'
      /\ \A i, k : Copies(i, k)' \subseteq Copies(i, k) \cup {Len(bubbles) + 1}
      /\ \A i, k : i # batch[1].item \/ k # at => Copies(i, k)' \subseteq Copies(i, k)
  BY <1>1, <1>2, <1>4, <1>5, BubblesGrow
<1>7. MirrorsAreSound'
  BY <1>1, <1>2, <1>4, <1>5, MirrorsStay
<1>8. CASE /\ bubbles' = Outbox!Posted("send") /\ primary' = Len(bubbles) + 1
           /\ at' = at + 1 /\ UNCHANGED <<hitches, mishaps, step, verdict>>
  <2>1. primary' \in 0..Len(bubbles') /\ primary' # 0
    BY <1>2, <1>6, <1>8
  <2>2. WorkIsTrue'
    <3>1. bubbles'[Len(bubbles) + 1] =
            [item |-> batch[1].item, at |-> at, version |-> batch[1].version,
             of |-> IF Outbox!IsPrimary(at) THEN 0 ELSE primary, by |-> "send"]
      BY <1>1, <1>2, <1>5, <1>8, PostsComeLast
    <3>2. /\ bubbles'[primary'].item = batch[1].item /\ bubbles'[primary'].at = at
          /\ bubbles'[primary'].version = batch[1].version
      BY <1>8, <3>1
    <3> QED
      BY <1>1, <1>2, <1>8, <2>1, <3>2 DEF WorkIsTrue, Outbox!IsPrimary
  <2>3. ASSUME NEW i \in Items, NEW k \in Outbox!Indices PROVE StaysExcused(i, k)
    <3>1. MayHavePosted(i, k)' <=> MayHavePosted(i, k) \/ (i = batch[1].item /\ k = at)
      <4>1. k < at + 1 <=> k < at \/ k = at
        BY <1>1, ChannelIsNext
      <4> QED
        BY <1>1, <1>2, <1>8, <4>1 DEF MayHavePosted, Outbox!IsPrimary
    <3>2. CASE i = batch[1].item /\ k = at
      <4>1. Spare(i, k)' = 1 /\ mishaps'[i] = mishaps[i]
        BY <1>8, <3>1, <3>2 DEF Spare
      <4> QED
        BY <1>3, <1>6, <3>2, <4>1 DEF StaysExcused
    <3>3. CASE i # batch[1].item \/ k # at
      <4>1. Spare(i, k) =< Spare(i, k)' /\ mishaps'[i] = mishaps[i]
        BY <1>8, <3>1, <3>3 DEF Spare
      <4> QED
        BY <1>6, <3>3, <4>1 DEF StaysExcused
    <3> QED
      BY <3>2, <3>3
  <2> QED
    BY <1>1, <1>2, <1>6, <1>7, <1>8, <2>1, <2>2, <2>3, ItemIsStillAtWork
<1>9. CASE /\ step' = "ack" /\ verdict' = "failed" /\ Outbox!Hitch(1, TRUE)
           /\ UNCHANGED <<primary, at>>
  <2>1. /\ hitches' \in 0..MaxHitches /\ mishaps' \in [Items -> Nat]
        /\ \A i \in Items : i = batch[1].item => mishaps'[i] = mishaps[i] + 1
        /\ \A i \in Items : i # batch[1].item => mishaps'[i] = mishaps[i]
    <3>1. 1 \in Nat /\ TRUE \in BOOLEAN
      OBVIOUS
    <3> QED
      BY <1>2, <1>9, <3>1, HitchCounts
  <2>2. primary' \in 0..Len(bubbles')
    BY <1>2, <1>6, <1>9
  <2>3. WorkIsTrue'
    <3>1. primary # 0 => bubbles'[primary] = bubbles[primary]
      BY <1>2, <1>6
    <3>2. primary # 0 => bubbles[primary].item = batch[1].item
          /\ Outbox!IsPrimary(bubbles[primary].at)
      BY <1>2 DEF WorkIsTrue
    <3>3. ~Shown'
      BY <1>9 DEF Shown
    <3> QED
      BY <1>1, <1>9, <3>1, <3>2, <3>3 DEF WorkIsTrue, Outbox!IsPrimary
  <2>4. ASSUME NEW i \in Items, NEW k \in Outbox!Indices PROVE StaysExcused(i, k)
    <3>1. CASE i = batch[1].item /\ k = at
      BY <1>3, <1>6, <2>1, <3>1 DEF StaysExcused
    <3>2. CASE i = batch[1].item /\ k # at
      BY <1>6, <2>1, <3>2 DEF StaysExcused
    <3>3. CASE i # batch[1].item
      <4>1. MayHavePosted(i, k)' <=> MayHavePosted(i, k)
        BY <1>1, <3>3 DEF MayHavePosted
      <4> QED
        BY <1>6, <2>1, <3>3, <4>1 DEF StaysExcused, Spare
    <3> QED
      BY <3>1, <3>2, <3>3
  <2> QED
    BY <1>1, <1>2, <1>6, <1>7, <1>9, <2>1, <2>2, <2>3, <2>4, ItemIsStillAtWork
<1> QED
  BY <1>8, <1>9 DEF Outbox!SendPrimary, Outbox!Smooth

LEMMA MirrorIsSent ==
  ASSUME OutboxInv, Outbox!SendMirror
  PROVE  OutboxInv'
<1> USE DEF OutboxInv
<1>1. /\ UNCHANGED <<route, outbox, batch, step, primary, verdict>> /\ at' = at + 1
      /\ step = "mirror" /\ at \in Outbox!Indices /\ ~Outbox!IsPrimary(at)
         /\ Len(bubbles) < MaxBubbles
  BY DEF Outbox!SendMirror
<1>2. /\ batch # <<>> /\ batch[1].item \in Items /\ batch[1] \in Claimed
      /\ primary \in 0..Len(bubbles) /\ Len(bubbles) \in Nat
      /\ hitches \in 0..MaxHitches /\ mishaps \in [Items -> Nat]
      /\ verdict \in {"none", "sent", "failed"}
      /\ batch[1].id = outbox[batch[1].item].id /\ batch[1].id = 0
  BY <1>1, ItemAtWork DEF WorkIsTrue
<1>3. Spare(batch[1].item, at) = 0
  <2>1. ~(at < at)
    BY <1>1, OutboxElements
  <2>2. ~MayHavePosted(batch[1].item, at)
    BY <1>1, <1>2, <2>1 DEF MayHavePosted
  <2> QED
    BY <2>2 DEF Spare
<1>4. ASSUME NEW how \in {"send", "late"}, bubbles' \in {bubbles, Outbox!Posted(how)},
             hitches' \in 0..MaxHitches, mishaps' = mishaps, MirrorsAreSound'
      PROVE  OutboxInv'
  <2>1. /\ bubbles' \in Seq(Bubbles) /\ Len(bubbles') \in Nat
        /\ Len(bubbles) =< Len(bubbles') /\ Len(bubbles') =< MaxBubbles
        /\ \A b \in 1..Len(bubbles) : b \in 1..Len(bubbles') /\ bubbles'[b] = bubbles[b]
        /\ IdsAreMessages'
        /\ \A i, k : Copies(i, k)' \subseteq Copies(i, k) \cup {Len(bubbles) + 1}
        /\ \A i, k : i # batch[1].item \/ k # at => Copies(i, k)' \subseteq Copies(i, k)
    <3>1. how \in {"send", "edit", "late"}
      OBVIOUS
    <3> QED
      BY <1>1, <1>2, <1>4, <3>1, BubblesGrow
  <2>2. primary' \in 0..Len(bubbles')
    BY <1>1, <1>2, <2>1
  <2>3. WorkIsTrue'
    <3>1. primary # 0 => bubbles'[primary] = bubbles[primary]
      BY <1>2, <2>1
    <3>2. Shown' <=> Shown
      BY <1>1 DEF Shown
    <3>3. Outbox!Routed' <=> Outbox!Routed
      BY <1>1 DEF Outbox!Routed, Outbox!Indices, Outbox!IsPrimary
    <3> QED
      BY <1>1, <1>2, <3>1, <3>2, <3>3 DEF WorkIsTrue, Outbox!IsPrimary
  <2>4. ASSUME NEW i \in Items, NEW k \in Outbox!Indices PROVE StaysExcused(i, k)
    <3>1. MayHavePosted(i, k)' <=> MayHavePosted(i, k) \/ (i = batch[1].item /\ k = at)
      <4>1. k < at + 1 <=> k < at \/ k = at
        BY <1>1, ChannelIsNext
      <4> QED
        BY <1>1, <1>2, <4>1 DEF MayHavePosted, Outbox!IsPrimary
    <3>2. CASE i = batch[1].item /\ k = at
      <4>1. Spare(i, k)' = 1 /\ mishaps'[i] = mishaps[i]
        BY <1>4, <3>1, <3>2 DEF Spare
      <4> QED
        BY <1>3, <2>1, <3>2, <4>1 DEF StaysExcused
    <3>3. CASE i # batch[1].item \/ k # at
      <4>1. Spare(i, k) =< Spare(i, k)' /\ mishaps'[i] = mishaps[i]
        BY <1>4, <3>1, <3>3 DEF Spare
      <4> QED
        BY <2>1, <3>3, <4>1 DEF StaysExcused
    <3> QED
      BY <3>2, <3>3
  <2> QED
    BY <1>1, <1>2, <1>4, <2>1, <2>2, <2>3, <2>4, ItemIsStillAtWork
<1>5. CASE /\ bubbles' = Outbox!Posted("send") /\ UNCHANGED <<hitches, mishaps>>
           /\ IF primary = 0 THEN mirrors' = mirrors ELSE Outbox!Remember(Len(bubbles) + 1)
  <2>1. "send" \in {"send", "late"} /\ "send" \in {"send", "edit", "late"}
        /\ "send" \in {"send", "edit"}
    OBVIOUS
  <2>2. CASE primary = 0
    <3>1. bubbles' \in {bubbles, Outbox!Posted("send")} /\ mirrors' = mirrors
      BY <1>5, <2>2
    <3>2. MirrorsAreSound'
      BY <1>1, <1>2, <2>1, <2>2, <3>1, MirrorsStay
    <3> QED
      BY <1>2, <1>4, <1>5, <2>1, <3>1, <3>2
  <2>3. CASE primary # 0
    <3>1. MirrorsAreSound'
      BY <1>1, <1>2, <1>5, <2>1, <2>3, MirrorIsRemembered
    <3>2. bubbles' \in {bubbles, Outbox!Posted("send")}
      BY <1>5
    <3> QED
      BY SMTT(30), <1>2, <1>4, <1>5, <2>1, <3>1, <3>2
  <2> QED
    BY <2>2, <2>3
<1>6. CASE bubbles' \in {bubbles, Outbox!Posted("late")} /\ Outbox!Hitch(1, FALSE)
           /\ mirrors' = mirrors
  <2>1. "late" \in {"send", "late"} /\ "late" \in {"send", "edit", "late"}
        /\ 1 \in Nat /\ FALSE \in BOOLEAN
    OBVIOUS
  <2>2. MirrorsAreSound'
    BY <1>1, <1>2, <1>6, <2>1, MirrorsStay
  <2>3. hitches' \in 0..MaxHitches /\ mishaps' = mishaps
    BY <1>2, <1>6, <2>1, HitchCounts
  <2> QED
    BY <1>4, <1>6, <2>1, <2>2, <2>3
<1> QED
  BY <1>5, <1>6 DEF Outbox!SendMirror, Outbox!Smooth, Outbox!NoId

\* The item at work has been sent, and its message is that of no other item.
LEMMA ItemBeingEdited ==
  ASSUME OutboxInv, step = "edit"
  PROVE  /\ batch # <<>> /\ batch[1].item \in Items /\ batch[1] \in Claimed
         /\ primary \in 1..Len(bubbles) /\ Len(bubbles) \in Nat
         /\ hitches \in 0..MaxHitches /\ mishaps \in [Items -> Nat]
         /\ verdict \in {"none", "sent", "failed"}
         /\ primary = batch[1].id /\ primary = outbox[batch[1].item].id
         /\ bubbles[primary].item = batch[1].item /\ Outbox!IsPrimary(bubbles[primary].at)
         /\ Shown => bubbles[primary].version = batch[1].version
         /\ \A i \in Items : outbox[i].status = "sent" => outbox[i].id # primary
         /\ \A i \in Items : outbox[i].status = "sent" => Outbox!IsPrimary(bubbles[outbox[i].id].at)
<1> USE DEF OutboxInv
<1>1. /\ batch # <<>> /\ batch[1].item \in Items /\ batch[1] \in Claimed
      /\ primary \in 0..Len(bubbles) /\ Len(bubbles) \in Nat
      /\ hitches \in 0..MaxHitches /\ mishaps \in [Items -> Nat]
      /\ verdict \in {"none", "sent", "failed"}
      /\ batch[1].status = outbox[batch[1].item].status
      /\ batch[1].id = outbox[batch[1].item].id
  BY ItemAtWork
<1>2. /\ primary = batch[1].id /\ primary # 0
      /\ bubbles[primary].item = batch[1].item /\ Outbox!IsPrimary(bubbles[primary].at)
      /\ Shown => bubbles[primary].version = batch[1].version
  BY <1>1 DEF WorkIsTrue
<1>3. outbox[batch[1].item].status # "sent"
  BY <1>1 DEF Claimed
<1>4. ASSUME NEW i \in Items, outbox[i].status = "sent"
      PROVE  outbox[i].id # primary /\ Outbox!IsPrimary(bubbles[outbox[i].id].at)
  <2>1. bubbles[outbox[i].id].item = i /\ Outbox!IsPrimary(bubbles[outbox[i].id].at)
    BY <1>4 DEF IdsAreMessages
  <2>2. outbox[i].id # primary
    BY <1>2, <1>3, <1>4, <2>1, Zenon
  <2> QED
    BY <2>1, <2>2
<1>5. primary \in 1..Len(bubbles)
  BY <1>1, <1>2
<1> QED
  BY <1>1, <1>2, <1>4, <1>5, Zenon

\* While an item is edited no bubble is a copy of it.
LEMMA NothingIsCopied ==
  ASSUME OutboxInv, step = "edit", UNCHANGED <<outbox, batch, mishaps>>,
         step' \in {"edit", "ack"}, verdict' # "sent" \/ step' = "edit",
         NEW i \in Items, NEW k \in Outbox!Indices, Copies(i, k)' \subseteq Copies(i, k)
  PROVE  StaysExcused(i, k)
<1>1. outbox[batch[1].item].id # 0
  BY ItemBeingEdited
<1>2. MayHavePosted(i, k)' <=> MayHavePosted(i, k)
  BY <1>1 DEF MayHavePosted
<1> QED
  BY <1>2 DEF StaysExcused, Spare

LEMMA PrimaryIsEdited ==
  ASSUME OutboxInv, Outbox!EditPrimary
  PROVE  OutboxInv'
<1> USE DEF OutboxInv
<1>1. /\ UNCHANGED <<route, outbox, batch, primary, mirrors>> /\ step = "edit"
      /\ at \in Outbox!Indices /\ Outbox!IsPrimary(at)
  BY DEF Outbox!EditPrimary
<1>2. /\ batch # <<>> /\ batch[1].item \in Items /\ batch[1] \in Claimed
      /\ primary \in 1..Len(bubbles) /\ Len(bubbles) \in Nat /\ Len(bubbles) =< MaxBubbles
      /\ hitches \in 0..MaxHitches /\ mishaps \in [Items -> Nat]
      /\ verdict \in {"none", "sent", "failed"}
      /\ primary = batch[1].id
      /\ bubbles[primary].item = batch[1].item /\ Outbox!IsPrimary(bubbles[primary].at)
      /\ \A i \in Items : outbox[i].status = "sent" => outbox[i].id # primary
  BY <1>1, ItemBeingEdited, OutboxElements
<1>3. bubbles' \in {bubbles, Outbox!Shows(primary)}
  BY DEF Outbox!EditPrimary
<1>4. /\ bubbles' \in Seq(Bubbles) /\ Len(bubbles') = Len(bubbles)
      /\ IdsAreMessages' /\ MirrorsAreSound'
      /\ \A i, k : Copies(i, k)' = Copies(i, k)
      /\ \A b \in 1..Len(bubbles) :
           bubbles'[b].item = bubbles[b].item /\ bubbles'[b].at = bubbles[b].at
  BY SMTT(30), <1>1, <1>2, <1>3, BubblesEdited
<1>5. primary' \in 0..Len(bubbles') /\ Len(bubbles') =< MaxBubbles
  BY SMTT(30), <1>1, <1>2, <1>4
<1>6. CASE /\ bubbles' = Outbox!Shows(primary) /\ at' = at + 1
           /\ UNCHANGED <<hitches, mishaps, step, verdict>>
  <2>1. bubbles'[primary].version = batch[1].version
    BY SMTT(30), <1>2, <1>6, EditsChangeTexts
  <2>2. WorkIsTrue'
    BY <1>1, <1>2, <1>4, <1>6, <2>1 DEF WorkIsTrue, Outbox!IsPrimary
  <2>3. ASSUME NEW i \in Items, NEW k \in Outbox!Indices PROVE StaysExcused(i, k)
    BY <1>1, <1>4, <1>6, NothingIsCopied
  <2> QED
    BY SMTT(30), <1>1, <1>2, <1>4, <1>5, <1>6, <2>2, <2>3, ItemIsStillAtWork
<1>7. CASE /\ Outbox!Hitch(1, FALSE) /\ step' = "ack" /\ verdict' = "failed" /\ at' = at
  <2>1. hitches' \in 0..MaxHitches /\ mishaps' = mishaps
    <3>1. 1 \in Nat /\ FALSE \in BOOLEAN
      OBVIOUS
    <3> QED
      BY <1>2, <1>7, <3>1, HitchCounts
  <2>2. WorkIsTrue'
    <3>1. ~Shown'
      BY <1>7 DEF Shown
    <3> QED
      BY <1>1, <1>2, <1>4, <1>7, <3>1 DEF WorkIsTrue, Outbox!IsPrimary
  <2>3. ASSUME NEW i \in Items, NEW k \in Outbox!Indices PROVE StaysExcused(i, k)
    BY SMTT(30), <1>1, <1>4, <1>7, <2>1, NothingIsCopied
  <2> QED
    BY <1>1, <1>2, <1>4, <1>5, <1>7, <2>1, <2>2, <2>3, ItemIsStillAtWork
<1> QED
  BY <1>6, <1>7 DEF Outbox!EditPrimary, Outbox!Smooth

LEMMA MirrorIsEdited ==
  ASSUME OutboxInv, Outbox!EditMirrorInPlace
  PROVE  OutboxInv'
<1> USE DEF OutboxInv
<1> DEFINE e == Outbox!Mirror.bubble
<1>1. /\ UNCHANGED <<route, outbox, batch, step, primary, verdict, mirrors, hitches, mishaps>>
      /\ step = "edit" /\ at \in Outbox!Indices /\ ~Outbox!IsPrimary(at) /\ at' = at + 1
      /\ bubbles' = Outbox!Shows(e) /\ <<primary, at>> \in DOMAIN mirrors
  BY DEF Outbox!EditMirrorInPlace, Outbox!Editable, Outbox!HasMirror
<1>2. /\ batch # <<>> /\ batch[1].item \in Items /\ batch[1] \in Claimed
      /\ primary \in 1..Len(bubbles) /\ Len(bubbles) \in Nat /\ Len(bubbles) =< MaxBubbles
      /\ hitches \in 0..MaxHitches /\ mishaps \in [Items -> Nat]
      /\ verdict \in {"none", "sent", "failed"}
      /\ primary = batch[1].id
      /\ bubbles[primary].item = batch[1].item /\ Outbox!IsPrimary(bubbles[primary].at)
      /\ Shown => bubbles[primary].version = batch[1].version
      /\ \A i \in Items : outbox[i].status = "sent" => Outbox!IsPrimary(bubbles[outbox[i].id].at)
  BY <1>1, ItemBeingEdited, OutboxElements
<1>3. e \in 1..Len(bubbles) /\ ~Outbox!IsPrimary(bubbles[e].at)
  <2>1. e = mirrors[<<primary, at>>].bubble
    BY DEF Outbox!Mirror
  <2>2. MirrorsTyped /\ MirrorsAreThere
    BY MirrorsFit DEF MirrorsAreSound
  <2>3. /\ mirrors[<<primary, at>>] \in [bubble : 1..Len(bubbles), age : {"young",
             "uneditable", "ancient"}]
        /\ bubbles[mirrors[<<primary, at>>].bubble].at = at
    BY <1>1, <2>2 DEF MirrorsTyped, MirrorsAreThere
  <2> QED
    BY <1>1, <2>1, <2>3
<1> HIDE DEF e
<1>4. primary # e /\ \A i \in Items : outbox[i].status = "sent" => outbox[i].id # e
  BY <1>2, <1>3
<1>5. /\ bubbles' \in Seq(Bubbles) /\ Len(bubbles') = Len(bubbles)
      /\ IdsAreMessages' /\ MirrorsAreSound'
      /\ \A i, k : Copies(i, k)' = Copies(i, k)
      /\ \A b \in 1..Len(bubbles) :
           /\ bubbles'[b].item = bubbles[b].item /\ bubbles'[b].at = bubbles[b].at
           /\ b # e => bubbles'[b].version = bubbles[b].version
  <2>1. bubbles' \in {bubbles, Outbox!Shows(e)}
    BY <1>1
  <2> QED
    BY <1>1, <1>2, <1>3, <1>4, <2>1, BubblesEdited
<1>6. primary' \in 0..Len(bubbles') /\ Len(bubbles') =< MaxBubbles
  BY SMTT(30), <1>1, <1>2, <1>5
<1>7. WorkIsTrue'
  <2>1. \A k \in Outbox!Indices : k < at + 1 <=> k < at \/ k = at
    BY <1>1, ChannelIsNext
  <2>2. Shown' => Shown
    BY <1>1, <2>1 DEF Shown, Outbox!Indices, Outbox!IsPrimary
  <2> QED
    BY <1>1, <1>2, <1>4, <1>5, <2>2 DEF WorkIsTrue, Outbox!IsPrimary
<1>8. ASSUME NEW i \in Items, NEW k \in Outbox!Indices PROVE StaysExcused(i, k)
  BY <1>1, <1>5, NothingIsCopied
<1> QED
  BY <1>1, <1>2, <1>5, <1>6, <1>7, <1>8, ItemIsStillAtWork

LEMMA MirrorIsSentAgain ==
  ASSUME OutboxInv, Outbox!EditMirrorAfresh
  PROVE  OutboxInv'
<1> USE DEF OutboxInv
<1>1. /\ UNCHANGED <<route, outbox, batch, step, primary, verdict>> /\ at' = at + 1
      /\ step = "edit" /\ at \in Outbox!Indices /\ ~Outbox!IsPrimary(at)
         /\ Len(bubbles) < MaxBubbles
  BY DEF Outbox!EditMirrorAfresh
<1>2. /\ batch # <<>> /\ batch[1].item \in Items /\ batch[1] \in Claimed
      /\ primary \in 1..Len(bubbles) /\ Len(bubbles) \in Nat
      /\ verdict \in {"none", "sent", "failed"} /\ mishaps \in [Items -> Nat]
      /\ primary = batch[1].id
      /\ bubbles[primary].item = batch[1].item /\ Outbox!IsPrimary(bubbles[primary].at)
      /\ Shown => bubbles[primary].version = batch[1].version
  BY <1>1, ItemBeingEdited
<1>3. ASSUME NEW how \in {"edit", "late"}, bubbles' \in {bubbles, Outbox!Posted(how)},
             hitches' \in 0..MaxHitches, mishaps' = mishaps, MirrorsAreSound'
      PROVE  OutboxInv'
  <2>1. /\ bubbles' \in Seq(Bubbles) /\ Len(bubbles') \in Nat
        /\ Len(bubbles) =< Len(bubbles') /\ Len(bubbles') =< MaxBubbles
        /\ \A b \in 1..Len(bubbles) : b \in 1..Len(bubbles') /\ bubbles'[b] = bubbles[b]
        /\ IdsAreMessages'
        /\ \A i, k : Copies(i, k)' \subseteq Copies(i, k)
    <3>1. how \in {"send", "edit", "late"} /\ how # "send"
      OBVIOUS
    <3> QED
      BY <1>1, <1>2, <1>3, <3>1, BubblesGrow
  <2>2. primary' \in 0..Len(bubbles')
    BY <1>1, <1>2, <2>1
  <2>3. WorkIsTrue'
    <3>1. \A k \in Outbox!Indices : k < at + 1 <=> k < at \/ k = at
      BY <1>1, ChannelIsNext
    <3>2. Shown' => Shown
      BY <1>1, <3>1 DEF Shown, Outbox!Indices, Outbox!IsPrimary
    <3>3. bubbles'[primary] = bubbles[primary]
      BY <1>2, <2>1
    <3> QED
      BY <1>1, <1>2, <3>2, <3>3 DEF WorkIsTrue, Outbox!IsPrimary
  <2>4. ASSUME NEW i \in Items, NEW k \in Outbox!Indices PROVE StaysExcused(i, k)
    BY <1>1, <1>3, <2>1, NothingIsCopied
  <2> QED
    BY SMTT(30), <1>1, <1>2, <1>3, <2>1, <2>2, <2>3, <2>4, ItemIsStillAtWork
<1>4. \A n \in Nat : Outbox!Hitch(n, FALSE) => hitches' \in 0..MaxHitches /\ mishaps' = mishaps
  <2>1. FALSE \in BOOLEAN
    OBVIOUS
  <2> QED
    BY <1>2, <2>1, HitchCounts
<1> DEFINE tried == IF Outbox!Editable THEN 1 ELSE 0
<1>5. tried \in Nat /\ tried + 1 \in Nat
  OBVIOUS
<1>6. \/ /\ bubbles' = Outbox!Posted("edit") /\ Outbox!Remember(Len(bubbles) + 1)
         /\ Outbox!Hitch(tried, FALSE)
      \/ /\ bubbles' \in {bubbles, Outbox!Posted("late")} /\ mirrors' = mirrors
         /\ Outbox!Hitch(tried + 1, FALSE)
  BY DEF Outbox!EditMirrorAfresh
<1> HIDE DEF tried
<1>7. CASE /\ bubbles' = Outbox!Posted("edit") /\ Outbox!Remember(Len(bubbles) + 1)
           /\ Outbox!Hitch(tried, FALSE)
  <2>1. "edit" \in {"edit", "late"} /\ "edit" \in {"send", "edit"} /\ primary # 0
    BY <1>2
  <2>2. MirrorsAreSound'
    BY <1>1, <1>2, <1>7, <2>1, MirrorIsRemembered
  <2>3. hitches' \in 0..MaxHitches /\ mishaps' = mishaps
    BY <1>4, <1>5, <1>7
  <2>4. bubbles' \in {bubbles, Outbox!Posted("edit")}
    BY <1>7
  <2> QED
    BY <1>3, <2>1, <2>2, <2>3, <2>4
<1>8. CASE /\ bubbles' \in {bubbles, Outbox!Posted("late")} /\ mirrors' = mirrors
           /\ Outbox!Hitch(tried + 1, FALSE)
  <2>1. "late" \in {"edit", "late"} /\ "late" \in {"send", "edit", "late"}
    OBVIOUS
  <2>2. MirrorsAreSound'
    BY <1>1, <1>2, <1>8, <2>1, MirrorsStay
  <2>3. hitches' \in 0..MaxHitches /\ mishaps' = mishaps
    BY <1>4, <1>5, <1>8
  <2> QED
    BY <1>3, <1>8, <2>1, <2>2, <2>3
<1> QED
  BY <1>6, <1>7, <1>8

LEMMA OutboxMoves == OutboxInv /\ [Outbox!Next]_outboxvars => OutboxInv'
<1> SUFFICES ASSUME OutboxInv, [Outbox!Next]_outboxvars PROVE OutboxInv'
  OBVIOUS
<1>1. CASE Outbox!Next
  BY <1>1, TextIsRevised, MirrorsAge, WorkerIsReplaced, ItemsAreClaimed, ItemIsAcknowledged,
     ChannelIsPassed, LoopEnds, PrimaryIsSent, MirrorIsSent, PrimaryIsEdited, MirrorIsEdited,
     MirrorIsSentAgain DEF Outbox!Next
<1>2. CASE UNCHANGED outboxvars
  <2>1. /\ route' = route /\ outbox' = outbox /\ bubbles' = bubbles /\ batch' = batch
        /\ step' = step /\ at' = at /\ primary' = primary /\ verdict' = verdict
        /\ mirrors' = mirrors /\ hitches' = hitches /\ mishaps' = mishaps
    BY <1>2 DEF outboxvars
  <2>2. ClaimsAreCurrent' /\ IdsAreMessages' /\ WorkIsTrue' /\ MirrorsAreThere'
    BY <2>1 DEF OutboxInv, ClaimsAreCurrent, IdsAreMessages, WorkIsTrue, Shown, MirrorsAreThere,
                Outbox!Indices, Outbox!IsPrimary, Outbox!Routed
  <2>3. Outbox!TypeOK' /\ Outbox!MirrorIsNewest'
    BY <2>1 DEF OutboxInv, Outbox!TypeOK, Outbox!MirrorIsNewest, Outbox!Indices
  <2>4. CopiesAreExcused'
    <3>1. \A i, k : StaysExcused(i, k)
      BY <2>1 DEF StaysExcused, Copies, Spare, MayHavePosted, Outbox!IsPrimary
    <3> QED
      BY <2>1, <3>1, ExcusesStay
  <2> QED
    BY <2>2, <2>3, <2>4 DEF OutboxInv
<1> QED
  BY <1>1, <1>2

----------------------------------------------------------------------------
(* The health watch                                                        *)

LEMMA HealthBegins == Health!Init => HealthInv
  <1> SUFFICES ASSUME Health!Init PROVE HealthInv
    OBVIOUS
  <1>1. /\ deadFor \in Health!Never..DeadAfter /\ sinceNotify \in 0..MinNotify
        /\ upFor \in 0..Health!Long /\ downFor \in 0..Health!Long
        /\ ~(downFor > 0)
    BY ChecksAreCounted DEF Health!Init, Health!Never, Health!Long
  <1>2. Health!TypeOK
    BY <1>1 DEF Health!Init, Health!TypeOK
  <1> QED
    BY <1>1, <1>2, ChecksAreCounted DEF Health!Init, HealthInv, AlertIsRemembered, CooldownHolds,
       DownIsCounted

LEMMA HealthMoves == HealthInv /\ [Health!Next]_healthvars => HealthInv'
  <1> SUFFICES ASSUME HealthInv, [Health!Next]_healthvars
               PROVE  HealthInv'
    OBVIOUS
  <1>0. CASE UNCHANGED healthvars
    BY <1>0 DEF healthvars, HealthInv, Health!TypeOK, AlertIsRemembered, CooldownHolds,
                DownIsCounted
  <1>a. ASSUME NEW out \in BOOLEAN,
               Health!NotArmed(FALSE, out) \/ Health!FoundDown(out) \/ Health!FirstUp
               \/ Health!FoundUp
        PROVE  HealthInv'
    <2> USE <1>a DEF Health!NotArmed, Health!FoundDown, Health!FirstUp, Health!FoundUp,
         Health!Arms, Health!Sampled, Health!Silent, Health!Tell, Health!Since, Health!Least
    <2>0. /\ deadFor \in -1..DeadAfter /\ sinceNotify \in 0..MinNotify
          /\ upFor \in 0..Health!Long /\ downFor \in 0..Health!Long
      BY DEF HealthInv, Health!TypeOK, Health!Never
    <2>a. AlertIsRemembered /\ CooldownHolds /\ DownIsCounted
      BY DEF HealthInv
    <2>1. /\ deadFor' \in -1..DeadAfter /\ sinceNotify' \in 0..MinNotify
          /\ upFor' \in 0..Health!Long /\ downFor' \in 0..Health!Long
      BY <2>0, ChecksAreCounted DEF Health!Never, Health!Long
    <2>2. Health!TypeOK'
      <3>1. drained' \in BOOLEAN /\ armed' \in BOOLEAN /\ subject' \in Watched
        BY DEF HealthInv, Health!TypeOK, Health!StartsDrain
      <3>2. lastDead' \in BOOLEAN /\ alivePending' \in BOOLEAN
        BY DEF HealthInv, Health!TypeOK
      <3>3. told' \in {"nothing", "dead", "loggedOut", "alive"}
        BY DEF HealthInv, Health!TypeOK
      <3> QED
        BY <2>1, <3>1, <3>2, <3>3 DEF Health!TypeOK, Health!Never
    <2>3. AlertIsRemembered'
      BY <2>a DEF AlertIsRemembered
    <2>4. CooldownHolds'
      <3>1. CASE Health!FoundUp
        <4> HIDE DEF Health!Since, Health!Least
        <4>1. lastDead' => lastDead /\ ~(Health!Since >= MinNotify) /\ sinceNotify' = Health!Since
          BY <2>a, <3>1 DEF AlertIsRemembered
        <4>2. upFor' = Health!Least(upFor + 1, Health!Long)
          BY <3>1
        <4> USE DEF Health!Since, Health!Least
        <4> QED
          BY <2>0, <2>1, <2>a, <4>1, <4>2, ChecksAreCounted DEF CooldownHolds, Health!Long
      <3>2. CASE Health!FoundDown(out)
        BY <2>1, <3>2, ChecksAreCounted DEF CooldownHolds
      <3>3. CASE Health!FirstUp \/ Health!NotArmed(FALSE, out)
        BY <2>0, <2>a, <3>3, ChecksAreCounted DEF CooldownHolds, AlertIsRemembered
      <3> QED
        BY <3>1, <3>2, <3>3
    <2>5. DownIsCounted'
      BY <2>0, <2>a, ChecksAreCounted DEF DownIsCounted, Health!Never, Health!Long
    <2>6. (downFor > DeadAfter /\ downFor >= MinNotify => lastDead)'
      BY <2>0, <2>a, ChecksAreCounted DEF DownIsCounted, Health!Never, Health!Long
    <2> QED
      BY <2>2, <2>3, <2>4, <2>5, <2>6 DEF HealthInv
  <1> QED
    BY <1>0, <1>a DEF Health!Next

LEMMA HealthHolds == HealthInv => Health!LastAlertIsTrue
  <1> SUFFICES ASSUME HealthInv PROVE Health!LastAlertIsTrue
    OBVIOUS
  <1>1. upFor \in 0..Health!Long /\ sinceNotify \in 0..MinNotify
    BY DEF HealthInv, Health!TypeOK
  <1> QED
    BY <1>1, ChecksAreCounted DEF HealthInv, AlertIsRemembered, CooldownHolds,
       Health!LastAlertIsTrue

----------------------------------------------------------------------------
(* The live message                                                        *)

LEMMA LiveBegins == Live!Init => LiveInv
<1> SUFFICES ASSUME Live!Init PROVE LiveInv
  OBVIOUS
<1>1. script \in Seq({"delta", "tool"})
  <2>1. script \in Scripts \/ script = <<>>
    BY DEF Live!Init
  <2> QED
    BY <2>1, EmptySeq, ScriptsAreReports
<1>2. signals = <<>> /\ signals \in Seq(Live!Signals) /\ Len(signals) = 0
  BY EmptySeq DEF Live!Init
<1>3. dots \in 0..MaxDots
  BY ScriptsAreReports DEF Live!Init
<1>4. Live!TypeOK
  <2>1. call \in Nat /\ Len(signals) =< QueueSize
    BY <1>2, ScriptsAreReports DEF Live!Init
  <2>2. justReset \in BOOLEAN /\ lostReset \in BOOLEAN /\ late \in BOOLEAN
    BY DEF Live!Init
  <2> QED
    BY <1>1, <1>2, <1>3, <2>1, <2>2 DEF Live!Init, Live!TypeOK
<1> QED
  BY <1>2, <1>4
  DEF Live!Init, LiveInv, SignalsFollow, PreviewIsCurrent, NoneIsLate

\* The turn reports to the renderer.
LEMMA LiveFeeds == LiveInv /\ Live!Feed => LiveInv'
<1> SUFFICES ASSUME LiveInv, Live!Feed PROVE LiveInv'
  OBVIOUS
<1> DEFINE s == [kind |-> Head(script), call |-> call]
           n == Len(signals)
<1>1. /\ script # <<>> /\ script \in Seq({"delta", "tool"}) /\ call \in Nat
      /\ signals \in Seq(Live!Signals) /\ n \in Nat /\ n =< QueueSize
      /\ lostReset \in BOOLEAN
  BY DEF LiveInv, Live!Feed, Live!TypeOK
<1>2. /\ s \in Live!Signals /\ s.kind = Head(script) /\ s.call = call
      /\ script' \in Seq({"delta", "tool"})
  BY <1>1 DEF Live!Signals, Live!Feed
<1>3. /\ call' = After(s) /\ call' \in Nat
      /\ UNCHANGED <<platform, turn, reply, renderer, preview, justReset, edit, dots, shown, late>>
      /\ turn = "running"
  BY <1>1, <1>2 DEF Live!Feed, After
<1>4. CASE n < QueueSize
  <2>1. signals' = Append(signals, s) /\ lostReset' = lostReset
    BY <1>4 DEF Live!Feed
  <2> HIDE DEF s
  <2>2. /\ signals' \in Seq(Live!Signals) /\ Len(signals') = n + 1 /\ signals'[n + 1] = s
        /\ \A i \in 1..n : signals'[i] = signals[i]
    BY <2>1, <1>1, <1>2
  <2>3. Live!TypeOK'
    BY <1>1, <1>2, <1>3, <1>4, <2>1, <2>2, ScriptsAreReports DEF LiveInv, Live!TypeOK
  <2>4. SignalsFollow'
    <3> SUFFICES ASSUME ~lostReset, NEW i \in 1..(n + 1)
                 PROVE  After(signals'[i]) = IF i = n + 1 THEN call' ELSE signals'[i + 1].call
      BY <2>1, <2>2 DEF SignalsFollow, After
    <3>1. CASE i = n + 1
      BY <3>1, <2>2, <1>3
    <3>2. CASE i = n
      BY <3>2, <2>2, <1>1, <1>2 DEF LiveInv, SignalsFollow
    <3>3. CASE i \in 1..(n - 1)
      BY <3>3, <2>2, <1>1 DEF LiveInv, SignalsFollow
    <3> QED
      BY <3>1, <3>2, <3>3, <1>1
  <2>5. PreviewIsCurrent'
    <3>0. signals' # <<>> /\ (signals = <<>> => n = 0) /\ (signals # <<>> => 1 \in 1..n)
      BY <2>2, <1>1, EmptySeq
    <3>1. Expected' = Expected
      <4>1. CASE signals = <<>>
        <5>1. signals'[1] = s
          BY <3>0, <4>1, <2>2
        <5> QED
          BY <3>0, <4>1, <5>1, <1>2, <1>3, Zenon DEF Expected
      <4>2. CASE signals # <<>>
        <5>1. signals'[1] = signals[1]
          BY <3>0, <4>2, <2>2
        <5> QED
          BY <3>0, <4>2, <5>1, Zenon DEF Expected
      <4> QED
        BY <4>1, <4>2
    <3> QED
      BY <3>1, <2>1, <1>3 DEF LiveInv, PreviewIsCurrent
  <2> QED
    BY <2>3, <2>4, <2>5, <1>3 DEF LiveInv, NoneIsLate
<1>5. CASE ~(n < QueueSize)
  <2>1. signals' = signals /\ lostReset' = (lostReset \/ s.kind = "tool")
    BY <1>5 DEF Live!Feed
  <2>2. lostReset' \in BOOLEAN
    BY <2>1
  <2>3. ~lostReset' => ~lostReset /\ call' = call
    BY <2>1, <1>2, <1>3 DEF After
  <2> HIDE DEF s
  <2>4. Live!TypeOK'
    BY <1>1, <1>2, <1>3, <2>1, <2>2 DEF LiveInv, Live!TypeOK
  <2>5. SignalsFollow'
    BY <2>1, <2>3 DEF LiveInv, SignalsFollow, After
  <2>6. PreviewIsCurrent'
    BY <2>1, <2>3, <1>3 DEF LiveInv, PreviewIsCurrent, Expected
  <2> QED
    BY <2>4, <2>5, <2>6, <1>3 DEF LiveInv, NoneIsLate
<1> QED
  BY <1>4, <1>5

\* The turn ends, in one way or another.
LEMMA LiveEnds ==
  LiveInv /\ (Live!Stop \/ Live!Replace \/ Live!Delete \/ Live!Resend) => LiveInv'
<1> SUFFICES ASSUME LiveInv, Live!Stop \/ Live!Replace \/ Live!Delete \/ Live!Resend
             PROVE  LiveInv'
  OBVIOUS
<1>1. /\ UNCHANGED <<platform, call, signals, renderer, preview, justReset, edit, dots, lostReset>>
      /\ script' = <<>> \/ script' = script
  BY DEF Live!Stop, Live!Replace, Live!Delete, Live!Resend
<1>0. script' \in Seq({"delta", "tool"})
  BY <1>1, EmptySeq DEF LiveInv, Live!TypeOK
<1>2. /\ turn' \in {"replace", "delete", "resend", "replaced", "resent", "over"}
      /\ reply' \in {"short", "long", "none"} /\ late' \in BOOLEAN
  <2>1. CASE Live!Stop
    BY <2>1 DEF Live!Stop, LiveInv, Live!TypeOK
  <2>2. CASE Live!Replace
    BY <2>2 DEF LiveInv, Live!TypeOK, Live!Replace
  <2>3. CASE Live!Delete
    BY <2>3 DEF LiveInv, Live!TypeOK, Live!Delete
  <2>4. CASE Live!Resend
    BY <2>4 DEF LiveInv, Live!TypeOK, Live!Resend
  <2> QED
    BY <2>1, <2>2, <2>3, <2>4
<1>3. Live!TypeOK'
  BY <1>0, <1>1, <1>2 DEF LiveInv, Live!TypeOK
<1>4. SignalsFollow' /\ PreviewIsCurrent'
  BY <1>1 DEF LiveInv, SignalsFollow, PreviewIsCurrent, Expected, After
<1>5. NoneIsLate'
  BY <1>1 DEF LiveInv, NoneIsLate, Live!Stop, Live!Replace, Live!Delete, Live!Resend
<1> QED
  BY <1>3, <1>4, <1>5 DEF LiveInv

\* The renderer takes the next signal.
LEMMA LiveRenders == LiveInv /\ Live!Render => LiveInv'
<1> SUFFICES ASSUME LiveInv, Live!Render PROVE LiveInv'
  OBVIOUS
<1> DEFINE n == Len(signals)
           s == signals[1]
<1>1. /\ signals \in Seq(Live!Signals) /\ n \in Nat /\ n > 0 /\ signals # <<>>
      /\ Head(signals) = s /\ s \in Live!Signals
      /\ signals' \in Seq(Live!Signals) /\ Len(signals') = n - 1
      /\ \A i \in 1..(n - 1) : signals'[i] = signals[i + 1]
      /\ renderer = "select"
  BY DEF LiveInv, Live!TypeOK, Live!Render, Live!Selects
<1>2. /\ UNCHANGED <<platform, script, call, turn, reply, dots, shown, lostReset>>
      /\ renderer' \in {"select", "editing"}
      /\ justReset' = (s.kind = "tool")
      /\ preview' = IF s.kind = "tool" \/ justReset THEN {s} ELSE preview \cup {s}
      /\ UNCHANGED <<renderer, late>> \/ late' = (late \/ turn = "replaced")
  BY <1>1 DEF Live!Render, Live!Flush, Live!EditBegins
<1>3. s.kind \in {"delta", "tool"} /\ s.call \in Nat /\ call \in Nat
      /\ s = [kind |-> s.kind, call |-> s.call]
  BY <1>1 DEF Live!Signals, LiveInv, Live!TypeOK
<1>4. Live!TypeOK'
  <2>1. justReset' \in BOOLEAN
    BY <1>2
  <2>2. Len(signals') =< QueueSize
    BY <1>1, ScriptsAreReports DEF LiveInv, Live!TypeOK
  <2>3. late' \in BOOLEAN
    BY <1>2 DEF LiveInv, Live!TypeOK
  <2> QED
    BY <1>1, <1>2, <2>1, <2>2, <2>3 DEF LiveInv, Live!TypeOK
<1>5. SignalsFollow'
  <2> SUFFICES ASSUME ~lostReset, NEW i \in 1..(n - 1)
               PROVE  After(signals'[i]) =
                        IF i = n - 1 THEN call ELSE signals'[i + 1].call
    BY <1>1, <1>2 DEF SignalsFollow, After
  <2>1. i + 1 \in 1..n /\ signals'[i] = signals[i + 1]
    BY <1>1
  <2>2. After(signals[i + 1]) = IF i + 1 = n THEN call ELSE signals[i + 1 + 1].call
    BY <2>1 DEF LiveInv, SignalsFollow
  <2>3. i # n - 1 => signals'[i + 1] = signals[i + 1 + 1]
    BY <1>1
  <2> QED
    BY <2>1, <2>2, <2>3, <1>1
<1>6. PreviewIsCurrent'
  <2> SUFFICES ASSUME ~lostReset
               PROVE  IF justReset' THEN \E a \in preview' : preview' = {a}
                      ELSE \A a \in preview' : a = [kind |-> "delta", call |-> Expected']
    BY <1>2 DEF PreviewIsCurrent
  <2>1. Expected' = After(s)
    <3>1. After(s) = IF n = 1 THEN call ELSE signals[2].call
      BY <1>1 DEF LiveInv, SignalsFollow
    <3>2. CASE n = 1
      BY <3>1, <3>2, <1>1, <1>2 DEF Expected
    <3>3. CASE n # 1
      <4>1. signals' # <<>> /\ signals'[1] = signals[2]
        BY <3>3, <1>1
      <4> QED
        BY <4>1, <3>1, <3>3 DEF Expected
    <3> QED
      BY <3>2, <3>3
  <2>2. CASE s.kind = "tool"
    BY <2>2, <1>2
  <2>3. CASE s.kind = "delta"
    <3>1. ~justReset' /\ Expected' = s.call
      BY <2>1, <2>3, <1>2 DEF After
    <3>2. ~justReset => \A a \in preview : a = s
      BY <2>3, <1>1, <1>3 DEF LiveInv, PreviewIsCurrent, Expected
    <3>3. \A a \in preview' : a = s
      BY <3>2, <2>3, <1>2
    <3> QED
      BY <3>1, <3>3, <2>3, <1>3
  <2> QED
    BY <2>2, <2>3, <1>3
<1>7. NoneIsLate'
  <2> SUFFICES ASSUME turn' = "replaced", ~late'
               PROVE  renderer' # "editing" /\ shown' = Live!Only("answer")
    BY Zenon DEF NoneIsLate, Live!Only
  <2>1. late \in BOOLEAN /\ turn = "replaced" /\ shown' = shown
    BY <1>2 DEF LiveInv, Live!TypeOK
  <2>2. UNCHANGED <<renderer, late>>
    BY <1>2, <2>1
  <2> QED
    BY <1>1, <2>1, <2>2 DEF LiveInv, NoneIsLate
<1> QED
  BY <1>4, <1>5, <1>6, <1>7 DEF LiveInv

\* The renderer shows what it has, or sees that it is stopped.
LEMMA LiveShows ==
  LiveInv /\ (Live!Tick \/ Live!Dot \/ Live!EditReturns \/ Live!StopSeen) => LiveInv'
<1> SUFFICES ASSUME LiveInv, Live!Tick \/ Live!Dot \/ Live!EditReturns \/ Live!StopSeen
             PROVE  LiveInv'
  OBVIOUS
<1> USE DEF Live!Tick, Live!Dot, Live!EditReturns, Live!StopSeen, Live!Flush, Live!Selects
<1>1. /\ UNCHANGED <<platform, script, call, turn, reply, signals, preview, justReset,
                     lostReset>>
      /\ renderer' \in {"select", "editing", "gone"} /\ late' \in BOOLEAN
  BY DEF LiveInv, Live!TypeOK, Live!EditBegins
<1>2. dots' \in 0..MaxDots
  BY ScriptsAreReports DEF LiveInv, Live!TypeOK
<1>3. SignalsFollow' /\ PreviewIsCurrent'
  BY <1>1 DEF LiveInv, SignalsFollow, PreviewIsCurrent, Expected, After
<1>4. NoneIsLate'
  BY <1>1 DEF LiveInv, NoneIsLate, Live!EditBegins
<1>6. Live!TypeOK'
  BY <1>1, <1>2 DEF LiveInv, Live!TypeOK
<1> QED
  BY <1>3, <1>4, <1>6 DEF LiveInv

LEMMA LiveMoves == LiveInv /\ [Live!Next]_livevars => LiveInv'
<1>1. ASSUME LiveInv, UNCHANGED livevars PROVE LiveInv'
  BY <1>1
  DEF livevars, LiveInv, Live!TypeOK, SignalsFollow, PreviewIsCurrent, NoneIsLate,
      Expected, After, Live!Only
<1> QED
  BY <1>1, LiveFeeds, LiveEnds, LiveRenders, LiveShows DEF Live!Next

LEMMA LiveHolds == LiveInv => Live!PreviewIsOneCall /\ Live!AnswerStays
BY DEF LiveInv, PreviewIsCurrent, NoneIsLate, Live!PreviewIsOneCall, Live!AnswerStays

----------------------------------------------------------------------------
(* The pollers of the feeds                                                *)

LEMMA NewsElements ==
  ASSUME NewsInv
  PROVE  /\ todo \in Seq(Articles) /\ Len(todo) \in Nat
         /\ slips \in Nat /\ slips =< MaxSlips /\ MaxSlips \in Nat /\ MaxPerDay \in Nat
         /\ Len(Channels) \in Nat /\ channel \in Nat
         /\ stage # "idle" =>
              /\ todo # <<>> /\ Len(todo) > 0 /\ News!Article \in Articles
              /\ News!Article = todo[1]
              /\ Tail(todo) \in Seq(Articles) /\ Len(Tail(todo)) = Len(todo) - 1
              /\ \A k \in 1..(Len(todo) - 1) : Tail(todo)[k] = todo[k + 1]
<1>1. /\ todo \in Seq(Articles) /\ Len(todo) \in Nat /\ slips \in Nat /\ slips =< MaxSlips
      /\ Len(Channels) \in Nat /\ MaxSlips \in Nat /\ MaxPerDay \in Nat
  BY ArticlesAreNamed DEF NewsInv, News!TypeOK
<1>2. channel \in Nat
  BY <1>1 DEF NewsInv, News!TypeOK
<1>3. ASSUME stage # "idle"
      PROVE  /\ todo # <<>> /\ Len(todo) > 0 /\ News!Article \in Articles
             /\ News!Article = todo[1]
             /\ Tail(todo) \in Seq(Articles) /\ Len(Tail(todo)) = Len(todo) - 1
             /\ \A k \in 1..(Len(todo) - 1) : Tail(todo)[k] = todo[k + 1]
  <2>1. todo # <<>>
    BY <1>3 DEF NewsInv, News!TypeOK
  <2> QED
    BY <2>1, <1>1 DEF News!Article
<1> QED
  BY <1>1, <1>2, <1>3

\* A slip is one more, and never too many.
LEMMA NewsSlips ==
  ASSUME NewsInv, NEW n \in {1, 2}, News!Slip(n)
  PROVE  slips' = slips + n /\ slips' \in 0..MaxSlips /\ slips' # 0
BY NewsElements DEF News!Slip

\* How a share is used, and used up.
LEMMA SharesUsed ==
  ASSUME NEW d \in Nat, NEW g \in Nat, NEW s \in Nat, WithinShare(d, g, s)
  PROVE  /\ g =< MaxPerDay + s
         /\ WithinShare(d, g, s + 1) /\ WithinShare(d, g + 1, s + 1)
         /\ WithinShare(d, g + 1, s + 2) /\ WithinShare(d, g, s + 2)
         /\ WithinShare(d + 1, g, s + 1) /\ WithinShare(d + 1, g + 1, s + 1)
         /\ d < MaxPerDay => WithinShare(d + 1, g + 1, s) /\ WithinShare(d + 1, g, s)
BY ArticlesAreNamed DEF WithinShare

\* Where nothing is had or counted, the shares stay.
LEMMA SharesStay ==
  ASSUME NewsInv, UNCHANGED <<poller, deliveries, gotToday>>,
         slips' = slips \/ slips' = slips + 1
  PROVE  SharesAdd'
<1>1. \A t \in News!Targets :
        deliveries[t] \in Nat /\ gotToday[t] \in Nat /\ slips \in Nat
  BY NewsElements, ArticlesAreNamed DEF NewsInv, News!TypeOK
<1>2. CASE slips' = slips
  BY <1>2 DEF NewsInv, SharesAdd
<1>3. CASE slips' = slips + 1
  <2>1. poller = "tech" =>
          \A t \in News!Targets : WithinShare(deliveries[t], gotToday[t], slips + 1)
    BY <1>1, SharesUsed DEF NewsInv, SharesAdd
  <2> QED
    BY <2>1, <1>3 DEF SharesAdd
<1> QED
  BY <1>2, <1>3

LEMMA NewsBegins == News!Init => NewsInv
<1> SUFFICES ASSUME News!Init PROVE NewsInv
  OBVIOUS
<1>1. /\ poller \in Pollers /\ stage = "idle" /\ channel = 1 /\ day = 1 /\ slips = 0
      /\ published = {} /\ settled = {} /\ history = {} /\ known = {} /\ titles = {}
      /\ todo = <<>> /\ todo \in Seq(Articles)
      /\ deliveries = [t \in News!Targets |-> 0] /\ gotToday = [t \in News!Targets |-> 0]
      /\ got = [t \in News!Targets |-> {}]
  BY EmptySeq DEF News!Init
<1>2. WithinShare(0, 0, 0)
  BY ArticlesAreNamed DEF WithinShare
<1>3. News!TypeOK
  BY <1>1, ArticlesAreNamed DEF News!TypeOK
<1>4. SharesAdd
  BY <1>1, <1>2 DEF SharesAdd
<1> QED
  BY <1>1, <1>3, <1>4 DEF NewsInv, PassIsSound, ReachedSoFar, NewFeedIsSettled, OneOfATitle,
     News!SettledIsDelivered, News!NoTitles

\* The feed shows another article.
LEMMA NewsPublish ==
  ASSUME NewsInv, NEW a \in Articles, News!Publish(a)
  PROVE  NewsInv'
<1>1. /\ published' = published \cup {a}
      /\ UNCHANGED <<poller, history, settled, stage, day, slips, todo, known, titles, channel,
                     deliveries, got, gotToday>>
  BY DEF News!Publish, News!passvars, News!worldvars
<1>2. News!TypeOK'
  BY <1>1 DEF NewsInv, News!TypeOK
<1> QED
  BY <1>1, <1>2 DEF NewsInv, PassIsSound, ReachedSoFar, SharesAdd, NewFeedIsSettled, OneOfATitle,
     News!SettledIsDelivered, News!Article, News!ByTitle

\* A new day has new shares.
LEMMA NewsNextDay == NewsInv /\ News!NextDay => NewsInv'
<1> SUFFICES ASSUME NewsInv, News!NextDay PROVE NewsInv'
  OBVIOUS
<1>1. /\ day < MaxDays /\ day' = day + 1
      /\ deliveries' = [t \in News!Targets |-> 0] /\ gotToday' = [t \in News!Targets |-> 0]
      /\ UNCHANGED <<poller, published, history, settled, stage, slips, got, todo, known, titles,
                     channel>>
  BY DEF News!NextDay, News!passvars
<1>2. day' \in 1..MaxDays
  BY <1>1, ArticlesAreNamed DEF NewsInv, News!TypeOK
<1>3. News!TypeOK'
  BY <1>1, <1>2, ArticlesAreNamed DEF NewsInv, News!TypeOK
<1>4. SharesAdd'
  <2>1. WithinShare(0, 0, slips)
    BY NewsElements DEF WithinShare
  <2> QED
    BY <1>1, <2>1 DEF SharesAdd
<1> QED
  BY <1>1, <1>3, <1>4 DEF NewsInv, PassIsSound, ReachedSoFar, NewFeedIsSettled, OneOfATitle,
     News!SettledIsDelivered, News!Article, News!ByTitle

\* After a slip there is nothing to say of the pollers that do not slip.
LEMMA NewsSlipped ==
  ASSUME slips' # 0
  PROVE  NewFeedIsSettled' /\ OneOfATitle'
BY DEF NewFeedIsSettled, OneOfATitle

\* The process is replaced.
LEMMA NewsRestart == NewsInv /\ News!Restart => NewsInv'
<1> SUFFICES ASSUME NewsInv, News!Restart PROVE NewsInv'
  OBVIOUS
<1>1. /\ stage' = "idle" /\ todo' = <<>> /\ known' = {} /\ titles' = {} /\ channel' = 1
      /\ UNCHANGED <<poller, published, history, day, settled, deliveries, got, gotToday>>
  BY DEF News!Restart, News!feedvars, News!worldvars
<1>2. slips' = slips + 1 /\ slips' \in 0..MaxSlips /\ slips' # 0
  BY NewsSlips DEF News!Restart
<1>3. News!TypeOK'
  <2>1. todo' \in Seq(Articles) /\ channel' \in 1..(Len(Channels) + 1)
    BY <1>1, EmptySeq, ArticlesAreNamed
  <2> QED
    BY <1>1, <1>2, <2>1 DEF NewsInv, News!TypeOK
<1>4. SharesAdd'
  BY <1>1, <1>2, SharesStay
<1>5. PassIsSound' /\ ReachedSoFar' /\ News!SettledIsDelivered'
  BY <1>1 DEF NewsInv, PassIsSound, ReachedSoFar, News!SettledIsDelivered, News!ByTitle
<1> QED
  BY <1>2, <1>3, <1>4, <1>5, NewsSlipped DEF NewsInv

\* A pass has the articles that it looks at, and all of them.
LEMMA PassHasArticles ==
  ASSUME NewsInv, NEW S \in SUBSET Articles, S # {}, NEW q \in News!InOrder(S)
  PROVE  q \in Seq(Articles) /\ q # <<>> /\ \A a \in S : \E k \in 1..Len(q) : q[k] = a
<1> DEFINE n == Cardinality(S)
<1>1. \A U : News!Cardinality(U) = Cardinality(U)
  BY DEF Cardinality, News!Cardinality
<1>2. n \in Nat
  BY FS_Subset, FS_CardinalityType, ArticlesAreNamed
<1>3. q \in [1..n -> S] /\ \A a \in S : \E k \in 1..n : q[k] = a
  BY <1>1, Zenon DEF News!InOrder
<1> HIDE DEF n
<1> QED
  BY <1>2, <1>3

\* The feed is read.
LEMMA NewsFetch == NewsInv /\ News!Fetch => NewsInv'
<1> SUFFICES ASSUME NewsInv, News!Fetch PROVE NewsInv'
  OBVIOUS
<1>1. PICK S \in (SUBSET {a \in published : News!Fits(a)}) \ {{}} :
        /\ S # {a \in published : News!Fits(a)} => News!Slip(1)
        /\ S = {a \in published : News!Fits(a)} => UNCHANGED slips
        /\ todo' \in News!InOrder(S)
        /\ history' = IF settled = {} THEN S ELSE history
  BY DEF News!Fetch
<1>2. /\ stage = "idle" /\ stage' = IF poller = "tech" THEN "baseline" ELSE "ask"
      /\ UNCHANGED <<poller, published, day, settled, known, titles, channel, deliveries, got,
                     gotToday>>
  BY DEF News!Fetch, News!worldvars
<1>3. S \in SUBSET Articles /\ S # {}
  BY DEF NewsInv, News!TypeOK
<1>4. todo' \in Seq(Articles) /\ todo' # <<>> /\ \A a \in S : \E k \in 1..Len(todo') : todo'[k] = a
  BY <1>1, <1>3, PassHasArticles
<1>5. \/ slips' = slips
      \/ slips' = slips + 1 /\ slips' \in 0..MaxSlips /\ slips' # 0
  BY <1>1, NewsSlips
<1>6. News!TypeOK'
  <2>1. history' \subseteq Articles
    BY <1>1, <1>3 DEF NewsInv, News!TypeOK
  <2>2. slips' \in 0..MaxSlips
    BY <1>5 DEF NewsInv, News!TypeOK
  <2> QED
    BY <1>2, <1>4, <2>1, <2>2 DEF NewsInv, News!TypeOK
<1>7. SharesAdd'
  BY <1>2, <1>5, SharesStay
<1>8. PassIsSound' /\ ReachedSoFar' /\ News!SettledIsDelivered'
  BY <1>2 DEF NewsInv, PassIsSound, ReachedSoFar, News!SettledIsDelivered, News!ByTitle
<1>9. CASE slips' = slips
  <2>1. NewFeedIsSettled'
    BY <1>1, <1>2, <1>3, <1>4, <1>9 DEF NewsInv, NewFeedIsSettled
  <2>2. OneOfATitle'
    BY <1>2, <1>9 DEF NewsInv, OneOfATitle, News!ByTitle
  <2> QED
    BY <2>1, <2>2, <1>6, <1>7, <1>8 DEF NewsInv
<1>10. CASE slips' # 0
  BY <1>6, <1>7, <1>8, <1>10, NewsSlipped DEF NewsInv
<1> QED
  BY <1>5, <1>9, <1>10

\* The news find out whether the feed is new.
LEMMA NewsBaseline == NewsInv /\ News!Baseline => NewsInv'
<1> SUFFICES ASSUME NewsInv, News!Baseline PROVE NewsInv'
  OBVIOUS
<1>1. /\ stage = "baseline" /\ poller = "tech"
      /\ UNCHANGED <<poller, published, history, day, settled, todo, known, titles, channel,
                     deliveries, got, gotToday>>
  BY DEF News!Baseline, News!feedvars, News!passvars, News!worldvars, NewsInv, PassIsSound
<1>2. stage' \in {"seed", "ask"}
  BY DEF News!Baseline
<1>3. \/ slips' = slips /\ stage' = (IF settled = {} THEN "seed" ELSE "ask")
      \/ slips' = slips + 1 /\ slips' \in 0..MaxSlips /\ slips' # 0
  BY NewsSlips DEF News!Baseline
<1>4. News!TypeOK'
  <2>1. slips' \in 0..MaxSlips
    BY <1>3 DEF NewsInv, News!TypeOK
  <2> QED
    BY <1>1, <1>2, <2>1 DEF NewsInv, News!TypeOK
<1>5. SharesAdd'
  BY <1>1, <1>3, SharesStay
<1>6. PassIsSound' /\ ReachedSoFar' /\ News!SettledIsDelivered'
  BY <1>1, <1>2 DEF NewsInv, PassIsSound, ReachedSoFar, News!SettledIsDelivered, News!ByTitle
<1>7. CASE slips' = slips /\ stage' = (IF settled = {} THEN "seed" ELSE "ask")
  <2>1. NewFeedIsSettled'
    BY <1>1, <1>7 DEF NewsInv, NewFeedIsSettled
  <2>2. OneOfATitle'
    BY <1>1, <1>7 DEF NewsInv, OneOfATitle, News!ByTitle
  <2> QED
    BY <2>1, <2>2, <1>4, <1>5, <1>6 DEF NewsInv
<1>8. CASE slips' # 0
  BY <1>4, <1>5, <1>6, <1>8, NewsSlipped DEF NewsInv
<1> QED
  BY <1>3, <1>7, <1>8

\* What a new feed has is settled, article by article.
LEMMA NewsSeed == NewsInv /\ News!Seed => NewsInv'
<1> SUFFICES ASSUME NewsInv, News!Seed PROVE NewsInv'
  OBVIOUS
<1>1. /\ stage = "seed" /\ poller = "tech" /\ todo' = Tail(todo)
      /\ stage' = IF todo' = <<>> THEN "idle" ELSE "seed"
      /\ UNCHANGED <<poller, published, history, day, known, titles, channel, deliveries, got,
                     gotToday>>
  BY DEF News!Seed, News!feedvars, News!worldvars, NewsInv, PassIsSound
<1>2. \/ slips' = slips /\ settled' = settled \cup {News!Article.guid}
      \/ slips' = slips + 1 /\ slips' \in 0..MaxSlips /\ slips' # 0 /\ settled' = settled
  BY NewsSlips DEF News!Seed
<1>3. /\ News!Article \in Articles /\ News!Article = todo[1] /\ todo' \in Seq(Articles)
      /\ Len(todo) \in Nat /\ Len(todo') = Len(todo) - 1
      /\ \A k \in 1..(Len(todo) - 1) : todo'[k] = todo[k + 1]
  BY <1>1, NewsElements
<1>4. News!TypeOK'
  <2>1. slips' \in 0..MaxSlips
    BY <1>2 DEF NewsInv, News!TypeOK
  <2>2. settled' \cup known' \subseteq {a.guid : a \in Articles}
    BY <1>1, <1>2, <1>3 DEF NewsInv, News!TypeOK
  <2> QED
    BY <1>1, <1>3, <2>1, <2>2 DEF NewsInv, News!TypeOK
<1>5. SharesAdd'
  BY <1>1, <1>2, SharesStay
<1>6. PassIsSound' /\ ReachedSoFar' /\ News!SettledIsDelivered'
  BY <1>1, <1>2 DEF NewsInv, PassIsSound, ReachedSoFar, News!SettledIsDelivered
<1>7. CASE slips' = slips /\ settled' = settled \cup {News!Article.guid}
  <2>1. slips = 0 => \A a \in history :
          a.guid \in settled' \/ (stage' = "seed" /\ \E k \in 1..Len(todo') : todo'[k] = a)
    <3> SUFFICES ASSUME slips = 0, NEW a \in history, a.guid \notin settled'
                 PROVE  stage' = "seed" /\ \E k \in 1..Len(todo') : todo'[k] = a
      OBVIOUS
    <3>1. PICK k \in 1..Len(todo) : todo[k] = a
      BY <1>1, <1>7 DEF NewsInv, NewFeedIsSettled
    <3>2. k # 1
      BY <3>1, <1>3, <1>7
    <3>3. k - 1 \in 1..Len(todo') /\ todo'[k - 1] = a
      BY <3>1, <3>2, <1>3
    <3> QED
      BY <3>3, <1>1, <1>3
  <2>2. NewFeedIsSettled'
    BY <2>1, <1>1, <1>7 DEF NewsInv, NewFeedIsSettled
  <2>3. OneOfATitle'
    BY <1>1 DEF OneOfATitle, News!ByTitle
  <2> QED
    BY <2>2, <2>3, <1>4, <1>5, <1>6 DEF NewsInv
<1>8. CASE slips' # 0
  BY <1>4, <1>5, <1>6, <1>8, NewsSlipped DEF NewsInv
<1> QED
  BY <1>2, <1>7, <1>8

\* The table says what is settled, and under which titles.
LEMMA NewsAsk == NewsInv /\ News!Ask => NewsInv'
<1> SUFFICES ASSUME NewsInv, News!Ask PROVE NewsInv'
  OBVIOUS
<1> DEFINE T == {a.title : a \in {b \in Articles : News!ByTitle /\ b.guid \in settled}}
<1>1. /\ stage = "ask"
      /\ UNCHANGED <<poller, published, history, day, settled, channel, deliveries, got, gotToday>>
  BY DEF News!Ask, News!feedvars, News!worldvars
<1>2. \/ /\ known' = settled /\ stage' = "article" /\ todo' = todo
         /\ \/ titles' = T /\ slips' = slips
            \/ titles' = News!NoTitles /\ slips' = slips + 1 /\ slips' \in 0..MaxSlips /\ slips' # 0
      \/ /\ slips' = slips + 1 /\ slips' \in 0..MaxSlips /\ slips' # 0
         /\ stage' = "idle" /\ todo' = <<>> /\ known' = known /\ titles' = titles
  BY NewsSlips DEF News!Ask
<1>3. T \subseteq {a.title : a \in Articles} /\ T # News!NoTitles
  BY ArticlesAreNamed DEF News!NoTitles
<1>4. poller # "tech" => \A x \in T : \E b \in Articles :
        b.title = x /\ \A t \in News!Targets : b \in got[t]
  BY DEF NewsInv, News!SettledIsDelivered, News!ByTitle
<1>5. News!ByTitle => \A a \in Articles : a.guid \in settled => a.title \in T
  OBVIOUS
<1> HIDE DEF T
<1>6. News!TypeOK'
  <2>1. slips' \in 0..MaxSlips
    BY <1>2 DEF NewsInv, News!TypeOK
  <2>2. settled' \cup known' \subseteq {a.guid : a \in Articles}
    BY <1>1, <1>2 DEF NewsInv, News!TypeOK
  <2>3. titles' = News!NoTitles \/ titles' \subseteq {a.title : a \in Articles}
    BY <1>2, <1>3 DEF NewsInv, News!TypeOK
  <2>4. todo' \in Seq(Articles) /\ (stage' = "idle" <=> todo' = <<>>)
    BY <1>1, <1>2, NewsElements, EmptySeq
  <2>5. stage' \in {"article", "idle"}
    BY <1>2
  <2> QED
    BY <1>1, <2>1, <2>2, <2>3, <2>4, <2>5 DEF NewsInv, News!TypeOK
<1>7. SharesAdd'
  BY <1>1, <1>2, SharesStay
<1>8. PassIsSound' /\ ReachedSoFar' /\ News!SettledIsDelivered'
  BY <1>1, <1>2, <1>4 DEF NewsInv, PassIsSound, ReachedSoFar, News!SettledIsDelivered, News!ByTitle
<1>9. CASE slips' = slips
  <2>1. known' = settled /\ stage' = "article" /\ titles' = T /\ todo' = todo
    BY <1>2, <1>9, NewsElements
  <2>2. NewFeedIsSettled'
    BY <1>1, <1>9, <2>1 DEF NewsInv, NewFeedIsSettled
  <2>3. OneOfATitle'
    BY <1>1, <1>3, <1>5, <1>9, <2>1 DEF NewsInv, OneOfATitle, News!ByTitle
  <2> QED
    BY <2>2, <2>3, <1>6, <1>7, <1>8 DEF NewsInv
<1>10. CASE slips' # 0
  BY <1>6, <1>7, <1>8, <1>10, NewsSlipped DEF NewsInv
<1> QED
  BY <1>2, <1>9, <1>10

\* An article is passed over.
LEMMA NewsPassOver == NewsInv /\ News!PassOver => NewsInv'
<1> SUFFICES ASSUME NewsInv, News!PassOver PROVE NewsInv'
  OBVIOUS
<1> DEFINE A == News!Article
<1>1. /\ stage = "article" /\ todo' = Tail(todo) /\ channel' = 1
      /\ stage' = IF todo' = <<>> THEN "idle" ELSE "article"
      /\ UNCHANGED <<poller, published, history, day, known, titles, deliveries, got, gotToday>>
      /\ A.guid \in known \/ (News!ByTitle /\ A.title \in titles) \/ poller = "tech"
  BY DEF News!PassOver, News!Onward, News!Twin, News!feedvars, News!worldvars
<1>2. \/ slips' = slips /\ settled' = settled \cup {A.guid}
      \/ slips' = slips + 1 /\ slips' \in 0..MaxSlips /\ slips' # 0 /\ settled' = settled
  BY NewsSlips DEF News!PassOver
<1>3. A \in Articles /\ todo' \in Seq(Articles)
  BY <1>1, NewsElements
<1> HIDE DEF A
<1>4. News!TypeOK'
  <2>1. slips' \in 0..MaxSlips
    BY <1>2 DEF NewsInv, News!TypeOK
  <2>2. settled' \cup known' \subseteq {a.guid : a \in Articles}
    BY <1>1, <1>2, <1>3 DEF NewsInv, News!TypeOK
  <2>3. channel' \in 1..(Len(Channels) + 1)
    BY <1>1, ArticlesAreNamed
  <2> QED
    BY <1>1, <1>3, <2>1, <2>2, <2>3 DEF NewsInv, News!TypeOK
<1>5. SharesAdd'
  BY <1>1, <1>2, SharesStay
<1>6. PassIsSound' /\ ReachedSoFar'
  BY <1>1, <1>2 DEF NewsInv, PassIsSound, ReachedSoFar
<1>7. News!SettledIsDelivered'
  <2> SUFFICES ASSUME poller # "tech", NEW a \in Articles, a.guid \in settled',
                        a.guid \notin settled
               PROVE  \E b \in Articles : /\ b = a \/ (News!ByTitle /\ b.title = a.title)
                                          /\ \A t \in News!Targets : b \in got[t]
    BY <1>1 DEF NewsInv, News!SettledIsDelivered, News!ByTitle
  <2>1. a = A /\ A.guid \notin known
    BY <1>2, <1>3, ArticlesAreNamed DEF NewsInv, PassIsSound
  <2>2. News!ByTitle /\ a.title \in titles /\ titles # News!NoTitles
    BY <1>1, <2>1, ArticlesAreNamed DEF News!NoTitles
  <2> QED
    BY <2>2 DEF NewsInv, ReachedSoFar
<1>8. CASE slips' = slips /\ settled' = settled \cup {A.guid}
  <2>1. NewFeedIsSettled'
    BY <1>1, <1>8 DEF NewsInv, NewFeedIsSettled
  <2>2. slips = 0 /\ News!ByTitle => \A a \in Articles : a.guid \in settled' => a.title \in titles
    <3> SUFFICES ASSUME slips = 0, News!ByTitle, NEW a \in Articles, a.guid \in settled'
                 PROVE  a.title \in titles
      OBVIOUS
    <3>1. CASE a.guid \in settled
      BY <3>1, <1>1 DEF NewsInv, OneOfATitle
    <3>2. CASE a.guid \notin settled
      <4>1. a = A /\ A.guid \notin known
        BY <3>2, <1>3, <1>8, ArticlesAreNamed DEF NewsInv, PassIsSound
      <4> QED
        BY <4>1, <1>1 DEF News!ByTitle
    <3> QED
      BY <3>1, <3>2
  <2>3. OneOfATitle'
    BY <1>1, <1>8, <2>2 DEF NewsInv, OneOfATitle, News!ByTitle
  <2> QED
    BY <2>1, <2>3, <1>4, <1>5, <1>6, <1>7 DEF NewsInv
<1>9. CASE slips' # 0
  BY <1>4, <1>5, <1>6, <1>7, <1>9, NewsSlipped DEF NewsInv
<1> QED
  BY <1>2, <1>8, <1>9

\* An article is taken, or not sent to a thread that has had its share.
LEMMA NewsTakes == NewsInv /\ (News!Take \/ News!Capped) => NewsInv'
<1> SUFFICES ASSUME NewsInv, News!Take \/ News!Capped PROVE NewsInv'
  OBVIOUS
<1>1. /\ UNCHANGED <<poller, published, history, day, settled, todo, known, titles, deliveries,
                     got, gotToday, slips>>
      /\ stage' = "post"
      /\ \/ stage = "article" /\ channel' = channel
         \/ stage = "post" /\ poller = "tech" /\ channel =< Len(Channels) /\ channel' = channel + 1
      /\ stage = "article" =>
           /\ News!Article.guid \notin known
           /\ News!ByTitle => News!Article.title \notin titles
  BY DEF News!Take, News!Capped, News!Twin, News!feedvars, News!passvars, News!worldvars
<1>2. channel' \in 1..(Len(Channels) + 1)
  BY <1>1, NewsElements DEF NewsInv, News!TypeOK
<1>3. News!TypeOK'
  BY <1>1, <1>2 DEF NewsInv, News!TypeOK
<1>4. PassIsSound'
  BY <1>1 DEF NewsInv, PassIsSound, News!Article, News!ByTitle
<1>5. ReachedSoFar'
  <2>1. poller # "tech" => channel' = 1
    BY <1>1 DEF NewsInv, PassIsSound
  <2>2. \A k \in 1..Len(Channels) : ~(k < 1)
    OBVIOUS
  <2> QED
    BY <1>1, <2>1, <2>2 DEF NewsInv, ReachedSoFar
<1>6. SharesAdd' /\ News!SettledIsDelivered'
  BY <1>1 DEF NewsInv, SharesAdd, News!SettledIsDelivered, News!ByTitle
<1>7. NewFeedIsSettled' /\ OneOfATitle'
  BY <1>1 DEF NewsInv, NewFeedIsSettled, OneOfATitle, News!ByTitle, News!Article
<1> QED
  BY <1>3, <1>4, <1>5, <1>6, <1>7 DEF NewsInv

\* What a post leaves of the shares: slips of the day make up for what is had
\* without being counted, and for what is counted beyond the share.
LEMMA PostIsCounted ==
  ASSUME NewsInv, News!Post \/ News!PostFails
  PROVE  /\ got' \in [News!Targets -> SUBSET Articles] /\ gotToday' \in [News!Targets -> Nat]
         /\ deliveries' \in [News!Targets -> 0..(MaxPerDay + MaxSlips)]
         /\ slips' \in 0..MaxSlips /\ (slips' = slips \/ slips' # 0)
         /\ SharesAdd'
<1> DEFINE t == Channels[channel]
<1>1. /\ t \in News!Targets /\ News!Article \in Articles
      /\ deliveries[t] \in Nat /\ gotToday[t] \in Nat /\ slips \in Nat /\ poller' = poller
      /\ got \in [News!Targets -> SUBSET Articles] /\ gotToday \in [News!Targets -> Nat]
      /\ deliveries \in [News!Targets -> 0..(MaxPerDay + MaxSlips)]
  <2>1. /\ stage = "post" /\ channel =< Len(Channels) /\ poller' = poller
    BY DEF News!Post, News!PostFails, News!feedvars
  <2>2. channel \in 1..Len(Channels)
    BY <2>1, NewsElements DEF NewsInv, News!TypeOK
  <2>3. t \in News!Targets
    BY <2>2 DEF News!Targets
  <2>4. /\ got \in [News!Targets -> SUBSET Articles] /\ gotToday \in [News!Targets -> Nat]
        /\ deliveries \in [News!Targets -> 0..(MaxPerDay + MaxSlips)]
    BY DEF NewsInv, News!TypeOK
  <2>5. deliveries[t] \in Nat /\ gotToday[t] \in Nat
    BY <2>3, <2>4, ArticlesAreNamed
  <2> QED
    BY <2>1, <2>3, <2>4, <2>5, NewsElements
<1> HIDE DEF t
<1>2. /\ \/ got' = got
         \/ got' = [got EXCEPT ![t] = got[t] \cup {News!Article}]
      /\ \E g \in {gotToday[t], gotToday[t] + 1} : gotToday' = [gotToday EXCEPT ![t] = g]
      /\ \/ deliveries' = deliveries
         \/ deliveries' = [deliveries EXCEPT ![t] = deliveries[t] + 1]
  <2>1. gotToday = [gotToday EXCEPT ![t] = gotToday[t]]
    BY <1>1
  <2> QED
    BY <2>1 DEF t, News!Post, News!PostFails, News!Received
<1>3. PICK g \in {gotToday[t], gotToday[t] + 1} : gotToday' = [gotToday EXCEPT ![t] = g]
  BY <1>2
<1>4. PICK d \in {deliveries[t], deliveries[t] + 1}, s \in {slips, slips + 1, slips + 2} :
        /\ deliveries' = [deliveries EXCEPT ![t] = d] /\ slips' = s /\ s =< MaxSlips
        /\ poller # "tech" => d = deliveries[t]
        /\ poller = "tech" =>
             \/ d = deliveries[t] + 1 /\ s = slips /\ deliveries[t] < MaxPerDay
             \/ d = deliveries[t] + 1 /\ s = slips + 1
             \/ d = deliveries[t] /\ s \in {slips + 1, slips + 2}
  <2>1. deliveries = [deliveries EXCEPT ![t] = deliveries[t]]
    BY <1>1
  <2>2. slips =< MaxSlips
    BY NewsElements
  <2>3. CASE News!Post
    <3>1. CASE poller = "tech" /\ deliveries[t] >= MaxPerDay
      BY <3>1, <2>1, <2>3 DEF t, News!Post, News!Slip
    <3>2. CASE poller = "tech" /\ ~(deliveries[t] >= MaxPerDay)
      <4>1. deliveries[t] < MaxPerDay
        BY <3>2, <1>1, ArticlesAreNamed
      <4> QED
        BY <3>2, <4>1, <2>1, <2>2, <2>3 DEF t, News!Post, News!Slip
    <3>3. CASE poller # "tech"
      BY <3>3, <2>1, <2>2, <2>3 DEF t, News!Post, News!Slip
    <3> QED
      BY <3>1, <3>2, <3>3
  <2>4. CASE News!PostFails
    BY <2>1, <2>4 DEF News!PostFails, News!Slip
  <2> QED
    BY <2>3, <2>4
<1>5. poller = "tech" => \A u \in News!Targets :
        WithinShare(IF u = t THEN d ELSE deliveries[u], IF u = t THEN g ELSE gotToday[u], s)
  <2> SUFFICES ASSUME poller = "tech", NEW u \in News!Targets
               PROVE  WithinShare(IF u = t THEN d ELSE deliveries[u],
                                  IF u = t THEN g ELSE gotToday[u], s)
    OBVIOUS
  <2>1. WithinShare(deliveries[u], gotToday[u], slips)
    BY DEF NewsInv, SharesAdd
  <2>2. deliveries[u] \in Nat /\ gotToday[u] \in Nat
    BY <1>1, ArticlesAreNamed
  <2>3. CASE u = t
    BY <2>1, <2>2, <2>3, <1>1, <1>3, <1>4, SharesUsed
  <2>4. CASE u # t
    <3>1. WithinShare(deliveries[u], gotToday[u], s)
      BY <2>1, <2>2, <1>1, <1>4, SharesUsed
    <3> QED
      BY <3>1, <2>4
  <2> QED
    BY <2>3, <2>4
<1>6. d \in 0..(MaxPerDay + MaxSlips)
  <2>1. CASE poller = "tech"
    <3>1. d =< MaxPerDay + s
      BY <1>1, <1>5, <2>1 DEF WithinShare
    <3> QED
      BY <3>1, <1>1, <1>4, ArticlesAreNamed
  <2>2. CASE poller # "tech"
    BY <2>2, <1>1, <1>4
  <2> QED
    BY <2>1, <2>2
<1>7. SharesAdd'
  <2>1. ASSUME poller = "tech", NEW u \in News!Targets
        PROVE  WithinShare(deliveries'[u], gotToday'[u], slips')
    <3>1. /\ deliveries'[u] = IF u = t THEN d ELSE deliveries[u]
          /\ gotToday'[u] = IF u = t THEN g ELSE gotToday[u]
      BY <1>1, <1>3, <1>4
    <3> QED
      BY <3>1, <2>1, <1>4, <1>5
  <2> QED
    BY <2>1, <1>1 DEF SharesAdd
<1>8. slips' \in 0..MaxSlips /\ (slips' = slips \/ slips' # 0)
  BY <1>1, <1>4, ArticlesAreNamed
<1>9. g \in Nat
  BY <1>1
<1> QED
  BY <1>1, <1>2, <1>3, <1>4, <1>6, <1>7, <1>8, <1>9

\* Whoever has had something keeps it, and may have had the article, and no other.
LEMMA PostIsHad ==
  ASSUME NewsInv, News!Post \/ News!PostFails
  PROVE  \A u \in News!Targets :
           got[u] \subseteq got'[u] /\ got'[u] \subseteq got[u] \cup {News!Article}
<1>1. got' = got \/ \E t \in News!Targets : got' = [got EXCEPT ![t] = got[t] \cup {News!Article}]
  <2>1. channel \in 1..Len(Channels)
    BY NewsElements DEF NewsInv, News!TypeOK, News!Post, News!PostFails
  <2>2. Channels[channel] \in News!Targets
    BY <2>1 DEF News!Targets
  <2> QED
    BY <2>2 DEF News!Post, News!PostFails, News!Received
<1>2. got \in [News!Targets -> SUBSET Articles]
  BY DEF NewsInv, News!TypeOK
<1> QED
  BY <1>1, <1>2

\* The article goes to the next thread.
LEMMA NewsPost == NewsInv /\ News!Post => NewsInv'
<1> SUFFICES ASSUME NewsInv, News!Post PROVE NewsInv'
  OBVIOUS
<1> DEFINE A == News!Article
           t == Channels[channel]
<1>1. /\ stage = "post" /\ channel =< Len(Channels) /\ channel' = channel + 1
      /\ UNCHANGED <<poller, published, history, day, settled, stage, todo, known, titles>>
      /\ got' = [got EXCEPT ![t] = got[t] \cup {A}]
  BY DEF News!Post, News!feedvars, News!Received
<1>2. channel \in 1..Len(Channels) /\ channel' \in 1..(Len(Channels) + 1)
  BY <1>1, NewsElements DEF NewsInv, News!TypeOK
<1>3. t \in News!Targets
  BY <1>2 DEF News!Targets
<1>4. A' = A /\ A \in Articles
  BY <1>1, NewsElements DEF News!Article
<1>5. /\ got' \in [News!Targets -> SUBSET Articles] /\ gotToday' \in [News!Targets -> Nat]
      /\ deliveries' \in [News!Targets -> 0..(MaxPerDay + MaxSlips)]
      /\ slips' \in 0..MaxSlips /\ (slips' = slips \/ slips' # 0) /\ SharesAdd'
  BY PostIsCounted
<1>6. \A u \in News!Targets : got[u] \subseteq got'[u] /\ got'[u] \subseteq got[u] \cup {A}
  BY PostIsHad
<1>7. A \in got'[t]
  BY <1>1, <1>3 DEF NewsInv, News!TypeOK
<1>8. A.guid \notin known /\ (News!ByTitle => A.title \notin titles)
  BY <1>1 DEF NewsInv, PassIsSound
<1> HIDE DEF t
<1>9. News!TypeOK'
  BY <1>1, <1>2, <1>5 DEF NewsInv, News!TypeOK
<1>10. PassIsSound'
  BY <1>1, <1>4 DEF NewsInv, PassIsSound, News!ByTitle
<1>11. ReachedSoFar'
  <2>1. ASSUME poller # "tech", NEW k \in 1..Len(Channels), k < channel'
        PROVE  A \in got'[Channels[k]]
    <3>1. k < channel \/ k = channel
      BY <2>1, <1>1, <1>2
    <3>2. Channels[k] \in News!Targets
      BY DEF News!Targets
    <3>3. CASE k < channel
      BY <3>2, <3>3, <2>1, <1>1, <1>6 DEF NewsInv, ReachedSoFar
    <3>4. CASE k = channel
      BY <3>4, <1>7 DEF t
    <3> QED
      BY <3>1, <3>3, <3>4
  <2>2. ASSUME poller # "tech", titles # News!NoTitles, NEW x \in titles
        PROVE  \E b \in Articles : b.title = x /\ \A u \in News!Targets : b \in got'[u]
    BY <2>2, <1>6 DEF NewsInv, ReachedSoFar
  <2> QED
    BY <2>1, <2>2, <1>1, <1>4 DEF ReachedSoFar
<1>12. News!SettledIsDelivered'
  BY <1>1, <1>6 DEF NewsInv, News!SettledIsDelivered, News!ByTitle
<1>13. CASE slips' = slips
  <2>1. NewFeedIsSettled'
    <3>1. slips = 0 /\ poller = "tech" => A \notin history /\ settled # {}
      BY <1>1, <1>8 DEF NewsInv, NewFeedIsSettled
    <3>2. slips = 0 /\ poller = "tech" => \A u \in News!Targets : got'[u] \cap history = {}
      BY <3>1, <1>6 DEF NewsInv, NewFeedIsSettled
    <3> QED
      BY <3>1, <3>2, <1>1, <1>13 DEF NewsInv, NewFeedIsSettled
  <2>2. OneOfATitle'
    <3> SUFFICES ASSUME slips = 0, News!ByTitle
                 PROVE  \A u \in News!Targets :
                          /\ \A a \in got'[u] : a.guid \in settled \/ a = A
                          /\ \A a, b \in got'[u] : a.title = b.title => a = b
      BY <1>1, <1>4, <1>13 DEF NewsInv, OneOfATitle, News!ByTitle
    <3>1. \A u \in News!Targets : \A a \in got[u] : a.guid \in settled \/ a = A
      BY <1>1 DEF NewsInv, OneOfATitle
    <3>2. \A u \in News!Targets : \A a \in got[u] : a.title = A.title => a = A
      <4> SUFFICES ASSUME NEW u \in News!Targets, NEW a \in got[u], a.title = A.title, a # A
                   PROVE  FALSE
        OBVIOUS
      <4>1. a \in Articles /\ a.guid \in settled
        BY <3>1 DEF NewsInv, News!TypeOK
      <4>2. a.title \in titles
        BY <4>1, <1>1 DEF NewsInv, OneOfATitle
      <4> QED
        BY <4>2, <1>8
    <3>3. \A u \in News!Targets : \A a, b \in got[u] : a.title = b.title => a = b
      BY DEF NewsInv, OneOfATitle
    <3> QED
      BY <3>1, <3>2, <3>3, <1>6
  <2> QED
    BY <2>1, <2>2, <1>5, <1>9, <1>10, <1>11, <1>12 DEF NewsInv
<1>14. CASE slips' # 0
  BY <1>5, <1>9, <1>10, <1>11, <1>12, <1>14, NewsSlipped DEF NewsInv
<1> QED
  BY <1>5, <1>13, <1>14

\* A post fails.
LEMMA NewsPostFails == NewsInv /\ News!PostFails => NewsInv'
<1> SUFFICES ASSUME NewsInv, News!PostFails PROVE NewsInv'
  OBVIOUS
<1>1. /\ stage = "post" /\ channel =< Len(Channels)
      /\ UNCHANGED <<poller, published, history, day, settled, known, titles>>
      /\ \/ poller = "tech" /\ channel' = channel + 1 /\ stage' = stage /\ todo' = todo
         \/ /\ poller # "tech" /\ todo' = Tail(todo) /\ channel' = 1
            /\ stage' = IF todo' = <<>> THEN "idle" ELSE "article"
  BY DEF News!PostFails, News!feedvars, News!Onward
<1>2. channel' \in 1..(Len(Channels) + 1)
  BY SMTT(30), <1>1, NewsElements DEF NewsInv, News!TypeOK
<1>3. /\ got' \in [News!Targets -> SUBSET Articles] /\ gotToday' \in [News!Targets -> Nat]
      /\ deliveries' \in [News!Targets -> 0..(MaxPerDay + MaxSlips)] /\ SharesAdd'
  BY PostIsCounted
<1>4. slips' \in 0..MaxSlips /\ slips' # 0
  BY NewsSlips DEF News!PostFails
<1>5. \A u \in News!Targets : got[u] \subseteq got'[u]
  BY PostIsHad
<1>6. todo' \in Seq(Articles) /\ stage' \in {"idle", "article", "post"}
      /\ (stage' = "idle" <=> todo' = <<>>)
  BY <1>1, NewsElements
<1>7. News!TypeOK'
  BY <1>1, <1>2, <1>3, <1>4, <1>6 DEF NewsInv, News!TypeOK
<1>8. PassIsSound'
  BY <1>1 DEF NewsInv, PassIsSound, News!ByTitle, News!Article
<1>9. ReachedSoFar'
  BY <1>1, <1>5 DEF NewsInv, ReachedSoFar
<1>10. News!SettledIsDelivered'
  BY <1>1, <1>5 DEF NewsInv, News!SettledIsDelivered, News!ByTitle
<1> QED
  BY <1>3, <1>4, <1>7, <1>8, <1>9, <1>10, NewsSlipped DEF NewsInv

\* Every thread has had its turn: the article is settled.
LEMMA NewsSettle == NewsInv /\ News!Settle => NewsInv'
<1> SUFFICES ASSUME NewsInv, News!Settle PROVE NewsInv'
  OBVIOUS
<1> DEFINE A == News!Article
<1>1. /\ stage = "post" /\ channel > Len(Channels) /\ todo' = Tail(todo) /\ channel' = 1
      /\ stage' = IF todo' = <<>> THEN "idle" ELSE "article"
      /\ UNCHANGED <<poller, published, history, day, known, deliveries, got, gotToday>>
  BY DEF News!Settle, News!Onward, News!feedvars, News!worldvars
<1>2. \/ /\ slips' = slips /\ settled' = settled \cup {A.guid}
         /\ titles' = IF News!ByTitle
            /\ titles # News!NoTitles THEN titles \cup {A.title} ELSE titles
      \/ slips' = slips + 1 /\ slips' \in 0..MaxSlips /\ slips' # 0 /\ settled' = settled
         /\ titles' = titles
  BY NewsSlips DEF News!Settle
<1>3. A \in Articles /\ todo' \in Seq(Articles)
  BY <1>1, NewsElements
<1>4. poller # "tech" => \A t \in News!Targets : A \in got[t]
  <2> SUFFICES ASSUME poller # "tech", NEW t \in News!Targets PROVE A \in got[t]
    OBVIOUS
  <2>1. PICK k \in 1..Len(Channels) : t = Channels[k]
    BY DEF News!Targets
  <2>2. k < channel
    BY <2>1, <1>1, NewsElements
  <2> QED
    BY <2>1, <2>2, <1>1 DEF NewsInv, ReachedSoFar
<1> HIDE DEF A
<1>5. News!TypeOK'
  <2>1. slips' \in 0..MaxSlips
    BY <1>2 DEF NewsInv, News!TypeOK
  <2>2. settled' \cup known' \subseteq {a.guid : a \in Articles}
    BY <1>1, <1>2, <1>3 DEF NewsInv, News!TypeOK
  <2>3. channel' \in 1..(Len(Channels) + 1)
    BY <1>1, ArticlesAreNamed
  <2>4. titles' = News!NoTitles \/ titles' \subseteq {a.title : a \in Articles}
    BY <1>2, <1>3 DEF NewsInv, News!TypeOK
  <2> QED
    BY <1>1, <1>3, <2>1, <2>2, <2>3, <2>4 DEF NewsInv, News!TypeOK
<1>6. SharesAdd'
  BY <1>1, <1>2, SharesStay
<1>7. PassIsSound'
  BY <1>1, <1>2 DEF NewsInv, PassIsSound
<1>8. ReachedSoFar'
  <2> SUFFICES ASSUME poller # "tech", titles # News!NoTitles, NEW x \in titles'
               PROVE  \E b \in Articles : b.title = x /\ \A t \in News!Targets : b \in got[t]
    BY <1>1, <1>2 DEF ReachedSoFar
  <2>1. x \in titles \/ x = A.title
    BY <1>2
  <2> QED
    BY <2>1, <1>3, <1>4 DEF NewsInv, ReachedSoFar
<1>9. News!SettledIsDelivered'
  <2> SUFFICES ASSUME poller # "tech", NEW a \in Articles, a.guid \in settled',
                        a.guid \notin settled
               PROVE  \A t \in News!Targets : a \in got[t]
    BY <1>1 DEF NewsInv, News!SettledIsDelivered, News!ByTitle
  <2>1. a = A
    BY <1>2, <1>3, ArticlesAreNamed
  <2> QED
    BY <2>1, <1>4
<1>10. CASE slips' = slips /\ settled' = settled \cup {A.guid}
  <2>1. NewFeedIsSettled'
    BY <1>1, <1>10 DEF NewsInv, NewFeedIsSettled
  <2>2. OneOfATitle'
    <3> SUFFICES ASSUME slips = 0, News!ByTitle
                 PROVE  /\ titles' # News!NoTitles
                        /\ \A a \in Articles : a.guid \in settled' => a.title \in titles'
                        /\ \A t \in News!Targets : \A a \in got[t] : a.guid \in settled'
      BY <1>1, <1>10 DEF NewsInv, OneOfATitle, News!ByTitle
    <3>1. titles # News!NoTitles /\ \A a \in Articles : a.guid \in settled => a.title \in titles
      BY <1>1 DEF NewsInv, OneOfATitle
    <3>2. titles' = titles \cup {A.title}
      BY <3>1, <1>2, <1>10, NewsElements
    <3>3. titles' # News!NoTitles
      BY SMTT(30), <3>2, <1>3, ArticlesAreNamed DEF News!NoTitles
    <3>4. \A a \in Articles : a.guid \in settled' => a.title \in titles'
      BY <3>1, <3>2, <1>3, <1>10, ArticlesAreNamed
    <3>5. \A t \in News!Targets : \A a \in got[t] : a.guid \in settled'
      BY <1>1, <1>10 DEF NewsInv, OneOfATitle, A
    <3> QED
      BY <3>3, <3>4, <3>5
  <2> QED
    BY <2>1, <2>2, <1>5, <1>6, <1>7, <1>8, <1>9 DEF NewsInv
<1>11. CASE slips' # 0
  BY <1>5, <1>6, <1>7, <1>8, <1>9, <1>11, NewsSlipped DEF NewsInv
<1> QED
  BY <1>2, <1>10, <1>11

LEMMA NewsMove == NewsInv /\ [News!Next]_newsvars => NewsInv'
<1> SUFFICES ASSUME NewsInv, [News!Next]_newsvars PROVE NewsInv'
  OBVIOUS
<1>1. CASE UNCHANGED newsvars
  BY <1>1 DEF newsvars, NewsInv, News!TypeOK, PassIsSound, ReachedSoFar, SharesAdd,
     NewFeedIsSettled, OneOfATitle, News!SettledIsDelivered, News!Article, News!ByTitle
<1>2. CASE News!Next
  BY <1>2, NewsPublish, NewsNextDay, NewsRestart, NewsFetch, NewsBaseline, NewsSeed, NewsAsk,
     NewsPassOver, NewsTakes, NewsPost, NewsPostFails, NewsSettle DEF News!Next
<1> QED
  BY <1>1, <1>2

LEMMA NewsHolds ==
  NewsInv => News!SettledIsDelivered /\ News!ShareIsKept /\ News!NoFlood
BY DEF NewsInv, SharesAdd, WithinShare, NewFeedIsSettled, OneOfATitle, News!ShareIsKept,
   News!NoFlood

----------------------------------------------------------------------------
(* Quotas                                                                  *)

\* Sets of accounts are finite, and one that grows by an account has one more.
LEMMA AccountsCounted ==
  ASSUME NEW S \in SUBSET Quotas!Names, NEW T \in SUBSET Quotas!Names, NEW x
  PROVE  /\ Quotas!Cardinality(S) \in Nat /\ Quotas!Cardinality(T) \in Nat
         /\ T \subseteq S => Quotas!Cardinality(T) =< Quotas!Cardinality(S)
         /\ T \subseteq S \cup {x} => Quotas!Cardinality(T) =< Quotas!Cardinality(S) + 1
         /\ S = {} => Quotas!Cardinality(S) = 0
<1>1. \A U : Quotas!Cardinality(U) = Cardinality(U)
  BY DEF Quotas!Cardinality, Cardinality
<1>2. IsFiniteSet(Quotas!Names)
  <2> DEFINE f == [k \in Quotas!Places |-> Accounts[k]]
  <2>1. IsFiniteSet(Quotas!Places)
    BY AccountsAreListed, FS_Interval DEF Quotas!Places
  <2>2. f \in [Quotas!Places -> Quotas!Names] /\ \A a \in Quotas!Names :
          \E k \in Quotas!Places : f[k] = a
    BY DEF Quotas!Names
  <2>3. f \in Surjection(Quotas!Places, Quotas!Names)
    BY <2>2 DEF Surjection
  <2> HIDE DEF f
  <2> QED
    BY <2>1, <2>3, FS_Surjection
<1>3. IsFiniteSet(S) /\ IsFiniteSet(T)
  BY <1>2, FS_Subset
<1>4. Cardinality(S) \in Nat /\ Cardinality(T) \in Nat
  BY <1>3, FS_CardinalityType
<1>5. T \subseteq S => Cardinality(T) =< Cardinality(S)
  BY <1>3, FS_Subset
<1>6. ASSUME T \subseteq S \cup {x} PROVE Cardinality(T) =< Cardinality(S) + 1
  <2>0. /\ IsFiniteSet(S \cup {x})
        /\ \/ Cardinality(S \cup {x}) = Cardinality(S)
           \/ Cardinality(S \cup {x}) = Cardinality(S) + 1
    BY <1>3, FS_AddElement
  <2>1. IsFiniteSet(S \cup {x}) /\ Cardinality(S \cup {x}) =< Cardinality(S) + 1
    BY <2>0, <1>4
  <2>2. Cardinality(T) =< Cardinality(S \cup {x}) /\ Cardinality(S \cup {x}) \in Nat
    BY <1>6, <2>1, FS_Subset, FS_CardinalityType
  <2> QED
    BY <1>4, <2>1, <2>2
<1>7. S = {} => Cardinality(S) = 0
  BY FS_EmptySet
<1> QED
  BY <1>1, <1>4, <1>5, <1>6, <1>7

LEMMA SumIsNat == \A k, l \in Nat : k + l \in Nat
OBVIOUS

LEMMA NoMore ==
  ASSUME NEW n \in Nat, NEW m \in Nat, NEW k \in Nat, NEW l \in Nat, n =< k,
         (m =< n /\ k =< l) \/ (m =< n + 1 /\ k + 1 =< l)
  PROVE  m =< l
OBVIOUS

\* No more accounts are lost than there were faults and restarts.
LEMMA QuotasLose ==
  ASSUME QuotaInv, faults' \in Nat, reboots' \in Nat, LosesForAReason
  PROVE  Quotas!TokensAreKept'
<1>1. Lost \in SUBSET Quotas!Names /\ Lost' \in SUBSET Quotas!Names
  BY DEF Lost
<1>0. faults \in Nat /\ reboots \in Nat /\ faults' \in Nat /\ reboots' \in Nat
  BY AccountsAreListed DEF QuotaInv, Quotas!TypeOK
<1>2. Quotas!Cardinality(Lost) =< faults + reboots
  BY DEF QuotaInv, Quotas!TokensAreKept, Lost
<1>3. Quotas!Cardinality(Lost) \in Nat /\ Quotas!Cardinality(Lost') \in Nat
  BY <1>1, AccountsCounted
<1>4. Lost' \subseteq Lost => Quotas!Cardinality(Lost') =< Quotas!Cardinality(Lost)
  BY <1>1, AccountsCounted
<1>5. Lost' \subseteq Lost \cup {Quotas!Account} =>
        Quotas!Cardinality(Lost') =< Quotas!Cardinality(Lost) + 1
  BY <1>1, AccountsCounted
<1>6. Quotas!Cardinality(Lost') =< faults' + reboots'
  <2>1. faults + reboots \in Nat /\ faults' + reboots' \in Nat
    BY <1>0, SumIsNat
  <2>2. \/ /\ Quotas!Cardinality(Lost') =< Quotas!Cardinality(Lost)
           /\ faults + reboots =< faults' + reboots'
        \/ /\ Quotas!Cardinality(Lost') =< Quotas!Cardinality(Lost) + 1
           /\ faults + reboots + 1 =< faults' + reboots'
    BY <1>4, <1>5 DEF LosesForAReason
  <2> QED
    BY <1>2, <1>3, <2>1, <2>2, NoMore
<1> QED
  BY <1>6 DEF Quotas!TokensAreKept, Lost

\* What is known of every account.
LEMMA QuotasKnow ==
  QuotaInv =>
    /\ MaxTokens \in Nat /\ MaxPeriods \in Nat /\ MaxFaults \in Nat /\ MaxReboots \in Nat
    /\ faults \in Nat /\ reboots \in Nat /\ period \in Nat /\ period > 0 /\ due \in Nat
    /\ Len(Accounts) \in Nat /\ ask \in Quotas!Places /\ Quotas!Account \in Quotas!Names
    /\ \A a \in Quotas!Names :
         /\ valid[a] \in Nat /\ stored[a] \in Nat /\ warnings[a] \in Nat
         /\ warned[a] \in Nat /\ saved[a] \in Nat /\ snapshot[a] \in Nat
         /\ forgotten[a] \in 0..reboots /\ forgotten[a] \in Nat
<1> SUFFICES ASSUME QuotaInv PROVE QuotasKnow!2
  OBVIOUS
<1>1. /\ MaxTokens \in Nat /\ MaxPeriods \in Nat /\ MaxFaults \in Nat /\ MaxReboots \in Nat
      /\ Len(Accounts) \in Nat
  BY AccountsAreListed
<1>2. faults \in Nat /\ reboots \in Nat /\ period \in Nat /\ period > 0 /\ due \in Nat
  BY <1>1 DEF QuotaInv, Quotas!TypeOK
<1>3. ask \in Quotas!Places /\ Quotas!Account \in Quotas!Names
  BY DEF QuotaInv, Quotas!TypeOK, Quotas!Account, Quotas!Names
<1>4. \A a \in Quotas!Names :
        /\ valid[a] \in Nat /\ stored[a] \in Nat /\ warnings[a] \in Nat
        /\ warned[a] \in Nat /\ saved[a] \in Nat /\ snapshot[a] \in Nat
        /\ forgotten[a] \in 0..reboots /\ forgotten[a] \in Nat
  BY <1>1, <1>2 DEF QuotaInv, Quotas!TypeOK
<1> QED
  BY <1>1, <1>2, <1>3, <1>4

LEMMA QuotasBegin == Quotas!Init => QuotaInv
<1> SUFFICES ASSUME Quotas!Init PROVE QuotaInv
  OBVIOUS
<1>1. /\ ask = 1 /\ phase = "idle" /\ due = 1 /\ fresh = 0 /\ period = 1 /\ faults = 0
      /\ reboots = 0 /\ over = {} /\ watch \in Watches
      /\ valid = [a \in Quotas!Names |-> 1] /\ stored = valid
      /\ warned = [a \in Quotas!Names |-> 0] /\ saved = warned /\ snapshot = warned
      /\ warnings = [a \in Quotas!Names |-> 0] /\ forgotten = warnings
  BY DEF Quotas!Init, Quotas!Never
<1>2. /\ 1 \in Quotas!Places /\ 1 \in 1..MaxTokens /\ 1 \in 1..MaxPeriods /\ 0 \in 0..MaxPeriods
      /\ 0 \in 0..0 /\ 0 \in 0..MaxFaults /\ 0 \in 0..MaxReboots
      /\ 0 \in 0..MaxTokens
  BY AccountsAreListed DEF Quotas!Places
<1>3. Quotas!TypeOK
  BY <1>1, <1>2 DEF Quotas!TypeOK
<1>4. Quotas!TokensAreKept
  <2>1. Lost = {} /\ Lost \in SUBSET Quotas!Names
    BY <1>1 DEF Lost
  <2>2. Quotas!Cardinality(Lost) = 0
    BY <2>1, AccountsCounted
  <2> QED
    BY <1>1, <2>2 DEF Quotas!TokensAreKept, Lost
<1>5. NotesAreTrue
  BY <1>1 DEF NotesAreTrue, NoteIsTrue, Unnoted, Quotas!Noting
<1>6. Quotas!WarnedOncePerPeriod
  BY <1>1 DEF Quotas!WarnedOncePerPeriod
<1> QED
  BY <1>1, <1>3, <1>4, <1>5, <1>6 DEF QuotaInv, FreshIsValid

\* A quota fills, a period ends, the snapshot is made.
LEMMA QuotasWait ==
  QuotaInv /\ ((\E a \in Quotas!Names : Quotas!Fills(a)) \/ Quotas!NewPeriod \/ Quotas!Sync)
    => QuotaInv'
<1> SUFFICES ASSUME QuotaInv PROVE
      /\ (\E a \in Quotas!Names : Quotas!Fills(a)) => QuotaInv'
      /\ Quotas!NewPeriod => QuotaInv'
      /\ Quotas!Sync => QuotaInv'
  OBVIOUS
<1>1. ASSUME NEW a \in Quotas!Names, Quotas!Fills(a) PROVE QuotaInv'
  <2>1. /\ UNCHANGED <<watch, reboots, due, period, ask, phase, fresh, valid, stored, warned,
                       saved, snapshot, warnings, forgotten, faults>>
        /\ over' = over \cup {a}
    BY <1>1 DEF Quotas!Fills, Quotas!tokens, Quotas!notes, Quotas!past
  <2>2. Quotas!TypeOK'
    BY <2>1 DEF QuotaInv, Quotas!TypeOK
  <2>3. Quotas!TokensAreKept' /\ Quotas!WarnedOncePerPeriod'
    BY <2>1 DEF QuotaInv, Quotas!TokensAreKept, Quotas!Account, Quotas!WarnedOncePerPeriod
  <2> QED
    BY <2>1, <2>2, <2>3
    DEF QuotaInv, FreshIsValid, NotesAreTrue, NoteIsTrue, Unnoted, Quotas!Noting, Quotas!Account
<1>2. ASSUME Quotas!NewPeriod PROVE QuotaInv'
  <2>1. /\ UNCHANGED <<watch, reboots, due, ask, phase, fresh, valid, stored, warned, saved,
                       snapshot, faults>>
        /\ over' = {} /\ warnings' = [a \in Quotas!Names |-> 0] /\ forgotten' = warnings'
        /\ period < MaxPeriods /\ period' = period + 1
    BY <1>2 DEF Quotas!NewPeriod, Quotas!tokens
  <2>2. /\ period' \in 1..MaxPeriods /\ due < period' /\ 0 \in 0..reboots
        /\ \A a \in Quotas!Names :
             warned[a] < period' /\ saved[a] < period' /\ snapshot[a] < period' /\ 0 =< faults + 0
    BY SMTT(30), <2>1, QuotasKnow DEF QuotaInv, NotesAreTrue, NoteIsTrue
  <2>3. Quotas!TypeOK'
    BY <2>1, <2>2 DEF QuotaInv, Quotas!TypeOK
  <2>4. \A a \in Quotas!Names :
          /\ warned'[a] < period' /\ saved'[a] < period' /\ snapshot'[a] < period'
          /\ warnings'[a] = 0 /\ forgotten'[a] = 0
    BY <2>1, <2>2
  <2>5. period' \in Nat /\ due' \in Nat /\ due' < period' /\ faults' \in Nat
        /\ \A a \in Quotas!Names : warned'[a] \in Nat /\ saved'[a] \in Nat /\ snapshot'[a] \in Nat
    BY <2>1, <2>2, QuotasKnow
  <2>6. NotesAreTrue'
    <3>1. phase' = "write" => warned'[Quotas!Account'] = due'
      BY <2>1 DEF QuotaInv, NotesAreTrue, Quotas!Account
    <3> QED
      BY <2>4, <2>5, <3>1 DEF NotesAreTrue, NoteIsTrue, Unnoted
  <2>7. Quotas!WarnedOncePerPeriod'
    BY <2>4, <2>5 DEF Quotas!WarnedOncePerPeriod
  <2>8. Quotas!TokensAreKept'
    BY <2>1 DEF QuotaInv, Quotas!TokensAreKept, Quotas!Account
  <2> QED
    BY <2>1, <2>3, <2>6, <2>7, <2>8 DEF QuotaInv, FreshIsValid, Quotas!Account
<1>3. ASSUME Quotas!Sync PROVE QuotaInv'
  <2>1. /\ UNCHANGED <<watch, reboots, due, over, period, ask, phase, fresh, valid, stored, warned,
                       saved, warnings, forgotten, faults>>
        /\ snapshot' = saved
    BY <1>3 DEF Quotas!Sync, Quotas!tokens
  <2>2. Quotas!TypeOK'
    BY <2>1 DEF QuotaInv, Quotas!TypeOK
  <2>3. Quotas!TokensAreKept' /\ Quotas!WarnedOncePerPeriod'
    BY <2>1 DEF QuotaInv, Quotas!TokensAreKept, Quotas!Account, Quotas!WarnedOncePerPeriod
  <2> QED
    BY <2>1, <2>2, <2>3
    DEF QuotaInv, FreshIsValid, NotesAreTrue, NoteIsTrue, Unnoted, Quotas!Noting, Quotas!Account
<1> QED
  BY <1>1, <1>2, <1>3

\* The process is replaced.
LEMMA QuotasRestart == QuotaInv /\ Quotas!Restart => QuotaInv'
<1> SUFFICES ASSUME QuotaInv, Quotas!Restart PROVE QuotaInv'
  OBVIOUS
<1> DEFINE more(a) ==
             IF (Quotas!Noting /\ Quotas!Account = a) \/ saved'[a] # saved[a] THEN 1 ELSE 0
<1>1. /\ UNCHANGED <<watch, due, over, period, valid, stored, snapshot, warnings, faults>>
      /\ phase' = "idle" /\ ask' = 1 /\ fresh' = 0 /\ warned' = [a \in Quotas!Names |-> 0]
      /\ reboots < MaxReboots /\ reboots' = reboots + 1
      /\ saved' = saved \/ saved' = snapshot \/ saved' = warned'
      /\ forgotten' = [a \in Quotas!Names |-> forgotten[a] + more(a)]
  BY DEF Quotas!Restart, Quotas!tokens, Quotas!Never
<1>2. /\ reboots' \in 0..MaxReboots /\ 1 \in Quotas!Places /\ 0 \in 0..MaxTokens
      /\ 0 \in 0..MaxPeriods /\ reboots' \in Nat
      /\ faults + reboots + 1 =< faults' + reboots' /\ faults' \in Nat
  BY SMTT(30), <1>1, QuotasKnow DEF Quotas!Places
<1>3. ASSUME NEW a \in Quotas!Names
      PROVE  /\ forgotten'[a] \in 0..reboots' /\ forgotten'[a] \in Nat
             /\ warned'[a] = 0 /\ NoteIsTrue(a)' /\ warnings'[a] =< 1 + faults' + forgotten'[a]
  <2>1. /\ forgotten[a] \in Nat /\ forgotten[a] =< reboots /\ reboots \in Nat /\ faults \in Nat
        /\ warnings[a] \in Nat /\ period \in Nat /\ period > 0
        /\ saved[a] =< period /\ snapshot[a] =< period
        /\ saved[a] = period \/ snapshot[a] = period => warnings[a] >= 1
        /\ saved[a] # period /\ ~Unnoted(a) => warnings[a] =< faults + forgotten[a]
        /\ warnings[a] =< 1 + faults + forgotten[a]
    BY QuotasKnow DEF QuotaInv, NotesAreTrue, NoteIsTrue, Quotas!WarnedOncePerPeriod
  <2>2. /\ forgotten'[a] = forgotten[a] + more(a) /\ more(a) \in {0, 1}
        /\ Unnoted(a) => more(a) = 1
    BY <1>1 DEF Unnoted
  <2>3. more(a) = 0 => saved'[a] = saved[a]
    OBVIOUS
  <2> HIDE DEF more
  <2>4. warned'[a] = 0 /\ ~Unnoted(a)' /\ saved'[a] \in {saved[a], snapshot[a], 0}
    BY <1>1 DEF Unnoted, Quotas!Noting
  <2>5. saved'[a] # period => warnings[a] =< faults + forgotten'[a]
    <3>1. CASE more(a) = 1
      BY <2>1, <2>2, <3>1
    <3>2. CASE more(a) = 0
      BY <2>1, <2>2, <2>3, <3>2
    <3> QED
      BY <2>2, <3>1, <3>2
  <2>6. forgotten'[a] \in 0..reboots' /\ warnings[a] =< 1 + faults + forgotten'[a]
    BY <1>1, <2>1, <2>2
  <2> QED
    BY <1>1, <2>1, <2>4, <2>5, <2>6 DEF NoteIsTrue, Quotas!Noting
<1>4. Quotas!TypeOK'
  <2>1. forgotten' \in [Quotas!Names -> 0..reboots']
    BY <1>1, <1>3
  <2> QED
    BY <1>1, <1>2, <2>1 DEF QuotaInv, Quotas!TypeOK
<1>5. Quotas!TokensAreKept'
  <2>1. Lost' \subseteq Lost \cup {Quotas!Account}
    BY <1>1 DEF Lost
  <2> QED
    BY <1>2, <2>1, QuotasLose DEF LosesForAReason
<1>6. NotesAreTrue' /\ Quotas!WarnedOncePerPeriod'
  <2>1. due' =< period' /\ phase' = "idle" /\ period > 0 /\ period' = period
    BY <1>1, QuotasKnow DEF QuotaInv, NotesAreTrue
  <2>2. \A a \in Quotas!Names : warned'[a] # period'
    BY <1>3, <2>1
  <2> QED
    BY <1>3, <2>1, <2>2 DEF NotesAreTrue, Quotas!WarnedOncePerPeriod
<1> QED
  BY <1>1, <1>4, <1>5, <1>6 DEF QuotaInv, FreshIsValid

\* On to the next account.
LEMMA QuotasProceed ==
  ASSUME QuotaInv, Quotas!Proceed
  PROVE  ask' \in Quotas!Places /\ phase' \in {"idle", "refresh", "look"}
<1>1. Len(Accounts) \in Nat \ {0} /\ ask \in 1..Len(Accounts)
  BY AccountsAreListed DEF QuotaInv, Quotas!TypeOK, Quotas!Places
<1> QED
  BY <1>1 DEF Quotas!Proceed, Quotas!Places

\* One fault more allows for no less.
LEMMA QuotasWiden ==
  ASSUME QuotaInv, faults' \in Nat, faults =< faults', NEW a \in Quotas!Names
  PROVE  /\ warnings[a] =< faults + forgotten[a] => warnings[a] =< faults' + forgotten[a]
         /\ warnings[a] =< 1 + faults + forgotten[a] => warnings[a] =< 1 + faults' + forgotten[a]
<1>1. faults \in Nat /\ warnings[a] \in Nat /\ forgotten[a] \in Nat
  BY QuotasKnow
<1> QED
  BY <1>1

\* The file is read.
LEMMA QuotasLoad == QuotaInv /\ Quotas!Load => QuotaInv'
<1> SUFFICES ASSUME QuotaInv, Quotas!Load PROVE QuotaInv'
  OBVIOUS
<1>1. /\ UNCHANGED <<watch, reboots, due, over, period, fresh, valid, stored, saved, snapshot,
                     warnings, forgotten, faults>>
      /\ phase = "idle" /\ phase' \in {"refresh", "look"} /\ ask' = 1
      /\ warned' = [a \in Quotas!Names |-> IF saved[a] # 0 THEN saved[a] ELSE warned[a]]
  BY DEF Quotas!Load, Quotas!tokens, Quotas!past, Quotas!Never
<1>2. 1 \in Quotas!Places
  BY AccountsAreListed DEF Quotas!Places
<1>3. Quotas!TypeOK'
  BY <1>1, <1>2 DEF QuotaInv, Quotas!TypeOK
<1>4. Quotas!TokensAreKept'
  BY <1>1 DEF QuotaInv, Quotas!TokensAreKept
<1>5. ASSUME NEW a \in Quotas!Names
      PROVE  NoteIsTrue(a)' /\ (warned'[a] = period' => warnings'[a] >= 1)
  <2>1. NoteIsTrue(a) /\ ~Unnoted(a) /\ ~Unnoted(a)' /\ ~Quotas!Noting' /\ phase' # "warn"
    BY <1>1 DEF QuotaInv, NotesAreTrue, Unnoted, Quotas!Noting
  <2>2. warned'[a] = IF saved[a] # 0 THEN saved[a] ELSE warned[a]
    BY <1>1
  <2>3. period \in Nat /\ period > 0
    BY QuotasKnow
  <2> QED
    BY <1>1, <2>1, <2>2, <2>3 DEF NoteIsTrue
<1>6. NotesAreTrue' /\ Quotas!WarnedOncePerPeriod'
  BY <1>1, <1>5 DEF QuotaInv, NotesAreTrue, Quotas!WarnedOncePerPeriod
<1> QED
  BY <1>1, <1>3, <1>4, <1>6 DEF QuotaInv, FreshIsValid

\* The token is used, replaced by the service, and put into the database, or
\* one of these fails.
LEMMA QuotasRefresh ==
  QuotaInv /\ (Quotas!Refresh \/ Quotas!RefreshFails \/ Quotas!Store) => QuotaInv'
<1> SUFFICES ASSUME QuotaInv, Quotas!Refresh \/ Quotas!RefreshFails \/ Quotas!Store
             PROVE  QuotaInv'
  OBVIOUS
<1> DEFINE A == Quotas!Account
<1>0. A \in Quotas!Names /\ valid[A] \in 1..MaxTokens /\ valid[A] \in Nat /\ MaxTokens \in Nat
  BY QuotasKnow DEF QuotaInv, Quotas!TypeOK
<1>1. /\ UNCHANGED <<watch, reboots, due, over, period, warned, saved, snapshot, warnings, forgotten>>
      /\ phase \in {"refresh", "store"}
  BY DEF Quotas!Refresh, Quotas!RefreshFails, Quotas!Store, Quotas!notes, Quotas!past
<1>2. faults' = faults \/ (faults < MaxFaults /\ faults' = faults + 1)
  BY DEF Quotas!Refresh, Quotas!RefreshFails, Quotas!Store, Quotas!Fault
<1>3. faults' \in 0..MaxFaults /\ faults' \in Nat /\ faults =< faults'
  <2>1. faults \in Nat /\ MaxFaults \in Nat /\ faults =< MaxFaults
    BY QuotasKnow DEF QuotaInv, Quotas!TypeOK
  <2> QED
    BY <1>2, <2>1
<1>4. ask' \in Quotas!Places /\ phase' \in {"idle", "refresh", "store", "look"}
  BY QuotasProceed, QuotasKnow DEF Quotas!Refresh, Quotas!RefreshFails, Quotas!Store
<1>5. NotesAreTrue' /\ Quotas!WarnedOncePerPeriod'
  <2>1. \A a \in Quotas!Names :
          warnings[a] =< faults + forgotten[a] => warnings[a] =< faults' + forgotten[a]
    BY <1>3, QuotasWiden
  <2>2. \A a \in Quotas!Names :
          warnings[a] =< 1 + faults + forgotten[a] => warnings[a] =< 1 + faults' + forgotten[a]
    BY <1>3, QuotasWiden
  <2>3. Quotas!WarnedOncePerPeriod'
    BY <1>1, <2>2 DEF QuotaInv, Quotas!WarnedOncePerPeriod
  <2> QED
    BY <1>1, <1>4, <2>1, <2>3 DEF QuotaInv, NotesAreTrue, NoteIsTrue, Unnoted, Quotas!Noting
<1> HIDE DEF A
<1>6. CASE Quotas!Refresh
  <2>1. /\ valid[A] < MaxTokens /\ valid' = [valid EXCEPT ![A] = valid[A] + 1]
        /\ fresh' = valid'[A] /\ phase' = "store" /\ stored[A] = valid[A]
        /\ UNCHANGED <<ask, stored, faults>>
    BY <1>6 DEF Quotas!Refresh, A
  <2>2. A' = A
    BY <2>1 DEF A, Quotas!Account
  <2>3. valid[A] + 1 \in 1..MaxTokens /\ valid[A] + 1 \in 0..MaxTokens
    BY <1>0, <2>1
  <2>4. valid' \in [Quotas!Names -> 1..MaxTokens] /\ fresh' = valid[A] + 1
    BY <1>0, <2>1, <2>3 DEF QuotaInv, Quotas!TypeOK
  <2>5. Quotas!TypeOK'
    BY <1>1, <1>3, <1>4, <2>1, <2>3, <2>4 DEF QuotaInv, Quotas!TypeOK
  <2>6. Lost' \subseteq Lost
    BY <1>0, <1>1, <2>1, <2>2 DEF Lost, A, QuotaInv, Quotas!TypeOK
  <2>7. Quotas!TokensAreKept'
    BY <1>1, <2>1, <2>6, QuotasLose, QuotasKnow DEF LosesForAReason
  <2> QED
    BY <1>5, <2>1, <2>2, <2>5, <2>7 DEF QuotaInv, FreshIsValid, A
<1>7. CASE Quotas!RefreshFails
  <2>1. /\ phase = "refresh" /\ phase' # "store" /\ UNCHANGED <<fresh, stored>>
        /\ \/ UNCHANGED valid
           \/ /\ faults' = faults + 1 /\ valid[A] < MaxTokens
              /\ valid' = [valid EXCEPT ![A] = valid[A] + 1]
    BY <1>7, QuotasProceed DEF Quotas!RefreshFails, Quotas!Fault, A
  <2>2. valid' \in [Quotas!Names -> 1..MaxTokens]
    <3>1. valid[A] < MaxTokens => valid[A] + 1 \in 1..MaxTokens
      BY <1>0
    <3> QED
      BY <2>1, <3>1, <1>0 DEF QuotaInv, Quotas!TypeOK
  <2>3. Quotas!TypeOK'
    BY <1>1, <1>3, <1>4, <2>1, <2>2 DEF QuotaInv, Quotas!TypeOK
  <2>4. Quotas!TokensAreKept'
    <3>1. CASE UNCHANGED valid
      <4>1. Lost' \subseteq Lost
        BY <2>1, <3>1 DEF Lost
      <4> QED
        BY SMTT(30), <1>1, <1>3, <4>1, QuotasLose, QuotasKnow DEF LosesForAReason
    <3>2. CASE faults' = faults + 1 /\ valid' = [valid EXCEPT ![A] = valid[A] + 1]
      <4>1. Lost' \subseteq Lost \cup {A}
        BY <2>1, <3>2 DEF Lost, QuotaInv, Quotas!TypeOK
      <4>2. faults + reboots + 1 =< faults' + reboots' /\ reboots' \in Nat
        BY <1>1, <3>2, QuotasKnow
      <4> QED
        BY <1>3, <4>1, <4>2, QuotasLose DEF LosesForAReason, A
    <3> QED
      BY <2>1, <3>1, <3>2
  <2> QED
    BY <1>5, <2>1, <2>3, <2>4 DEF QuotaInv, FreshIsValid
<1>8. CASE Quotas!Store
  <2>1. /\ phase = "store" /\ fresh' = 0 /\ valid' = valid /\ phase' # "store"
        /\ \/ stored' = [stored EXCEPT ![A] = fresh] /\ faults' = faults
           \/ faults' = faults + 1 /\ stored' = stored
    BY <1>8, QuotasProceed DEF Quotas!Store, Quotas!Fault, A
  <2>2. fresh = valid[A]
    BY <2>1 DEF QuotaInv, FreshIsValid, A
  <2>3. stored' \in [Quotas!Names -> 1..MaxTokens] /\ 0 \in 0..MaxTokens
    <3>1. 0 \in 0..MaxTokens
      BY <1>0
    <3> QED
      BY <1>0, <2>1, <2>2, <3>1 DEF QuotaInv, Quotas!TypeOK
  <2>4. Quotas!TypeOK'
    BY <1>1, <1>3, <1>4, <2>1, <2>3 DEF QuotaInv, Quotas!TypeOK
  <2>5. Quotas!TokensAreKept'
    <3>1. CASE stored' = [stored EXCEPT ![A] = fresh] /\ faults' = faults
      <4>1. Lost' \subseteq Lost
        BY <1>0, <2>1, <2>2, <3>1 DEF Lost, A, QuotaInv, Quotas!TypeOK
      <4> QED
        BY SMTT(30), <1>1, <1>3, <4>1, QuotasLose, QuotasKnow DEF LosesForAReason
    <3>2. CASE faults' = faults + 1 /\ stored' = stored
      <4>1. Lost' \subseteq Lost \cup {A}
        BY <2>1, <3>2 DEF Lost, A
      <4>2. faults + reboots + 1 =< faults' + reboots' /\ reboots' \in Nat
        BY SMTT(30), <1>1, <3>2, QuotasKnow
      <4> QED
        BY <1>3, <4>1, <4>2, QuotasLose DEF LosesForAReason, A
    <3> QED
      BY <2>1, <3>1, <3>2
  <2> QED
    BY <1>5, <2>1, <2>4, <2>5 DEF QuotaInv, FreshIsValid
<1> QED
  BY <1>6, <1>7, <1>8

\* The usage is asked for.
LEMMA QuotasLook == QuotaInv /\ Quotas!Look => QuotaInv'
<1> SUFFICES ASSUME QuotaInv, Quotas!Look PROVE QuotaInv'
  OBVIOUS
<1>1. /\ UNCHANGED <<watch, reboots, over, period, fresh, valid, stored, warned, saved,
                     snapshot, warnings, forgotten>>
      /\ phase = "look"
  BY DEF Quotas!Look, Quotas!tokens, Quotas!notes, Quotas!past
<1>2. faults' = faults \/ (faults < MaxFaults /\ faults' = faults + 1)
  BY DEF Quotas!Look, Quotas!Fault
<1>3. faults' \in 0..MaxFaults /\ faults' \in Nat /\ faults =< faults'
      /\ faults + reboots =< faults' + reboots' /\ reboots' \in Nat
  <2>1. /\ faults \in Nat /\ reboots \in Nat /\ MaxFaults \in Nat /\ faults =< MaxFaults
        /\ reboots' = reboots
    BY <1>1, QuotasKnow DEF QuotaInv, Quotas!TypeOK
  <2> QED
    BY <1>2, <2>1
<1>4. \/ /\ phase' = "warn" /\ due' = period /\ ask' = ask
         /\ warned[Quotas!Account] # period
      \/ phase' \in {"idle", "refresh", "look"} /\ ask' \in Quotas!Places /\ due' = due
  <2>1. 1 \in Quotas!Places
    BY AccountsAreListed DEF Quotas!Places
  <2> QED
    BY <2>1, QuotasProceed DEF Quotas!Look
<1>5. Quotas!TypeOK'
  BY <1>1, <1>3, <1>4 DEF QuotaInv, Quotas!TypeOK
<1>6. Quotas!TokensAreKept'
  <2>1. Lost' \subseteq Lost
    BY <1>1, <1>4 DEF Lost
  <2> QED
    BY <1>3, <2>1, QuotasLose DEF LosesForAReason
<1>7. NotesAreTrue' /\ Quotas!WarnedOncePerPeriod'
  <2>1. \A a \in Quotas!Names :
          warnings[a] =< faults + forgotten[a] => warnings[a] =< faults' + forgotten[a]
    BY <1>3, QuotasWiden
  <2>2. \A a \in Quotas!Names :
          warnings[a] =< 1 + faults + forgotten[a] => warnings[a] =< 1 + faults' + forgotten[a]
    BY <1>3, QuotasWiden
  <2>3. Quotas!WarnedOncePerPeriod'
    BY <1>1, <2>2 DEF QuotaInv, Quotas!WarnedOncePerPeriod
  <2>4. phase' = "warn" => due' = period /\ ~(due' < period) /\ Quotas!Account' = Quotas!Account
    BY <1>4, QuotasKnow DEF Quotas!Account
  <2>5. due' =< period
    BY <1>4, QuotasKnow DEF QuotaInv, NotesAreTrue
  <2> QED
    BY <1>1, <1>4, <2>1, <2>3, <2>4, <2>5
    DEF QuotaInv, NotesAreTrue, NoteIsTrue, Unnoted, Quotas!Noting
<1> QED
  BY <1>4, <1>5, <1>6, <1>7 DEF QuotaInv, FreshIsValid

\* The warning is posted,
LEMMA QuotasWarn == QuotaInv /\ Quotas!Warn => QuotaInv'
<1> SUFFICES ASSUME QuotaInv, Quotas!Warn PROVE QuotaInv'
  OBVIOUS
<1> DEFINE A == Quotas!Account
<1>0. A \in Quotas!Names
  BY QuotasKnow
<1> HIDE DEF A
<1>1. /\ UNCHANGED <<watch, reboots, due, over, period, fresh, valid, stored, warned, saved,
                     snapshot, forgotten>>
      /\ phase = "warn"
  BY DEF Quotas!Warn, Quotas!tokens
<1>2. \/ Quotas!Warning /\ phase' = "note" /\ ask' = ask /\ faults' = faults
      \/ /\ faults < MaxFaults /\ faults' = faults + 1 /\ Quotas!Proceed
         /\ Quotas!Warning \/ warnings' = warnings
  BY DEF Quotas!Warn, Quotas!Fault
<1>3. ask' \in Quotas!Places /\ phase' \in {"idle", "refresh", "look", "note"}
  BY <1>2, QuotasProceed, QuotasKnow
<1>4. faults' \in 0..MaxFaults /\ faults' \in Nat /\ faults =< faults'
      /\ faults + reboots =< faults' + reboots' /\ reboots' \in Nat
  <2>1. /\ faults \in Nat /\ reboots \in Nat /\ MaxFaults \in Nat /\ faults =< MaxFaults
        /\ reboots' = reboots /\ (faults' = faults \/ (faults < MaxFaults /\ faults' = faults + 1))
    BY <1>1, <1>2, QuotasKnow DEF QuotaInv, Quotas!TypeOK
  <2> QED
    BY <2>1
<1>5. warnings' \in [Quotas!Names -> Nat]
      /\ \A a \in Quotas!Names : \/ warnings'[a] = warnings[a]
                                 \/ a = A /\ due = period /\ warnings'[a] = warnings[a] + 1
  <2>1. warnings \in [Quotas!Names -> Nat] /\ warnings[A] + 1 \in Nat
    BY <1>0 DEF QuotaInv, Quotas!TypeOK
  <2>2. Quotas!Warning =>
          \/ warnings' = warnings
          \/ due = period /\ warnings' = [warnings EXCEPT ![A] = warnings[A] + 1]
    BY DEF Quotas!Warning, A
  <2>3. \/ warnings' = warnings
        \/ due = period /\ warnings' = [warnings EXCEPT ![A] = warnings[A] + 1]
    BY <1>2, <2>2
  <2> QED
    BY <2>1, <2>3
<1>6. phase' = "note" =>
        A' = A /\ faults' = faults /\ (due = period => warnings'[A] = warnings[A] + 1)
  <2>1. warnings \in [Quotas!Names -> Nat]
    BY DEF QuotaInv, Quotas!TypeOK
  <2> QED
    BY <1>0, <1>2, <2>1, QuotasProceed DEF Quotas!Warning, A, Quotas!Account
<1>7. ASSUME NEW a \in Quotas!Names
      PROVE  NoteIsTrue(a)' /\ warnings'[a] =< 1 + faults' + forgotten'[a]
             /\ (warned'[a] = period' => warnings'[a] >= 1)
  <2>1. /\ warnings[a] \in Nat /\ warnings'[a] \in Nat /\ forgotten[a] \in Nat /\ faults \in Nat
        /\ warnings[a] =< faults + forgotten[a] => warnings[a] =< faults' + forgotten[a]
        /\ warnings[a] =< 1 + faults + forgotten[a] => warnings[a] =< 1 + faults' + forgotten[a]
    BY <1>4, <1>5, QuotasKnow, QuotasWiden
  <2>2. /\ ~Unnoted(a) /\ NoteIsTrue(a) /\ warnings[a] =< 1 + faults + forgotten[a]
        /\ a = A /\ due = period => saved[a] # period
    BY <1>1 DEF QuotaInv, NotesAreTrue, NoteIsTrue, Unnoted, Quotas!Noting, A, Quotas!WarnedOncePerPeriod
  <2>3. Unnoted(a)' => phase' = "note" /\ a = A /\ due = period
    BY <1>1, <1>3, <1>6 DEF Unnoted, Quotas!Noting, A
  <2>4. warnings'[a] >= warnings[a]
    BY <2>1, <1>5
  <2>5. warned[a] = period \/ saved[a] = period \/ snapshot[a] = period \/ Unnoted(a)'
          => warnings'[a] >= 1
    BY <2>1, <2>2, <2>3, <2>4, <1>6 DEF NoteIsTrue
  <2>6. saved[a] # period /\ ~Unnoted(a)' => warnings'[a] =< faults' + forgotten[a]
    <3>1. CASE warnings'[a] = warnings[a]
      BY <2>1, <2>2, <3>1 DEF NoteIsTrue
    <3>2. CASE a = A /\ due = period /\ warnings'[a] = warnings[a] + 1
      <4>1. CASE phase' = "note"
        BY <1>1, <1>6, <3>2, <4>1 DEF Unnoted, Quotas!Noting, A
      <4>2. CASE phase' # "note"
        BY <1>2, <2>1, <2>2, <3>2, <4>2 DEF NoteIsTrue
      <4> QED
        BY <4>1, <4>2
    <3> QED
      BY <1>5, <3>1, <3>2
  <2>7. warnings'[a] =< 1 + faults' + forgotten[a]
    <3>1. CASE warnings'[a] = warnings[a]
      BY <2>1, <2>2, <3>1
    <3>2. CASE a = A /\ due = period /\ warnings'[a] = warnings[a] + 1
      BY <1>4, <2>1, <2>2, <3>2 DEF NoteIsTrue
    <3> QED
      BY <1>5, <3>1, <3>2
  <2> QED
    BY <1>1, <1>3, <2>2, <2>5, <2>6, <2>7 DEF NoteIsTrue, Quotas!Noting
<1>8. Quotas!TypeOK'
  BY <1>1, <1>3, <1>4, <1>5 DEF QuotaInv, Quotas!TypeOK
<1>9. Quotas!TokensAreKept'
  <2>1. Lost' \subseteq Lost
    BY <1>1, <1>3 DEF Lost
  <2> QED
    BY <1>4, <2>1, QuotasLose DEF LosesForAReason
<1>10. NotesAreTrue' /\ Quotas!WarnedOncePerPeriod'
  <2>1. due' =< period'
    BY <1>1 DEF QuotaInv, NotesAreTrue
  <2> QED
    BY <1>3, <1>7, <2>1 DEF NotesAreTrue, Quotas!WarnedOncePerPeriod
<1> QED
  BY <1>3, <1>8, <1>9, <1>10 DEF QuotaInv, FreshIsValid

\* noted in memory,
LEMMA QuotasNote == QuotaInv /\ Quotas!Note => QuotaInv'
<1> SUFFICES ASSUME QuotaInv, Quotas!Note PROVE QuotaInv'
  OBVIOUS
<1> DEFINE A == Quotas!Account
<1>0. A \in Quotas!Names /\ due \in 0..MaxPeriods /\ due \in Nat /\ period \in Nat
  BY QuotasKnow DEF QuotaInv, Quotas!TypeOK
<1>1. /\ UNCHANGED <<watch, reboots, due, over, period, ask, fresh, valid, stored, saved,
                     snapshot, warnings, forgotten, faults>>
      /\ phase = "note" /\ phase' = "write" /\ warned' = [warned EXCEPT ![A] = due] /\ A' = A
  BY DEF Quotas!Note, Quotas!tokens, Quotas!past, Quotas!Account
<1> HIDE DEF A
<1>2. Quotas!TypeOK' /\ \A a \in Quotas!Names : warned'[a] = IF a = A THEN due ELSE warned[a]
  BY <1>0, <1>1 DEF QuotaInv, Quotas!TypeOK
<1>3. Quotas!TokensAreKept'
  BY <1>1 DEF QuotaInv, Quotas!TokensAreKept, Quotas!Account
<1>4. ASSUME NEW a \in Quotas!Names
      PROVE  NoteIsTrue(a)' /\ (warned'[a] = period' => warnings'[a] >= 1)
             /\ warnings'[a] =< 1 + faults' + forgotten'[a]
  <2>1. /\ NoteIsTrue(a) /\ warnings[a] =< 1 + faults + forgotten[a] /\ due =< period
        /\ a = A /\ due = period <=> Unnoted(a)
    BY <1>1 DEF QuotaInv, NotesAreTrue, Quotas!WarnedOncePerPeriod, Unnoted, Quotas!Noting, A
  <2>2. Unnoted(a)' = Unnoted(a)
    BY <1>1 DEF Unnoted, Quotas!Noting, A
  <2>3. /\ warned[a] \in Nat /\ saved[a] \in Nat
        /\ a = A /\ due < period => saved[a] # period
    BY <1>1, <2>1, QuotasKnow DEF NoteIsTrue, Quotas!Noting
  <2> QED
    BY <1>0, <1>1, <1>2, <2>1, <2>2, <2>3 DEF NoteIsTrue, Quotas!Noting
<1>5. NotesAreTrue' /\ Quotas!WarnedOncePerPeriod'
  <2>1. due' =< period' /\ warned'[A] = due
    BY <1>0, <1>1, <1>2 DEF QuotaInv, NotesAreTrue
  <2> QED
    BY <1>1, <1>4, <2>1 DEF NotesAreTrue, Quotas!WarnedOncePerPeriod, A
<1> QED
  BY <1>1, <1>2, <1>3, <1>5 DEF QuotaInv, FreshIsValid

\* and in the file.
LEMMA QuotasWrite == QuotaInv /\ Quotas!WriteNotes => QuotaInv'
<1> SUFFICES ASSUME QuotaInv, Quotas!WriteNotes PROVE QuotaInv'
  OBVIOUS
<1>1. /\ UNCHANGED <<watch, reboots, due, over, period, fresh, valid, stored, warned, snapshot,
                     warnings, forgotten>>
      /\ phase = "write" /\ Quotas!Proceed
      /\ \/ saved' = warned /\ faults' = faults
         \/ saved' = saved /\ faults < MaxFaults /\ faults' = faults + 1
  BY DEF Quotas!WriteNotes, Quotas!tokens, Quotas!past, Quotas!Fault
<1>2. ask' \in Quotas!Places /\ phase' \in {"idle", "refresh", "look"}
  BY <1>1, QuotasProceed
<1>3. faults' \in 0..MaxFaults /\ faults' \in Nat /\ faults =< faults'
      /\ faults + reboots =< faults' + reboots' /\ reboots' \in Nat
  <2>1. /\ faults \in Nat /\ reboots \in Nat /\ MaxFaults \in Nat /\ faults =< MaxFaults
        /\ reboots' = reboots
    BY <1>1, QuotasKnow DEF QuotaInv, Quotas!TypeOK
  <2> QED
    BY <1>1, <2>1
<1>4. Quotas!TypeOK'
  BY <1>1, <1>2, <1>3 DEF QuotaInv, Quotas!TypeOK
<1>5. Quotas!TokensAreKept'
  <2>1. Lost' \subseteq Lost
    BY <1>1, <1>2 DEF Lost
  <2> QED
    BY <1>3, <2>1, QuotasLose DEF LosesForAReason
<1>6. ASSUME NEW a \in Quotas!Names
      PROVE  NoteIsTrue(a)' /\ (warned'[a] = period' => warnings'[a] >= 1)
             /\ warnings'[a] =< 1 + faults' + forgotten'[a]
  <2>1. /\ NoteIsTrue(a) /\ warnings[a] =< 1 + faults + forgotten[a]
        /\ Unnoted(a) => warned[a] = period
    BY <1>1 DEF QuotaInv, NotesAreTrue, Quotas!WarnedOncePerPeriod, Unnoted
  <2>2. /\ ~Unnoted(a)' /\ ~Quotas!Noting' /\ phase' # "warn"
        /\ saved[a] = period => warned[a] = period
    BY <1>1, <1>2, <2>1 DEF Unnoted, Quotas!Noting, NoteIsTrue
  <2>3. /\ warnings[a] \in Nat /\ forgotten[a] \in Nat /\ faults \in Nat
        /\ warnings[a] =< faults + forgotten[a] => warnings[a] =< faults' + forgotten[a]
        /\ warnings[a] =< 1 + faults + forgotten[a] => warnings[a] =< 1 + faults' + forgotten[a]
    BY <1>3, QuotasKnow, QuotasWiden
  <2>4. saved'[a] # period => warnings[a] =< faults' + forgotten[a]
    <3>1. CASE saved' = warned
      BY <2>1, <2>2, <2>3, <3>1 DEF NoteIsTrue
    <3>2. CASE saved' = saved /\ faults' = faults + 1
      BY <2>1, <2>3, <3>2
    <3> QED
      BY <1>1, <3>1, <3>2
  <2>5. /\ saved'[a] = period => warned[a] = period
        /\ saved'[a] =< period
    BY <1>1, <2>1, <2>2 DEF NoteIsTrue
  <2>6. warned[a] = period => warnings[a] >= 1
    BY <2>1 DEF NoteIsTrue
  <2> QED
    BY <1>1, <2>1, <2>2, <2>3, <2>4, <2>5, <2>6 DEF NoteIsTrue
<1>7. NotesAreTrue' /\ Quotas!WarnedOncePerPeriod'
  <2>1. due' =< period'
    BY <1>1 DEF QuotaInv, NotesAreTrue
  <2> QED
    BY <1>2, <1>6, <2>1 DEF NotesAreTrue, Quotas!WarnedOncePerPeriod
<1> QED
  BY <1>2, <1>4, <1>5, <1>7 DEF QuotaInv, FreshIsValid

LEMMA QuotasMove == QuotaInv /\ [Quotas!Next]_quotavars => QuotaInv'
<1>1. ASSUME QuotaInv, UNCHANGED quotavars PROVE QuotaInv'
  <2>1. Quotas!TypeOK'
    BY <1>1 DEF quotavars, QuotaInv, Quotas!TypeOK
  <2>2. FreshIsValid' /\ NotesAreTrue'
    BY <1>1 DEF quotavars, QuotaInv, FreshIsValid, NotesAreTrue, NoteIsTrue,
       Unnoted, Quotas!Noting, Quotas!Account
  <2>3. Quotas!TokensAreKept' /\ Quotas!WarnedOncePerPeriod'
    BY <1>1 DEF quotavars, QuotaInv, Quotas!TokensAreKept, Quotas!WarnedOncePerPeriod,
       Quotas!Account
  <2> QED
    BY <2>1, <2>2, <2>3 DEF QuotaInv
<1> QED
  BY <1>1, QuotasWait, QuotasRestart, QuotasLoad, QuotasRefresh, QuotasLook, QuotasWarn,
     QuotasNote, QuotasWrite
  DEF Quotas!Next

LEMMA QuotasHold == QuotaInv => Quotas!TokensAreKept /\ Quotas!WarnedOncePerPeriod
BY DEF QuotaInv

----------------------------------------------------------------------------
(* Calls of a model                                                        *)

\* What another sequence has at its end is its end.
LEMMA EndsWith ==
  ASSUME NEW S, NEW s \in Seq(S), NEW t \in Seq(S), Len(s) =< Len(t),
         \A i \in 1..Len(s) : t[Len(t) - Len(s) + i] = s[i]
  PROVE  Models!AtTheEnd(s, t)
<1> DEFINE m == (Len(t) + 1) - Len(s)
           u == SubSeq(t, m, Len(t))
<1>1. Len(s) \in Nat /\ Len(t) \in Nat /\ m \in Int /\ m >= 1
  OBVIOUS
<1>2. \A i \in m..Len(t) : t[i] \in S
  BY <1>1
<1>3. /\ u \in Seq(S)
      /\ Len(u) = IF m =< Len(t) THEN Len(t) - m + 1 ELSE 0
      /\ \A i \in 1..(Len(t) - m + 1) : u[i] = t[m + i - 1]
  BY <1>1, <1>2, SubSeqProperties
<1>4. Len(u) = Len(s)
  BY <1>1, <1>3
<1>5. ASSUME NEW i \in 1..Len(s) PROVE s[i] = u[i]
  <2>1. i \in 1..(Len(t) - m + 1) /\ m + i - 1 = Len(t) - Len(s) + i
    BY <1>1
  <2> QED
    BY <1>3, <2>1
<1> HIDE DEF u
<1>6. s = u
  BY <1>3, <1>4, <1>5, SeqEqual
<1> QED
  BY <1>6 DEF u, m, Models!AtTheEnd

\* How far a stream has come is how many words it has brought.
LEMMA BroughtIsAll ==
  ModelInv /\ asking = "stream" => Models!Brought = Len(words) /\ Len(words) \in Nat
<1> SUFFICES ASSUME ModelInv, asking = "stream"
             PROVE  Models!Brought = Len(words) /\ Len(words) \in Nat
  OBVIOUS
<1>1. Len(words) \in Nat
  BY DEF ModelInv, Models!TypeOK
<1>2. {i \in 1..Len(words) : words[i][1] = attempt} = 1..Len(words)
  BY DEF ModelInv, WordsAreThisAttempts
<1>3. Cardinality(1..Len(words)) = Len(words)
  <2>1. 0 \in Int /\ 1 \in Int /\ Len(words) \in Int
    BY <1>1
  <2>2. IF 1 > Len(words) THEN Cardinality(1..Len(words)) = 0
                          ELSE Cardinality(1..Len(words)) = Len(words) - 1 + 1
    BY <2>1, FS_Interval
  <2> QED
    BY <1>1, <2>2
<1>4. Models!Cardinality(1..Len(words)) = Cardinality(1..Len(words))
  BY DEF Cardinality, Models!Cardinality
<1> QED
  BY <1>1, <1>2, <1>3, <1>4 DEF Models!Brought

LEMMA ModelsBegin == Models!Init => ModelInv
<1> SUFFICES ASSUME Models!Init PROVE ModelInv
  OBVIOUS
<1>1. <<>> \in Seq(Models!Told) /\ words = <<>> /\ told_words = <<>> /\ answer = <<>>
  BY EmptySeq DEF Models!Init
<1>2. attempt \in Nat /\ attempt = 0 /\ AskedAtMost \in Nat /\ attempt < AskedAtMost
  BY CallsAreBounded DEF Models!Init
<1>3. Models!TypeOK
  BY <1>1, <1>2 DEF Models!TypeOK, Models!Init
<1>4. AskedSoFar
  <2>1. asking = "prepare"
    BY DEF Models!Init
  <2> QED
    BY <1>2, <2>1 DEF AskedSoFar
<1>5. Models!AskedWithinReason
  <2>1. ~refused
    BY DEF Models!Init
  <2> QED
    BY <1>2, <2>1 DEF Models!AskedWithinReason
<1>6. WordsAreThisAttempts /\ ForwardedAsTheyCome /\ MarkersAreTrue
  BY DEF Models!Init, WordsAreThisAttempts, ForwardedAsTheyCome, MarkersAreTrue
<1> QED
  BY <1>3, <1>4, <1>5, <1>6
  DEF ModelInv, Models!CallsAreSound, Models!AnswerIsOneAttempts, Models!Init

\* What is known of a call whose answer has not been taken.
LEMMA ModelsKnow ==
  ModelInv =>
    /\ client \in {"zen", "vision", "chat", "chat_stream", "responses"}
    /\ asking \in {"prepare", "ask", "asked", "stream", "retry", "done"}
    /\ attempt \in Nat /\ AskedAtMost \in Nat /\ Words \in Nat /\ Words > 0
    /\ words \in Seq(Models!Told) /\ told_words \in Seq(Models!Told)
    /\ answer \in Seq(Models!Told) /\ <<>> \in Seq(Models!Told)
    /\ Len(words) \in Nat /\ Len(told_words) \in Nat
BY CallsAreBounded, EmptySeq DEF ModelInv, Models!TypeOK

\* A call that failed is made again, or is over without an answer.
LEMMA ModelsFail ==
  ASSUME ModelInv, asking \in {"asked", "stream"}, NEW retriable \in BOOLEAN,
         Models!Failed(retriable),
         UNCHANGED <<client, attempt, words, told_words, gaveUp, spent>>,
         complained' \in BOOLEAN, finished' = finished, refused' \in BOOLEAN,
         refused' => ~retriable \/ refused
  PROVE  ModelInv'
<1>1. /\ asking' \in {"retry", "done"} /\ outcome' \in {"none", "error"}
      /\ answer' \in {<<>>, answer} /\ (asking' = "retry" => outcome' = outcome)
  <2>1. outcome \in {"none", "error"}
    BY DEF ModelInv, Models!TypeOK
  <2> QED
    BY <2>1 DEF Models!Failed, Models!Ends
<1>2. asking' = "retry" =>
        client \in {"zen", "vision"} /\ attempt < AskedAtMost /\ (client = "zen" => retriable)
  BY DEF Models!Failed, Models!Ends
<1>3. Models!TypeOK'
  <2>1. answer' \in Seq(Models!Told)
    BY <1>1, ModelsKnow
  <2> QED
    BY <1>1, <2>1 DEF ModelInv, Models!TypeOK, Models!Told
<1>4. AskedSoFar'
  BY <1>1, <1>2, ModelsKnow DEF ModelInv, AskedSoFar
<1>5. Models!AskedWithinReason'
  <2>1. attempt' =< IF client' \in {"zen", "vision"} THEN AskedAtMost
                    ELSE IF client' = "responses" THEN 2 ELSE 1
    BY DEF ModelInv, Models!CallsAreSound, Models!AskedWithinReason
  <2>2. refused' /\ client' # "vision" => asking' = "done"
    BY <1>1, <1>2 DEF ModelInv, Models!CallsAreSound, Models!AskedWithinReason
  <2> QED
    BY <2>1, <2>2 DEF Models!AskedWithinReason
<1> QED
  BY <1>1, <1>3, <1>4, <1>5
  DEF ModelInv, WordsAreThisAttempts, ForwardedAsTheyCome, MarkersAreTrue,
      Models!CallsAreSound, Models!AnswerIsOneAttempts

\* An answer is taken for one.
LEMMA ModelsAnswer ==
  ASSUME ModelInv, asking \in {"asked", "stream"}, NEW taken \in Seq(Models!Told),
         asking' = "done", outcome' = "ok", answer' = taken,
         UNCHANGED <<client, attempt, words, complained, finished, told_words, gaveUp, spent,
                     refused>>,
         \A i \in 1..Len(taken) : taken[i][1] = attempt /\ taken[i][2] = i,
         Len(taken) < Words => ~Models!Whole /\ client # "responses" /\ (complained \/ ~finished),
         Models!NoText(taken) =>
           client = "chat_stream" \/ (client = "zen" /\ ~complained /\ taken # <<>>),
         Models!Forwards => Models!AtTheEnd(taken, told_words)
  PROVE  ModelInv'
<1>1. Models!TypeOK'
  BY DEF ModelInv, Models!TypeOK, Models!Told
<1>2. AskedSoFar'
  BY ModelsKnow DEF ModelInv, AskedSoFar
<1>3. Models!AskedWithinReason'
  BY DEF ModelInv, Models!CallsAreSound, Models!AskedWithinReason
<1>4. Models!AnswerIsOneAttempts'
  BY DEF Models!AnswerIsOneAttempts, Models!Whole, Models!Forwards, Models!NoText
<1> QED
  BY <1>1, <1>2, <1>3, <1>4
  DEF ModelInv, WordsAreThisAttempts, ForwardedAsTheyCome, MarkersAreTrue,
      Models!CallsAreSound

\* The request is prepared, sent, and sent again.
LEMMA ModelsAsk ==
  ModelInv /\ (Models!Unfit \/ Models!Prepared \/ Models!Ask \/ Models!OnlyStreams \/ Models!Retry)
    => ModelInv'
<1> SUFFICES ASSUME ModelInv, Models!Unfit \/ Models!Prepared \/ Models!Ask \/ Models!OnlyStreams
                              \/ Models!Retry
             PROVE  ModelInv'
  OBVIOUS
<1> USE DEF Models!Unfit, Models!Prepared, Models!Ask, Models!OnlyStreams, Models!Retry,
            Models!Ends
<1>1. /\ UNCHANGED <<client, told_words, gaveUp, spent, refused>>
      /\ asking' \in {"ask", "asked", "done"} /\ outcome' \in {"none", "error"}
      /\ answer' \in {<<>>, answer} /\ words' \in {<<>>, words}
      /\ attempt' \in {attempt, attempt + 1}
      /\ (asking' = "asked" => words' = <<>> /\ ~complained' /\ ~finished')
  <2>1. outcome \in {"none", "error"}
    BY DEF ModelInv, Models!TypeOK
  <2> QED
    BY <2>1
<1>2. complained' \in BOOLEAN /\ finished' \in BOOLEAN
  BY DEF ModelInv, Models!TypeOK
<1>3. Models!TypeOK'
  <2>1. answer' \in Seq(Models!Told) /\ words' \in Seq(Models!Told)
    BY <1>1, ModelsKnow
  <2>2. attempt' \in Nat
    BY <1>1, ModelsKnow
  <2> QED
    BY <1>1, <1>2, <2>1, <2>2 DEF ModelInv, Models!TypeOK, Models!Told
<1>4. AskedSoFar'
  <2>1. CASE Models!Unfit
    BY <2>1, ModelsKnow DEF ModelInv, AskedSoFar
  <2>2. CASE Models!Prepared
    BY <2>2, ModelsKnow, CallsAreBounded DEF ModelInv, AskedSoFar
  <2>3. CASE Models!Ask
    BY <2>3, ModelsKnow DEF ModelInv, AskedSoFar
  <2>4. CASE Models!OnlyStreams
    BY <2>4, ModelsKnow DEF ModelInv, AskedSoFar
  <2>5. CASE Models!Retry
    BY <2>5, ModelsKnow DEF ModelInv, AskedSoFar
  <2> QED
    BY <2>1, <2>2, <2>3, <2>4, <2>5
<1>5. Models!AskedWithinReason'
  <2>1. attempt' =< IF client' \in {"zen", "vision"} THEN AskedAtMost
                    ELSE IF client' = "responses" THEN 2 ELSE 1
    BY <1>1, <1>4, ModelsKnow DEF AskedSoFar
  <2>2. refused' /\ client' # "vision" => asking' = "done"
    BY <1>1 DEF ModelInv, Models!CallsAreSound, Models!AskedWithinReason
  <2> QED
    BY <2>1, <2>2 DEF Models!AskedWithinReason
<1>6. ForwardedAsTheyCome'
  <2> SUFFICES ASSUME asking' = "asked" PROVE Len(words') = 0 /\ Len(told_words') \in Nat
    BY <1>1 DEF ForwardedAsTheyCome
  <2> QED
    BY <1>1, ModelsKnow
<1> QED
  BY <1>1, <1>3, <1>4, <1>5, <1>6
  DEF ModelInv, WordsAreThisAttempts, MarkersAreTrue,
      Models!CallsAreSound, Models!AnswerIsOneAttempts

\* The server's answer, and what may happen to a call at any time.
LEMMA ModelsHear ==
  ModelInv /\ (Models!Opens \/ Models!Marker \/ Models!Cancel \/ Models!BudgetPasses)
    => ModelInv'
<1> SUFFICES ASSUME ModelInv, Models!Opens \/ Models!Marker \/ Models!Cancel \/ Models!BudgetPasses
             PROVE  ModelInv'
  OBVIOUS
<1> USE DEF Models!Opens, Models!Marker, Models!Cancel, Models!BudgetPasses
<1>1. /\ UNCHANGED <<client, attempt, words, complained, told_words, answer, outcome, refused>>
      /\ asking' = asking \/ (asking = "asked" /\ asking' = "stream" /\ ~Models!Whole)
      /\ finished' = finished \/ (asking = "stream" /\ finished' = TRUE)
  OBVIOUS
<1>2. Models!TypeOK'
  <2>1. finished' \in BOOLEAN /\ gaveUp' \in BOOLEAN /\ spent' \in BOOLEAN
    BY DEF ModelInv, Models!TypeOK
  <2> QED
    BY <1>1, <2>1 DEF ModelInv, Models!TypeOK, Models!Told
<1>3. AskedSoFar'
  BY <1>1, ModelsKnow DEF ModelInv, AskedSoFar
<1>4. Models!CallsAreSound'
  BY <1>1
  DEF ModelInv, Models!CallsAreSound, Models!AskedWithinReason, Models!AnswerIsOneAttempts,
      Models!Whole, Models!Forwards
<1>5. WordsAreThisAttempts'
  <2>1. asking = "asked" => Len(words) = 0
    BY DEF ModelInv, WordsAreThisAttempts
  <2>2. 0 =< Words
    BY ModelsKnow
  <2> QED
    BY <1>1, <2>1, <2>2 DEF ModelInv, WordsAreThisAttempts, Models!Whole
<1>6. ForwardedAsTheyCome'
  BY <1>1 DEF ModelInv, ForwardedAsTheyCome, Models!Forwards
<1>7. MarkersAreTrue'
  <2>1. asking = "stream" /\ finished' => finished \/ complained \/ Models!Brought = Words
    OBVIOUS
  <2>2. asking = "asked" => ~complained /\ ~finished
    BY DEF ModelInv
  <2> QED
    BY <1>1, <2>1, <2>2, BroughtIsAll DEF ModelInv, MarkersAreTrue
<1> QED
  BY <1>1, <1>2, <1>3, <1>4, <1>5, <1>6, <1>7 DEF ModelInv

\* A word comes.
LEMMA ModelsWord ==
  ASSUME ModelInv, NEW type \in {"text", "thought"}, Models!Word(type)
  PROVE  ModelInv'
<1> DEFINE n == Len(words)
           m == Len(told_words)
           w == <<attempt, Models!Brought + 1, type>>
<1>1. /\ asking = "stream" /\ n \in Nat /\ m \in Nat /\ Models!Brought = n /\ n < Words
      /\ Words \in Nat /\ attempt \in Nat
      /\ words \in Seq(Models!Told) /\ told_words \in Seq(Models!Told) /\ ~finished
  BY BroughtIsAll, ModelsKnow DEF Models!Word
<1>2. w \in Models!Told /\ w[1] = attempt /\ w[2] = n + 1
  <2>1. n + 1 \in 1..Words
    BY <1>1
  <2> QED
    BY <1>1, <2>1 DEF Models!Told
<1>3. /\ words' = Append(words, w)
      /\ told_words' = IF Models!Forwards THEN Append(told_words, w) ELSE told_words
      /\ UNCHANGED <<client, asking, attempt, complained, finished, answer, outcome,
                     gaveUp, spent, refused>>
  BY DEF Models!Word
<1> HIDE DEF w
<1>4. /\ words' \in Seq(Models!Told) /\ Len(words') = n + 1 /\ words'[n + 1] = w
      /\ \A i \in 1..n : words'[i] = words[i]
  BY <1>1, <1>2, <1>3
<1>5. /\ told_words' \in Seq(Models!Told)
      /\ Models!Forwards => /\ Len(told_words') = m + 1 /\ told_words'[m + 1] = w
                            /\ \A i \in 1..m : told_words'[i] = told_words[i]
  BY <1>1, <1>2, <1>3
<1>6. Models!TypeOK'
  BY <1>3, <1>4, <1>5 DEF ModelInv, Models!TypeOK, Models!Told
<1>7. WordsAreThisAttempts'
  <2> SUFFICES ASSUME NEW i \in 1..(n + 1)
               PROVE  /\ words'[i][1] = attempt /\ words'[i][2] = i
                      /\ client \in {"vision", "responses"} => words'[i][3] = "text"
    BY <1>1, <1>3, <1>4 DEF ModelInv, WordsAreThisAttempts, Models!Whole
  <2>0. w[3] = type /\ (client \in {"vision", "responses"} => type = "text")
    BY DEF w, Models!Word
  <2>1. CASE i = n + 1
    BY <2>0, <2>1, <1>2, <1>4
  <2>2. CASE i \in 1..n
    BY <2>2, <1>1, <1>4 DEF ModelInv, WordsAreThisAttempts
  <2> QED
    BY <2>1, <2>2, <1>1
<1>8. ForwardedAsTheyCome'
  <2> SUFFICES ASSUME Models!Forwards
               PROVE  /\ n + 1 =< m + 1
                      /\ \A i \in 1..(n + 1) : told_words'[(m + 1) - (n + 1) + i] = words'[i]
    BY <1>3, <1>4, <1>5 DEF ForwardedAsTheyCome, Models!Forwards
  <2>1. n =< m /\ \A i \in 1..n : told_words[m - n + i] = words[i]
    BY <1>1 DEF ModelInv, ForwardedAsTheyCome
  <2>2. ASSUME NEW i \in 1..(n + 1) PROVE told_words'[(m + 1) - (n + 1) + i] = words'[i]
    <3>1. CASE i = n + 1
      BY <3>1, <1>1, <1>4, <1>5
    <3>2. CASE i \in 1..n
      <4>1. (m + 1) - (n + 1) + i = m - n + i /\ m - n + i \in 1..m
        BY <3>2, <2>1, <1>1
      <4> QED
        BY <3>2, <4>1, <2>1, <1>4, <1>5
    <3> QED
      BY <3>1, <3>2, <1>1
  <2> QED
    BY <2>1, <2>2, <1>1
<1>9. MarkersAreTrue'
  BY <1>1, <1>3 DEF ModelInv, MarkersAreTrue
<1> QED
  BY <1>1, <1>3, <1>6, <1>7, <1>8, <1>9
  DEF ModelInv, AskedSoFar, Models!CallsAreSound, Models!AskedWithinReason,
      Models!AnswerIsOneAttempts

\* The stream ends, and what it brought is taken or is not.
LEMMA ModelsTake == ModelInv /\ Models!StreamEnds => ModelInv'
<1> SUFFICES ASSUME ModelInv, Models!StreamEnds PROVE ModelInv'
  OBVIOUS
<1>1. /\ asking = "stream"
      /\ UNCHANGED <<client, attempt, words, complained, finished, told_words, gaveUp, spent,
                     refused>>
  BY DEF Models!StreamEnds
<1>2. CASE Models!Failed(TRUE)
  <2>1. complained' \in BOOLEAN /\ refused' \in BOOLEAN /\ (refused' => refused)
    BY <1>1 DEF ModelInv, Models!TypeOK
  <2> QED
    BY <1>1, <1>2, <2>1, ModelsFail
<1>3. CASE Models!Ends("ok", words)
  <2>1. /\ words \in Seq(Models!Told) /\ Len(words) \in Nat /\ Words \in Nat /\ Words > 0
        /\ told_words \in Seq(Models!Told) /\ Len(told_words) \in Nat
    BY ModelsKnow
  <2>2. /\ \A i \in 1..Len(words) : words[i][1] = attempt /\ words[i][2] = i
        /\ ~Models!Whole
    BY <1>1 DEF ModelInv, WordsAreThisAttempts
  <2>3. Models!Forwards => Models!AtTheEnd(words, told_words)
    BY <1>1, <2>1, EndsWith DEF ModelInv, ForwardedAsTheyCome
  <2>4. asking' = "done" /\ outcome' = "ok" /\ answer' = words
    BY <1>3 DEF Models!Ends
  <2>m. /\ client = "responses" => ~complained
        /\ Len(words) < Words => complained \/ ~finished
    BY <1>1, <2>1 DEF ModelInv, MarkersAreTrue
  <2>5. client = "responses" => Len(words) = Words
    <3>1. client = "responses" => finished
      BY <2>4 DEF Models!StreamEnds, Models!Failed, Models!Ends
    <3> QED
      BY <1>1, <2>m, <3>1 DEF ModelInv, MarkersAreTrue
  <2>6. Models!NoText(words) =>
          client = "chat_stream" \/ (client = "zen" /\ ~complained /\ words # <<>>)
    <3> SUFFICES ASSUME Models!NoText(words), client # "chat_stream"
                 PROVE  client = "zen" /\ ~complained /\ words # <<>>
      OBVIOUS
    <3>1. client \in {"zen", "vision", "responses"}
      BY <2>2, ModelsKnow DEF Models!Whole
    <3>2. client \in {"vision", "responses"} => Len(words) = 0
      BY <1>1, <2>1 DEF ModelInv, WordsAreThisAttempts, Models!NoText
    <3>3. client # "responses"
      BY <2>1, <2>5, <3>2
    <3>4. client = "vision" => words = <<>>
      BY <2>1, <3>2, EmptySeq
    <3> QED
      BY <3>1, <3>3, <3>4, <2>4 DEF Models!StreamEnds, Models!Failed, Models!Ends
  <2> QED
    BY <1>1, <2>1, <2>2, <2>3, <2>4, <2>5, <2>m, <2>6, ModelsAnswer
<1> QED
  BY <1>2, <1>3, <1>1, ModelsKnow DEF Models!StreamEnds, ModelInv, WordsAreThisAttempts,
     Models!Whole

\* The body of an answer that is not streamed.
LEMMA ModelsBody == ModelInv /\ Models!Body => ModelInv'
<1> SUFFICES ASSUME ModelInv, Models!Body PROVE ModelInv'
  OBVIOUS
<1> DEFINE whole == [k \in 1..Words |-> <<attempt, k, "text">>]
<1>1. /\ asking = "asked" /\ Models!Whole /\ asking' = "done"
      /\ UNCHANGED <<client, attempt, words, complained, finished, told_words, gaveUp, spent,
                     refused>>
  BY DEF Models!Body, Models!Ends
<1>2. /\ Words \in Nat /\ Words > 0 /\ attempt \in Nat
      /\ client \in {"chat", "responses"}
  BY <1>1, ModelsKnow DEF Models!Whole
<1>3. CASE Models!Ends("ok", whole)
  <2>1. /\ whole \in Seq(Models!Told) /\ Len(whole) = Words /\ whole # <<>>
        /\ \A i \in 1..Len(whole) : whole[i][1] = attempt /\ whole[i][2] = i
        /\ whole[1][3] = "text" /\ 1 \in 1..Len(whole)
    <3>1. \A k \in 1..Words : <<attempt, k, "text">> \in Models!Told
      BY <1>2 DEF Models!Told
    <3>2. whole \in Seq(Models!Told) /\ Len(whole) = Words
      BY <3>1, <1>2
    <3> QED
      BY <3>2, <1>2
  <2>2. ~Models!Forwards /\ outcome' = "ok" /\ answer' = whole
    BY <1>2, <1>3 DEF Models!Forwards, Models!Ends
  <2> HIDE DEF whole
  <2>3. ~(Len(whole) < Words) /\ ~Models!NoText(whole)
    BY <2>1, <1>2 DEF Models!NoText
  <2> QED
    BY <1>1, <2>1, <2>2, <2>3, ModelsAnswer
<1>4. CASE Models!Ends("error", <<>>)
  <2>1. Models!Failed(TRUE)
    BY <1>2, <1>4 DEF Models!Failed
  <2>2. complained' \in BOOLEAN /\ refused' \in BOOLEAN /\ (refused' => refused)
    BY <1>1 DEF ModelInv, Models!TypeOK
  <2> QED
    BY <1>1, <2>1, <2>2, ModelsFail
<1> QED
  BY <1>3, <1>4 DEF Models!Body

\* A call is refused, fails, or hears of an error in its stream.
LEMMA ModelsFailures ==
  ModelInv /\ (Models!Refused \/ Models!Fails \/ Models!Complaint) => ModelInv'
<1> SUFFICES ASSUME ModelInv, Models!Refused \/ Models!Fails \/ Models!Complaint PROVE ModelInv'
  OBVIOUS
<1>0. complained \in BOOLEAN /\ refused \in BOOLEAN
  BY DEF ModelInv, Models!TypeOK
<1>1. CASE Models!Refused
  <2>1. /\ asking = "asked" /\ refused' = TRUE /\ Models!Failed(FALSE)
        /\ UNCHANGED <<client, attempt, words, complained, finished, told_words, gaveUp, spent>>
    BY <1>1 DEF Models!Refused
  <2> QED
    BY <1>0, <2>1, ModelsFail
<1>2. CASE Models!Fails
  <2>1. /\ asking \in {"asked", "stream"} /\ Models!Failed(TRUE)
        /\ UNCHANGED <<client, attempt, words, complained, finished, told_words, gaveUp, spent,
                       refused>>
    BY <1>2 DEF Models!Fails
  <2> QED
    BY <1>0, <2>1, ModelsFail
<1>3. CASE Models!Complaint
  <2>1. /\ asking = "stream" /\ complained' = TRUE
        /\ UNCHANGED <<client, attempt, words, finished, told_words, gaveUp, spent, refused>>
    BY <1>3 DEF Models!Complaint
  <2>2. CASE client = "responses"
    <3>1. Models!Failed(TRUE)
      BY <2>2, <1>3 DEF Models!Complaint
    <3> QED
      BY <1>0, <2>1, <3>1, ModelsFail
  <2>3. CASE client # "responses"
    <3>1. UNCHANGED <<asking, answer, outcome>>
      BY <2>3, <1>3 DEF Models!Complaint
    <3>2. Models!TypeOK'
      BY <2>1, <3>1 DEF ModelInv, Models!TypeOK, Models!Told
    <3>3. Models!CallsAreSound'
      BY <2>1, <3>1
      DEF ModelInv, Models!CallsAreSound, Models!AskedWithinReason, Models!AnswerIsOneAttempts,
          Models!Whole, Models!Forwards
    <3> QED
      BY <2>1, <2>3, <3>1, <3>2, <3>3
      DEF ModelInv, AskedSoFar, WordsAreThisAttempts, ForwardedAsTheyCome, MarkersAreTrue,
          Models!Whole, Models!Forwards
  <2> QED
    BY <2>2, <2>3
<1> QED
  BY <1>1, <1>2, <1>3

LEMMA ModelsMove == ModelInv /\ [Models!Next]_modelvars => ModelInv'
<1>1. ASSUME ModelInv, UNCHANGED modelvars PROVE ModelInv'
  <2>1. Models!TypeOK' /\ AskedSoFar' /\ MarkersAreTrue'
    BY <1>1 DEF modelvars, ModelInv, Models!TypeOK, Models!Told, AskedSoFar, MarkersAreTrue
  <2>2. WordsAreThisAttempts' /\ ForwardedAsTheyCome'
    BY <1>1
    DEF modelvars, ModelInv, WordsAreThisAttempts, ForwardedAsTheyCome, Models!Whole,
        Models!Forwards
  <2>3. Models!CallsAreSound'
    BY <1>1
    DEF modelvars, ModelInv, Models!CallsAreSound, Models!AskedWithinReason,
        Models!AnswerIsOneAttempts, Models!Whole, Models!Forwards
  <2> QED
    BY <1>1, <2>1, <2>2, <2>3 DEF modelvars, ModelInv
<1> QED
  BY <1>1, ModelsAsk, ModelsHear, ModelsWord, ModelsTake, ModelsBody, ModelsFailures
  DEF Models!Next

LEMMA ModelsHold == ModelInv => Models!CallsAreSound
BY DEF ModelInv

----------------------------------------------------------------------------
(* Configuration                                                           *)

\* The settings the program begins with.
LEMMA DefaultsAreDecoded ==
  /\ Decoded(Settings!Defaults)
  /\ Counted \cup {"routes", "jids_env", "force", "sandbox", "exclude", "jids"}
       \subseteq DOMAIN Settings!Defaults
<1>1. Settings!Defaults.routes = <<>> /\ Settings!Defaults.jids_env = "none"
  BY DEF Settings!Defaults, Settings!NoVariable
<1>2. \A n \in Counted : Settings!Defaults[n] \in Int
  BY DEF Settings!Defaults, Settings!DefaultWindow, Counted, Settings!Blank
<1>3. <<>> \in Seq(Seq([platform : STRING, ids : SUBSET STRING]))
  BY EmptySeq
<1>4. Counted \cup {"routes", "jids_env", "force", "sandbox", "exclude", "jids"}
        \subseteq DOMAIN Settings!Defaults
  BY DEF Settings!Defaults, Counted
<1> QED
  BY <1>1, <1>2, <1>3, <1>4 DEF Decoded

\* The file's values go over the defaults.
LEMMA SettingsDecode == SettingInv /\ Settings!Decode => SettingInv'
<1> SUFFICES ASSUME SettingInv, Settings!Decode PROVE SettingInv'
  OBVIOUS
<1> DEFINE D == Settings!Defaults
<1>1. /\ configStage' = "decoded" /\ configFile' = configFile /\ configFile \in Files
      /\ config' = [f \in DOMAIN D |-> IF f \in DOMAIN configFile THEN configFile[f] ELSE D[f]]
  BY DEF SettingInv, Settings!Decode
<1>2. DOMAIN configFile \subseteq DOMAIN D /\ DOMAIN config' = DOMAIN D
  BY <1>1, FilesAreDecoded
<1> HIDE DEF D
<1>3. Decoded(config)'
  BY <1>1, <1>2, FilesAreDecoded, DefaultsAreDecoded DEF Decoded, D
<1> QED
  BY <1>1, <1>2, <1>3 DEF SettingInv, Settings!TypeOK, Settings!AcceptedIsUsable, D

LEMMA TasksKeepOthers ==
  ASSUME NEW c, NEW n \in DOMAIN c,
         n \notin {"max_tool_calls", "max_log", "sandbox", "setup_timeout"}
  PROVE  Settings!ResolvedTasks(c)[n] = c[n]
BY ZenonT(120) DEF Settings!ResolvedTasks

\* What resolvePaths fills in keeps the kinds of the values.
LEMMA SettingsResolve == SettingInv /\ Settings!Resolve => SettingInv'
<1> SUFFICES ASSUME SettingInv, Settings!Resolve PROVE SettingInv'
  OBVIOUS
<1> DEFINE c1 == Settings!ResolvedTasks(config)
           c2 == Settings!ResolvedDirectories(c1)
           c3 == Settings!ResolvedLists(c2)
           c4 == Settings!ResolvedModelCalls(c3)
           retries == Settings!ResolvedRetries(c4)
           c5 == Settings!ResolvedLoops(retries)
           c6 == Settings!ResolvedExclude(c5)
           touched == Counted \cup {"routes", "jids_env", "force", "sandbox", "exclude", "jids"}
<1>1. Decoded(config)
  BY DEF SettingInv, Settings!Resolve
<1>11. /\ configFile' = configFile
       /\ configStage' = IF config.jids_env = "empty" THEN "refused" ELSE "resolved"
  BY DEF Settings!Resolve
<1>12. config' = c6
  BY DEF Settings!Resolve
<1>2. touched \subseteq DOMAIN config /\ DOMAIN config = DOMAIN Settings!Defaults
  BY <1>1, DefaultsAreDecoded DEF Decoded
<1>3. /\ Decoded(c1) /\ (c1.force => c1.sandbox) /\ c1.jids_env = config.jids_env
  <2>0. ASSUME NEW n \in Counted PROVE c1[n] \in Int
    <3>1. n \notin {"max_tool_calls", "max_log", "sandbox", "setup_timeout"} /\ config[n] \in Int
      BY <1>1 DEF Counted, Decoded
    <3>2. c1[n] = config[n]
      <4>1. n \in DOMAIN config
        BY <1>2
      <4> QED
        BY <3>1, <4>1, TasksKeepOthers
    <3> QED
      BY <3>1, <3>2
  <2>1. Decoded(c1) /\ c1.jids_env = config.jids_env
    BY <1>1, <1>2, <2>0 DEF Decoded, Settings!ResolvedTasks
  <2>2. c1.force = config.force
    BY <1>1, <1>2 DEF Settings!ResolvedTasks
  <2>3. c1.sandbox = (config.sandbox \/ config.force)
    BY <1>1, <1>2 DEF Settings!ResolvedTasks
  <2> QED
    BY <2>1, <2>2, <2>3
<1>4. /\ Decoded(c2) /\ (c2.force => c2.sandbox) /\ c2.jids_env = config.jids_env
  <2> HIDE DEF c1
  <2>1. \A n \in Counted : c2[n] \in Int
    BY <1>2, <1>3 DEF Decoded, Counted, Settings!ResolvedDirectories
  <2> QED
    BY <1>2, <1>3, <2>1 DEF Decoded, Settings!ResolvedDirectories
<1>5. /\ Decoded(c3) /\ (c3.force => c3.sandbox) /\ c3.jids_env = config.jids_env
      /\ (c3.jids_env = "filled" => c3.jids # {})
  <2> HIDE DEF c2
  <2>1. \A n \in Counted : c3[n] \in Int
    BY <1>2, <1>4 DEF Decoded, Counted, Settings!ResolvedLists
  <2> QED
    BY <1>2, <1>4, <2>1 DEF Decoded, Settings!ResolvedLists
<1>6. /\ Decoded(c4) /\ (c4.force => c4.sandbox) /\ c4.jids_env = config.jids_env
      /\ (c4.jids_env = "filled" => c4.jids # {})
  <2> HIDE DEF c3
  <2>0. ASSUME NEW n \in Counted, DOMAIN c3 = DOMAIN config PROVE c4[n] \in Int
    <3>1. c3[n] \in Int /\ c3.window \in Int
      BY <1>5 DEF Counted, Decoded
    <3>2. Settings!Positive(c3.window, Settings!DefaultWindow) \in Int
      BY <3>1 DEF Settings!Positive, Settings!Filled, Settings!DefaultWindow
    <3>3. n # "max_attempts" /\ n \in DOMAIN c3
      BY <1>2, <2>0 DEF Counted
    <3>4. \/ c4[n] = c3[n]
          \/ c4[n] = Settings!Positive(c3.window, Settings!DefaultWindow)
      BY <3>3 DEF Settings!ResolvedModelCalls
    <3> QED
      BY <3>1, <3>2, <3>4
  <2>1. \A n \in Counted : c4[n] \in Int
    BY <1>2, <1>5, <2>0 DEF Decoded
  <2> QED
    BY <1>2, <1>5, <2>1 DEF Decoded, Settings!ResolvedModelCalls
<1>15. /\ Decoded(retries) /\ (retries.force => retries.sandbox)
          /\ retries.jids_env = config.jids_env
      /\ (retries.jids_env = "filled" => retries.jids # {})
  <2> HIDE DEF c4
  <2>0. ASSUME NEW n \in Counted, DOMAIN c4 = DOMAIN config PROVE retries[n] \in Int
    <3>1. c4[n] \in Int /\ c4.retry_initial \in Int /\ c4.retry_max \in Int
      BY <1>6 DEF Counted, Decoded
    <3>2. Settings!Filled(c4.retry_initial, 2) \in Int /\ Settings!Filled(c4.retry_max, 8) \in Int
      BY <3>1 DEF Settings!Positive, Settings!Filled
    <3>3. n \in DOMAIN c4
      BY <1>2, <2>0 DEF Counted
    <3>4. \/ retries[n] = c4[n]
          \/ retries[n] = Settings!Filled(c4.retry_initial, 2)
          \/ retries[n] = Settings!Filled(c4.retry_max, 8)
      BY <3>3 DEF Settings!ResolvedRetries
    <3> QED
      BY <3>1, <3>2, <3>4
  <2>1. \A n \in Counted : retries[n] \in Int
    BY <1>2, <1>6, <2>0 DEF Decoded
  <2> QED
    BY <1>2, <1>6, <2>1 DEF Decoded, Settings!ResolvedRetries
<1>7. /\ Decoded(c5) /\ (c5.force => c5.sandbox) /\ c5.jids_env = config.jids_env
      /\ (c5.jids_env = "filled" => c5.jids # {})
  <2> HIDE DEF retries
  <2>0. ASSUME NEW n \in Counted, DOMAIN retries = DOMAIN config PROVE c5[n] \in Int
    <3>1. retries[n] \in Int /\ retries.poll \in Int /\ retries.dream_every \in Int
      BY <1>15 DEF Counted, Decoded
    <3>2. Settings!Filled(retries.poll, 5) \in Int /\ Settings!Filled(retries.dream_every,
            360) \in Int
      BY <3>1 DEF Settings!Positive, Settings!Filled
    <3>3. n # "ack_max_chars" /\ n \in DOMAIN retries
      BY <1>2, <2>0 DEF Counted
    <3>4. \/ c5[n] = retries[n]
          \/ c5[n] = Settings!Filled(retries.poll, 5)
          \/ c5[n] = Settings!Filled(retries.dream_every, 360)
      BY ZenonT(40), <3>3 DEF Settings!ResolvedLoops
    <3> QED
      BY <3>1, <3>2, <3>4
  <2>1. \A n \in Counted : c5[n] \in Int
    BY <1>2, <1>15, <2>0 DEF Decoded
  <2> QED
    BY <1>2, <1>15, <2>1 DEF Decoded, Settings!ResolvedLoops
<1>8. /\ Decoded(c6) /\ Resolved(c6) /\ c6.jids_env = config.jids_env
  <2> HIDE DEF c5
  <2>1. \A n \in Counted : c6[n] \in Int
    BY <1>2, <1>7 DEF Decoded, Counted, Settings!ResolvedExclude
  <2> QED
    BY <1>2, <1>7, <2>1 DEF Decoded, Resolved, Settings!ResolvedExclude
<1>9. DOMAIN c6 = DOMAIN Settings!Defaults
  BY <1>8 DEF Decoded
<1> HIDE DEF c6
<1>10. Decoded(config')
  BY <1>12, <1>8
<1>13. Resolved(config') /\ config'.jids_env = config.jids_env
  BY <1>12, <1>8
<1>14. DOMAIN config' = DOMAIN Settings!Defaults
  BY <1>12, <1>9
<1> QED
  BY <1>11, <1>10, <1>13, <1>14 DEF SettingInv, Settings!TypeOK, Settings!AcceptedIsUsable

\* A turn of settings that pass validation can run.
LEMMA ValidTurnsRun ==
  ASSUME Decoded(config), Settings!ValidLimits(config), Settings!ValidCompaction(config),
         Settings!ValidModelCalls(config)
  PROVE  Settings!TurnsCanRun
<1> DEFINE b == Settings!InputBudget(config)
           t == Settings!Trigger(config)
<1>1. /\ config.window \in Int /\ config.max_tokens \in Int /\ config.trigger \in Int
      /\ config.target \in Int /\ config.preserve \in Int
  BY DEF Decoded, Counted
<1>2. config.max_tokens > 0 /\ config.window > config.max_tokens /\ config.max_attempts > 0
      /\ config.max_agent_loops > 0 /\ config.max_tool_calls > 0
  BY DEF Settings!ValidModelCalls, Settings!ValidLimits
<1>3. b \in Int /\ b > 0 /\ b + config.max_tokens =< config.window
  BY <1>1, <1>2 DEF Settings!InputBudget
<1>4. ASSUME config.compaction
      PROVE  /\ Settings!PreserveRecent(config) > 0 /\ t > 0
             /\ Settings!Target(config) < t \/ (config.target > 0 /\ config.trigger = 0)
  <2>1. config.trigger >= 0 /\ (config.trigger > 0 /\ config.target > 0 =>
          config.target < config.trigger)
    BY <1>4 DEF Settings!ValidCompaction
  <2>2. Settings!PreserveRecent(config) > 0
    BY <1>1, <1>4 DEF Settings!PreserveRecent, Settings!Positive
  <2> HIDE DEF b
  <2>3. t \in Int /\ t > 0 /\ (config.trigger > 0 => t = config.trigger)
    BY <1>1, <1>3, <1>4 DEF Settings!Trigger, Settings!Positive, b
  <2> HIDE DEF t
  <2>4. config.target =< 0 => Settings!Target(config) < t
    <3>1. (t * 2) \div 3 < t /\ t \div 2 < t
      BY <2>3
    <3> QED
      BY <3>1, <1>1, <1>4, <2>3 DEF Settings!Target, Settings!Positive, t
  <2>5. config.target > 0 => Settings!Target(config) = config.target
    BY <1>4 DEF Settings!Target
  <2> QED
    BY <1>1, <2>1, <2>2, <2>3, <2>4, <2>5
<1> QED
  BY <1>2, <1>3, <1>4 DEF Settings!TurnsCanRun

\* The parts have what they read of settings that pass validation.
LEMMA ValidPartsStart ==
  ASSUME Decoded(config), Resolved(config), config.jids_env # "empty",
         Settings!ValidModels(config), Settings!ValidHeartbeat(config),
         Settings!ValidDream(config), Settings!ValidParts(config)
  PROVE  Settings!PartsCanStart
<1>1. config.models # <<>> => Settings!ActiveEntry(config) # {}
  BY DEF Settings!ValidModels
<1>2. \A d \in Int, n \in Nat \ {0} : Settings!Lasts(d, n) > 0
  BY DEF Settings!Lasts, Settings!Positive
<1>3. /\ Settings!Lasts(config.timeout, 180) > 0 /\ Settings!Lasts(config.exec_timeout, 120) > 0
      /\ Settings!Lasts(config.poll, 5) > 0 /\ Settings!Lasts(config.every, 30) > 0
      /\ Settings!Lasts(config.sync, 1) > 0 /\ Settings!Lasts(config.dream_every, 360) > 0
      /\ Settings!Lasts(config.retry_initial, 2) > 0 /\ Settings!Lasts(config.retry_max, 8) > 0
  <2>1. \A n \in {"timeout", "exec_timeout", "poll", "every", "sync", "dream_every",
                  "retry_initial", "retry_max"} : config[n] \in Int
    BY DEF Decoded, Counted
  <2>2. /\ config.timeout \in Int /\ config.exec_timeout \in Int /\ config.poll \in Int
        /\ config.every \in Int /\ config.sync \in Int /\ config.dream_every \in Int
        /\ config.retry_initial \in Int /\ config.retry_max \in Int
    BY <2>1, Zenon
  <2>3. 180 \in Nat \ {0} /\ 120 \in Nat \ {0} /\ 5 \in Nat \ {0} /\ 30 \in Nat \ {0}
        /\ 1 \in Nat \ {0} /\ 360 \in Nat \ {0} /\ 2 \in Nat \ {0} /\ 8 \in Nat \ {0}
    OBVIOUS
  <2> QED
    BY <1>2, <2>2, <2>3, ZenonT(40)
<1>4. config.event_webhook => config.heartbeat_target
  BY DEF Settings!ValidParts, Settings!HeartbeatEnabled
<1>5. config.dream => Settings!Blank \notin {config.sleep_start, config.sleep_end}
  BY DEF Settings!ValidDream, Settings!ValidHours
<1>6. ASSUME config.bridge, NEW r \in 1..Len(config.routes)
      PROVE  \E i \in 1..Len(config.routes[r]) :
               config.routes[r][i].platform \in config.routes[r][i].ids
  <2> DEFINE channels == config.routes[r]
  <2>1. channels \in Seq([platform : STRING, ids : SUBSET STRING]) /\ channels # <<>>
    <3>1. config.routes \in Seq(Seq([platform : STRING, ids : SUBSET STRING]))
      BY DEF Decoded
    <3>2. config.routes[r] \in Seq([platform : STRING, ids : SUBSET STRING])
      BY <1>6, <3>1
    <3>3. config.routes[r] # <<>>
      BY <1>6 DEF Settings!ValidParts, Settings!ValidRoutes
    <3> QED
      BY <3>2, <3>3
  <2>2. 1 \in 1..Len(channels)
    <3> HIDE DEF channels
    <3> QED
      BY <2>1
  <2> QED
    BY <1>6, <2>2 DEF Settings!ValidParts, Settings!ValidRoutes
<1>7. config.jids_env # "none" => config.jids # {}
  BY DEF Decoded, Resolved
<1>8. Settings!DefaultExclude \subseteq config.exclude /\ (config.force => config.sandbox)
  BY DEF Resolved
<1> QED
  BY <1>1, <1>3, <1>4, <1>5, <1>6, <1>7, <1>8 DEF Settings!PartsCanStart, Settings!NoVariable

LEMMA SettingsValidate == SettingInv /\ Settings!Validate => SettingInv'
<1> SUFFICES ASSUME SettingInv, Settings!Validate PROVE SettingInv'
  OBVIOUS
<1>1. /\ configStage = "resolved" /\ configStage' \in {"accepted", "refused"}
      /\ config' = config /\ configFile' = configFile
  BY DEF Settings!Validate
<1>2. Decoded(config) /\ Resolved(config) /\ config.jids_env # "empty"
  BY <1>1 DEF SettingInv
<1>3. configStage' = "accepted" => Settings!TurnsCanRun /\ Settings!PartsCanStart
  <2> SUFFICES ASSUME configStage' = "accepted"
               PROVE  Settings!TurnsCanRun /\ Settings!PartsCanStart
    OBVIOUS
  <2>1. /\ Settings!ValidModels(config) /\ Settings!ValidLimits(config)
        /\ Settings!ValidCompaction(config) /\ Settings!ValidModelCalls(config)
        /\ Settings!ValidHeartbeat(config) /\ Settings!ValidDream(config)
        /\ Settings!ValidParts(config)
    BY DEF Settings!Validate
  <2> QED
    BY <1>2, <2>1, ValidTurnsRun, ValidPartsStart
<1>4. Settings!AcceptedIsUsable'
  <2>1. Settings!TurnsCanRun' = Settings!TurnsCanRun
    BY <1>1 DEF Settings!TurnsCanRun
  <2>2. Settings!PartsCanStart' = Settings!PartsCanStart
    BY <1>1 DEF Settings!PartsCanStart
  <2> QED
    BY <1>3, <2>1, <2>2 DEF Settings!AcceptedIsUsable
<1> QED
  BY <1>1, <1>4 DEF SettingInv, Settings!TypeOK

\* The flag moves directories, and nothing that has been validated.
LEMMA SettingsOverride == SettingInv /\ Settings!OverrideWorkspaceRoot => SettingInv'
<1> SUFFICES ASSUME SettingInv, Settings!OverrideWorkspaceRoot PROVE SettingInv'
  OBVIOUS
<1>1. configStage = "accepted" /\ configStage' = configStage /\ configFile' = configFile
  BY SMTT(30) DEF Settings!OverrideWorkspaceRoot
<1>2. PICK moved, within : config' = [config EXCEPT !.session = moved, !.memory = within]
  BY DEF Settings!OverrideWorkspaceRoot
<1>3. DOMAIN config' = DOMAIN Settings!Defaults /\ DOMAIN config = DOMAIN Settings!Defaults
  BY <1>2 DEF SettingInv, Settings!TypeOK
<1>4. /\ config'.max_agent_loops = config.max_agent_loops
         /\ config'.max_tool_calls = config.max_tool_calls
      /\ config'.max_attempts = config.max_attempts /\ config'.window = config.window
      /\ config'.max_tokens = config.max_tokens /\ config'.compaction = config.compaction
      /\ config'.trigger = config.trigger /\ config'.target = config.target
      /\ config'.preserve = config.preserve
  BY <1>2, <1>3 DEF Settings!Defaults
<1>5. /\ config'.models = config.models /\ config'.model = config.model
      /\ config'.timeout = config.timeout /\ config'.exec_timeout = config.exec_timeout
      /\ config'.poll = config.poll /\ config'.every = config.every
      /\ config'.sync = config.sync /\ config'.dream_every = config.dream_every
      /\ config'.retry_initial = config.retry_initial /\ config'.retry_max = config.retry_max
      /\ config'.event_webhook = config.event_webhook
         /\ config'.heartbeat_target = config.heartbeat_target
      /\ config'.dream = config.dream /\ config'.sleep_start = config.sleep_start
      /\ config'.sleep_end = config.sleep_end /\ config'.bridge = config.bridge
      /\ config'.routes = config.routes /\ config'.jids_env = config.jids_env
      /\ config'.jids = config.jids /\ config'.exclude = config.exclude
      /\ config'.force = config.force /\ config'.sandbox = config.sandbox
  BY <1>2, <1>3 DEF Settings!Defaults
<1>6. Settings!TurnsCanRun' = Settings!TurnsCanRun
  BY <1>4 DEF Settings!TurnsCanRun, Settings!InputBudget, Settings!PreserveRecent, Settings!Trigger,
              Settings!Target, Settings!Positive
<1>7. Settings!PartsCanStart' = Settings!PartsCanStart
  BY <1>5 DEF Settings!PartsCanStart, Settings!ActiveEntry, Settings!Lasts, Settings!Positive
<1> QED
  BY <1>1, <1>3, <1>6, <1>7 DEF SettingInv, Settings!TypeOK, Settings!AcceptedIsUsable

LEMMA SettingsBegin == Settings!Init => SettingInv
<1> SUFFICES ASSUME Settings!Init PROVE SettingInv
  OBVIOUS
<1>1. configFile \in Files /\ config = Settings!Defaults /\ configStage = "read"
  BY DEF Settings!Init, Files
<1>2. Decoded(config)
  BY <1>1, DefaultsAreDecoded
<1>3. DOMAIN configFile \subseteq DOMAIN Settings!Defaults
  BY <1>1, FilesAreDecoded
<1> QED
  BY <1>1, <1>2, <1>3 DEF SettingInv, Settings!TypeOK, Settings!AcceptedIsUsable

LEMMA SettingsMove == SettingInv /\ [Settings!Next]_settingvars => SettingInv'
<1>1. ASSUME SettingInv, UNCHANGED settingvars PROVE SettingInv'
  <2>1. configStage' = configStage /\ configFile' = configFile /\ config' = config
    BY <1>1 DEF settingvars
  <2>2. Settings!TurnsCanRun' = Settings!TurnsCanRun
    BY <2>1 DEF Settings!TurnsCanRun
  <2>3. Settings!PartsCanStart' = Settings!PartsCanStart
    BY <2>1 DEF Settings!PartsCanStart
  <2>4. Settings!TypeOK' /\ Settings!AcceptedIsUsable'
    BY <1>1, <2>1, <2>2, <2>3 DEF SettingInv, Settings!TypeOK, Settings!AcceptedIsUsable
  <2> QED
    BY <1>1, <2>1, <2>4 DEF SettingInv
<1> QED
  BY <1>1, SettingsDecode, SettingsResolve, SettingsValidate, SettingsOverride DEF Settings!Next

LEMMA SettingsHold == SettingInv => Settings!AcceptedIsUsable
BY DEF SettingInv

----------------------------------------------------------------------------
(* Sandboxes                                                               *)

\* What a call becomes is a call.
LEMMA SandboxCallTyped ==
  ASSUME Containers!TypeOK, NEW c \in Users
  PROVE  /\ Containers!Returns(c) => sandboxCall' \in [Users -> CallType]
         /\ \A place \in Containers!Places :
              Containers!Goes(c, place) => sandboxCall' \in [Users -> CallType]
<1>1. Containers!NoCall \in CallType
  BY DEF Containers!NoCall, CallType, Containers!Places
<1>2. sandboxCall \in [Users -> CallType]
  BY DEF Containers!TypeOK, CallType
<1>3. ASSUME NEW place \in Containers!Places, Containers!Goes(c, place)
      PROVE  sandboxCall' \in [Users -> CallType]
  BY <1>2, <1>3 DEF Containers!Goes, CallType
<1> QED
  BY <1>1, <1>2, <1>3 DEF Containers!Returns

\* A call begins.
LEMMA SandboxIsCalled ==
  ASSUME SandboxInv, NEW c \in Users,
         NEW what \in Containers!Jobs, NEW forced \in BOOLEAN, Containers!Call(c, what, forced)
  PROVE  SandboxInv'
<1>1. Containers!TypeOK'
  BY DEF SandboxInv, Containers!Call, Containers!TypeOK, Containers!Jobs, Containers!Places,
      Containers!At, Containers!Goes, Containers!Returns, Containers!Becomes, Containers!NoCall,
      Containers!Looks, Containers!StopReturns, Containers!Registered
<1> USE NoProcIsNone DEF SandboxInv, Containers!Call, Containers!At, Containers!Goes,
    Containers!Returns, Containers!Becomes, Containers!NoCall, Containers!Looks,
    Containers!StopReturns, Containers!Registered
<1>2. OwnInPlace'
  BY DEF Containers!TypeOK, OwnInPlace
<1>3. SeenInPlace'
  BY DEF Containers!TypeOK, SeenInPlace
<1>4. OwnIsOne'
  BY DEF Containers!TypeOK, OwnIsOne, KnownIsStarted
<1>5. KnownIsStarted'
  BY DEF Containers!TypeOK, KnownIsStarted
<1>6. AloneOrCrowded'
  BY DEF Containers!TypeOK, AloneOrCrowded, OwnInPlace, Containers!Company, Containers!Unbooked
<1>7. Containers!BookIsTrue'
  BY DEF Containers!TypeOK, Containers!BookIsTrue, AloneOrCrowded, OwnInPlace, OwnIsOne,
      KnownIsStarted, Containers!Company, Containers!Unbooked
<1>8. SettlingIsTrue'
  BY DEF Containers!TypeOK, SettlingIsTrue, Containers!BookIsTrue, AloneOrCrowded, OwnInPlace,
      OwnIsOne, KnownIsStarted, Containers!Alive, Containers!Company, Containers!Unbooked
<1>9. Containers!StoppedIsTrue'
  BY DEF Containers!TypeOK, Containers!StoppedIsTrue, SettlingIsTrue, Containers!BookIsTrue,
      OwnInPlace, SeenInPlace, KnownIsStarted, Containers!Alive
<1> QED
  BY <1>1, <1>2, <1>3, <1>4, <1>5, <1>6, <1>7, <1>8, <1>9

\* Steps of a call that touch neither a process nor the book.
LEMMA SandboxIsMade ==
  ASSUME SandboxInv, NEW c \in Users,
         Containers!Unpacks(c) \/ Containers!Bootstrapped(c)
           \/ Containers!BootstrapFails(c) \/ Containers!StartReturns(c)
           \/ Containers!FindsNoneActive(c) \/ Containers!LaunchFails(c)
           \/ Containers!NotReady(c)
  PROVE  SandboxInv'
<1>1. Containers!TypeOK'
  <2>1. CASE Containers!Bootstrapped(c) \/ Containers!BootstrapFails(c)
             \/ Containers!StartReturns(c)
               \/ Containers!FindsNoneActive(c) \/ Containers!LaunchFails(c)
    <3>1. sandboxCall' \in [Users -> CallType]
      BY <2>1, SandboxCallTyped DEF SandboxInv, Containers!Bootstrapped, Containers!BootstrapFails,
         Containers!StartReturns, Containers!FindsNoneActive, Containers!LaunchFails,
         Containers!Places
    <3> QED
      BY <2>1, <3>1 DEF SandboxInv, Containers!TypeOK, CallType, Containers!Bootstrapped,
         Containers!BootstrapFails, Containers!StartReturns, Containers!FindsNoneActive,
         Containers!LaunchFails
  <2>2. CASE Containers!Unpacks(c)
    BY <2>2 DEF SandboxInv, Containers!TypeOK, Containers!Unpacks
  <2>3. CASE Containers!NotReady(c)
    BY <2>3 DEF SandboxInv, Containers!TypeOK, Containers!NotReady, Containers!Jobs,
       Containers!Places
  <2> QED
    BY <2>1, <2>2, <2>3
<1> USE NoProcIsNone DEF SandboxInv, Containers!Unpacks, Containers!Bootstrapped,
    Containers!BootstrapFails, Containers!StartReturns, Containers!FindsNoneActive,
    Containers!LaunchFails, Containers!NotReady, Containers!At, Containers!Goes,
    Containers!Returns, Containers!Becomes, Containers!NoCall, Containers!Looks,
    Containers!StopReturns, Containers!Registered
<1>2. OwnInPlace'
  BY SMTT(20) DEF Containers!TypeOK, OwnInPlace
<1>3. SeenInPlace'
  BY SMTT(20) DEF Containers!TypeOK, SeenInPlace
<1>4. OwnIsOne'
  BY SMTT(20) DEF Containers!TypeOK, OwnIsOne, KnownIsStarted
<1>5. KnownIsStarted'
  BY SMTT(20) DEF Containers!TypeOK, KnownIsStarted
<1>6. AloneOrCrowded'
  BY SMTT(20) DEF Containers!TypeOK, AloneOrCrowded, OwnInPlace, Containers!Company,
      Containers!Unbooked
<1>7. Containers!BookIsTrue'
  BY SMTT(20) DEF Containers!TypeOK, Containers!BookIsTrue, AloneOrCrowded, OwnInPlace,
      OwnIsOne, KnownIsStarted, Containers!Company, Containers!Unbooked
<1>8. SettlingIsTrue'
  BY SMTT(20) DEF Containers!TypeOK, SettlingIsTrue, Containers!BookIsTrue, AloneOrCrowded,
      OwnInPlace, OwnIsOne, KnownIsStarted, Containers!Alive, Containers!Company,
      Containers!Unbooked
<1>9. Containers!StoppedIsTrue'
  BY SMTT(20) DEF Containers!TypeOK, Containers!StoppedIsTrue, SettlingIsTrue,
      Containers!BookIsTrue, OwnInPlace, SeenInPlace, KnownIsStarted, Containers!Alive
<1> QED
  BY <1>1, <1>2, <1>3, <1>4, <1>5, <1>6, <1>7, <1>8, <1>9

\* A process starts: alone, or known to have company.
LEMMA SandboxIsLaunched ==
  ASSUME SandboxInv, NEW c \in Users,
         Containers!Launch(c)
  PROVE  SandboxInv'
<1>0. PICK p \in Procs :
        /\ proc[p] = "unused" /\ proc' = [proc EXCEPT ![p] = "booting"]
        /\ own' = [own EXCEPT ![c] = p]
        /\ crowded' = IF Containers!Company = {} THEN crowded
                       ELSE crowded \cup Containers!Company \cup {p}
  <2> DEFINE started == CHOOSE q \in Procs : proc[q] = "unused"
  <2>1. started \in Procs /\ proc[started] = "unused"
    BY DEF Containers!Launch
  <2> QED
    BY <2>1 DEF Containers!Launch, Containers!Becomes
<1>1. Containers!TypeOK'
  <2>1. Containers!Company \subseteq Procs
    BY DEF Containers!Company
  <2> QED
    BY <1>0, <2>1 DEF SandboxInv, Containers!TypeOK, Containers!Launch
<1> USE NoProcIsNone DEF SandboxInv, Containers!Launch, Containers!At, Containers!Goes,
    Containers!Returns, Containers!Becomes, Containers!NoCall, Containers!Looks,
    Containers!StopReturns, Containers!Registered
<1>2. OwnInPlace'
  BY DEF Containers!TypeOK, OwnInPlace
<1>3. SeenInPlace'
  BY DEF Containers!TypeOK, SeenInPlace
<1>4. OwnIsOne'
  BY DEF Containers!TypeOK, OwnIsOne, KnownIsStarted
<1>5. KnownIsStarted'
  BY DEF Containers!TypeOK, KnownIsStarted
<1>6. AloneOrCrowded'
  <2>1. ASSUME NEW q \in Containers!Company', q # p PROVE q \in Containers!Company
    BY ZenonT(40), <1>0, <2>1 DEF Containers!TypeOK, Containers!Company, Containers!Unbooked
  <2> QED
    BY <1>0, <2>1 DEF AloneOrCrowded
<1>7. Containers!BookIsTrue'
  BY DEF Containers!TypeOK, Containers!BookIsTrue, AloneOrCrowded, OwnInPlace, OwnIsOne,
      KnownIsStarted, Containers!Company, Containers!Unbooked
<1>8. SettlingIsTrue'
  BY DEF Containers!TypeOK, SettlingIsTrue, Containers!BookIsTrue, AloneOrCrowded, OwnInPlace,
      OwnIsOne, KnownIsStarted, Containers!Alive, Containers!Company, Containers!Unbooked
<1>9. Containers!StoppedIsTrue'
  BY DEF Containers!TypeOK, Containers!StoppedIsTrue, SettlingIsTrue, Containers!BookIsTrue,
      OwnInPlace, SeenInPlace, KnownIsStarted, Containers!Alive
<1> QED
  BY <1>1, <1>2, <1>3, <1>4, <1>5, <1>6, <1>7, <1>8, <1>9

\* Whatever else was booked or is to be has company.
LEMMA SandboxIsBooked ==
  ASSUME SandboxInv, NEW c \in Users,
         Containers!Book(c)
  PROVE  SandboxInv'
<1>1. Containers!TypeOK'
  BY DEF SandboxInv, Containers!Book, Containers!TypeOK, Containers!Jobs, Containers!Places,
      Containers!At, Containers!Goes, Containers!Returns, Containers!Becomes, Containers!NoCall,
      Containers!Looks, Containers!StopReturns, Containers!Registered
<1> USE NoProcIsNone DEF SandboxInv, Containers!Book, Containers!At, Containers!Goes,
    Containers!Returns, Containers!Becomes, Containers!NoCall, Containers!Looks,
    Containers!StopReturns, Containers!Registered
<1>2. OwnInPlace'
  BY DEF Containers!TypeOK, OwnInPlace
<1>3. SeenInPlace'
  BY DEF Containers!TypeOK, SeenInPlace
<1>4. OwnIsOne'
  BY DEF Containers!TypeOK, OwnIsOne, KnownIsStarted
<1>5. KnownIsStarted'
  BY DEF Containers!TypeOK, KnownIsStarted
<1>6. AloneOrCrowded'
  BY DEF Containers!TypeOK, AloneOrCrowded, OwnInPlace, Containers!Company, Containers!Unbooked
<1>7. Containers!BookIsTrue'
  BY DEF Containers!TypeOK, Containers!BookIsTrue, AloneOrCrowded, OwnInPlace, OwnIsOne,
      KnownIsStarted, Containers!Company, Containers!Unbooked
<1>8. SettlingIsTrue'
  BY DEF Containers!TypeOK, SettlingIsTrue, Containers!BookIsTrue, AloneOrCrowded, OwnInPlace,
      OwnIsOne, KnownIsStarted, Containers!Alive, Containers!Company, Containers!Unbooked
<1>9. Containers!StoppedIsTrue'
  BY DEF Containers!TypeOK, Containers!StoppedIsTrue, SettlingIsTrue, Containers!BookIsTrue,
      OwnInPlace, SeenInPlace, KnownIsStarted, Containers!Alive
<1> QED
  BY <1>1, <1>2, <1>3, <1>4, <1>5, <1>6, <1>7, <1>8, <1>9

LEMMA SandboxIsReady ==
  ASSUME SandboxInv, NEW c \in Users,
         Containers!Ready(c)
  PROVE  SandboxInv'
<1>1. Containers!TypeOK'
  BY DEF SandboxInv, Containers!Ready, Containers!TypeOK, Containers!Jobs, Containers!Places,
      Containers!At, Containers!Goes, Containers!Returns, Containers!Becomes, Containers!NoCall,
      Containers!Looks, Containers!StopReturns, Containers!Registered
<1> USE NoProcIsNone DEF SandboxInv, Containers!Ready, Containers!At, Containers!Goes,
    Containers!Returns, Containers!Becomes, Containers!NoCall, Containers!Looks,
    Containers!StopReturns, Containers!Registered
<1>2. OwnInPlace'
  BY DEF Containers!TypeOK, OwnInPlace
<1>3. SeenInPlace'
  BY DEF Containers!TypeOK, SeenInPlace
<1>4. OwnIsOne'
  BY DEF Containers!TypeOK, OwnIsOne, KnownIsStarted
<1>5. KnownIsStarted'
  BY DEF Containers!TypeOK, KnownIsStarted
<1>6. AloneOrCrowded'
  BY DEF Containers!TypeOK, AloneOrCrowded, OwnInPlace, Containers!Company, Containers!Unbooked
<1>7. Containers!BookIsTrue'
  BY DEF Containers!TypeOK, Containers!BookIsTrue, AloneOrCrowded, OwnInPlace, OwnIsOne,
      KnownIsStarted, Containers!Company, Containers!Unbooked
<1>8. SettlingIsTrue'
  BY DEF Containers!TypeOK, SettlingIsTrue, Containers!BookIsTrue, AloneOrCrowded, OwnInPlace,
      OwnIsOne, KnownIsStarted, Containers!Alive, Containers!Company, Containers!Unbooked
<1>9. Containers!StoppedIsTrue'
  BY DEF Containers!TypeOK, Containers!StoppedIsTrue, SettlingIsTrue, Containers!BookIsTrue,
      OwnInPlace, SeenInPlace, KnownIsStarted, Containers!Alive
<1> QED
  BY <1>1, <1>2, <1>3, <1>4, <1>5, <1>6, <1>7, <1>8, <1>9

\* What terminate finds and what Kill finds is the process that is there.
LEMMA SandboxIsStruck ==
  ASSUME SandboxInv, NEW c \in Users,
         Containers!Terminate(c) \/ Containers!Kill(c)
  PROVE  SandboxInv'
<1>1. Containers!TypeOK'
  <2>1. sandboxCall' \in [Users -> CallType]
    BY SandboxCallTyped DEF SandboxInv, Containers!Terminate, Containers!Kill, Containers!Places
  <2>2. sandboxSeen' \in [Users -> Procs \cup {NoProc}]
    BY DEF SandboxInv, Containers!TypeOK, Containers!Terminate, Containers!Kill,
       Containers!Looks
  <2>3. proc' \in [Procs -> {"unused", "booting", "up", "ending", "dead", "cleared"}]
    BY DEF SandboxInv, Containers!TypeOK, Containers!Terminate, Containers!Kill,
       Containers!Registered, Containers!Becomes
  <2>4. UNCHANGED <<sudo, rootfs, active, own, ended, crowded>>
    BY DEF Containers!Terminate, Containers!Kill
  <2> QED
    BY <2>1, <2>2, <2>3, <2>4 DEF SandboxInv, Containers!TypeOK, CallType
<1>a. /\ sandboxCall[c].at \in {"terminating", "killing"}
      /\ sandboxCall' = [sandboxCall EXCEPT ![c].at = "settling"]
      /\ sandboxSeen' = [sandboxSeen EXCEPT ![c] = active]
      /\ UNCHANGED <<sudo, active, own, crowded>>
  BY DEF Containers!Terminate, Containers!Kill, Containers!At, Containers!Goes,
     Containers!Looks
<1>b. /\ sandboxCall'[c].at = "settling" /\ sandboxSeen'[c] = active
      /\ \A d \in Users : d # c => /\ sandboxCall'[d] = sandboxCall[d]
                                   /\ sandboxSeen'[d] = sandboxSeen[d]
  BY <1>a DEF SandboxInv, Containers!TypeOK
<1>3. SeenInPlace'
  BY <1>b DEF SandboxInv, SeenInPlace
<1>c. Containers!Alive' \subseteq Containers!Alive
  BY DEF SandboxInv, Containers!TypeOK, Containers!Alive, Containers!Terminate,
     Containers!Kill, Containers!Becomes
\* The one that a stop has hit is going down, or it is not there to be hit.
<1>d. ASSUME NEW p \in Containers!Alive' \ crowded, sandboxSeen'[c] = p \/ own[c] = p
      PROVE  sudo
  <2>1. p \in Procs /\ proc[p] \in {"booting", "up"} /\ p \in Containers!Company
    BY <1>c DEF Containers!Alive, Containers!Company
  <2>2. CASE Containers!Terminate(c)
    <3>1. PICK q \in Containers!Registered : proc' = [proc EXCEPT ![q] = "ending"]
      BY <2>2 DEF Containers!Terminate, Containers!Becomes
    <3>2. p # q
      BY <2>1, <3>1 DEF SandboxInv, Containers!TypeOK, Containers!Alive
    <3>3. q \in Containers!Company
      BY <3>1 DEF Containers!Registered, Containers!Company
    <3> QED
      BY <2>1, <3>2, <3>3 DEF SandboxInv, AloneOrCrowded
  <2>3. CASE Containers!Kill(c)
    <3>1. active = p
      <4>1. CASE own[c] = p
        <5>1. ~Containers!Unbooked(p)
          BY <1>a, <4>1, <2>1, NoProcIsNone
          DEF Containers!Unbooked, Containers!At, SandboxInv, OwnIsOne
        <5> QED
          BY <2>1, <5>1 DEF SandboxInv, Containers!BookIsTrue
      <4> QED
        BY <4>1, <1>b, <1>d
    <3>2. \/ proc' = [proc EXCEPT ![p] = "ending"]
          \/ sudo \/ p \notin Containers!Alive
      BY <2>3, <3>1 DEF Containers!Kill, Containers!Becomes
    <3>3. proc'[p] \in {"booting", "up"} /\ p \in Containers!Alive
      BY <1>c DEF Containers!Alive
    <3> QED
      BY <3>2, <3>3, <2>1 DEF SandboxInv, Containers!TypeOK
  <2> QED
    BY <2>2, <2>3
<1>8. SettlingIsTrue'
  <2> SUFFICES ASSUME NEW d \in Users, NEW p \in Containers!Alive' \ crowded',
                      \/ sandboxSeen'[d] = p
                      \/ own'[d] = p /\ sandboxCall'[d].at = "settling"
               PROVE  sudo'
    BY DEF SettlingIsTrue
  <2>1. CASE d = c
    BY <2>1, <1>a, <1>d
  <2>2. CASE d # c
    BY <2>2, <1>a, <1>b, <1>c DEF SandboxInv, SettlingIsTrue
  <2> QED
    BY <2>1, <2>2
<1> USE NoProcIsNone DEF SandboxInv, Containers!Terminate, Containers!Kill, Containers!At,
    Containers!Goes, Containers!Returns, Containers!Becomes, Containers!NoCall,
    Containers!Looks, Containers!StopReturns, Containers!Registered
<1>2. OwnInPlace'
  BY SMTT(30) DEF Containers!TypeOK, OwnInPlace
<1>4. OwnIsOne'
  BY DEF Containers!TypeOK, OwnIsOne, KnownIsStarted
<1>5. KnownIsStarted'
  BY DEF Containers!TypeOK, KnownIsStarted
<1>6. AloneOrCrowded'
  <2>1. Containers!Company' \subseteq Containers!Company
    BY SMTT(30) DEF Containers!Alive, Containers!TypeOK, OwnInPlace, Containers!Company,
       Containers!Unbooked
  <2> QED
    BY <2>1 DEF AloneOrCrowded
<1>7. Containers!BookIsTrue'
  <2>1. \A q \in Procs : Containers!Unbooked(q)' <=> Containers!Unbooked(q)
    <3>1. /\ sandboxCall[c].at # "launched" /\ UNCHANGED own
          /\ sandboxCall' = [sandboxCall EXCEPT ![c].at = "settling"]
      OBVIOUS
    <3>2. \A d \in Users : sandboxCall'[d].at = "launched" <=> sandboxCall[d].at = "launched"
      BY <3>1 DEF Containers!TypeOK
    <3> QED
      BY <3>1, <3>2 DEF Containers!Unbooked
  <2>2. /\ UNCHANGED <<active, crowded>>
        /\ \A q \in Procs : proc'[q] \notin {"unused", "cleared"}
                            => proc[q] \notin {"unused", "cleared"}
    BY DEF Containers!TypeOK, Containers!Alive
  <2> QED
    BY <2>1, <2>2 DEF Containers!BookIsTrue
<1>9. Containers!StoppedIsTrue'
  BY DEF Containers!TypeOK, Containers!StoppedIsTrue, SettlingIsTrue, Containers!BookIsTrue,
      OwnInPlace, SeenInPlace, KnownIsStarted, Containers!Alive
<1> QED
  BY <1>1, <1>2, <1>3, <1>4, <1>5, <1>6, <1>7, <1>8, <1>9

\* What is said to be stopped was told to end before.
LEMMA StopAnswers ==
  ASSUME SandboxInv, NEW c \in Users,
         Containers!TerminateFails(c) \/ Containers!NothingToKill(c)
           \/ Containers!Settled(c) \/ Containers!StopCancelled(c)
  PROVE  SandboxInv'
<1>1. Containers!TypeOK'
  <2>1. CASE \E ok \in BOOLEAN : Containers!StopReturns(c, ok)
    <3>1. sandboxCall' \in [Users -> CallType]
      BY <2>1, SandboxCallTyped DEF SandboxInv, Containers!StopReturns, Containers!Places
    <3>2. own' \in [Users -> Procs \cup {NoProc}] /\ ended' \subseteq Procs
      BY <2>1 DEF Containers!StopReturns, SandboxInv, Containers!TypeOK
    <3>3. sandboxSeen' \in [Users -> Procs \cup {NoProc}]
      BY <2>1 DEF Containers!StopReturns, SandboxInv, Containers!TypeOK
    <3> QED
      BY <2>1, <3>1, <3>2, <3>3 DEF SandboxInv, Containers!TypeOK, CallType,
         Containers!StopReturns
  <2>2. CASE Containers!TerminateFails(c) /\ sandboxCall[c].force
    <3>1. sandboxCall' \in [Users -> CallType]
      BY <2>2, SandboxCallTyped DEF SandboxInv, Containers!TerminateFails, Containers!Places
    <3> QED
      BY <2>2, <3>1 DEF SandboxInv, Containers!TypeOK, CallType, Containers!TerminateFails
  <2> QED
    BY <2>1, <2>2 DEF Containers!TerminateFails, Containers!NothingToKill, Containers!Settled,
       Containers!StopCancelled
<1>a. /\ sandboxCall[c].at \in {"terminating", "killing", "settling"}
      /\ UNCHANGED <<active, proc, crowded>>
      /\ own' = own \/ own' = [own EXCEPT ![c] = NoProc]
      /\ \/ Containers!Returns(c)
         \/ \E place \in Containers!Places : Containers!Goes(c, place)
  BY DEF Containers!TerminateFails, Containers!NothingToKill, Containers!Settled,
     Containers!StopCancelled, Containers!StopReturns, Containers!At, Containers!Places
<1>b. \A d \in Users : d # c => sandboxCall'[d] = sandboxCall[d] /\ own'[d] = own[d]
  BY <1>a DEF Containers!Returns, Containers!Goes, SandboxInv, Containers!TypeOK
<1>7. Containers!BookIsTrue'
  <2>1. \A p : Containers!Unbooked(p) => Containers!Unbooked(p)'
    BY <1>a, <1>b DEF Containers!Unbooked, Containers!At
  <2> QED
    BY <2>1, <1>a DEF SandboxInv, Containers!BookIsTrue
<1> USE NoProcIsNone DEF SandboxInv, Containers!TerminateFails, Containers!NothingToKill,
    Containers!Settled, Containers!StopCancelled, Containers!At, Containers!Goes,
    Containers!Returns, Containers!Becomes, Containers!NoCall, Containers!Looks,
    Containers!StopReturns, Containers!Registered
<1>2. OwnInPlace'
  BY SMTT(20) DEF Containers!TypeOK, OwnInPlace
<1>3. SeenInPlace'
  BY SMTT(20) DEF Containers!TypeOK, SeenInPlace
<1>4. OwnIsOne'
  BY SMTT(20) DEF Containers!TypeOK, OwnIsOne, KnownIsStarted
<1>5. KnownIsStarted'
  BY SMTT(20) DEF Containers!TypeOK, KnownIsStarted
<1>6. AloneOrCrowded'
  BY SMTT(20) DEF Containers!TypeOK, AloneOrCrowded, OwnInPlace, Containers!Company,
      Containers!Unbooked
<1>8. SettlingIsTrue'
  BY SMTT(20) DEF Containers!TypeOK, SettlingIsTrue, Containers!BookIsTrue, AloneOrCrowded,
      OwnInPlace, OwnIsOne, KnownIsStarted, Containers!Alive, Containers!Company,
      Containers!Unbooked
<1>9. Containers!StoppedIsTrue'
  <2>1. CASE Containers!NothingToKill(c)
    BY <2>1 DEF Containers!Alive, Containers!TypeOK, Containers!StoppedIsTrue,
        Containers!BookIsTrue, OwnInPlace, OwnIsOne, Containers!Unbooked
  <2>2. CASE Containers!TerminateFails(c)
    BY <2>2 DEF Containers!Alive, Containers!TypeOK, Containers!StoppedIsTrue, OwnInPlace
  <2>3. CASE Containers!Settled(c) \/ Containers!StopCancelled(c)
    BY <2>3 DEF Containers!Alive, Containers!TypeOK, Containers!StoppedIsTrue, SettlingIsTrue,
        OwnInPlace
  <2> QED
    BY <2>1, <2>2, <2>3
<1> QED
  BY <1>1, <1>2, <1>3, <1>4, <1>5, <1>6, <1>7, <1>8, <1>9

LEMMA SandboxIsRemoved ==
  ASSUME SandboxInv, NEW c \in Users,
         Containers!Remove(c)
  PROVE  SandboxInv'
<1>1. Containers!TypeOK'
  BY DEF SandboxInv, Containers!Remove, Containers!TypeOK, Containers!Jobs, Containers!Places,
      Containers!At, Containers!Goes, Containers!Returns, Containers!Becomes, Containers!NoCall,
      Containers!Looks, Containers!StopReturns, Containers!Registered
<1> USE NoProcIsNone DEF SandboxInv, Containers!Remove, Containers!At, Containers!Goes,
    Containers!Returns, Containers!Becomes, Containers!NoCall, Containers!Looks,
    Containers!StopReturns, Containers!Registered
<1>2. OwnInPlace'
  BY DEF Containers!TypeOK, OwnInPlace
<1>3. SeenInPlace'
  BY DEF Containers!TypeOK, SeenInPlace
<1>4. OwnIsOne'
  BY DEF Containers!TypeOK, OwnIsOne, KnownIsStarted
<1>5. KnownIsStarted'
  BY DEF Containers!TypeOK, KnownIsStarted
<1>6. AloneOrCrowded'
  BY DEF Containers!TypeOK, AloneOrCrowded, OwnInPlace, Containers!Company, Containers!Unbooked
<1>7. Containers!BookIsTrue'
  BY DEF Containers!TypeOK, Containers!BookIsTrue, AloneOrCrowded, OwnInPlace, OwnIsOne,
      KnownIsStarted, Containers!Company, Containers!Unbooked
<1>8. SettlingIsTrue'
  BY DEF Containers!TypeOK, SettlingIsTrue, Containers!BookIsTrue, AloneOrCrowded, OwnInPlace,
      OwnIsOne, KnownIsStarted, Containers!Alive, Containers!Company, Containers!Unbooked
<1>9. Containers!StoppedIsTrue'
  BY DEF Containers!TypeOK, Containers!StoppedIsTrue, SettlingIsTrue, Containers!BookIsTrue,
      OwnInPlace, SeenInPlace, KnownIsStarted, Containers!Alive
<1> QED
  BY <1>1, <1>2, <1>3, <1>4, <1>5, <1>6, <1>7, <1>8, <1>9

\* Nobody comes to life again, and what is cleared was the only one.
LEMMA ProcessMoves ==
  ASSUME SandboxInv, NEW p \in Procs,
         Containers!Boots(p) \/ Containers!Exits(p) \/ Containers!Clear(p)
  PROVE  SandboxInv'
<1>1. Containers!TypeOK'
  BY DEF SandboxInv, Containers!Boots, Containers!Exits, Containers!Clear, Containers!TypeOK,
      Containers!Jobs, Containers!Places, Containers!At, Containers!Goes, Containers!Returns,
      Containers!Becomes, Containers!NoCall, Containers!Looks, Containers!StopReturns,
      Containers!Registered
<1> USE NoProcIsNone DEF SandboxInv, Containers!Boots, Containers!Exits, Containers!Clear,
    Containers!At, Containers!Goes, Containers!Returns, Containers!Becomes, Containers!NoCall,
    Containers!Looks, Containers!StopReturns, Containers!Registered
<1>2. OwnInPlace'
  BY DEF Containers!TypeOK, OwnInPlace
<1>3. SeenInPlace'
  BY DEF Containers!TypeOK, SeenInPlace
<1>4. OwnIsOne'
  BY DEF Containers!TypeOK, OwnIsOne, KnownIsStarted
<1>5. KnownIsStarted'
  BY DEF Containers!TypeOK, KnownIsStarted
<1>6. AloneOrCrowded'
  BY DEF Containers!TypeOK, AloneOrCrowded, OwnInPlace, Containers!Company, Containers!Unbooked
<1>7. Containers!BookIsTrue'
  BY DEF Containers!TypeOK, Containers!BookIsTrue, AloneOrCrowded, OwnInPlace, OwnIsOne,
      KnownIsStarted, Containers!Company, Containers!Unbooked
<1>8. SettlingIsTrue'
  BY DEF Containers!TypeOK, SettlingIsTrue, Containers!BookIsTrue, AloneOrCrowded, OwnInPlace,
      OwnIsOne, KnownIsStarted, Containers!Alive, Containers!Company, Containers!Unbooked
<1>9. Containers!StoppedIsTrue'
  BY DEF Containers!TypeOK, Containers!StoppedIsTrue, SettlingIsTrue, Containers!BookIsTrue,
      OwnInPlace, SeenInPlace, KnownIsStarted, Containers!Alive
<1> QED
  BY <1>1, <1>2, <1>3, <1>4, <1>5, <1>6, <1>7, <1>8, <1>9

LEMMA SandboxesBegin == Containers!Init => SandboxInv
<1> SUFFICES ASSUME Containers!Init PROVE SandboxInv
  OBVIOUS
<1> USE NoProcIsNone DEF Containers!Init
<1>1. Containers!TypeOK
  <2>1. Containers!NoCall \in CallType
    BY DEF Containers!NoCall, CallType, Containers!Places
  <2> QED
    BY <2>1 DEF Containers!TypeOK, CallType
<1>2. OwnInPlace /\ SeenInPlace /\ OwnIsOne /\ KnownIsStarted
  BY DEF OwnInPlace, SeenInPlace, OwnIsOne, KnownIsStarted, Containers!NoCall
<1>3. Containers!Company = {} /\ Containers!Alive = {}
  BY DEF Containers!Company, Containers!Unbooked, Containers!Alive
<1>4. AloneOrCrowded /\ SettlingIsTrue /\ Containers!StoppedIsTrue
  BY <1>3 DEF AloneOrCrowded, SettlingIsTrue, Containers!StoppedIsTrue
<1>5. Containers!BookIsTrue
  BY DEF Containers!BookIsTrue
<1> QED
  BY <1>1, <1>2, <1>4, <1>5 DEF SandboxInv

LEMMA SandboxesMove == SandboxInv /\ [Containers!Next]_sandboxvars => SandboxInv'
<1> SUFFICES ASSUME SandboxInv, [Containers!Next]_sandboxvars PROVE SandboxInv'
  OBVIOUS
<1>1. CASE UNCHANGED sandboxvars
  BY <1>1 DEF sandboxvars, SandboxInv, Containers!TypeOK, OwnInPlace, SeenInPlace, OwnIsOne,
     KnownIsStarted, AloneOrCrowded, Containers!Company, Containers!Unbooked, Containers!At,
     Containers!BookIsTrue, SettlingIsTrue, Containers!StoppedIsTrue, Containers!Alive
<1>2. ASSUME NEW c \in Users, NEW what \in Containers!Jobs, NEW forced \in BOOLEAN,
             Containers!Call(c, what, forced)
      PROVE  SandboxInv'
  BY <1>2, SandboxIsCalled
<1>3. ASSUME NEW c \in Users,
             \/ Containers!Unpacks(c) \/ Containers!Bootstrapped(c)
             \/ Containers!BootstrapFails(c) \/ Containers!StartReturns(c)
             \/ Containers!FindsNoneActive(c) \/ Containers!LaunchFails(c)
             \/ Containers!NotReady(c)
      PROVE  SandboxInv'
  BY <1>3, SandboxIsMade
<1>4. ASSUME NEW c \in Users,
             \/ Containers!Launch(c) \/ Containers!Book(c) \/ Containers!Ready(c)
             \/ Containers!Terminate(c) \/ Containers!Kill(c) \/ Containers!Remove(c)
      PROVE  SandboxInv'
  BY <1>4, SandboxIsLaunched, SandboxIsBooked, SandboxIsReady, SandboxIsStruck,
     SandboxIsRemoved
<1>5. ASSUME NEW c \in Users,
             \/ Containers!TerminateFails(c) \/ Containers!NothingToKill(c)
             \/ Containers!Settled(c) \/ Containers!StopCancelled(c)
      PROVE  SandboxInv'
  BY <1>5, StopAnswers
<1>6. ASSUME NEW p \in Procs,
             Containers!Boots(p) \/ Containers!Exits(p) \/ Containers!Clear(p)
      PROVE  SandboxInv'
  BY <1>6, ProcessMoves
<1>7. ASSUME Containers!Next PROVE SandboxInv'
  <2>1. {"stop", "delete"} \subseteq Containers!Jobs
    BY DEF Containers!Jobs
  <2> QED
    BY <1>2, <1>3, <1>4, <1>5, <1>6, <1>7, <2>1 DEF Containers!Next
<1> QED
  BY <1>1, <1>7

----------------------------------------------------------------------------
(* All parts                                                               *)

LEMMA PartsBegin ==
  ASSUME Init
  PROVE  /\ Bridge!Init /\ Outbox!Init /\ Health!Init /\ Live!Init /\ News!Init
         /\ Quotas!Init /\ Connection!Init /\ Pairing!Init /\ Sending!Init /\ Inbox!Init
            /\ Models!Init
         /\ Settings!Init /\ Containers!Init
BY Zenon DEF Init

\* A step of the whole is one of each part, or leaves the part as it is.
LEMMA PartsMove ==
  ASSUME [Next]_vars
  PROVE  /\ [Bridge!Next]_bridgevars /\ [Outbox!Next]_outboxvars
         /\ [Health!Next]_healthvars /\ [Live!Next]_livevars
         /\ [News!Next]_newsvars /\ [Quotas!Next]_quotavars /\ [Connection!Next]_connectionvars
         /\ [Pairing!Next]_pairingvars /\ [Sending!Next]_sendingvars
         /\ [Inbox!Next]_inboxvars /\ [Models!Next]_modelvars
         /\ [Settings!Next]_settingvars /\ [Containers!Next]_sandboxvars
<1>1. CASE BridgeStep
  BY <1>1, Zenon DEF BridgeStep
<1>2. CASE OutboxStep
  BY <1>2, Zenon DEF OutboxStep
<1>3. CASE HealthStep
  BY <1>3, Zenon DEF HealthStep
<1>4. CASE LiveStep
  BY <1>4, Zenon DEF LiveStep
<1>5. CASE NewsStep
  BY <1>5, Zenon DEF NewsStep
<1>6. CASE QuotasStep
  BY <1>6, Zenon DEF QuotasStep
<1>7. CASE ConnectionStep
  BY <1>7, Zenon DEF ConnectionStep
<1>8. CASE PairingStep
  BY <1>8, Zenon DEF PairingStep
<1>9. CASE SendingStep
  BY <1>9, Zenon DEF SendingStep
<1>10. CASE InboxStep
  BY <1>10, Zenon DEF InboxStep
<1>11. CASE ModelsStep
  BY <1>11, Zenon DEF ModelsStep
<1>12. CASE SettingsStep
  BY <1>12, Zenon DEF SettingsStep
<1>13. CASE SandboxesStep
  BY <1>13, Zenon DEF SandboxesStep
<1>14. CASE UNCHANGED vars
  BY <1>14, Zenon DEF vars
<1> QED
  BY <1>1, <1>2, <1>3, <1>4, <1>5, <1>6, <1>7, <1>8, <1>9, <1>10, <1>11, <1>12, <1>13, <1>14,
     Zenon DEF Next

\* What is true of each part at first and after each of its steps is true of all.
THEOREM PartsInvariance == Spec => []PartsInv
<1>1. Init => PartsInv
  <2> SUFFICES ASSUME Init PROVE PartsInv
    OBVIOUS
  <2>1. part \in Parts
    BY DEF Init
  <2> QED
    BY <2>1, PartsBegin, KeepBegins, OutboxBegins, HealthBegins, LiveBegins, NewsBegins,
       QuotasBegin, ConnectionInit, PairingBegins, SendingBegins, InboxBegins, ModelsBegin,
       SettingsBegin, SandboxesBegin DEF PartsInv
<1>2. PartsInv /\ [Next]_vars => PartsInv'
  <2> SUFFICES ASSUME PartsInv, [Next]_vars PROVE PartsInv'
    OBVIOUS
  <2>1. part' = part
    BY Zenon DEF Next, vars, BridgeStep, OutboxStep, HealthStep, LiveStep, NewsStep, QuotasStep,
       ConnectionStep, PairingStep, SendingStep, InboxStep, ModelsStep, SettingsStep,
       SandboxesStep
  <2>2. part' \in Parts
    BY <2>1 DEF PartsInv
  <2>3. BackupInv' /\ OutboxInv' /\ HealthInv' /\ LiveInv' /\ NewsInv' /\ QuotaInv' /\ ConnectionInv'
    BY PartsMove, BackupMoves, OutboxMoves, HealthMoves, LiveMoves, NewsMove, QuotasMove,
       ConnectionMoves DEF PartsInv
  <2>4. PairingInv' /\ SendingInv' /\ InboxInv' /\ ModelInv' /\ SettingInv' /\ SandboxInv'
    BY PartsMove, PairingMoves, SendingMoves, InboxMoves, ModelsMove, SettingsMove, SandboxesMove
    DEF PartsInv
  <2> QED
    BY <2>2, <2>3, <2>4 DEF PartsInv
<1> QED
  BY <1>1, <1>2, PTL DEF Spec

\* Every variable of every part keeps its type, for any instance.
THEOREM PartsStayTyped == Spec => []PartsTyped
<1>1. PartsInv => PartsTyped
  BY BridgeIsTyped DEF PartsInv, PartsTyped, BackupInv, OutboxInv, HealthInv, LiveInv, NewsInv, QuotaInv,
     ConnectionInv, PairingInv, SendingInv, InboxInv, ModelInv, SettingInv, SandboxInv
<1> QED
  BY <1>1, PartsInvariance, PTL

\* /stop on a bridge thread finds the newest run that is at work there, whatever
\* older run ends or is stopped meanwhile (service.go: agentRun, clearRunCancel).
THEOREM StopsReachNewestRuns == Spec => []StopReachesNewest
<1>1. PartsInv => StopReachesNewest
  BY KeepHolds DEF PartsInv, BackupInv, StopReachesNewest
<1> QED
  BY <1>1, PartsInvariance, PTL

\* The file of a bridge's history, allow list or mutes is what memory was when all
\* who changed it have saved it, and what /new has reported as gone is in no
\* history again.  A run or /compact at work brings back what it had copied, and no
\* more; over a restart this holds of what a clean save took from the file, in a new
\* container of what was synced after such a save; for any events, lanes and restarts
\* (service.go: saveHistory, loadHistory; commands.go: commandNew; persist.go).
THEOREM NothingEverComesBack == Spec => []NothingComesBack
<1>1. PartsInv => NothingComesBack
  BY KeepHolds DEF PartsInv, BackupInv, NothingComesBack
<1> QED
  BY <1>1, PartsInvariance, PTL

\* What the server of the outbox has as sent is shown with its newest text, no
\* item is sent again without a reason, and edits go to the newest mirror
\* (service.go: SendRoute, EditRoute; bnp/worker.go).
THEOREM OutboxStaysTrue == Spec => []OutboxIsTrue
<1>1. PartsInv => OutboxIsTrue
  BY OutboxHolds DEF PartsInv, OutboxIsTrue
<1> QED
  BY <1>1, PartsInvariance, PTL

\* The last alert of the health watch is true, but for its delays (healthwatch.go).
THEOREM AlertsAreTrue == Spec => []LastAlertIsTrue
<1>1. PartsInv => LastAlertIsTrue
  BY SMTT(30), HealthHolds DEF PartsInv, LastAlertIsTrue
<1> QED
  BY <1>1, PartsInvariance, PTL

\* The live message shows one call's text at a time but for a dropped signal, and
\* an answer that took its place until an edit comes beside or after it
\* (thinking.go: render, finish); for any script, queue and interleaving.
THEOREM LiveMessageStaysTrue == Spec => []LiveMessageIsTrue
<1>1. PartsInv => LiveMessageIsTrue
  BY LiveHolds DEF PartsInv, LiveMessageIsTrue
<1> QED
  BY <1>1, PartsInvariance, PTL

\* What a poller of feeds has settled the bridge has taken, every thread has its share
\* at most, and a new feed floods nobody; for any articles and channels.
THEOREM NewsStaysDelivered == Spec => []NewsIsDelivered
<1>1. PartsInv => NewsIsDelivered
  BY NewsHolds DEF PartsInv, NewsIsDelivered
<1> QED
  BY <1>1, PartsInvariance, PTL

\* Tokens are lost only by faults and restarts, and a quota is warned of once in a
\* period, and again only for a fault or a restart that cost the note of it; for any
\* accounts, periods and restarts (supabase.go, neonusage.go).
THEOREM QuotasStayKept == Spec => []QuotasAreKept
<1>1. PartsInv => QuotasAreKept
  BY QuotasHold DEF PartsInv, QuotasAreKept
<1> QED
  BY <1>1, PartsInvariance, PTL

\* The Messenger client says it is connected only with a socket, and one that is
\* down is looked after; a WhatsApp that is logged out comes to show a code.
THEOREM ClientsStayLookedAfter == Spec => []ClientsComeBack
<1>1. PartsInv => ClientsComeBack
  BY ConnectionHolds, PairingHolds DEF PartsInv, ClientsComeBack
<1> QED
  BY <1>1, PartsInvariance, PTL

\* Pieces of a text stand in a Messenger thread once and in order, whatever
\* times out, is tried again or cancelled (messenger.go: sending).
THEOREM SendsStaySound == Spec => []SendsAreSound
<1>1. PartsInv => SendsAreSound
  BY SendingHolds DEF PartsInv, SendsAreSound
<1> QED
  BY <1>1, PartsInvariance, PTL

\* A Messenger message is taken once and handled in order, across restarts and
\* the limit of the ledger.
THEOREM InboxStaysSound == Spec => []InboxIsSound
<1>1. PartsInv => InboxIsSound
  BY InboxHolds DEF PartsInv, InboxIsSound
<1> QED
  BY <1>1, PartsInvariance, PTL

\* An answer is the words of one attempt, whole unless its stream stopped early or
\* held an error, and no back end is asked more often than its client allows.
THEOREM CallsStaySound == Spec => []CallsAreSound
<1>1. PartsInv => CallsAreSound
  BY ModelsHold DEF PartsInv, CallsAreSound
<1> QED
  BY <1>1, PartsInvariance, PTL

\* Whatever files there are, what Load accepts can be run (config.go).
THEOREM AcceptedStaysUsable == Spec => []AcceptedIsUsable
<1>1. PartsInv => AcceptedIsUsable
  BY SettingsHold DEF PartsInv, AcceptedIsUsable
<1> QED
  BY <1>1, PartsInvariance, PTL

\* The book of sandboxes has the process that is there, and what is stopped
\* ends, for any calls at once.
THEOREM SandboxesStayKnown == Spec => []SandboxesAreKnown
<1>1. PartsInv => SandboxesAreKnown
  BY DEF PartsInv, SandboxesAreKnown, SandboxInv
<1> QED
  BY <1>1, PartsInvariance, PTL
=============================================================================
