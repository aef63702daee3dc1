----------------------------- MODULE HealthWatch -----------------------------
(***************************************************************************)
(* The health watch of the bridge (src/internal/bridge/healthwatch.go) for  *)
(* one platform.  Time is counted in checks: one for each interval of the   *)
(* ticker.  What a check finds, up or down, is up to the environment.       *)
(***************************************************************************)
EXTENDS Integers, Sequences

CONSTANTS
  DeadAfter,   \* dead_after, in checks
  MinNotify,   \* min_notify_interval, in checks
  Watched      \* the platforms that are watched

VARIABLES
  subject,
  armed, deadFor, lastDead, alivePending, sinceNotify,  \* healthState
  told,        \* what the last alert said
  drained,     \* the last check has started a drain of the pending queue
  upFor, downFor  \* history: checks that have found the platform up, and down
                  \* while the watch was armed, without a break

hwvars == <<subject, armed, deadFor, lastDead, alivePending, sinceNotify, told,
            drained, upFor, downFor>>

Never == 0 - 1   \* the zero time of deadSince
Long == DeadAfter + MinNotify + 2
Least(x, y) == IF x < y THEN x ELSE y

Init ==
  /\ subject \in Watched
  /\ armed = FALSE /\ deadFor = Never /\ lastDead = FALSE /\ alivePending = FALSE
  /\ sinceNotify = MinNotify   \* lastNotify is the zero time
  /\ told = "nothing" /\ drained = FALSE
  /\ upFor = 0 /\ downFor = 0

\* The suffix that watchHealth looks for, and how much of the message it takes.
AliveAgain == "is alive again"
SuffixTaken == 13

\* Only texts of the same length can be equal.
StartsDrain(alert) == alert = "alive" /\ SuffixTaken = Len(AliveAgain)

\* The time since lastNotify, at this check.
Since == Least(sinceNotify + 1, MinNotify)

Tell(alert) ==
  /\ told' = alert /\ sinceNotify' = 0
  /\ drained' = StartsDrain(alert)

Silent ==
  /\ sinceNotify' = Since /\ drained' = FALSE
  /\ UNCHANGED told

Sampled(up) ==
  /\ upFor' = IF up THEN Least(upFor + 1, Long) ELSE 0
  /\ downFor' = IF up \/ ~armed' THEN 0 ELSE Least(downFor + 1, Long)
  /\ UNCHANGED subject

\* Not armed before the platform has been up; only a WhatsApp that is logged
\* out, and will not come up by itself, is armed at once.
Arms(up, out) == armed \/ up \/ (subject = "whatsapp" /\ out)

NotArmed(up, out) ==
  /\ ~Arms(up, out) /\ UNCHANGED armed
  /\ Silent /\ Sampled(up)
  /\ UNCHANGED <<deadFor, lastDead, alivePending>>

\* The first connection arms and that is all.
FirstUp ==
  /\ ~armed /\ armed' = TRUE
  /\ Silent /\ Sampled(TRUE)
  /\ UNCHANGED <<deadFor, lastDead, alivePending>>

\* Variant: a recovery within the cooldown ends the alert without a word.
FoundUpForgets ==
  /\ armed /\ UNCHANGED armed
  /\ deadFor' = Never /\ lastDead' = FALSE /\ alivePending' = FALSE
  /\ IF (lastDead \/ alivePending) /\ Since >= MinNotify
       THEN Tell("alive")
       ELSE Silent
  /\ Sampled(TRUE)

FoundUp ==
  /\ armed /\ UNCHANGED armed
  /\ deadFor' = Never
  /\ IF lastDead \/ alivePending
       THEN IF Since >= MinNotify
              THEN lastDead' = FALSE /\ alivePending' = FALSE /\ Tell("alive")
              ELSE alivePending' = TRUE /\ Silent /\ UNCHANGED lastDead
       ELSE Silent /\ UNCHANGED <<lastDead, alivePending>>
  /\ Sampled(TRUE)

FoundDown(out) ==
  /\ Arms(FALSE, out) /\ armed' = TRUE
  /\ deadFor' = IF deadFor = Never THEN 0 ELSE Least(deadFor + 1, DeadAfter)
  /\ IF ~lastDead /\ deadFor' >= DeadAfter /\ Since >= MinNotify
       THEN /\ lastDead' = TRUE
            /\ Tell(IF subject = "whatsapp" /\ out THEN "loggedOut" ELSE "dead")
       ELSE Silent /\ UNCHANGED lastDead
  /\ Sampled(FALSE)
  /\ UNCHANGED alivePending

\* A tick of watchHealth: platformAlive, and for WhatsApp IsLoggedIn.
Next ==
  \E out \in BOOLEAN :
    \/ NotArmed(FALSE, out) \/ FoundDown(out)
    \/ FirstUp \/ FoundUp

Spec == Init /\ [][Next]_hwvars

----------------------------------------------------------------------------
\* Every variable keeps its type.
TypeOK ==
  /\ subject \in Watched
  /\ armed \in BOOLEAN /\ lastDead \in BOOLEAN /\ alivePending \in BOOLEAN /\ drained \in BOOLEAN
  /\ deadFor \in Never..DeadAfter /\ sinceNotify \in 0..MinNotify
  /\ told \in {"nothing", "dead", "loggedOut", "alive"}
  /\ upFor \in 0..Long /\ downFor \in 0..Long

\* What the watch has said last is true, or has not been false for longer than
\* it waits: a loss that is reported is taken back at the check at which the
\* platform has been up for the cooldown, however it flaps before, and a loss
\* is reported at the first check that is past both dead_after and the cooldown.
LastAlertIsTrue ==
  /\ upFor > 0 /\ upFor >= MinNotify => told \notin {"dead", "loggedOut"}
  /\ downFor > DeadAfter /\ downFor >= MinNotify => told \in {"dead", "loggedOut"}
=============================================================================
