---------------------------- MODULE QuotaWatches ----------------------------
(***************************************************************************)
(* The watches of the Supabase and Neon quotas (src/internal/notify/        *)
(* supabase.go, neonusage.go): one pass over the accounts at every tick,    *)
(* a warning for a quota that is nearly used up, once per period, and what  *)
(* was warned of in a file.  A Supabase account is entered with a refresh   *)
(* token that its first use replaces: the new one must get into the         *)
(* database, or there is no way back in.  A new container has the file as   *)
(* the snapshot store saw it last.                                          *)
(*                                                                         *)
(* The services that are asked are outside of the repository.               *)
(***************************************************************************)
EXTENDS Integers, Sequences, FiniteSets

CONSTANTS
  Accounts,     \* in the order they are asked, a sequence
  Watches,      \* "supabase", "neon"
  MaxTokens,    \* bound: refreshes of an account
  MaxPeriods,   \* bound
  MaxFaults,    \* bound: failed requests, statements and writes
  MaxReboots    \* bound

VARIABLES
  watch,
  valid,     \* account -> the token its service would take
  stored,    \* account -> the token in app_state
  over,      \* accounts whose quota is nearly used up
  period,    \* what a warning is for: the day, or the end of the quota's period
  ask,       \* the account the pass is at
  phase,
  due,       \* the period that the warning under way is for
  fresh,     \* the token that came in answer
  warned,    \* supabaseState, neonState: account -> period
  saved,     \* the state file
  snapshot,  \* the state file in the snapshot store
  warnings,  \* how many warnings of this period came to the receiver
  forgotten, \* history: how many restarts of this period cost the account a note
  faults,
  reboots

qvars == <<watch, valid, stored, over, period, ask, phase, due, fresh, warned, saved,
           snapshot, warnings, forgotten, faults, reboots>>

Places == 1..Len(Accounts)
Account == Accounts[ask]
Names == {Accounts[k] : k \in Places}
Never == 0

Init ==
  /\ watch \in Watches
  /\ valid = [a \in Names |-> 1] /\ stored = valid
  /\ over = {}
  /\ period = 1
  /\ ask = 1 /\ phase = "idle" /\ due = 1 /\ fresh = 0
  /\ warned = [a \in Names |-> Never] /\ saved = warned /\ snapshot = warned
  /\ warnings = [a \in Names |-> 0] /\ forgotten = warnings
  /\ faults = 0 /\ reboots = 0

Fault == faults < MaxFaults /\ faults' = faults + 1
tokens == <<valid, stored>>
past == <<snapshot, warnings, forgotten>>
notes == <<warned, saved, past>>

----------------------------------------------------------------------------
(* What happens outside                                                    *)

Fills(a) ==
  /\ a \notin over
  /\ over' = over \cup {a}
  /\ UNCHANGED <<watch, reboots, due, period, ask, phase, fresh, tokens, notes, faults>>

NewPeriod ==
  /\ period < MaxPeriods
  /\ period' = period + 1
  /\ over' = {}
  /\ warnings' = [a \in Names |-> 0] /\ forgotten' = warnings'
  /\ UNCHANGED <<watch, reboots, due, ask, phase, fresh, tokens, warned, saved, snapshot, faults>>

\* The snapshot store comes by, touched or at its own time.
Sync ==
  /\ snapshot # saved
  /\ snapshot' = saved
  /\ UNCHANGED <<watch, reboots, due, over, period, ask, phase, fresh, tokens, warned, saved,
                 warnings, forgotten, faults>>

\* The POST of a warning and its note in the file are not one step.
Noting == phase \in {"note", "write"}

\* The process is replaced; memory begins empty.  The file is as it was, or, in a
\* new container, as in the snapshot, or there is none that can be read: it was
\* being written, or could not be restored.
Restart ==
  /\ reboots < MaxReboots /\ reboots' = reboots + 1
  /\ phase' = "idle" /\ ask' = 1 /\ fresh' = 0
  /\ warned' = [a \in Names |-> Never]
  /\ saved' \in {saved, snapshot, warned'}
  /\ forgotten' = [a \in Names |->
                      forgotten[a] + IF (Noting /\ Account = a) \/ saved'[a] # saved[a] THEN 1 ELSE 0]
  /\ UNCHANGED <<watch, due, over, period, tokens, snapshot, warnings, faults>>

----------------------------------------------------------------------------
(* A pass                                                                  *)

\* The file is read over what memory has.
Load ==
  /\ phase = "idle"
  /\ warned' = [a \in Names |-> IF saved[a] # Never THEN saved[a] ELSE warned[a]]
  /\ phase' = IF watch = "supabase" THEN "refresh" ELSE "look"
  /\ ask' = 1
  /\ UNCHANGED <<watch, reboots, due, over, period, fresh, tokens, saved, past, faults>>

\* To the next account, or the end of the pass.
Proceed ==
  IF ask < Len(Accounts)
    THEN ask' = ask + 1 /\ phase' = IF watch = "supabase" THEN "refresh" ELSE "look"
    ELSE ask' = 1 /\ phase' = "idle"

\* supabaseRefresh with the token of the database: the service takes only the
\* newest, and answers with the next.
Refresh ==
  /\ phase = "refresh"
  /\ stored[Account] = valid[Account] /\ valid[Account] < MaxTokens
  /\ valid' = [valid EXCEPT ![Account] = @ + 1]
  /\ fresh' = valid'[Account]
  /\ phase' = "store"
  /\ UNCHANGED <<watch, reboots, due, over, period, ask, stored, notes, faults>>

\* The request fails, before or after the service has replaced the token, or
\* the token is no longer good.
RefreshFails ==
  /\ phase = "refresh"
  /\ \/ stored[Account] # valid[Account] /\ UNCHANGED <<valid, faults>>
     \/ Fault /\ UNCHANGED valid
     \/ /\ Fault /\ stored[Account] = valid[Account] /\ valid[Account] < MaxTokens
        /\ valid' = [valid EXCEPT ![Account] = @ + 1]
  /\ Proceed
  /\ UNCHANGED <<watch, reboots, due, over, period, fresh, stored, notes>>

\* Variant: the token is used, but not put into the database.
StoreForgotten ==
  /\ phase = "store"
  /\ phase' = "look" /\ fresh' = 0
  /\ UNCHANGED <<watch, reboots, due, over, period, ask, tokens, notes, faults>>

\* appState.Set, before anything else is asked.
Store ==
  /\ phase = "store"
  /\ fresh' = 0
  /\ \/ /\ stored' = [stored EXCEPT ![Account] = fresh]
        /\ phase' = "look" /\ UNCHANGED <<ask, faults>>
     \/ Fault /\ Proceed /\ UNCHANGED stored
  /\ UNCHANGED <<watch, reboots, due, over, period, valid, notes>>

\* The usage is asked for.  A request that fails skips this account of
\* Supabase, and ends the pass over those of Neon.
Look ==
  /\ phase = "look"
  /\ \/ /\ IF Account \in over /\ warned[Account] # period
             THEN phase' = "warn" /\ due' = period /\ UNCHANGED ask
             ELSE Proceed /\ UNCHANGED due
        /\ UNCHANGED faults
     \/ /\ Fault /\ UNCHANGED due
        /\ IF watch = "supabase" THEN Proceed ELSE phase' = "idle" /\ ask' = 1
  /\ UNCHANGED <<watch, reboots, over, period, fresh, tokens, notes>>

\* The receiver has the warning; if its period has ended, it is not counted.
Warning ==
  warnings' = IF due = period THEN [warnings EXCEPT ![Account] = @ + 1] ELSE warnings

\* postWebhook: one that fails may have arrived.
Warn ==
  /\ phase = "warn"
  /\ \/ Warning /\ phase' = "note" /\ UNCHANGED <<ask, faults>>
     \/ Fault /\ Proceed /\ (Warning \/ UNCHANGED warnings)
  /\ UNCHANGED <<watch, reboots, due, over, period, fresh, tokens, warned, saved, snapshot,
                 forgotten>>

\* In memory,
Note ==
  /\ phase = "note"
  /\ warned' = [warned EXCEPT ![Account] = due]
  /\ phase' = "write"
  /\ UNCHANGED <<watch, reboots, due, over, period, ask, fresh, tokens, saved, past, faults>>

\* and then in the file; one that cannot be written is ignored.
WriteNotes ==
  /\ phase = "write"
  /\ \/ saved' = warned /\ UNCHANGED faults
     \/ Fault /\ UNCHANGED saved
  /\ Proceed
  /\ UNCHANGED <<watch, reboots, due, over, period, fresh, tokens, warned, past>>

Next ==
  \/ \E a \in Names : Fills(a)
  \/ NewPeriod \/ Sync \/ Restart
  \/ Load \/ Refresh \/ RefreshFails \/ Store \/ Look
  \/ Warn \/ Note \/ WriteNotes

Spec == Init /\ [][Next]_qvars
----------------------------------------------------------------------------
(* Properties                                                              *)

\* Every variable keeps its type.
TypeOK ==
  /\ watch \in Watches
  /\ over \subseteq Names
  /\ valid \in [Names -> 1..MaxTokens] /\ stored \in [Names -> 1..MaxTokens]
  /\ warned \in [Names -> 0..MaxPeriods] /\ saved \in [Names -> 0..MaxPeriods]
  /\ snapshot \in [Names -> 0..MaxPeriods]
  /\ warnings \in [Names -> Nat] /\ forgotten \in [Names -> 0..reboots]
  /\ ask \in Places /\ fresh \in 0..MaxTokens
  /\ period \in 1..MaxPeriods /\ due \in 1..MaxPeriods
  /\ phase \in {"idle", "refresh", "store", "look", "warn", "note", "write"}
  /\ faults \in 0..MaxFaults /\ reboots \in 0..MaxReboots

\* The way into an account is lost only by a fault or a restart between the
\* service's answer and the row in the database, each of which costs one
\* account at most.
TokensAreKept ==
  Cardinality({a \in Names : stored[a] # valid[a] /\ ~(phase = "store" /\ Account = a)})
    <= faults + reboots

\* A quota is warned of once in its period, and again only for a fault, or for a
\* restart that came between the POST and the end of the write of the file, or that
\* found an older file than it left; what is noted as warned of has been received.
WarnedOncePerPeriod ==
  \A a \in Names :
    /\ warnings[a] <= 1 + faults + forgotten[a]
    /\ warned[a] = period => warnings[a] >= 1
=============================================================================
