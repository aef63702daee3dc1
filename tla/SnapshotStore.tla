--------------------------- MODULE SnapshotStore ---------------------------
(***************************************************************************)
(* The backup of the session directory in Postgres                         *)
(* (src/internal/persist/persist.go) and its use by the main program       *)
(* (src/cmd/element-orion/main.go): Restore at the start, the background   *)
(* syncs that Touch and a ticker ask for, and the sync at a shutdown.      *)
(*                                                                         *)
(* The container may be lost at any time, with its disk; the process may   *)
(* also die and start again on the same disk.  Every statement and every   *)
(* file operation of a sync may fail, and the bot goes on writing files    *)
(* while a sync runs.  Contents may come back, and a content stands for    *)
(* its own hash.                                                           *)
(***************************************************************************)
EXTENDS Integers, FiniteSets

CONSTANTS
  Top,         \* files of the session directory itself
  Nested,      \* files of its subdirectories
  Identity,    \* files of the workspace root: IDENTITY.md, USER.md, SOUL.md
  Contents,    \* what a file may hold
  Absent,      \* ... and no file, or no row
  MaxWrites,   \* bound on the file operations of the bot
  MaxRestarts  \* bound on the restarts

ASSUME SnapshotAssumption ==
  /\ Top \cap Nested = {} /\ (Top \cup Nested) \cap Identity = {}
  /\ Absent \notin Contents
  /\ MaxWrites \in Nat /\ MaxRestarts \in Nat

VARIABLES
  disk,        \* the files of the container
  rows,        \* lumen_snapshots: data and sha256 per path
  touch,       \* touchCh holds a request
  recent,      \* the last sync is less than minSync ago
  pc,
  final,       \* the sync is the one of the shutdown
  live,        \* the hashes that the walk has found
  left,        \* files still to be hashed, or still to be stored
  stale,       \* stored paths that the walk has not found
  unsettled,   \* history: files changed, or not readable, since the sync began
  removed,     \* history: files the bot has removed since they were last stored
  unrestored,  \* history: ... or that a broken restore has left out
  known,       \* history: files that have had a row
  torn,        \* history: files that changed in the sync that stored them last
  writes, restarts

local   == <<live, left, stale>>
bounds  == <<writes, restarts>>
vars    == <<disk, rows, touch, recent, pc, final, local,
             unsettled, removed, unrestored, known, torn, bounds>>

Session == Top \cup Nested
Files   == Session \cup Identity
NoRow   == [data |-> Absent, sum |-> Absent]
Stored  == {f \in Files : rows[f] # NoRow}

Init ==
  /\ disk = [f \in Files |-> Absent]
  /\ rows = [f \in Files |-> NoRow]
  /\ touch = FALSE /\ recent = FALSE
  /\ pc = "boot" /\ final = FALSE
  /\ live = [f \in Files |-> Absent] /\ left = {} /\ stale = {}
  /\ unsettled = {} /\ removed = {} /\ unrestored = {} /\ known = {}
  /\ torn = {}
  /\ writes = 0 /\ restarts = 0

----------------------------------------------------------------------------
(* Restore                                                                 *)

\* Variant: a restore is never necessary.
NoRestore ==
  /\ pc = "boot" /\ pc' = "idle"
  /\ UNCHANGED <<disk, rows, touch, recent, final, local, unsettled, removed, unrestored,
                 known, torn, bounds>>

\* A file in the directory itself: the disk is the one of the last run.
SkipRestore ==
  /\ pc = "boot" /\ pc' = "idle"
  /\ \E f \in Top : disk[f] # Absent
  /\ UNCHANGED <<disk, rows, touch, recent, final, local, unsettled, removed, unrestored,
                 known, torn, bounds>>

\* The rows of R are written to the disk; an identity file only where there
\* is none, any other over what is there.
WriteBack(R) ==
  disk' = [f \in Files |->
             IF f \in R /\ (f \in Session \/ disk[f] = Absent) THEN rows[f].data ELSE disk[f]]

Restore ==
  /\ pc = "boot" /\ pc' = "idle"
  /\ \A f \in Top : disk[f] = Absent
  /\ WriteBack(Stored)
  /\ UNCHANGED <<rows, touch, recent, final, local, unsettled, removed, unrestored, known, torn,
                 bounds>>

\* The query, a row or a file fails; the program goes on with what it has.
RestoreBreaks ==
  /\ pc = "boot" /\ pc' = "idle"
  /\ \A f \in Top : disk[f] = Absent
  /\ \E R \in SUBSET Stored :
       /\ WriteBack(R)
       /\ unrestored' = unrestored \cup (Stored \ R)
  /\ UNCHANGED <<rows, touch, recent, final, local, unsettled, removed, known, torn, bounds>>

----------------------------------------------------------------------------
(* Run                                                                     *)

Begin ==
  /\ pc' = "walk"
  /\ left' = Files
  /\ live' = [f \in Files |-> Absent]
  /\ stale' = {}
  /\ unsettled' = {}

Touch ==
  /\ pc \notin {"boot", "stopped"}
  /\ touch' = TRUE
  /\ UNCHANGED <<disk, rows, recent, pc, final, local, unsettled, removed, unrestored, known, torn,
                 bounds>>

\* A request that comes too soon after a sync is used up all the same.
TakeTouch ==
  /\ pc = "idle" /\ touch
  /\ touch' = FALSE
  /\ IF recent THEN UNCHANGED <<pc, local, unsettled>> ELSE Begin
  /\ UNCHANGED <<disk, rows, recent, final, removed, unrestored, known, torn, bounds>>

\* Variant: no ticker.
NoTick == pc = "idle" /\ touch /\ UNCHANGED vars

Tick ==
  /\ pc = "idle" /\ ~recent
  /\ Begin
  /\ UNCHANGED <<disk, rows, touch, recent, final, removed, unrestored, known, torn, bounds>>

\* minSync goes by.
Elapse ==
  /\ recent /\ recent' = FALSE
  /\ UNCHANGED <<disk, rows, touch, pc, final, local, unsettled, removed, unrestored, known, torn,
                 bounds>>

\* SIGTERM: the loop ends and main's deferred SyncNow runs.
Shutdown ==
  /\ pc = "idle"
  /\ Begin /\ final' = TRUE
  /\ UNCHANGED <<disk, rows, touch, recent, removed, unrestored, known, torn, bounds>>

----------------------------------------------------------------------------
(* Sync                                                                    *)

\* The session directory first, then the identity files.
NextFile(f) == f \in left /\ (f \in Identity => left \subseteq Identity)

\* The walk hashes one file after the other.
Hash(f) ==
  /\ pc = "walk" /\ NextFile(f)
  /\ live' = [live EXCEPT ![f] = disk[f]]
  /\ left' = left \ {f}
  /\ UNCHANGED <<disk, rows, touch, recent, pc, final, stale, unsettled, removed, unrestored,
                 known, torn, bounds>>

\* Variant: a file that has a row is taken for stored.
AnyRowWillDo(f) == live[f] # Absent /\ rows[f] = NoRow

\* The snapshot has another content, or none.
Differs(f) == live[f] # Absent /\ rows[f].sum # live[f]

\* Rows without a file, but never those of the identity files.
StaleRows == {f \in Stored \cap Session : live[f] = Absent}

\* The query for the stored hashes.
Compare ==
  /\ pc = "walk" /\ left = {}
  /\ pc' = "store"
  /\ left' = {f \in Files : Differs(f)}
  /\ stale' = StaleRows
  /\ UNCHANGED <<disk, rows, touch, recent, final, live, unsettled, removed, unrestored, known, torn,
                 bounds>>

\* The file is read again; it may be another by now, or gone.
Store(f) ==
  /\ pc = "store" /\ NextFile(f)
  /\ left' = left \ {f}
  /\ IF disk[f] = Absent
       THEN UNCHANGED <<rows, known, torn, removed, unrestored>>
       ELSE /\ rows' = [rows EXCEPT ![f] = [data |-> disk[f], sum |-> live[f]]]
            /\ known' = known \cup {f}
            /\ torn' = IF f \in unsettled THEN torn \cup {f} ELSE torn \ {f}
            /\ removed' = removed \ {f} /\ unrestored' = unrestored \ {f}
  /\ UNCHANGED <<disk, touch, recent, pc, final, live, stale, unsettled, bounds>>

\* An identity file that cannot be hashed, or any file that can no longer be
\* read, is passed over.
PassOver(f) ==
  /\ NextFile(f)
  /\ pc = "store" \/ (pc = "walk" /\ f \in Identity)
  /\ left' = left \ {f} /\ unsettled' = unsettled \cup {f}
  /\ UNCHANGED <<disk, rows, touch, recent, pc, final, live, stale, removed, unrestored,
                 known, torn, bounds>>

\* A sync is over: the next is at least minSync away, or the process ends.
Over ==
  /\ pc' = IF final THEN "stopped" ELSE "idle"
  /\ recent' = TRUE
  /\ left' = {} /\ stale' = {}

DeleteStale ==
  /\ pc = "store" /\ left = {}
  /\ rows' = [f \in Files |-> IF f \in stale THEN NoRow ELSE rows[f]]
  /\ pc' = "done"
  /\ UNCHANGED <<disk, touch, recent, final, local, unsettled, removed, unrestored, known, torn,
                 bounds>>

EndSync ==
  /\ pc = "done" /\ Over
  /\ UNCHANGED <<disk, rows, touch, final, live, unsettled, removed, unrestored, known, torn, bounds>>

\* Any error ends the sync; in the loop it counts as one.
SyncFails ==
  /\ pc \in {"walk", "store"} /\ Over
  /\ UNCHANGED <<disk, rows, touch, final, live, unsettled, removed, unrestored, known, torn, bounds>>

----------------------------------------------------------------------------
(* The bot and the host                                                    *)

Write(f, c) ==
  /\ pc \notin {"boot", "stopped"} /\ writes < MaxWrites
  /\ writes' = writes + 1
  /\ disk' = [disk EXCEPT ![f] = c]
  /\ unsettled' = unsettled \cup {f}
  /\ UNCHANGED <<rows, touch, recent, pc, final, local, removed, unrestored, known, torn, restarts>>

Remove(f) ==
  /\ pc \notin {"boot", "stopped"} /\ writes < MaxWrites
  /\ writes' = writes + 1
  /\ disk[f] # Absent /\ disk' = [disk EXCEPT ![f] = Absent]
  /\ unsettled' = unsettled \cup {f} /\ removed' = removed \cup {f}
  /\ UNCHANGED <<rows, touch, recent, pc, final, local, unrestored, known, torn, restarts>>

\* A new process, on the same disk or in a new container.
Restart ==
  /\ restarts < MaxRestarts /\ restarts' = restarts + 1
  /\ pc' = "boot" /\ final' = FALSE /\ touch' = FALSE /\ recent' = FALSE
  /\ live' = [f \in Files |-> Absent] /\ left' = {} /\ stale' = {} /\ unsettled' = {}
  /\ disk' = disk \/ disk' = [f \in Files |-> Absent]
  /\ UNCHANGED <<rows, removed, unrestored, known, torn, writes>>

\* The process dies while it restores.
DieInRestore ==
  /\ pc = "boot" /\ restarts < MaxRestarts /\ restarts' = restarts + 1
  /\ \A f \in Top : disk[f] = Absent
  /\ \E R \in SUBSET Stored :
       /\ WriteBack(R)
       /\ unrestored' = unrestored \cup (Stored \ R)
  /\ UNCHANGED <<rows, touch, recent, pc, final, local, unsettled, removed, known, torn, writes>>

Next ==
  \/ SkipRestore \/ Restore \/ RestoreBreaks
  \/ Touch \/ TakeTouch \/ Tick \/ Elapse \/ Shutdown
  \/ \E f \in Files : Hash(f) \/ Store(f) \/ PassOver(f)
  \/ Compare \/ DeleteStale \/ EndSync \/ SyncFails
  \/ \E f \in Files : Remove(f) \/ \E c \in Contents : Write(f, c)
  \/ Restart \/ DieInRestore

Spec == Init /\ [][Next]_vars

(***************************************************************************)
(* The process runs and the ticker ticks; the database and the disk fail   *)
(* only finitely often.                                                    *)
(***************************************************************************)
Fairness ==
  /\ WF_vars(SkipRestore \/ Restore \/ RestoreBreaks)
  /\ WF_vars(Elapse) /\ WF_vars(TakeTouch \/ Tick)
  /\ WF_vars(Compare) /\ WF_vars(DeleteStale) /\ WF_vars(EndSync)
  /\ WF_vars(\E f \in Files : Hash(f) \/ Store(f))
  /\ <>[][~SyncFails /\ \A f \in Files : ~PassOver(f)]_vars

FairSpec == Spec /\ Fairness

----------------------------------------------------------------------------
(* Properties                                                              *)

\* Every variable keeps its type; what a sync has still to store it has
\* hashed, and what it is to delete it has not found.
TypeOK ==
  /\ disk \in [Files -> Contents \cup {Absent}]
  /\ rows \in [Files -> [data : Contents, sum : Contents] \cup {NoRow}]
  /\ touch \in BOOLEAN /\ recent \in BOOLEAN /\ final \in BOOLEAN
  /\ pc \in {"boot", "idle", "walk", "store", "done", "stopped"}
  /\ live \in [Files -> Contents \cup {Absent}]
  /\ left \subseteq Files /\ stale \subseteq Session
  /\ unsettled \subseteq Files /\ removed \subseteq Files
  /\ unrestored \subseteq Files /\ known \subseteq Files
  /\ torn \subseteq Files
  /\ writes \in 0..MaxWrites /\ restarts \in 0..MaxRestarts
  /\ pc = "store" => \A f \in left : live[f] # Absent
  /\ stale # {} => pc \in {"store", "done"}
  /\ \A f \in stale : live[f] = Absent

\* When a sync has gone through, the snapshot has every file that was not
\* touched meanwhile as it is on the disk, hash and data, and no file that is
\* gone.  The exception is a file that changed during the sync that stored it
\* last: another content may stand under its hash since, and as only hashes are
\* compared it stays there as long as the file keeps that hash.
SyncIsComplete ==
  pc = "done" => \A f \in Files \ unsettled :
    IF disk[f] = Absent
      THEN f \in Identity \/ rows[f] = NoRow
      ELSE /\ rows[f].sum = disk[f]
           /\ f \notin torn => rows[f].data = disk[f]

\* The backup of a file goes only when the bot removes the file, or when a
\* restore breaks off before it has come to the file.
BackupIsKept ==
  \A f \in known : rows[f] # NoRow \/ f \in removed \cup unrestored

\* The backup of an identity file never goes.
IdentityIsKept == \A f \in known \cap Identity : rows[f] # NoRow

\* Unless the process ends for good, the stored hashes come to be those of
\* the disk.
Converges ==
  <>[](\/ pc = "stopped"
       \/ \A f \in Files : IF disk[f] = Absent THEN f \in Identity \/ rows[f] = NoRow
                                               ELSE rows[f].sum = disk[f])

\* "... so the bot can restore its state on a fresh container."
NeverWiped == \A f \in known : rows[f] # NoRow \/ f \in removed
=============================================================================
