------------------------ MODULE SnapshotStore_proofs ------------------------
(***************************************************************************)
(* Theorems about SnapshotStore: for any set of files, any contents and    *)
(* any bounds.                                                             *)
(***************************************************************************)
EXTENDS SnapshotStore, TLAPS

\* A known file that has no row, or no file, has an excuse.
Excused == removed \cup unrestored

RowsAreKnown == \A f \in Files : rows[f] # NoRow => f \in known

\* The disk lacks nothing unexcused, but for a disk that Restore has still to
\* fill.
DiskIsExcused ==
  \/ pc = "boot" /\ \A f \in Top : disk[f] = Absent
  \/ \A f \in known : disk[f] = Absent => f \in Excused

\* What the walk has not found, and what is to be deleted, is excused.
WalkIsExcused ==
  pc = "walk" => \A f \in (Session \cap known) \ left : live[f] = Absent => f \in Excused

StaleIsExcused == stale \subseteq Excused

\* The hashes are those of the disk, but for the files that have changed.
HashesAreFresh ==
  /\ pc = "walk" => \A f \in Files \ (left \cup unsettled) : live[f] = disk[f]
  /\ pc \in {"store", "done"} => \A f \in Files \ unsettled : live[f] = disk[f]

\* What is not left to store is stored, and what is to go is to be deleted.
StoredSoFar ==
  pc = "store" =>
    /\ \A f \in Files \ (left \cup unsettled) : live[f] # Absent => rows[f].sum = live[f]
    /\ \A f \in Session : live[f] = Absent => f \in stale \/ rows[f] = NoRow

\* Data and hash of a row are of one content, unless the file changed meanwhile.
RowsAreWhole == \A f \in Files \ torn : rows[f].data = rows[f].sum

Inv ==
  /\ TypeOK /\ BackupIsKept /\ IdentityIsKept /\ SyncIsComplete
  /\ RowsAreKnown /\ DiskIsExcused /\ WalkIsExcused /\ StaleIsExcused
  /\ HashesAreFresh /\ StoredSoFar /\ RowsAreWhole

LEMMA InitInv == Init => Inv
<1> SUFFICES ASSUME Init PROVE Inv
  OBVIOUS
<1> USE SnapshotAssumption
<1>1. TypeOK
  <2>1. disk \in [Files -> Contents \cup {Absent}] /\ live \in [Files -> Contents \cup {Absent}]
    BY DEF Init
  <2>2. rows \in [Files -> [data : Contents, sum : Contents] \cup {NoRow}]
    <3>1. rows = [f \in Files |-> NoRow]
      BY DEF Init
    <3> QED
      BY <3>1
  <2>3. writes \in 0..MaxWrites /\ restarts \in 0..MaxRestarts
    BY DEF Init
  <2>4. /\ <<touch, recent, final>> \in BOOLEAN \X BOOLEAN \X BOOLEAN
        /\ pc = "boot" /\ left = {} /\ stale = {} /\ unsettled = {}
        /\ removed = {} /\ unrestored = {} /\ known = {} /\ torn = {}
    BY DEF Init
  <2> HIDE SnapshotAssumption
  <2> QED
    BY <2>1, <2>2, <2>3, <2>4 DEF TypeOK
<1>2. RowsAreKnown
  BY DEF Init, RowsAreKnown
<1>3. DiskIsExcused
  BY DEF Init, DiskIsExcused, Files, Session
<1> QED
  BY <1>1, <1>2, <1>3
  DEF Init, Inv, BackupIsKept, IdentityIsKept, SyncIsComplete, WalkIsExcused,
      StaleIsExcused, HashesAreFresh, StoredSoFar, RowsAreWhole, NoRow

\* Every step but a stutter keeps the types.
LEMMA TypeStep == ASSUME TypeOK, Next PROVE TypeOK'
<1> USE SnapshotAssumption DEF TypeOK, local, bounds, Files, Session, NoRow
<1>1. CASE SkipRestore
  BY <1>1 DEF SkipRestore
<1>2. CASE Restore
  BY <1>2 DEF Restore, WriteBack, Stored
<1>3. CASE RestoreBreaks
  BY <1>3 DEF RestoreBreaks, WriteBack, Stored
<1>4. CASE Touch
  BY <1>4 DEF Touch
<1>5. CASE TakeTouch
  BY <1>5 DEF TakeTouch, Begin
<1>6. CASE Tick
  BY <1>6 DEF Tick, Begin
<1>7. CASE Elapse
  BY <1>7 DEF Elapse
<1>8. CASE Shutdown
  BY <1>8 DEF Shutdown, Begin
<1>9. CASE Compare
  BY <1>9 DEF Compare, Differs, StaleRows, Stored
<1>10. CASE DeleteStale
  BY <1>10 DEF DeleteStale
<1>11. CASE EndSync
  BY <1>11 DEF EndSync, Over
<1>12. CASE SyncFails
  BY <1>12 DEF SyncFails, Over
<1>13. CASE Restart
  <2>1. disk' \in [Files -> Contents \cup {Absent}] /\ live' \in [Files -> Contents \cup {Absent}]
    BY <1>13 DEF Restart, TypeOK
  <2>2. left' = {} /\ stale' = {} /\ unsettled' = {} /\ pc' = "boot" /\ restarts' \in 0..MaxRestarts
    BY <1>13 DEF Restart, TypeOK
  <2>3. UNCHANGED <<rows, removed, unrestored, known, torn, writes>> /\ <<touch, recent, final>>' \in BOOLEAN \X BOOLEAN \X BOOLEAN
    BY <1>13 DEF Restart
  <2> QED
    BY <2>1, <2>2, <2>3 DEF TypeOK
<1>14. CASE DieInRestore
  BY <1>14 DEF DieInRestore, WriteBack, Stored
<1>15. ASSUME NEW f \in Files, Hash(f) PROVE TypeOK'
  <2>1. live' \in [Files -> Contents \cup {Absent}]
    BY <1>15 DEF Hash, TypeOK
  <2>2. stale' = {}
    BY <1>15 DEF Hash, TypeOK
  <2>3. pc' = "walk" /\ left' \subseteq Files
    BY <1>15 DEF Hash, TypeOK
  <2>4. UNCHANGED <<disk, rows, touch, recent, final, stale, unsettled, removed, unrestored,
                    known, torn, bounds>>
    BY <1>15 DEF Hash
  <2> QED
    BY <2>1, <2>2, <2>3, <2>4 DEF TypeOK, bounds
<1>16. ASSUME NEW f \in Files, Store(f) PROVE TypeOK'
  BY <1>16 DEF Store, NextFile
<1>17. ASSUME NEW f \in Files, PassOver(f) PROVE TypeOK'
  BY <1>17 DEF PassOver, NextFile
<1>18. ASSUME NEW f \in Files, Remove(f) PROVE TypeOK'
  BY <1>18 DEF Remove
<1>19. ASSUME NEW f \in Files, NEW c \in Contents, Write(f, c) PROVE TypeOK'
  BY <1>19 DEF Write
<1> QED
  BY <1>1, <1>2, <1>3, <1>4, <1>5, <1>6, <1>7, <1>8, <1>9, <1>10, <1>11, <1>12, <1>13, <1>14, <1>15, <1>16, <1>17, <1>18, <1>19 DEF Next

\* Every step keeps the rest of the invariant.
LEMMA InvStep == ASSUME Inv, Next PROVE Inv'
<1>t. TypeOK /\ TypeOK'
  BY TypeStep DEF Inv
<1> USE SnapshotAssumption
    DEF Inv, TypeOK, BackupIsKept, IdentityIsKept, SyncIsComplete, RowsAreKnown,
        DiskIsExcused, WalkIsExcused, StaleIsExcused, HashesAreFresh, StoredSoFar,
        RowsAreWhole, Excused, local, bounds, Files, Session, NoRow
<1>1. CASE SkipRestore
  BY <1>t, <1>1 DEF SkipRestore
<1>2. CASE Restore
  BY <1>t, <1>2 DEF Restore, WriteBack, Stored
<1>3. CASE RestoreBreaks
  BY <1>t, <1>3 DEF RestoreBreaks, WriteBack, Stored
<1>4. CASE Touch
  BY <1>t, <1>4 DEF Touch
<1>5. CASE TakeTouch
  BY <1>t, <1>5 DEF TakeTouch, Begin
<1>6. CASE Tick
  BY <1>t, <1>6 DEF Tick, Begin
<1>7. CASE Elapse
  BY <1>t, <1>7 DEF Elapse
<1>8. CASE Shutdown
  BY <1>t, <1>8 DEF Shutdown, Begin
<1>9. CASE Compare
  BY <1>t, <1>9 DEF Compare, Differs, StaleRows, Stored
<1>10. CASE DeleteStale
  BY <1>t, <1>10 DEF DeleteStale
<1>11. CASE EndSync
  BY <1>t, <1>11 DEF EndSync, Over
<1>12. CASE SyncFails
  BY <1>t, <1>12 DEF SyncFails, Over
<1>13. CASE Restart
  BY <1>t, <1>13 DEF Restart
<1>14. CASE DieInRestore
  BY <1>t, <1>14 DEF DieInRestore, WriteBack, Stored
<1>15. ASSUME NEW f \in Files, Hash(f) PROVE Inv'
  BY <1>t, <1>15 DEF Hash, NextFile
<1>16. ASSUME NEW f \in Files, Store(f) PROVE Inv'
  BY <1>t, <1>16 DEF Store, NextFile
<1>17. ASSUME NEW f \in Files, PassOver(f) PROVE Inv'
  BY <1>t, <1>17 DEF PassOver, NextFile
<1>18. ASSUME NEW f \in Files, Remove(f) PROVE Inv'
  BY <1>t, <1>18 DEF Remove
<1>19. ASSUME NEW f \in Files, NEW c \in Contents, Write(f, c) PROVE Inv'
  BY <1>t, <1>19 DEF Write
<1> QED
  BY <1>t, <1>1, <1>2, <1>3, <1>4, <1>5, <1>6, <1>7, <1>8, <1>9, <1>10, <1>11, <1>12, <1>13, <1>14, <1>15, <1>16, <1>17, <1>18, <1>19 DEF Next

LEMMA Stutter == ASSUME Inv, UNCHANGED vars PROVE Inv'
BY DEF vars, local, bounds, Inv, TypeOK, BackupIsKept, IdentityIsKept, SyncIsComplete,
       RowsAreKnown, DiskIsExcused, WalkIsExcused, StaleIsExcused, HashesAreFresh,
       StoredSoFar, RowsAreWhole, Excused, Files, Session, NoRow

\* The invariant of the store (persist.go: Restore, Sync, Run).
THEOREM SnapshotInvariance == Spec => []Inv
<1>1. Init => Inv
  BY InitInv
<1>2. Inv /\ [Next]_vars => Inv'
  BY InvStep, Stutter
<1> QED
  BY <1>1, <1>2, PTL DEF Spec

\* Every variable of the store keeps its type, and a sync stores only what it
\* has hashed and deletes only what it has not found.
THEOREM SnapshotTyped == Spec => []TypeOK
<1>1. Inv => TypeOK
  BY DEF Inv
<1> QED
  BY <1>1, SnapshotInvariance, PTL

\* A sync that has gone through has every file that was left alone as it is on
\* the disk: its hash, and its data too unless the file changed during the sync
\* that stored it last (persist.go: Sync).
THEOREM SyncsAreComplete == Spec => []SyncIsComplete
<1>1. Inv => SyncIsComplete
  BY DEF Inv
<1> QED
  BY <1>1, SnapshotInvariance, PTL

\* No sync deletes the backup of a file, but of one that the bot has removed
\* or that a broken restore has left out (persist.go: Restore, Sync).
THEOREM BackupsAreKept == Spec => []BackupIsKept
<1>1. Inv => BackupIsKept
  BY DEF Inv
<1> QED
  BY <1>1, SnapshotInvariance, PTL

\* The rows of the identity files are never deleted (persist.go:284-295).
THEOREM IdentitiesAreKept == Spec => []IdentityIsKept
<1>1. Inv => IdentityIsKept
  BY DEF Inv
<1> QED
  BY <1>1, SnapshotInvariance, PTL
=============================================================================
