------------------------- MODULE Maintenance_proofs -------------------------
(* Theorems about Maintenance, for any number of attempts, snapshots,         *)
(* periods and backups.  The inductive invariant IInv says who holds the      *)
(* lock with what in the transaction (Locks, TxnFits), that the rows of the   *)
(* two tables have different ids and keys (Apart), what the archiving has     *)
(* counted (Counts) and what a backup has copied (Copies).                    *)
EXTENDS Maintenance, FiniteSetTheorems, TLAPS

\* A log that may be started over holds nothing the file has not.
LogInFile == backfilled => \A p \in DOMAIN wal : file[p] = wal[p]

Locks ==
    /\ writer = "persist" <=> persist \in {"open", "committing"}
    /\ writer = "archive" <=> arch.pc \in {"delete", "committing"}
    /\ writer = "vacuum" <=> vac.pc = "rewrite"
    /\ writing <=> persist # "idle"
    /\ writer = "persist" => DOMAIN txn = {"snaps"} \/ DOMAIN txn = {"snaps", "seq", "strikes"}
    /\ arch.pc = "delete" => DOMAIN txn = {"archive"}
    /\ arch.pc = "committing" => DOMAIN txn = {"strikes", "archive"}
    /\ vac.pc \in {"checkpoint", "attempt"} => vac.tries < Attempts

\* The rows of the database v and the keys k ever committed.
Apart(v, k) ==
    /\ \A r \in v["strikes"] \cup v["archive"] : r.id <= v["seq"] /\ r.key \in 1..v["snaps"]
    /\ \A r \in v["strikes"], a \in v["archive"] : r.id # a.id /\ r.key # a.key
    /\ \A r, s \in v["strikes"] : r.id = s.id \/ r.key = s.key => r = s
    /\ k = Keys(v["strikes"]) \cup Keys(v["archive"])
    /\ IsFiniteSet(v["strikes"])

\* What an open transaction holds, relative to the database it began with.
TxnFits ==
    /\ writer = "persist" => txn["snaps"] = View["snaps"] + 1
    /\ writer = "persist" /\ "strikes" \in DOMAIN txn =>
          /\ txn["seq"] = View["seq"] + 1
          /\ \E at \in 0..now :
                /\ arch.pc # "idle" => at >= arch.cutoff
                /\ txn["strikes"] = View["strikes"]
                                    \cup {[id |-> txn["seq"], key |-> txn["snaps"], at |-> at]}
    /\ writer = "archive" =>
          txn["archive"] = View["archive"] \cup Old(View["strikes"], arch.cutoff)
    /\ arch.pc = "committing" =>
          txn["strikes"] = View["strikes"] \ Old(View["strikes"], arch.cutoff)

Counts ==
    /\ arch.pc # "idle" => arch.cutoff <= now
    /\ arch.pc \in {"copy", "delete"} =>
          arch.count = Cardinality(Old(View["strikes"], arch.cutoff))
    /\ arch.pc \in {"committing", "ended"} => arch.count = arch.moved

\* A backup begun in a quiet moment: until the file is copied no thread writes
\* but the checkpoint, which moves what the copied log holds into the file.
Copies ==
    /\ backup.pc = "walCopied" /\ backup.quiet =>
          /\ Quiet
          /\ backup.view = View
          /\ \A p \in DOMAIN backup.wal : backup.wal[p] = View[p]
          /\ \A p \in Pages \ DOMAIN backup.wal : file[p] = View[p]
    /\ backup.pc = "copied" /\ backup.quiet => Restore(backup) = backup.view

IInv == TypeOK /\ LogInFile /\ Locks /\ Apart(View, kept) /\ TxnFits /\ Counts /\ Copies

-----------------------------------------------------------------------------
(* The log laid over the file                                              *)

\* Laying images over images gives images.
LEMMA OverlayImages ==
    ASSUME NEW f, NEW g, Images(f), Images(g)
    PROVE  Images(Overlay(f, g))
BY DEF Overlay, Images

\* The database a connection reads has every page, of its type.
LEMMA ViewType ==
    TypeOK => /\ DOMAIN View = Pages /\ Images(View)
              /\ View["snaps"] \in Nat /\ View["seq"] \in Nat
              /\ View["strikes"] \subseteq Rows /\ View["archive"] \subseteq Rows
<1> SUFFICES ASSUME TypeOK PROVE /\ DOMAIN View = Pages /\ Images(View)
              /\ View["snaps"] \in Nat /\ View["seq"] \in Nat
              /\ View["strikes"] \subseteq Rows /\ View["archive"] \subseteq Rows
    OBVIOUS
<1>1. DOMAIN file = Pages /\ Images(file) /\ Images(wal)
    BY DEF TypeOK
<1>2. Images(View)
    BY <1>1, OverlayImages DEF View
<1>3. DOMAIN View = Pages
    BY <1>1 DEF View, Images, Overlay
<1>4. QED
    BY <1>2, <1>3 DEF Images, Image, Pages

\* A commit lays its images over the database, and a log it lets start over
\* is in the file (SQLite's write-ahead log under the code's connections).
LEMMA CommitFacts ==
    ASSUME TypeOK, LogInFile, NEW images, Images(images), Commit(images)
    PROVE  /\ View' = Overlay(images, View)
           /\ LogInFile'
           /\ DOMAIN file' = Pages /\ Images(file') /\ Images(wal')
           /\ backfilled' \in BOOLEAN /\ recent' \subseteq {"file", "wal"}
<1> DEFINE log == IF backfilled THEN images ELSE Overlay(images, wal)
<1>1. DOMAIN file = Pages /\ Images(file) /\ Images(wal)
    BY DEF TypeOK
<1>2. wal' = log
    BY DEF Commit
<1>3. Images(log)
    BY <1>1, OverlayImages
<1>4. file' = file \/ file' = Overlay(log, file)
    BY DEF Commit
<1>5. DOMAIN file' = Pages /\ Images(file')
    BY <1>1, <1>3, <1>4, OverlayImages DEF Images, Overlay
<1>6. Overlay(wal', file') = Overlay(log, file)
    <2>1. CASE file' = file
        BY <1>2, <2>1
    <2>2. CASE file' = Overlay(log, file)
        BY <1>2, <2>2 DEF Overlay
    <2>3. QED
        BY <1>4, <2>1, <2>2
<1>7. Overlay(log, file) = Overlay(images, View)
    <2>1. CASE backfilled
        <3>1. \A p \in DOMAIN wal : file[p] = wal[p]
            BY <2>1 DEF LogInFile
        <3>2. DOMAIN wal \subseteq DOMAIN file
            BY <1>1 DEF Images
        <3>3. QED
            BY <2>1, <3>1, <3>2 DEF Overlay, View
    <2>2. CASE ~backfilled
        BY <2>2 DEF Overlay, View
    <2>3. QED
        BY <2>1, <2>2
<1>8. LogInFile'
    <2>1. CASE backfilled' = FALSE
        BY <2>1 DEF LogInFile
    <2>2. CASE file' = Overlay(log, file)
        BY <1>2, <2>2 DEF LogInFile, Overlay
    <2>3. QED
        BY <2>1, <2>2 DEF Commit
<1>9. backfilled' \in BOOLEAN /\ recent' \subseteq {"file", "wal"}
    BY DEF Commit, TypeOK
<1>10. QED
    BY <1>2, <1>3, <1>5, <1>6, <1>7, <1>8, <1>9 DEF View

\* Flushing the log leaves the database as it is, all of it in the file.
LEMMA FlushFacts ==
    ASSUME TypeOK, LogInFile, Flush
    PROVE  /\ View' = View /\ file' = View
           /\ LogInFile'
           /\ DOMAIN file' = Pages /\ Images(file') /\ Images(wal')
           /\ backfilled' \in BOOLEAN /\ recent' \subseteq {"file", "wal"}
<1>1. file' = View /\ wal' = NoPages /\ backfilled' = FALSE
    BY DEF Flush
<1>2. DOMAIN wal' = {}
    BY <1>1 DEF NoPages
<1>3. View' = View
    <2>1. View = [p \in DOMAIN View |-> View[p]]
        BY DEF View, Overlay
    <2>2. QED
        BY <1>1, <1>2, <2>1 DEF View, Overlay
<1>4. recent' \subseteq {"file", "wal"}
    BY DEF Flush, TypeOK
<1>5. QED
    BY <1>1, <1>2, <1>3, <1>4, ViewType DEF LogInFile, Images

-----------------------------------------------------------------------------
(* Which steps touch what                                                  *)

\* The jobs, the pipeline and the backups each move their own state; the
\* database moves by commits, flushes and time (each handler of the code).
Frame ==
    /\ \/ UNCHANGED dbVars
       \/ PersistCommitted \/ ArchiveCommitted \/ VacuumRewrites
       \/ VacuumCheckpoints \/ Exit \/ Tick
    /\ \/ UNCHANGED lockVars
       \/ InsertSnapshot \/ InsertStrikes \/ PersistCommitted \/ PersistFails
       \/ ArchiveCopies \/ ArchiveDeletes \/ ArchiveCommitted \/ ArchiveFails
       \/ VacuumAttempts \/ VacuumBacksOff \/ VacuumRewrites \/ Crash
    /\ UNCHANGED <<persist, writing>> \/ PersistBegins \/ PersistNext \/ Crash
    /\ UNCHANGED kept \/ PersistCommitted
    /\ UNCHANGED arch \/ ArchiveBegins \/ ArchiveNext \/ Crash
    /\ UNCHANGED vac \/ VacuumBegins \/ VacuumNext \/ Crash
    /\ UNCHANGED backup \/ FullBackup \/ CopyWal \/ CopyFile \/ BackupEnds \/ Crash
    /\ UNCHANGED begun \/ FullBackup \/ CopyWal
    /\ UNCHANGED now \/ Tick

\* Every step keeps to its frame.
LEMMA FrameNext ==
    [Next]_vars => Frame
<1> SUFFICES ASSUME [Next]_vars PROVE Frame
    OBVIOUS
<1> USE DEF Frame, PersistNext, ArchiveNext, VacuumNext
<1>1. CASE PersistBegins
    BY <1>1 DEF PersistBegins, dbVars, lockVars, persistVars
<1>2. CASE InsertSnapshot
    BY <1>2 DEF InsertSnapshot, dbVars, lockVars, persistVars
<1>3. CASE InsertStrikes
    BY <1>3 DEF InsertStrikes, dbVars, lockVars, persistVars
<1>4. CASE PersistCommits
    BY <1>4 DEF PersistCommits, dbVars, lockVars, persistVars
<1>5. CASE PersistCommitted
    BY <1>5 DEF PersistCommitted, dbVars, lockVars, persistVars
<1>6. CASE PersistLockedOut
    BY <1>6 DEF PersistLockedOut, dbVars, lockVars, persistVars
<1>7. CASE PersistFails
    BY <1>7 DEF PersistFails, dbVars, lockVars, persistVars
<1>8. CASE PersistEnds
    BY <1>8 DEF PersistEnds, dbVars, lockVars, persistVars
<1>9. CASE ArchiveBegins
    BY <1>9 DEF ArchiveBegins, dbVars, lockVars, persistVars
<1>10. CASE ArchiveCounts
    BY <1>10 DEF ArchiveCounts, dbVars, lockVars, persistVars
<1>11. CASE ArchiveCopies
    BY <1>11 DEF ArchiveCopies, dbVars, lockVars, persistVars
<1>12. CASE ArchiveDeletes
    BY <1>12 DEF ArchiveDeletes, dbVars, lockVars, persistVars
<1>13. CASE ArchiveCommitted
    BY <1>13 DEF ArchiveCommitted, dbVars, lockVars, persistVars
<1>14. CASE ArchiveFails
    BY <1>14 DEF ArchiveFails, dbVars, lockVars, persistVars
<1>15. CASE ArchiveEnds
    BY <1>15 DEF ArchiveEnds, dbVars, lockVars, persistVars
<1>16. CASE VacuumBegins
    BY <1>16 DEF VacuumBegins, dbVars, lockVars, persistVars
<1>17. CASE VacuumCheckpoints
    BY <1>17 DEF VacuumCheckpoints, dbVars, lockVars, persistVars
<1>18. CASE VacuumAttempts
    BY <1>18 DEF VacuumAttempts, dbVars, lockVars, persistVars
<1>19. CASE VacuumBacksOff
    BY <1>19 DEF VacuumBacksOff, dbVars, lockVars, persistVars
<1>20. CASE VacuumRetries
    BY <1>20 DEF VacuumRetries, dbVars, lockVars, persistVars
<1>21. CASE VacuumRewrites
    BY <1>21 DEF VacuumRewrites, dbVars, lockVars, persistVars
<1>22. CASE VacuumErrs
    BY <1>22 DEF VacuumErrs, dbVars, lockVars, persistVars
<1>23. CASE FullBackup
    BY <1>23 DEF FullBackup, dbVars, lockVars, persistVars
<1>24. CASE CopyWal
    BY <1>24 DEF CopyWal, dbVars, lockVars, persistVars
<1>25. CASE CopyFile
    BY <1>25 DEF CopyFile, dbVars, lockVars, persistVars
<1>26. CASE BackupEnds
    BY <1>26 DEF BackupEnds, dbVars, lockVars, persistVars
<1>27. CASE Crash
    BY <1>27 DEF Crash, Halted, dbVars, lockVars, persistVars
<1>28. CASE Exit
    BY <1>28 DEF Exit, dbVars, lockVars, persistVars
<1>29. CASE Tick
    BY <1>29 DEF Tick, dbVars, lockVars, persistVars
<1>30. CASE UNCHANGED vars
    BY <1>30 DEF vars, dbVars, lockVars, persistVars
<1>31. QED
    BY <1>1, <1>2, <1>3, <1>4, <1>5, <1>6, <1>7, <1>8, <1>9, <1>10, <1>11,
       <1>12, <1>13, <1>14, <1>15, <1>16, <1>17, <1>18, <1>19, <1>20, <1>21,
       <1>22, <1>23, <1>24, <1>25, <1>26, <1>27, <1>28, <1>29, <1>30 DEF
       Next

\* A database and its log are well formed.
DbType ==
    /\ DOMAIN file = Pages /\ Images(file) /\ Images(wal)
    /\ backfilled \in BOOLEAN /\ recent \subseteq {"file", "wal"}

\* What is read of the database changes by the pipeline's commit and the
\* archiving's alone; VACUUM, checkpoints and exits do not show.
LEMMA DbNext ==
    ASSUME TypeOK, LogInFile, [Next]_vars
    PROVE  /\ DbType' /\ LogInFile'
           /\ PersistCommitted \/ ArchiveCommitted \/ View' = View
<1>1. Images(txn)
    BY DEF TypeOK
<1>2. CASE UNCHANGED dbVars
    BY <1>2 DEF TypeOK, DbType, LogInFile, dbVars, View
<1>3. CASE PersistCommitted
    BY <1>1, <1>3, CommitFacts DEF PersistCommitted, DbType
<1>4. CASE ArchiveCommitted
    BY <1>1, <1>4, CommitFacts DEF ArchiveCommitted, DbType
<1>5. CASE VacuumRewrites
    <2>1. Commit(View)
        BY <1>5 DEF VacuumRewrites
    <2>2. Images(View)
        BY ViewType
    <2>3. Overlay(View, View) = View
        BY DEF View, Overlay
    <2>4. QED
        BY <2>1, <2>2, <2>3, CommitFacts DEF DbType
<1>6. CASE VacuumCheckpoints
    <2>1. CASE Flush
        BY <2>1, FlushFacts DEF DbType
    <2>2. CASE UNCHANGED dbVars
        BY <2>2, <1>2
    <2>3. QED
        BY <1>6, <2>1, <2>2 DEF VacuumCheckpoints
<1>7. CASE Exit
    BY <1>7, FlushFacts DEF Exit, DbType
<1>8. CASE Tick
    <2>1. UNCHANGED <<file, wal, backfilled>> /\ recent' = {}
        BY <1>8 DEF Tick
    <2>2. QED
        BY <2>1 DEF TypeOK, DbType, LogInFile, View
<1>9. QED
    BY <1>2, <1>3, <1>4, <1>5, <1>6, <1>7, <1>8, FrameNext DEF Frame

-----------------------------------------------------------------------------
(* Types                                                                   *)

\* The lock's holder and the images of its transaction.
LockType == Images(txn) /\ writer \in {"none", "persist", "archive", "vacuum"}

\* The rows an archiving counts are finitely many.
LEMMA OldRows ==
    ASSUME IInv
    PROVE  /\ IsFiniteSet(Old(View["strikes"], arch.cutoff))
           /\ Cardinality(Old(View["strikes"], arch.cutoff)) \in Nat
           /\ Old(View["strikes"], arch.cutoff) \subseteq View["strikes"]
<1>1. Old(View["strikes"], arch.cutoff) \subseteq View["strikes"]
    BY DEF Old
<1>2. IsFiniteSet(View["strikes"])
    BY DEF IInv, Apart
<1>3. QED
    BY <1>1, <1>2, FS_Subset, FS_CardinalityType

\* Transactions hold images of pages, whatever is inserted or archived.
LEMMA LockTypeNext ==
    ASSUME IInv, [Next]_vars
    PROVE  LockType'
<1> USE DEF LockType
<1>1. TypeOK /\ LockType
    BY DEF IInv, TypeOK
<1>2. /\ DOMAIN View = Pages /\ Images(View)
      /\ View["snaps"] \in Nat /\ View["seq"] \in Nat
      /\ View["strikes"] \subseteq Rows /\ View["archive"] \subseteq Rows
    BY <1>1, ViewType
<1>3. Images(NoPages)
    BY DEF Images, NoPages
<1>4. DropLock => LockType'
    BY <1>3 DEF DropLock
<1>5. CASE UNCHANGED lockVars
    BY <1>1, <1>5 DEF lockVars
<1>6. CASE InsertSnapshot
    <2>1. writer' = "persist" /\ txn' = [p \in {"snaps"} |-> View["snaps"] + 1]
        BY <1>6 DEF InsertSnapshot, TakeLock
    <2>2. View["snaps"] + 1 \in Nat
        BY <1>2
    <2>3. QED
        BY <2>1, <2>2 DEF Images, Image, Pages
<1>7. CASE InsertStrikes
    <2> DEFINE row == [id |-> View["seq"] + 1, key |-> txn["snaps"], at |-> now]
    <2>1. /\ DOMAIN txn' = {"snaps", "seq", "strikes"}
          /\ txn'["snaps"] = txn["snaps"]
          /\ txn'["seq"] = IF View["seq"] + 1 > View["seq"] THEN View["seq"] + 1 ELSE View["seq"]
          /\ txn'["strikes"] = View["strikes"] \cup {row}
        BY <1>7 DEF InsertStrikes, NextId
    <2>2. txn["snaps"] \in Nat
        BY <1>1, <1>7 DEF InsertStrikes, Images, Image
    <2>3. row \in Rows
        BY <1>1, <1>2, <2>2 DEF Rows, TypeOK
    <2>4. Images(txn')
        BY <1>2, <2>1, <2>2, <2>3 DEF Images, Image, Pages
    <2>5. QED
        BY <1>1, <1>7, <2>4 DEF InsertStrikes
<1>8. CASE PersistCommitted \/ PersistFails \/ ArchiveCommitted \/ VacuumRewrites \/ Crash
    BY <1>4, <1>8 DEF PersistCommitted, PersistFails, ArchiveCommitted, VacuumRewrites,
                      Crash, Halted
<1>9. CASE ArchiveCopies
    <2> DEFINE fresh == {r \in Old(View["strikes"], arch.cutoff) :
                            \A a \in View["archive"] : a.id # r.id}
    <2>1. writer' = "archive" /\ txn' = [p \in {"archive"} |-> View[p] \cup fresh]
        BY <1>9 DEF ArchiveCopies, TakeLock
    <2>2. View["archive"] \cup fresh \subseteq Rows
        BY <1>2 DEF Old
    <2>3. QED
        BY <2>1, <2>2 DEF Images, Image, Pages
<1>10. CASE ArchiveDeletes
    <2>1. writer' = writer
        BY <1>10 DEF ArchiveDeletes
    <2>2. /\ DOMAIN txn' = {"strikes", "archive"}
          /\ txn'["strikes"] = View["strikes"] \ Old(View["strikes"], arch.cutoff)
          /\ txn'["archive"] = txn["archive"]
        BY <1>10 DEF ArchiveDeletes
    <2>3. DOMAIN txn = {"archive"}
        BY <1>10 DEF IInv, Locks, ArchiveDeletes
    <2>4. txn["archive"] \subseteq Rows
        BY <1>1, <2>3 DEF Images, Image
    <2>5. QED
        BY <1>1, <1>2, <2>1, <2>2, <2>4 DEF Images, Image, Pages
<1>11. CASE ArchiveFails \/ VacuumBacksOff
    BY <1>4, <1>5, <1>11 DEF ArchiveFails, VacuumBacksOff
<1>12. CASE VacuumAttempts
    BY <1>3, <1>12 DEF VacuumAttempts, TakeLock
<1>13. QED
    BY <1>5, <1>6, <1>7, <1>8, <1>9, <1>10, <1>11, <1>12, FrameNext DEF Frame

ArchType == arch \in [pc : {"idle", "count", "copy", "delete", "committing", "ended"},
                      cutoff : Nat, count : Nat, moved : Nat]
VacType == vac \in [pc : {"idle", "checkpoint", "attempt", "rewrite", "backoff"},
                    tries : 0..Attempts]
BackupType ==
    /\ DOMAIN backup = {"pc", "db", "wal", "view", "whole", "quiet"}
    /\ Images(backup.db) /\ Images(backup.wal) /\ Images(backup.view)
    /\ backup.pc \in {"idle", "walCopied", "copied"}
    /\ backup.whole \in BOOLEAN /\ backup.quiet \in BOOLEAN

\* The archiving's counts are numbers: the rows of gex_strikes are finitely many.
LEMMA ArchTypeNext ==
    ASSUME IInv, [Next]_vars
    PROVE  ArchType'
<1> USE DEF ArchType
<1>1. ArchType /\ now \in Nat
    BY DEF IInv, TypeOK
<1>2. NoArchiving \in [pc : {"idle", "count", "copy", "delete", "committing", "ended"},
                       cutoff : Nat, count : Nat, moved : Nat]
    BY DEF NoArchiving
<1>3. Cardinality(Old(View["strikes"], arch.cutoff)) \in Nat
    BY OldRows
<1>4. CASE UNCHANGED arch
    BY <1>1, <1>4
<1>5. CASE ArchiveBegins
    BY <1>1, <1>5 DEF ArchiveBegins
<1>6. CASE ArchiveCounts
    <2>1. \/ arch' = NoArchiving
          \/ arch' = [arch EXCEPT !.count = Cardinality(Old(View["strikes"], arch.cutoff)),
                                  !.pc = "copy"]
        BY <1>6 DEF ArchiveCounts
    <2>2. QED
        BY <1>1, <1>2, <1>3, <2>1
<1>7. CASE ArchiveCopies
    BY <1>1, <1>7 DEF ArchiveCopies
<1>8. CASE ArchiveDeletes
    BY <1>1, <1>3, <1>8 DEF ArchiveDeletes
<1>9. CASE ArchiveCommitted
    BY <1>1, <1>9 DEF ArchiveCommitted
<1>10. CASE ArchiveFails \/ ArchiveEnds \/ Crash
    BY <1>2, <1>10 DEF ArchiveFails, ArchiveEnds, Crash, Halted
<1>11. QED
    BY <1>4, <1>5, <1>6, <1>7, <1>8, <1>9, <1>10, FrameNext DEF Frame, ArchiveNext

\* A job tries VACUUM at most Attempts times.
LEMMA VacTypeNext ==
    ASSUME IInv, [Next]_vars
    PROVE  VacType'
<1> USE DEF VacType
<1>1. VacType /\ Attempts \in Nat \ {0}
    BY MaintenanceAssumption DEF IInv, TypeOK
<1>2. vac.pc = "attempt" => vac.tries + 1 \in 0..Attempts
    BY <1>1 DEF IInv, Locks
<1>3. NoVacuum \in [pc : {"idle", "checkpoint", "attempt", "rewrite", "backoff"},
                    tries : 0..Attempts]
    BY <1>1 DEF NoVacuum
<1>4. CASE UNCHANGED vac
    BY <1>1, <1>4
<1>5. CASE VacuumBegins
    BY <1>1, <1>5 DEF VacuumBegins
<1>6. CASE VacuumCheckpoints
    BY <1>1, <1>6 DEF VacuumCheckpoints
<1>7. CASE VacuumAttempts
    BY <1>1, <1>2, <1>7 DEF VacuumAttempts
<1>8. CASE VacuumBacksOff
    BY <1>1, <1>2, <1>8 DEF VacuumBacksOff
<1>9. CASE VacuumRetries
    BY <1>1, <1>3, <1>9 DEF VacuumRetries, AfterFailure
<1>10. CASE VacuumRewrites \/ VacuumErrs \/ Crash
    BY <1>3, <1>10 DEF VacuumRewrites, VacuumErrs, Crash, Halted
<1>11. QED
    BY <1>4, <1>5, <1>6, <1>7, <1>8, <1>9, <1>10, FrameNext DEF Frame, VacuumNext

\* A backup holds images of pages.
LEMMA BackupTypeNext ==
    ASSUME TypeOK, [Next]_vars
    PROVE  BackupType'
<1> USE DEF BackupType
<1>1. BackupType /\ Images(file) /\ Images(wal) /\ recent \subseteq {"file", "wal"}
    BY DEF TypeOK
<1>2. Images(View) /\ Images(NoPages)
    BY ViewType DEF Images, NoPages
<1>3. CASE UNCHANGED backup
    BY <1>1, <1>3
<1>4. CASE FullBackup
    BY <1>2, <1>4 DEF FullBackup
<1>5. CASE CopyWal
    <2>1. PICK q \in BOOLEAN : q = Quiet
        BY DEF Quiet
    <2>2. backup' = [pc |-> "walCopied", db |-> NoPages, wal |-> wal, whole |-> FALSE,
                     quiet |-> q, view |-> View]
        BY <1>5, <2>1 DEF CopyWal
    <2>3. QED
        BY <1>1, <1>2, <2>1, <2>2
<1>6. CASE CopyFile
    <2>1. PICK q \in BOOLEAN : q = (recent = {"file", "wal"})
        OBVIOUS
    <2>2. backup' = [backup EXCEPT !.pc = "copied", !.db = file, !.whole = q]
        BY <1>6, <2>1 DEF CopyFile
    <2>3. DOMAIN backup' = DOMAIN backup
        BY <2>2
    <2>4. /\ backup'.pc = "copied" /\ backup'.db = file /\ backup'.whole = q
          /\ backup'.wal = backup.wal /\ backup'.view = backup.view
          /\ backup'.quiet = backup.quiet
        BY <1>1, <2>2
    <2>5. QED
        BY <1>1, <2>1, <2>3, <2>4
<1>7. CASE BackupEnds \/ Crash
    <2>1. backup' = [pc |-> "idle", db |-> NoPages, wal |-> NoPages, view |-> NoPages,
                     whole |-> FALSE, quiet |-> FALSE]
        BY <1>7 DEF BackupEnds, Crash, NoBackup
    <2>2. QED
        BY <1>2, <2>1
<1>8. QED
    BY <1>3, <1>4, <1>5, <1>6, <1>7, FrameNext DEF Frame

\* Where the pipeline is, the clock, the backups begun, the rows committed.
PersistType ==
    /\ persist \in {"idle", "waiting", "open", "committing", "ended"}
    /\ writing \in BOOLEAN
    /\ now \in Nat /\ begun \in Nat /\ kept \subseteq Nat

\* They keep their types.
LEMMA PersistTypeNext ==
    ASSUME IInv, [Next]_vars
    PROVE  PersistType'
<1>1. TypeOK /\ PersistType
    BY DEF IInv, TypeOK, PersistType
<1>2. /\ persist' \in {"idle", "waiting", "open", "committing", "ended"}
      /\ writing' \in BOOLEAN
    <2>1. CASE UNCHANGED <<persist, writing>>
        BY <1>1, <2>1 DEF PersistType
    <2>2. CASE PersistBegins \/ PersistNext \/ Crash
        BY <1>1, <2>2 DEF PersistType, PersistBegins, PersistNext, InsertSnapshot, InsertStrikes,
                          PersistCommits, PersistCommitted, PersistLockedOut, PersistFails,
                          PersistEnds, Crash, Halted, persistVars
    <2>3. QED
        BY <2>1, <2>2, FrameNext DEF Frame
<1>3. now' \in Nat /\ begun' \in Nat
    BY <1>1, FrameNext DEF Frame, PersistType, Tick, FullBackup, CopyWal
<1>4. kept' \subseteq Nat
    <2>1. CASE PersistCommitted
        <3>1. DOMAIN txn = {"snaps"} \/ DOMAIN txn = {"snaps", "seq", "strikes"}
            BY <2>1 DEF IInv, Locks, PersistCommitted
        <3>2. txn["snaps"] \in Nat
            BY <1>1, <3>1 DEF TypeOK, Images, Image
        <3>3. QED
            BY <1>1, <2>1, <3>2 DEF PersistCommitted, PersistType
    <2>2. CASE UNCHANGED kept
        BY <1>1, <2>2 DEF PersistType
    <2>3. QED
        BY <2>1, <2>2, FrameNext DEF Frame
<1>5. QED
    BY <1>2, <1>3, <1>4 DEF PersistType

\* Every step keeps every type.
LEMMA TypeNext ==
    ASSUME IInv, [Next]_vars
    PROVE  TypeOK'
<1>1. TypeOK /\ LogInFile
    BY DEF IInv
<1>2. DbType' /\ LockType' /\ ArchType' /\ VacType' /\ BackupType' /\ PersistType'
    BY <1>1, DbNext, LockTypeNext, ArchTypeNext, VacTypeNext, BackupTypeNext, PersistTypeNext
<1>3. QED
    BY <1>2 DEF TypeOK, DbType, LockType, ArchType, VacType, BackupType, PersistType

-----------------------------------------------------------------------------
(* The lock                                                                *)

\* The holder of the lock is where its steps say, with the pages its
\* statements wrote; no thread outside it touches the transaction.
LEMMA LocksNext ==
    ASSUME IInv, [Next]_vars
    PROVE  Locks'
<1> USE DEF Locks
<1>1. Locks /\ ArchType /\ VacType /\ LockType /\ PersistType
    BY DEF IInv, TypeOK, ArchType, VacType, LockType, PersistType
<1>2. Attempts \in Nat \ {0}
    BY MaintenanceAssumption
<1>3. NoArchiving.pc = "idle" /\ NoVacuum.pc = "idle"
    BY DEF NoArchiving, NoVacuum
<1> USE DEF ArchType, VacType, LockType, PersistType
<1>4. CASE PersistBegins
    BY <1>1, <1>2, <1>3, <1>4 DEF PersistBegins, dbVars, lockVars
<1>5. CASE InsertSnapshot
    BY <1>1, <1>2, <1>3, <1>5 DEF InsertSnapshot, TakeLock, dbVars
<1>6. CASE InsertStrikes
    BY <1>1, <1>2, <1>3, <1>6 DEF InsertStrikes, dbVars, persistVars
<1>7. CASE PersistCommits
    BY <1>1, <1>2, <1>3, <1>7 DEF PersistCommits, dbVars, lockVars
<1>8. CASE PersistCommitted
    BY <1>1, <1>2, <1>3, <1>8 DEF PersistCommitted, DropLock
<1>9. CASE PersistLockedOut
    BY <1>1, <1>2, <1>3, <1>9 DEF PersistLockedOut, dbVars, lockVars
<1>10. CASE PersistFails
    BY <1>1, <1>2, <1>3, <1>10 DEF PersistFails, dbVars, DropLock
<1>11. CASE PersistEnds
    BY <1>1, <1>2, <1>3, <1>11 DEF PersistEnds, dbVars, lockVars
<1>12. CASE ArchiveBegins
    BY <1>1, <1>2, <1>3, <1>12 DEF ArchiveBegins, dbVars, lockVars, persistVars
<1>13. CASE ArchiveCounts
    BY <1>1, <1>2, <1>3, <1>13 DEF ArchiveCounts, dbVars, lockVars, persistVars
<1>14. CASE ArchiveCopies
    BY <1>1, <1>2, <1>3, <1>14 DEF ArchiveCopies, TakeLock, dbVars, persistVars
<1>15. CASE ArchiveDeletes
    BY <1>1, <1>2, <1>3, <1>15 DEF ArchiveDeletes, dbVars, persistVars
<1>16. CASE ArchiveCommitted
    BY <1>1, <1>2, <1>3, <1>16 DEF ArchiveCommitted, persistVars, DropLock
<1>17. CASE ArchiveFails
    BY <1>1, <1>2, <1>3, <1>17 DEF ArchiveFails, dbVars, lockVars, persistVars, DropLock
<1>18. CASE ArchiveEnds
    BY <1>1, <1>2, <1>3, <1>18 DEF ArchiveEnds, dbVars, lockVars, persistVars
<1>19. CASE VacuumBegins
    BY <1>1, <1>2, <1>3, <1>19 DEF VacuumBegins, dbVars, lockVars, persistVars
<1>20. CASE VacuumCheckpoints
    BY <1>1, <1>2, <1>3, <1>20 DEF VacuumCheckpoints, dbVars, lockVars, persistVars
<1>21. CASE VacuumAttempts
    BY <1>1, <1>2, <1>3, <1>21 DEF VacuumAttempts, TakeLock, dbVars, persistVars
<1>22. CASE VacuumBacksOff
    BY <1>1, <1>2, <1>3, <1>22 DEF VacuumBacksOff, dbVars, lockVars, persistVars, DropLock
<1>23. CASE VacuumRetries
    BY <1>1, <1>2, <1>3, <1>23 DEF VacuumRetries, AfterFailure, dbVars, lockVars, persistVars
<1>24. CASE VacuumRewrites
    BY <1>1, <1>2, <1>3, <1>24 DEF VacuumRewrites, persistVars, DropLock
<1>25. CASE VacuumErrs
    BY <1>1, <1>2, <1>3, <1>25 DEF VacuumErrs, dbVars, lockVars, persistVars
<1>26. CASE Crash
    BY <1>1, <1>2, <1>3, <1>26 DEF Crash, Halted, dbVars, DropLock
<1>27. CASE FullBackup \/ CopyWal \/ CopyFile \/ BackupEnds \/ Exit \/ Tick
    BY <1>1, <1>27 DEF FullBackup, CopyWal, CopyFile, BackupEnds, Exit, Tick, lockVars, persistVars
<1>28. CASE UNCHANGED vars
    BY <1>1, <1>28 DEF vars, lockVars, persistVars
<1>29. QED
    BY <1>4, <1>5, <1>6, <1>7, <1>8, <1>9, <1>10, <1>11, <1>12, <1>13,
       <1>14, <1>15, <1>16, <1>17, <1>18, <1>19, <1>20, <1>21, <1>22, <1>23,
       <1>24, <1>25, <1>26, <1>27, <1>28 DEF Next, PersistNext, ArchiveNext,
       VacuumNext

-----------------------------------------------------------------------------
(* The rows                                                                *)

\* What the pipeline's commit does to the database (DataWriter's transaction).
LEMMA PersistCommitFacts ==
    ASSUME IInv, PersistCommitted
    PROVE  /\ View'["snaps"] = View["snaps"] + 1
           /\ View'["archive"] = View["archive"]
           /\ \/ /\ View'["seq"] = View["seq"] /\ View'["strikes"] = View["strikes"]
                 /\ kept' = kept
              \/ \E at \in 0..now :
                    /\ arch.pc # "idle" => at >= arch.cutoff
                    /\ View'["seq"] = View["seq"] + 1
                    /\ View'["strikes"] = View["strikes"] \cup
                           {[id |-> View["seq"] + 1, key |-> View["snaps"] + 1, at |-> at]}
                    /\ kept' = kept \cup {View["snaps"] + 1}
<1>1. TypeOK /\ LogInFile /\ Locks /\ TxnFits
    BY DEF IInv
<1>2. DOMAIN View = Pages
    BY <1>1, ViewType
<1>3. View' = Overlay(txn, View)
    BY <1>1, CommitFacts DEF PersistCommitted, TypeOK
<1>4. writer = "persist" /\ txn["snaps"] = View["snaps"] + 1
    BY <1>1 DEF PersistCommitted, Locks, TxnFits
<1>5. DOMAIN txn = {"snaps"} \/ DOMAIN txn = {"snaps", "seq", "strikes"}
    BY <1>1, <1>4 DEF Locks
<1>6. View'["snaps"] = View["snaps"] + 1 /\ View'["archive"] = View["archive"]
    BY <1>2, <1>3, <1>4, <1>5 DEF Overlay, Pages
<1>7. CASE DOMAIN txn = {"snaps"}
    <2>1. View'["seq"] = View["seq"] /\ View'["strikes"] = View["strikes"]
        BY <1>2, <1>3, <1>7 DEF Overlay, Pages
    <2>2. kept' = kept
        BY <1>7 DEF PersistCommitted
    <2>3. QED
        BY <1>6, <2>1, <2>2
<1>8. CASE DOMAIN txn = {"snaps", "seq", "strikes"}
    <2>1. View'["seq"] = txn["seq"] /\ View'["strikes"] = txn["strikes"]
        BY <1>2, <1>3, <1>8 DEF Overlay, Pages
    <2>2. kept' = kept \cup {txn["snaps"]}
        BY <1>8 DEF PersistCommitted
    <2>3. "strikes" \in DOMAIN txn
        BY <1>8
    <2>4. PICK at \in 0..now :
              /\ arch.pc # "idle" => at >= arch.cutoff
              /\ txn["strikes"] = View["strikes"]
                                  \cup {[id |-> txn["seq"], key |-> txn["snaps"], at |-> at]}
        BY <1>1, <1>4, <2>3 DEF TxnFits
    <2>5. txn["seq"] = View["seq"] + 1
        BY <1>1, <1>4, <2>3 DEF TxnFits
    <2>6. QED
        BY <1>4, <1>6, <2>1, <2>2, <2>4, <2>5
<1>9. QED
    BY <1>5, <1>7, <1>8

\* What the archiving's commit does to the database.
LEMMA ArchiveCommitFacts ==
    ASSUME IInv, ArchiveCommitted
    PROVE  /\ View'["snaps"] = View["snaps"] /\ View'["seq"] = View["seq"]
           /\ View'["strikes"] = View["strikes"] \ Old(View["strikes"], arch.cutoff)
           /\ View'["archive"] = View["archive"] \cup Old(View["strikes"], arch.cutoff)
           /\ kept' = kept
<1>1. TypeOK /\ LogInFile /\ Locks /\ TxnFits
    BY DEF IInv
<1>2. DOMAIN View = Pages
    BY <1>1, ViewType
<1>3. View' = Overlay(txn, View)
    BY <1>1, CommitFacts DEF ArchiveCommitted, TypeOK
<1>4. arch.pc = "committing" /\ writer = "archive" /\ DOMAIN txn = {"strikes", "archive"}
    BY <1>1 DEF ArchiveCommitted, Locks
<1>5. /\ View'["snaps"] = View["snaps"] /\ View'["seq"] = View["seq"]
      /\ View'["strikes"] = txn["strikes"] /\ View'["archive"] = txn["archive"]
    BY <1>2, <1>3, <1>4 DEF Overlay, Pages
<1>6. kept' = kept
    BY DEF ArchiveCommitted, persistVars
<1>7. QED
    BY <1>1, <1>4, <1>5, <1>6 DEF TxnFits

\* Ids and keys stay apart: a new row has an id and a key above all others,
\* and the archiving only moves rows.
LEMMA ApartNext ==
    ASSUME IInv, [Next]_vars
    PROVE  Apart(View, kept)'
<1>1. TypeOK /\ LogInFile /\ Apart(View, kept)
    BY DEF IInv
<1>2. /\ View["snaps"] \in Nat /\ View["seq"] \in Nat
      /\ View["strikes"] \subseteq Rows /\ View["archive"] \subseteq Rows
    BY <1>1, ViewType
<1>3. CASE PersistCommitted
    <2>1. /\ View'["snaps"] = View["snaps"] + 1
          /\ View'["archive"] = View["archive"]
        BY <1>3, PersistCommitFacts
    <2>2. CASE /\ View'["seq"] = View["seq"] /\ View'["strikes"] = View["strikes"]
               /\ kept' = kept
        BY <1>1, <1>2, <2>1, <2>2 DEF Apart, Rows
    <2>3. CASE \E at \in 0..now :
                  /\ View'["seq"] = View["seq"] + 1
                  /\ View'["strikes"] = View["strikes"] \cup
                         {[id |-> View["seq"] + 1, key |-> View["snaps"] + 1, at |-> at]}
                  /\ kept' = kept \cup {View["snaps"] + 1}
        <3>1. PICK at \in 0..now :
                  /\ View'["seq"] = View["seq"] + 1
                  /\ View'["strikes"] = View["strikes"] \cup
                         {[id |-> View["seq"] + 1, key |-> View["snaps"] + 1, at |-> at]}
                  /\ kept' = kept \cup {View["snaps"] + 1}
            BY <2>3
        <3> DEFINE row == [id |-> View["seq"] + 1, key |-> View["snaps"] + 1, at |-> at]
        <3>2. \A r \in View["strikes"] \cup View["archive"] :
                  /\ r.id \in Nat /\ r.id <= View["seq"]
                  /\ r.key \in 1..View["snaps"]
            BY <1>1, <1>2 DEF Apart, Rows
        <3>3. \A r \in View'["strikes"] \cup View'["archive"] :
                  r.id <= View'["seq"] /\ r.key \in 1..View'["snaps"]
            BY <1>2, <2>1, <3>1, <3>2
        <3>4. \A r \in View["strikes"] \cup View["archive"] :
                  row.id # r.id /\ row.key # r.key
            BY <1>2, <3>2
        <3>5. \A r \in View'["strikes"], a \in View'["archive"] :
                  r.id # a.id /\ r.key # a.key
            BY <1>1, <2>1, <3>1, <3>4 DEF Apart
        <3>6. \A r, t \in View'["strikes"] : r.id = t.id \/ r.key = t.key => r = t
            BY <1>1, <3>1, <3>4 DEF Apart
        <3>7. kept' = Keys(View'["strikes"]) \cup Keys(View'["archive"])
            <4>1. Keys(View'["strikes"]) = Keys(View["strikes"]) \cup {row.key}
                BY <3>1 DEF Keys
            <4>2. QED
                BY <1>1, <2>1, <3>1, <4>1 DEF Apart
        <3>8. IsFiniteSet(View'["strikes"])
            <4>1. IsFiniteSet(View["strikes"])
                BY <1>1 DEF Apart
            <4>2. IsFiniteSet(View["strikes"] \cup {row})
                BY <4>1, FS_AddElement
            <4>3. QED
                BY <3>1, <4>2
        <3>9. QED
            BY <3>3, <3>5, <3>6, <3>7, <3>8 DEF Apart
    <2>4. QED
        BY <1>3, <2>2, <2>3, PersistCommitFacts
<1>4. CASE ArchiveCommitted
    <2> DEFINE old == Old(View["strikes"], arch.cutoff)
    <2>1. /\ View'["snaps"] = View["snaps"] /\ View'["seq"] = View["seq"]
          /\ View'["strikes"] = View["strikes"] \ old
          /\ View'["archive"] = View["archive"] \cup old
          /\ kept' = kept
        BY <1>4, ArchiveCommitFacts
    <2>2. old \subseteq View["strikes"]
        BY OldRows
    <2> HIDE DEF old
    <2>3. \A r \in View'["strikes"] \cup View'["archive"] :
              r.id <= View'["seq"] /\ r.key \in 1..View'["snaps"]
        BY <1>1, <2>1, <2>2 DEF Apart
    <2>4. \A r \in View'["strikes"], a \in View'["archive"] : r.id # a.id /\ r.key # a.key
        BY <1>1, <2>1, <2>2 DEF Apart
    <2>5. \A r, t \in View'["strikes"] : r.id = t.id \/ r.key = t.key => r = t
        BY <1>1, <2>1 DEF Apart
    <2>6. kept' = Keys(View'["strikes"]) \cup Keys(View'["archive"])
        BY <1>1, <2>1, <2>2 DEF Apart, Keys
    <2>7. IsFiniteSet(View'["strikes"])
        BY <1>1, <2>1, FS_Subset DEF Apart
    <2>8. QED
        BY <2>3, <2>4, <2>5, <2>6, <2>7 DEF Apart
<1>5. CASE View' = View /\ kept' = kept
    BY <1>1, <1>5 DEF Apart
<1>6. QED
    BY <1>1, <1>3, <1>4, <1>5, DbNext, FrameNext DEF Frame

-----------------------------------------------------------------------------
(* The transactions                                                        *)

\* An archiving keeps the cutoff it took when it began.
LEMMA CutoffNext ==
    ASSUME IInv, [Next]_vars
    PROVE  \/ arch'.pc = "idle"
           \/ arch.pc # "idle" /\ arch'.cutoff = arch.cutoff
           \/ ArchiveBegins /\ arch'.cutoff = now
<1> USE DEF ArchType
<1>1. ArchType
    BY DEF IInv, TypeOK
<1>2. NoArchiving.pc = "idle"
    BY DEF NoArchiving
<1>3. CASE UNCHANGED arch
    BY <1>1, <1>3
<1>4. CASE ArchiveBegins
    BY <1>4 DEF ArchiveBegins
<1>5. CASE ArchiveCounts
    BY <1>1, <1>2, <1>5 DEF ArchiveCounts
<1>6. CASE ArchiveCopies \/ ArchiveDeletes \/ ArchiveCommitted
    BY <1>1, <1>6 DEF ArchiveCopies, ArchiveDeletes, ArchiveCommitted
<1>7. CASE ArchiveFails \/ ArchiveEnds \/ Crash
    BY <1>2, <1>7 DEF ArchiveFails, ArchiveEnds, Crash, Halted
<1>8. QED
    BY <1>3, <1>4, <1>5, <1>6, <1>7, FrameNext DEF Frame, ArchiveNext

\* The clock does not go back.
LEMMA NowNext ==
    ASSUME TypeOK, [Next]_vars
    PROVE  now \in Nat /\ now' \in Nat /\ now <= now'
<1>1. now \in Nat
    BY DEF TypeOK
<1>2. now' = now \/ now' = now + 1
    BY FrameNext DEF Frame, Tick
<1>3. QED
    BY <1>1, <1>2

\* An open transaction keeps to the database it began with: nobody else can
\* commit, and an archiving that begins meanwhile finds the pipeline idle.
LEMMA TxnNext ==
    ASSUME IInv, [Next]_vars
    PROVE  TxnFits'
<1>1. TypeOK /\ LogInFile /\ Locks /\ TxnFits /\ Counts /\ Apart(View, kept) /\ Locks'
    BY LocksNext DEF IInv
<1>2. PersistCommitted \/ ArchiveCommitted \/ View' = View
    BY <1>1, DbNext
<1>3. now \in Nat /\ now' \in Nat /\ now <= now'
    BY <1>1, NowNext
<1>4. ArchType /\ ArchType'
    BY <1>1, ArchTypeNext DEF TypeOK, ArchType
<1>5. CASE writer' \notin {"persist", "archive"}
    BY <1>1, <1>5 DEF TxnFits, Locks
<1>6. CASE InsertSnapshot
    <2>1. writer' = "persist" /\ txn' = [p \in {"snaps"} |-> View["snaps"] + 1]
        BY <1>6 DEF InsertSnapshot, TakeLock
    <2>2. View' = View
        BY <1>6 DEF InsertSnapshot, dbVars, View
    <2>3. arch'.pc # "committing"
        BY <1>1, <2>1 DEF Locks
    <2>4. QED
        BY <2>1, <2>2, <2>3 DEF TxnFits
<1>7. CASE InsertStrikes
    <2>1. writer = "persist" /\ writer' = "persist"
        BY <1>1, <1>7 DEF InsertStrikes, Locks
    <2>2. View' = View /\ arch' = arch /\ now' = now
        BY <1>7 DEF InsertStrikes, dbVars, View
    <2>3. arch'.pc # "committing"
        BY <1>1, <2>1 DEF Locks
    <2>4. /\ txn'["snaps"] = txn["snaps"]
          /\ txn'["seq"] = IF View["seq"] + 1 > View["seq"] THEN View["seq"] + 1 ELSE View["seq"]
          /\ txn'["strikes"] = View["strikes"] \cup
                 {[id |-> View["seq"] + 1, key |-> txn["snaps"], at |-> now]}
        BY <1>7 DEF InsertStrikes, NextId
    <2>5. txn'["seq"] = View["seq"] + 1
        BY <1>1, <2>4, ViewType
    <2>6. txn["snaps"] = View["snaps"] + 1
        BY <1>1, <2>1 DEF TxnFits
    <2>7. arch.pc # "idle" => now >= arch.cutoff
        BY <1>1, <1>3, <1>4 DEF Counts, ArchType
    <2>8. \E at \in 0..now' :
              /\ arch'.pc # "idle" => at >= arch'.cutoff
              /\ txn'["strikes"] = View'["strikes"] \cup
                     {[id |-> txn'["seq"], key |-> txn'["snaps"], at |-> at]}
        <3>1. now \in 0..now'
            BY <1>3, <2>2
        <3>2. QED
            BY <3>1, <2>2, <2>4, <2>5, <2>7
    <2>9. QED
        BY <2>1, <2>2, <2>3, <2>4, <2>5, <2>6, <2>8 DEF TxnFits
<1>8. CASE ArchiveCopies
    <2> DEFINE fresh == {r \in Old(View["strikes"], arch.cutoff) :
                            \A a \in View["archive"] : a.id # r.id}
    <2>1. writer' = "archive" /\ txn' = [p \in {"archive"} |-> View[p] \cup fresh]
        BY <1>8 DEF ArchiveCopies, TakeLock
    <2>2. View' = View
        BY <1>8 DEF ArchiveCopies, dbVars, View
    <2>3. arch'.pc = "delete" /\ arch'.cutoff = arch.cutoff
        BY <1>4, <1>8 DEF ArchiveCopies, ArchType
    <2>4. fresh = Old(View["strikes"], arch.cutoff)
        BY <1>1 DEF Apart, Old
    <2>5. QED
        BY <2>1, <2>2, <2>3, <2>4 DEF TxnFits
<1>9. CASE ArchiveDeletes
    <2>1. /\ txn'["strikes"] = View["strikes"] \ Old(View["strikes"], arch.cutoff)
          /\ txn'["archive"] = txn["archive"]
          /\ writer' = writer
        BY <1>9 DEF ArchiveDeletes
    <2>2. View' = View
        BY <1>9 DEF ArchiveDeletes, dbVars, View
    <2>3. writer = "archive" /\ arch'.cutoff = arch.cutoff
        BY <1>1, <1>4, <1>9 DEF ArchiveDeletes, ArchType, Locks
    <2>4. QED
        BY <1>1, <2>1, <2>2, <2>3 DEF TxnFits
<1>10. CASE UNCHANGED lockVars /\ writer = "persist"
    <2>1. writer' = "persist" /\ txn' = txn
        BY <1>10 DEF lockVars
    <2>2. View' = View
        BY <1>2, <2>1 DEF PersistCommitted, ArchiveCommitted, DropLock
    <2>3. arch'.pc # "committing"
        BY <1>1, <2>1 DEF Locks
    <2>4. ~ArchiveBegins
        BY <1>1, <1>10 DEF Locks, ArchiveBegins
    <2>5. arch'.pc # "idle" => arch.pc # "idle" /\ arch'.cutoff = arch.cutoff
        BY <2>4, CutoffNext
    <2>6. ASSUME "strikes" \in DOMAIN txn
          PROVE  \E at \in 0..now' :
                    /\ arch'.pc # "idle" => at >= arch'.cutoff
                    /\ txn'["strikes"] = View'["strikes"] \cup
                           {[id |-> txn'["seq"], key |-> txn'["snaps"], at |-> at]}
        <3>1. PICK at \in 0..now :
                  /\ arch.pc # "idle" => at >= arch.cutoff
                  /\ txn["strikes"] = View["strikes"] \cup
                         {[id |-> txn["seq"], key |-> txn["snaps"], at |-> at]}
            BY <1>1, <1>10, <2>6 DEF TxnFits
        <3>2. at \in 0..now'
            BY <1>3
        <3>3. QED
            BY <2>1, <2>2, <2>5, <3>1, <3>2
    <2>7. /\ txn["snaps"] = View["snaps"] + 1
          /\ "strikes" \in DOMAIN txn => txn["seq"] = View["seq"] + 1
        BY <1>1, <1>10 DEF TxnFits
    <2>8. QED
        BY <2>1, <2>2, <2>3, <2>6, <2>7 DEF TxnFits
<1>11. CASE UNCHANGED lockVars /\ writer = "archive" /\ ~ArchiveDeletes
    <2>1. writer' = "archive" /\ txn' = txn
        BY <1>11 DEF lockVars
    <2>2. View' = View
        BY <1>2, <2>1 DEF PersistCommitted, ArchiveCommitted, DropLock
    <2>3. arch.pc \in {"delete", "committing"} /\ arch'.pc \in {"delete", "committing"}
        BY <1>1, <1>11, <2>1 DEF Locks
    <2>4. arch' = arch
        BY <1>11, <2>1, <2>3, FrameNext
           DEF Frame, ArchiveNext, ArchiveBegins, ArchiveCounts, ArchiveCopies, ArchiveCommitted,
               ArchiveFails, ArchiveEnds, Crash, Halted, DropLock
    <2>5. QED
        BY <1>1, <1>11, <2>1, <2>2, <2>4 DEF TxnFits
<1>12. QED
    <2>1. CASE UNCHANGED lockVars
        BY <2>1, <1>5, <1>9, <1>10, <1>11 DEF lockVars
    <2>2. CASE PersistCommitted \/ PersistFails \/ ArchiveCommitted \/ VacuumRewrites \/ Crash
        <3>1. DropLock
            BY <2>2 DEF PersistCommitted, PersistFails, ArchiveCommitted, VacuumRewrites,
                        Crash, Halted
        <3>2. QED
            BY <3>1, <1>5 DEF DropLock
    <2>3. CASE ArchiveFails \/ VacuumBacksOff
        BY <2>1, <2>3, <1>5 DEF ArchiveFails, VacuumBacksOff, DropLock
    <2>4. CASE VacuumAttempts
        BY <2>4, <1>5 DEF VacuumAttempts, TakeLock
    <2>5. QED
        BY <1>6, <1>7, <1>8, <1>9, <2>1, <2>2, <2>3, <2>4, FrameNext DEF Frame

-----------------------------------------------------------------------------
(* The archiving's count                                                   *)

\* A row committed while an archiving is under way is none it counts.
LEMMA OldStays ==
    ASSUME IInv, PersistCommitted, arch.pc # "idle"
    PROVE  Old(View'["strikes"], arch.cutoff) = Old(View["strikes"], arch.cutoff)
<1>1. CASE View'["strikes"] = View["strikes"]
    BY <1>1
<1>2. CASE \E at \in 0..now :
              /\ at >= arch.cutoff
              /\ View'["strikes"] = View["strikes"] \cup
                     {[id |-> View["seq"] + 1, key |-> View["snaps"] + 1, at |-> at]}
    <2>1. PICK at \in 0..now :
              /\ at >= arch.cutoff
              /\ View'["strikes"] = View["strikes"] \cup
                     {[id |-> View["seq"] + 1, key |-> View["snaps"] + 1, at |-> at]}
        BY <1>2
    <2>2. arch.cutoff \in Nat
        BY DEF IInv, TypeOK
    <2>3. ~(at < arch.cutoff)
        BY <2>1, <2>2
    <2>4. QED
        BY <2>1, <2>3 DEF Old
<1>3. QED
    BY <1>1, <1>2, PersistCommitFacts

\* Where an archiving is after each of its steps.
LEMMA ArchPcNext ==
    ASSUME ArchType
    PROVE  /\ ArchiveBegins => arch'.pc = "count"
           /\ ArchiveCounts => arch'.pc \in {"idle", "copy"}
           /\ ArchiveCopies => arch'.pc = "delete"
           /\ ArchiveDeletes => arch'.pc = "committing"
           /\ ArchiveCommitted => arch'.pc = "ended"
           /\ ArchiveFails \/ ArchiveEnds \/ Crash => arch'.pc = "idle"
<1> USE DEF ArchType, NoArchiving
<1>1. ArchiveBegins => arch'.pc = "count"
    BY DEF ArchiveBegins
<1>2. ArchiveCounts => arch'.pc \in {"idle", "copy"}
    BY DEF ArchiveCounts
<1>3. ArchiveCopies => arch'.pc = "delete"
    BY DEF ArchiveCopies
<1>4. ArchiveDeletes => arch'.pc = "committing"
    BY DEF ArchiveDeletes
<1>5. ArchiveCommitted => arch'.pc = "ended"
    BY DEF ArchiveCommitted
<1>6. ArchiveFails \/ ArchiveEnds \/ Crash => arch'.pc = "idle"
    BY DEF ArchiveFails, ArchiveEnds, Crash, Halted
<1>7. QED
    BY <1>1, <1>2, <1>3, <1>4, <1>5, <1>6

\* What is counted before the transaction is what the transaction moves.
LEMMA CountsNext ==
    ASSUME IInv, [Next]_vars
    PROVE  Counts'
<1>1. TypeOK /\ LogInFile /\ Locks /\ Counts
    BY DEF IInv
<1>2. now \in Nat /\ now' \in Nat /\ now <= now'
    BY <1>1, NowNext
<1>3. ArchType /\ ArchType'
    BY <1>1, ArchTypeNext DEF TypeOK, ArchType
<1>4. arch'.pc # "idle" => arch'.cutoff <= now'
    BY <1>1, <1>2, <1>3, CutoffNext DEF Counts, ArchType
<1>5. ASSUME arch'.pc \in {"copy", "delete"}
      PROVE  arch'.count = Cardinality(Old(View'["strikes"], arch'.cutoff))
    <2>1. CASE ArchiveCounts
        <3>1. View' = View
            BY <2>1 DEF ArchiveCounts, dbVars, View
        <3>2. arch' = [arch EXCEPT !.count = Cardinality(Old(View["strikes"], arch.cutoff)),
                                   !.pc = "copy"]
            BY <1>5, <2>1 DEF ArchiveCounts, NoArchiving
        <3>3. arch'.count = Cardinality(Old(View["strikes"], arch.cutoff))
            BY <1>3, <3>2 DEF ArchType
        <3>4. arch'.cutoff = arch.cutoff
            BY <1>3, <3>2 DEF ArchType
        <3>5. QED
            BY <3>1, <3>3, <3>4
    <2>2. CASE ArchiveCopies
        <3>1. View' = View
            BY <2>2 DEF ArchiveCopies, dbVars, View
        <3>2. arch.pc = "copy" /\ arch'.count = arch.count /\ arch'.cutoff = arch.cutoff
            BY <1>3, <2>2 DEF ArchiveCopies, ArchType
        <3>3. QED
            BY <1>1, <3>1, <3>2 DEF Counts
    <2>3. CASE UNCHANGED arch
        <3>1. arch.pc \in {"copy", "delete"}
            BY <1>5, <2>3
        <3>2. ~ArchiveCommitted
            BY <3>1 DEF ArchiveCommitted
        <3>3. Old(View'["strikes"], arch.cutoff) = Old(View["strikes"], arch.cutoff)
            BY <1>1, <3>1, <3>2, DbNext, OldStays
        <3>4. QED
            BY <1>1, <2>3, <3>1, <3>3 DEF Counts
    <2>4. ~(ArchiveBegins \/ ArchiveDeletes \/ ArchiveCommitted \/ ArchiveFails
            \/ ArchiveEnds \/ Crash)
        BY <1>3, <1>5, ArchPcNext
    <2>5. QED
        BY <2>1, <2>2, <2>3, <2>4, FrameNext DEF Frame, ArchiveNext
<1>6. ASSUME arch'.pc \in {"committing", "ended"}
      PROVE  arch'.count = arch'.moved
    <2>1. CASE ArchiveDeletes
        <3>1. arch.pc = "delete"
            BY <2>1 DEF ArchiveDeletes
        <3>2. arch' = [arch EXCEPT !.pc = "committing",
                                   !.moved = Cardinality(Old(View["strikes"], arch.cutoff))]
            BY <2>1 DEF ArchiveDeletes
        <3>3. /\ arch'.moved = Cardinality(Old(View["strikes"], arch.cutoff))
              /\ arch'.count = arch.count
            BY <1>3, <3>2 DEF ArchType
        <3>4. QED
            BY <1>1, <3>1, <3>3 DEF Counts
    <2>2. CASE ArchiveCommitted \/ UNCHANGED arch
        BY <1>1, <1>3, <1>6, <2>2 DEF ArchiveCommitted, ArchType, Counts
    <2>3. ~(ArchiveBegins \/ ArchiveCounts \/ ArchiveCopies \/ ArchiveFails
            \/ ArchiveEnds \/ Crash)
        BY <1>3, <1>6, ArchPcNext
    <2>4. QED
        BY <2>1, <2>2, <2>3, FrameNext DEF Frame, ArchiveNext
<1>7. QED
    BY <1>4, <1>5, <1>6 DEF Counts

-----------------------------------------------------------------------------
(* The backups                                                             *)

\* While a backup blocks the loop, only threads move.
LEMMA BlockedNext ==
    ASSUME [Next]_vars, ~Free
    PROVE  \/ PersistCommitted \/ ArchiveCommitted \/ VacuumCheckpoints \/ VacuumRewrites
           \/ CopyFile \/ BackupEnds \/ Crash \/ UNCHANGED vars
BY DEF Next, PersistNext, ArchiveNext, VacuumNext, PersistBegins, InsertSnapshot, InsertStrikes,
       PersistCommits, PersistLockedOut, PersistFails, PersistEnds, ArchiveBegins,
       ArchiveCounts, ArchiveCopies, ArchiveDeletes, ArchiveFails, ArchiveEnds,
       VacuumBegins, VacuumAttempts, VacuumBacksOff, VacuumRetries, VacuumErrs,
       FullBackup, CopyWal, Exit, Tick

\* The log a quiet backup has copied, laid over the file as it is when the
\* file is copied, is the database; until then only a checkpoint can have
\* moved images of that log into the file.
LEMMA CopiesNext ==
    ASSUME IInv, [Next]_vars
    PROVE  Copies'
<1>1. TypeOK /\ LogInFile /\ Copies /\ BackupType
    BY DEF IInv, TypeOK, BackupType
<1>2. View = [p \in Pages |-> View[p]]
    BY <1>1, ViewType DEF View, Overlay
<1>3. CASE FullBackup
    <2>1. /\ backup'.pc = "copied" /\ backup'.db = View /\ backup'.wal = NoPages
          /\ backup'.view = View
        BY <1>3 DEF FullBackup
    <2>2. Overlay(NoPages, View) = View
        BY <1>2 DEF Overlay, NoPages
    <2>3. QED
        BY <2>1, <2>2 DEF Copies, Restore
<1>4. CASE CopyWal
    <2>1. /\ backup'.pc = "walCopied" /\ backup'.wal = wal /\ backup'.view = View
          /\ backup'.quiet = Quiet
        BY <1>4 DEF CopyWal
    <2>2. UNCHANGED <<file, wal, persist, arch, vac>>
        BY <1>4 DEF CopyWal, dbVars, persistVars
    <2>3. View' = View /\ Quiet' = Quiet
        BY <2>2 DEF View, Quiet
    <2>4. \A p \in DOMAIN wal : wal[p] = View[p]
        BY DEF View, Overlay
    <2>5. \A p \in Pages \ DOMAIN wal : file[p] = View[p]
        BY <1>1 DEF View, Overlay, TypeOK
    <2>6. QED
        BY <2>1, <2>2, <2>3, <2>4, <2>5 DEF Copies
<1>5. CASE CopyFile
    <2>1. /\ backup.pc = "walCopied" /\ backup'.pc = "copied" /\ backup'.db = file
          /\ backup'.wal = backup.wal /\ backup'.view = backup.view
          /\ backup'.quiet = backup.quiet
        BY <1>1, <1>5 DEF CopyFile, BackupType
    <2>2. ASSUME backup.quiet
          PROVE  Overlay(backup.wal, file) = View
        <3>1. DOMAIN file = Pages /\ DOMAIN backup.wal \subseteq Pages
            BY <1>1 DEF TypeOK, Images
        <3>2. /\ \A p \in DOMAIN backup.wal : backup.wal[p] = View[p]
              /\ \A p \in Pages \ DOMAIN backup.wal : file[p] = View[p]
            BY <1>1, <2>1, <2>2 DEF Copies
        <3>3. Overlay(backup.wal, file) = [p \in Pages |-> View[p]]
            BY <3>1, <3>2 DEF Overlay
        <3>4. QED
            BY <1>2, <3>3
    <2>3. backup.quiet => backup.view = View
        BY <1>1, <2>1 DEF Copies
    <2>4. QED
        BY <2>1, <2>2, <2>3 DEF Copies, Restore
<1>6. CASE BackupEnds \/ Crash
    BY <1>6 DEF BackupEnds, Crash, NoBackup, Copies
<1>7. CASE UNCHANGED backup
    <2>1. ASSUME backup.pc = "copied", backup.quiet
          PROVE  Restore(backup)' = backup'.view
        BY <1>1, <1>7, <2>1 DEF Copies, Restore
    <2>2. ASSUME backup.pc = "walCopied", backup.quiet
          PROVE  /\ Quiet' /\ backup'.view = View'
                 /\ \A p \in DOMAIN backup'.wal : backup'.wal[p] = View'[p]
                 /\ \A p \in Pages \ DOMAIN backup'.wal : file'[p] = View'[p]
        <3>1. /\ Quiet /\ backup.view = View
              /\ \A p \in DOMAIN backup.wal : backup.wal[p] = View[p]
              /\ \A p \in Pages \ DOMAIN backup.wal : file[p] = View[p]
            BY <1>1, <2>2 DEF Copies
        <3>2. CASE UNCHANGED vars
            BY <1>7, <3>1, <3>2 DEF vars, dbVars, persistVars, View, Quiet
        <3>3. CASE VacuumCheckpoints
            <4>1. Quiet'
                BY <1>1, <3>1, <3>3
                   DEF VacuumCheckpoints, Quiet, persistVars, TypeOK
            <4>2. CASE UNCHANGED dbVars
                BY <1>7, <3>1, <4>1, <4>2 DEF dbVars, View
            <4>3. CASE Flush
                <5>1. View' = View /\ file' = View
                    BY <1>1, <4>3, FlushFacts
                <5>2. QED
                    BY <1>7, <3>1, <4>1, <5>1
            <4>4. QED
                BY <3>3, <4>2, <4>3 DEF VacuumCheckpoints
        <3>4. ~(PersistCommitted \/ ArchiveCommitted \/ VacuumRewrites)
            BY <3>1 DEF Quiet, PersistCommitted, ArchiveCommitted, VacuumRewrites
        <3>5. ~(CopyFile \/ BackupEnds \/ Crash)
            <4>1. BackupEnds \/ Crash => backup'.pc = "idle"
                BY DEF BackupEnds, Crash, NoBackup
            <4>2. CopyFile => backup'.pc = "copied"
                BY <1>1 DEF CopyFile, BackupType
            <4>3. QED
                BY <1>7, <2>2, <4>1, <4>2
        <3>6. QED
            BY <2>2, <3>2, <3>3, <3>4, <3>5, BlockedNext DEF Free
    <2>3. QED
        BY <1>7, <2>1, <2>2 DEF Copies
<1>8. QED
    BY <1>3, <1>4, <1>5, <1>6, <1>7, FrameNext DEF Frame

-----------------------------------------------------------------------------
(* The theorems                                                            *)

\* The invariant holds of a closed or fresh database.
LEMMA InitIInv == Init => IInv
<1> SUFFICES ASSUME Init PROVE IInv
    OBVIOUS
<1>1. /\ DOMAIN file = Pages
      /\ file["snaps"] = 0 /\ file["seq"] = 0 /\ file["strikes"] = {} /\ file["archive"] = {}
    BY DEF Init, Pages
<1>2. DOMAIN NoPages = {}
    BY DEF NoPages
<1>3. TypeOK
    <2>1. Images(file)
        BY <1>1 DEF Images, Image, Pages
    <2>2. Images(NoPages)
        BY <1>2 DEF Images
    <2>3. NoVacuum.tries \in 0..Attempts
        BY MaintenanceAssumption DEF NoVacuum
    <2>4. BackupType
        BY <2>2 DEF Init, NoBackup, BackupType
    <2>5. QED
        BY <1>1, <2>1, <2>2, <2>3, <2>4
           DEF Init, TypeOK, NoArchiving, NoVacuum, BackupType
<1>4. View = file
    BY <1>2, <1>1 DEF Init, View, Overlay
<1>5. LogInFile /\ Locks /\ TxnFits /\ Counts /\ Copies
    BY <1>2 DEF Init, LogInFile, Locks, TxnFits, Counts, Copies, NoArchiving, NoVacuum, NoBackup
<1>6. Apart(View, kept)
    BY <1>1, <1>4, FS_EmptySet DEF Init, Apart, Keys
<1>7. QED
    BY <1>3, <1>5, <1>6 DEF IInv

\* Every step keeps the invariant.
LEMMA NextIInv == IInv /\ [Next]_vars => IInv'
<1> SUFFICES ASSUME IInv, [Next]_vars PROVE IInv'
    OBVIOUS
<1>1. TypeOK' /\ LogInFile'
    BY TypeNext, DbNext DEF IInv
<1>2. Locks' /\ Apart(View, kept)' /\ TxnFits' /\ Counts' /\ Copies'
    BY LocksNext, ApartNext, TxnNext, CountsNext, CopiesNext
<1>3. QED
    BY <1>1, <1>2 DEF IInv

\* The inductive invariant holds of the jobs, the pipeline and the backups.
THEOREM MaintenanceInductive == Spec => []IInv
BY InitIInv, NextIInv, PTL DEF Spec

\* Files, transactions and backups hold images of pages, and a job tries
\* VACUUM at most Attempts times.
THEOREM MaintenanceTypeCorrect == Spec => []TypeOK
<1>1. IInv => TypeOK
    BY DEF IInv
<1>2. QED
    BY <1>1, MaintenanceInductive, PTL

\* Archiving loses and doubles no row, for any number of snapshots, periods,
\* crashes and jobs (archive_old_data() beside DataWriter's transaction).
THEOREM MaintenanceRowsKept == Spec => []RowsKept
<1>1. IInv => RowsKept
    <2> SUFFICES ASSUME IInv PROVE RowsKept
        OBVIOUS
    <2>1. Apart(View, kept)
        BY DEF IInv
    <2>2. Keys(View["strikes"]) \cap Keys(View["archive"]) = {}
        BY <2>1 DEF Apart, Keys
    <2>3. \A k \in kept : k \in 1..View["snaps"]
        BY <2>1 DEF Apart, Keys
    <2>4. QED
        BY <2>1, <2>2, <2>3 DEF RowsKept, Apart
<1>2. QED
    BY <1>1, MaintenanceInductive, PTL

\* The number of rows archive_old_data() reports is the number it moved.
THEOREM MaintenanceCountIsHonest == Spec => []CountIsHonest
<1>1. IInv => CountIsHonest
    BY DEF IInv, Counts, CountIsHonest
<1>2. QED
    BY <1>1, MaintenanceInductive, PTL

\* A backup begun with no write under way restores the database of that
\* moment (backup_database_incremental() and the full backup).
THEOREM MaintenanceQuietBackupsRestore == Spec => []QuietBackupsRestore
<1>1. IInv => QuietBackupsRestore
    BY DEF IInv, Copies, QuietBackupsRestore
<1>2. QED
    BY <1>1, MaintenanceInductive, PTL
=============================================================================
