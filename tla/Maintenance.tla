---------------------------- MODULE Maintenance ----------------------------
(***************************************************************************)
(* What the scheduled jobs of utils/db_maintenance.py do to the database   *)
(* file while the pipeline persists into it: archiving old gex_strikes,    *)
(* VACUUM, the full backup and the incremental one, which copies the       *)
(* write-ahead log and the main file behind SQLite's back.                 *)
(*                                                                         *)
(* The database is a main file and a log of page images; what a connection *)
(* reads is the log laid over the file.  A page here is a whole table.     *)
(* Coroutines move only while the event loop is free; what has been handed *)
(* to a connection's thread goes on while a backup, which is synchronous,  *)
(* blocks the loop.                                                        *)
(***************************************************************************)
EXTENDS Integers, FiniteSets

CONSTANTS Attempts,    \* VACUUMs tried by a job: 3 in the code
          MaxSnaps,    \* bound: snapshots the pipeline inserts
          MaxPeriod,   \* bound: retention periods that pass
          MaxBackups   \* bound: backups begun

ASSUME MaintenanceAssumption == /\ Attempts \in Nat \ {0}
                                /\ MaxSnaps \in Nat
                                /\ MaxPeriod \in Nat
                                /\ MaxBackups \in Nat

VARIABLES
    file, wal,         \* the main file; the log: newest image of each page in it
    recent,            \* which of "file", "wal" were written in this period
    backfilled,        \* is every image of the log in the file already
    writer,            \* who holds SQLite's write lock
    txn,               \* page images of the writer's open transaction
    persist, writing,  \* _persist(): where it is; is_writing
    arch,              \* archive_old_data()
    vac,               \* vacuum_and_analyze()
    backup, begun,     \* the backup being taken; backups begun
    now,               \* the current period: what is older is past retention
    kept               \* history: strike rows ever committed

dbVars == <<file, wal, recent, backfilled>>
lockVars == <<writer, txn>>
persistVars == <<persist, writing, kept>>
vars == <<dbVars, lockVars, persistVars, arch, vac, backup, begun, now>>

\* snaps counts gex_snapshots, whose rows are never deleted; seq is the last
\* id AUTOINCREMENT gave to a row of gex_strikes.
Pages == {"snaps", "seq", "strikes", "archive"}
NoPages == [p \in {} |-> {}]
Overlay(new, old) ==
    [p \in DOMAIN new \cup DOMAIN old |-> IF p \in DOMAIN new THEN new[p] ELSE old[p]]

\* What a connection reads outside a transaction.
View == Overlay(wal, file)

Free == backup.pc = "idle"
Keys(rows) == {r.key : r \in rows}
Old(rows, cutoff) == {r \in rows : r.at < cutoff}

NoArchiving == [pc |-> "idle", cutoff |-> 0, count |-> 0, moved |-> 0]
NoVacuum == [pc |-> "idle", tries |-> 0]
NoBackup == [pc |-> "idle", db |-> NoPages, wal |-> NoPages, view |-> NoPages,
             whole |-> FALSE, quiet |-> FALSE]

\* A fresh database, or one that was closed: everything is in the file.
Init ==
    /\ file = [p \in Pages |-> IF p \in {"snaps", "seq"} THEN 0 ELSE {}]
    /\ wal = NoPages
    /\ recent = {"file", "wal"}
    /\ backfilled = FALSE
    /\ writer = "none" /\ txn = NoPages
    /\ persist = "idle" /\ writing = FALSE
    /\ arch = NoArchiving
    /\ vac = NoVacuum
    /\ backup = NoBackup
    /\ begun = 0
    /\ now = 0
    /\ kept = {}

-----------------------------------------------------------------------------
(* SQLite                                                                  *)

\* A commit writes its images to the log, from the start if all of the log
\* is in the file; it may then checkpoint (1000 pages by default).
Commit(images) ==
    LET log == IF backfilled THEN images ELSE Overlay(images, wal)
    IN /\ wal' = log
       /\ \/ /\ backfilled' = FALSE
             /\ file' = file
             /\ recent' = recent \cup {"wal"}
          \/ /\ backfilled' = TRUE
             /\ file' = Overlay(log, file)
             /\ recent' = {"file", "wal"}

TakeLock(w, images) == writer = "none" /\ writer' = w /\ txn' = images
DropLock == writer' = "none" /\ txn' = NoPages

\* The WAL is flushed and emptied: wal_checkpoint(TRUNCATE), or the last
\* connection of a process that exits.
Flush ==
    /\ file' = View
    /\ wal' = NoPages
    /\ recent' = {"wal"} \cup IF backfilled \/ wal = NoPages THEN recent ELSE {"file"}
    /\ backfilled' = FALSE

-----------------------------------------------------------------------------
(* The pipeline's transaction: a snapshot, with strikes or without         *)

PersistBegins ==
    /\ Free
    /\ persist = "idle" /\ View["snaps"] < MaxSnaps
    /\ persist' = "waiting"
    /\ writing' = TRUE
    /\ UNCHANGED <<dbVars, lockVars, arch, vac, backup, begun, now, kept>>

InsertSnapshot ==
    /\ Free
    /\ persist = "waiting"
    /\ TakeLock("persist", [p \in {"snaps"} |-> View["snaps"] + 1])
    /\ persist' = "open"
    /\ UNCHANGED <<dbVars, arch, vac, backup, begun, now, writing, kept>>

\* (mutant) Ids without AUTOINCREMENT: one more than the largest in use.
NextIdOfTable(view) ==
    IF view["strikes"] = {} THEN 1
    ELSE 1 + CHOOSE n \in 1..view["seq"] :
                 /\ \E r \in view["strikes"] : r.id = n
                 /\ \A r \in view["strikes"] : r.id <= n

NextId(view) == view["seq"] + 1

InsertStrikes ==
    /\ Free
    /\ persist = "open" /\ DOMAIN txn = {"snaps"}
    /\ LET id == NextId(View)
           row == [id |-> id, key |-> txn["snaps"], at |-> now]
       IN txn' = [p \in {"snaps", "seq", "strikes"} |->
                     CASE p = "snaps" -> txn[p]
                       [] p = "seq" -> IF id > View[p] THEN id ELSE View[p]
                       [] OTHER -> View[p] \cup {row}]
    /\ UNCHANGED <<dbVars, writer, persistVars, arch, vac, backup, begun, now>>

\* commit() is handed to the connection's thread.
PersistCommits ==
    /\ Free
    /\ persist = "open"
    /\ persist' = "committing"
    /\ UNCHANGED <<dbVars, lockVars, arch, vac, backup, begun, now, writing, kept>>

PersistCommitted ==
    /\ persist = "committing"
    /\ Commit(txn)
    /\ DropLock
    /\ persist' = "ended"
    /\ kept' = IF "strikes" \in DOMAIN txn THEN kept \cup {txn["snaps"]} ELSE kept
    /\ UNCHANGED <<arch, vac, backup, begun, now, writing>>

\* The lock is held for longer than the busy timeout.
PersistLockedOut ==
    /\ Free
    /\ persist = "waiting" /\ writer # "none"
    /\ persist' = "ended"
    /\ UNCHANGED <<dbVars, lockVars, arch, vac, backup, begun, now, writing, kept>>

\* An exception or a cancellation: get_db() rolls back.
PersistFails ==
    /\ Free
    /\ persist = "open"
    /\ DropLock
    /\ persist' = "ended"
    /\ UNCHANGED <<dbVars, arch, vac, backup, begun, now, writing, kept>>

PersistEnds ==
    /\ Free
    /\ persist = "ended"
    /\ persist' = "idle"
    /\ writing' = FALSE
    /\ UNCHANGED <<dbVars, lockVars, arch, vac, backup, begun, now, kept>>

-----------------------------------------------------------------------------
(* archive_old_data()                                                      *)

ArchiveBegins ==
    /\ Free
    /\ arch.pc = "idle" /\ ~writing
    /\ arch' = [pc |-> "count", cutoff |-> now, count |-> 0, moved |-> 0]
    /\ UNCHANGED <<dbVars, lockVars, persistVars, vac, backup, begun, now>>

\* The rows are counted in a read of its own; with none the job returns.
ArchiveCounts ==
    /\ Free
    /\ arch.pc = "count"
    /\ LET n == Cardinality(Old(View["strikes"], arch.cutoff))
       IN arch' = IF n = 0 THEN NoArchiving ELSE [arch EXCEPT !.count = n, !.pc = "copy"]
    /\ UNCHANGED <<dbVars, lockVars, persistVars, vac, backup, begun, now>>

\* INSERT OR IGNORE: a row whose id the archive has already is left out.
ArchiveCopies ==
    /\ Free
    /\ arch.pc = "copy"
    /\ LET fresh == {r \in Old(View["strikes"], arch.cutoff) :
                        \A a \in View["archive"] : a.id # r.id}
       IN TakeLock("archive", [p \in {"archive"} |-> View[p] \cup fresh])
    /\ arch' = [arch EXCEPT !.pc = "delete"]
    /\ UNCHANGED <<dbVars, persistVars, vac, backup, begun, now>>

\* (mutant) The cutoff is taken again for the DELETE.
ArchiveDeletesUpToNow ==
    /\ Free
    /\ arch.pc = "delete"
    /\ txn' = [p \in DOMAIN txn \cup {"strikes"} |->
                  IF p = "strikes" THEN View[p] \ Old(View[p], now) ELSE txn[p]]
    /\ arch' = [arch EXCEPT !.pc = "committing",
                            !.moved = Cardinality(Old(View["strikes"], now))]
    /\ UNCHANGED <<dbVars, writer, persistVars, vac, backup, begun, now>>

\* Then commit() is handed to the thread; failing in between is failing before.
ArchiveDeletes ==
    /\ Free
    /\ arch.pc = "delete"
    /\ LET rows == Old(View["strikes"], arch.cutoff)
       IN /\ txn' = [p \in {"strikes", "archive"} |->
                        IF p = "strikes" THEN View[p] \ rows ELSE txn[p]]
          /\ arch' = [arch EXCEPT !.pc = "committing", !.moved = Cardinality(rows)]
    /\ UNCHANGED <<dbVars, writer, persistVars, vac, backup, begun, now>>

ArchiveCommitted ==
    /\ arch.pc = "committing"
    /\ Commit(txn)
    /\ DropLock
    /\ arch' = [arch EXCEPT !.pc = "ended"]
    /\ UNCHANGED <<persistVars, vac, backup, begun, now>>

\* The lock is not to be had in time, or a statement fails: rollback.
ArchiveFails ==
    /\ Free
    /\ \/ arch.pc \in {"count", "copy"} /\ UNCHANGED lockVars
       \/ arch.pc = "delete" /\ DropLock
    /\ arch' = NoArchiving
    /\ UNCHANGED <<dbVars, persistVars, vac, backup, begun, now>>

ArchiveEnds ==
    /\ Free
    /\ arch.pc = "ended"
    /\ arch' = NoArchiving
    /\ UNCHANGED <<dbVars, lockVars, persistVars, vac, backup, begun, now>>

-----------------------------------------------------------------------------
(* vacuum_and_analyze()                                                    *)

VacuumBegins ==
    /\ Free
    /\ vac.pc = "idle" /\ ~writing
    /\ vac' = [pc |-> "checkpoint", tries |-> 0]
    /\ UNCHANGED <<dbVars, lockVars, persistVars, arch, backup, begun, now>>

\* wal_checkpoint(TRUNCATE) in its connection's thread, which does nothing
\* when the database is busy; a failure is logged and ignored.
VacuumCheckpoints ==
    /\ vac.pc = "checkpoint"
    /\ \/ writer = "none" /\ Flush
       \/ UNCHANGED dbVars
    /\ vac' = [vac EXCEPT !.pc = "attempt"]
    /\ UNCHANGED <<lockVars, persistVars, arch, backup, begun, now>>

VacuumAttempts ==
    /\ Free
    /\ vac.pc = "attempt"
    /\ TakeLock("vacuum", NoPages)
    /\ vac' = [vac EXCEPT !.pc = "rewrite", !.tries = @ + 1]
    /\ UNCHANGED <<dbVars, persistVars, arch, backup, begun, now>>

\* (mutant) The attempts are counted from the start after each failure.
AfterFailureAgain(v) == [v EXCEPT !.pc = "attempt", !.tries = 0]

\* The last failure defers the job, after a last sleep.
AfterFailure(v) == IF v.tries < Attempts THEN [v EXCEPT !.pc = "attempt"] ELSE NoVacuum

\* Locked for longer than the busy timeout, or the rewrite fails: back off.
VacuumBacksOff ==
    /\ Free
    /\ \/ /\ vac.pc = "attempt" /\ writer # "none"
          /\ vac' = [tries |-> vac.tries + 1, pc |-> "backoff"]
          /\ UNCHANGED lockVars
       \/ /\ vac.pc = "rewrite"
          /\ vac' = [vac EXCEPT !.pc = "backoff"]
          /\ DropLock
    /\ UNCHANGED <<dbVars, persistVars, arch, backup, begun, now>>

VacuumRetries ==
    /\ Free
    /\ vac.pc = "backoff"
    /\ vac' = AfterFailure(vac)
    /\ UNCHANGED <<dbVars, lockVars, persistVars, arch, backup, begun, now>>

\* VACUUM and ANALYZE rewrite every page through the log, in a thread; what
\* is left of the job is to return.
VacuumRewrites ==
    /\ vac.pc = "rewrite"
    /\ Commit(View)
    /\ DropLock
    /\ vac' = NoVacuum
    /\ UNCHANGED <<persistVars, arch, backup, begun, now>>

\* A connection that cannot be opened ends the job with an error.
VacuumErrs ==
    /\ Free
    /\ vac.pc = "attempt"
    /\ vac' = NoVacuum
    /\ UNCHANGED <<dbVars, lockVars, persistVars, arch, backup, begun, now>>

-----------------------------------------------------------------------------
(* Backups.  Neither job asks is_writing.                                  *)

\* No thread is about to write to the database.
Quiet == persist # "committing" /\ arch.pc # "committing" /\ vac.pc # "rewrite"

\* Connection.backup() copies what one read transaction sees.
FullBackup ==
    /\ Free /\ begun < MaxBackups
    /\ begun' = begun + 1
    /\ backup' = [pc |-> "copied", db |-> View, wal |-> NoPages, whole |-> TRUE,
                  quiet |-> TRUE, view |-> View]
    /\ UNCHANGED <<dbVars, lockVars, persistVars, arch, vac, now>>

\* backup_database_incremental() with a WAL (an empty one is copied too;
\* without one it makes a full backup).  The log is copied first.
CopyWal ==
    /\ Free /\ begun < MaxBackups
    /\ begun' = begun + 1
    /\ backup' = [pc |-> "walCopied", db |-> NoPages, wal |-> wal, whole |-> FALSE,
                  quiet |-> Quiet, view |-> View]
    /\ UNCHANGED <<dbVars, lockVars, persistVars, arch, vac, now>>

\* (mutant) The main file is copied without its log.
CopyFileAlone ==
    /\ backup.pc = "walCopied"
    /\ backup' = [backup EXCEPT !.pc = "copied", !.db = file, !.wal = NoPages,
                                !.whole = recent = {"file", "wal"}]
    /\ UNCHANGED <<dbVars, lockVars, persistVars, arch, vac, begun, now>>

\* The main file is copied and old backups are removed.  The cleanup goes by
\* the mtime of a copy, which copy2() takes from the file it copied: a half
\* whose source was not written in this period is removed at once.
CopyFile ==
    /\ backup.pc = "walCopied"
    /\ backup' = [backup EXCEPT !.pc = "copied", !.db = file,
                                !.whole = recent = {"file", "wal"}]
    /\ UNCHANGED <<dbVars, lockVars, persistVars, arch, vac, begun, now>>

\* The job returns and the loop goes on; no later step reads the backup.
BackupEnds ==
    /\ backup.pc = "copied"
    /\ backup' = NoBackup
    /\ UNCHANGED <<dbVars, lockVars, persistVars, arch, vac, begun, now>>

-----------------------------------------------------------------------------
(* The process and time                                                    *)

Halted ==
    /\ DropLock
    /\ persist' = "idle" /\ writing' = FALSE
    /\ arch' = NoArchiving
    /\ vac' = NoVacuum

\* The process dies: the file and its log survive, open transactions do not.
Crash ==
    /\ Halted
    /\ backup' = NoBackup
    /\ UNCHANGED <<dbVars, begun, now, kept>>

\* An orderly exit with no job at work closes the last connection.
Exit ==
    /\ Free /\ writer = "none" /\ ~writing
    /\ arch.pc = "idle" /\ vac.pc = "idle"
    /\ Flush
    /\ UNCHANGED <<lockVars, persistVars, arch, vac, backup, begun, now>>

\* A retention period passes: 180 days for strikes, 30 for backups.
Tick ==
    /\ Free /\ now < MaxPeriod
    /\ now' = now + 1
    /\ recent' = {}
    /\ UNCHANGED <<file, wal, backfilled, lockVars, persistVars, arch, vac, backup, begun>>

-----------------------------------------------------------------------------

PersistNext == \/ InsertSnapshot \/ InsertStrikes \/ PersistCommits
               \/ PersistCommitted \/ PersistLockedOut \/ PersistFails \/ PersistEnds
ArchiveNext == \/ ArchiveCounts \/ ArchiveCopies \/ ArchiveDeletes
               \/ ArchiveCommitted \/ ArchiveFails \/ ArchiveEnds
VacuumNext == \/ VacuumCheckpoints \/ VacuumAttempts \/ VacuumBacksOff
              \/ VacuumRetries \/ VacuumRewrites \/ VacuumErrs

Next == \/ PersistBegins \/ PersistNext
        \/ ArchiveBegins \/ ArchiveNext
        \/ VacuumBegins \/ VacuumNext
        \/ FullBackup \/ CopyWal \/ CopyFile \/ BackupEnds
        \/ Crash \/ Exit \/ Tick

Spec == Init /\ [][Next]_vars

\* Coroutines and threads that are ready get to run; jobs need not be started.
FairSpec == Spec /\ WF_vars(CopyFile \/ BackupEnds)
                 /\ WF_vars(ArchiveNext) /\ WF_vars(VacuumNext)

-----------------------------------------------------------------------------
(* Properties                                                              *)

Rows == [id : Nat, key : Nat, at : Nat]
Image(p) == IF p \in {"snaps", "seq"} THEN Nat ELSE SUBSET Rows
Images(f) == DOMAIN f \subseteq Pages /\ \A p \in DOMAIN f : f[p] \in Image(p)

\* Files, transaction and backup hold images of pages, the log of some and
\* the main file of all.
TypeOK ==
    /\ DOMAIN file = Pages
    /\ Images(file) /\ Images(wal) /\ Images(txn)
    /\ recent \subseteq {"file", "wal"} /\ now \in Nat /\ begun \in Nat
    /\ kept \subseteq Nat
    /\ backfilled \in BOOLEAN /\ writing \in BOOLEAN
    /\ writer \in {"none", "persist", "archive", "vacuum"}
    /\ persist \in {"idle", "waiting", "open", "committing", "ended"}
    /\ arch \in [pc : {"idle", "count", "copy", "delete", "committing", "ended"},
                 cutoff : Nat, count : Nat, moved : Nat]
    /\ vac \in [pc : {"idle", "checkpoint", "attempt", "rewrite", "backoff"},
                tries : 0..Attempts]
    /\ DOMAIN backup = {"pc", "db", "wal", "view", "whole", "quiet"}
    /\ Images(backup.db) /\ Images(backup.wal) /\ Images(backup.view)
    /\ backup.pc \in {"idle", "walCopied", "copied"}
    /\ backup.whole \in BOOLEAN /\ backup.quiet \in BOOLEAN

\* Archiving loses and doubles no row, whatever the pipeline inserts or the
\* process does meanwhile: a strike row once committed is in gex_strikes or
\* in the archive, never in both, and its snapshot exists.
RowsKept ==
    /\ Keys(View["strikes"]) \cap Keys(View["archive"]) = {}
    /\ kept = Keys(View["strikes"]) \cup Keys(View["archive"])
    /\ \A k \in kept : k \in 1..View["snaps"]

\* The number archive_old_data() returns, counted before its transaction and
\* without a lock, is the number of rows the transaction moved.
CountIsHonest == arch.pc = "ended" => arch.count = arch.moved

Restore(b) == Overlay(b.wal, b.db)

\* A backup begun with no write under way restores exactly the database of
\* that moment, if the cleanup left both its halves.
QuietBackupsRestore ==
    backup.pc = "copied" /\ backup.whole /\ backup.quiet => Restore(backup) = backup.view

\* Every archiving and every VACUUM that began ends, whatever it finds locked
\* and however often it is refused.
JobsEnd ==
    /\ arch.pc # "idle" ~> arch.pc = "idle"
    /\ vac.pc # "idle" ~> vac.pc = "idle"

\* Every backup that has both its halves restores a state the rows of which
\* belong together: no strike row without its snapshot, none in two tables.
BackupsRestore ==
    backup.pc = "copied" /\ backup.whole =>
        LET db == Restore(backup)
        IN /\ Keys(db["strikes"]) \cap Keys(db["archive"]) = {}
           /\ Keys(db["strikes"]) \cup Keys(db["archive"]) \subseteq 1..db["snaps"]
=============================================================================
