-------------------------------- MODULE Backup --------------------------------
(* The file backup of a SQLite installation: services/backup.py.               *)
(*                                                                             *)
(* The database is one file, the documents one directory; a backup archives    *)
(* both and a restore replaces one, then the other, by renaming. The contents  *)
(* of the database stand for the names of the documents it registers. The      *)
(* route serves an installation with a single account; nobody writes while it  *)
(* restores, somebody may while it saves.                                      *)
EXTENDS Naturals, FiniteSets

CONSTANTS
  Names,      \* documents
  MaxSteps,   \* bound: writes, backups, verifications and restores
  MaxFaults,  \* bound: failures of a file operation, damaged archives
  MaxCrashes  \* bound: crashes

VARIABLES
  db,        \* the database file: the names it registers
  docs,      \* the documents directory, or NoDir
  archives,  \* finished archives: rows, files, sound, last check
  pc,        \* the step of the backup or restore under way
  job,       \* its variables
  steps, faults, crashes

vars == <<db, docs, archives, pc, job, steps, faults, crashes>>

NoDir == {"no directory"}
\* No document is mistaken for the absence of a directory.
NamesAssumption == "no directory" \notin Names
Files(dir) == IF dir = NoDir THEN {} ELSE dir

Archive(d, f) == [db |-> d, docs |-> f, sound |-> TRUE, check |-> "unchecked"]
NoJob == [goal |-> Archive({}, {}), copy |-> {}, snapDb |-> {}, snapDocs |-> NoDir,
          aside |-> NoDir, documentsStarted |-> FALSE, failed |-> FALSE,
          result |-> "none"]

Init == /\ db = {} /\ docs = NoDir /\ archives = {}
        /\ pc = "idle" /\ job = NoJob
        /\ steps = 0 /\ faults = 0 /\ crashes = 0

Counted == steps < MaxSteps /\ steps' = steps + 1
NotCounted == UNCHANGED steps
Fault == faults < MaxFaults /\ faults' = faults + 1
NoFault == UNCHANGED faults

\* No handler is restoring: the last restore, if any, has answered.
Saving == pc \in {"copyDb", "copyDocs"} /\ job.result = "saving"
Serving == pc = "idle" \/ Saving
Answered == IF pc = "idle" THEN job' = NoJob ELSE UNCHANGED job

-----------------------------------------------------------------------------
(* Documents come and go (module Archive has the steps of it).                 *)

Upload == /\ Serving /\ Counted
          /\ \E n \in Names \ db : /\ db' = db \cup {n}
                                   /\ docs' = Files(docs) \cup {n}
          /\ Answered /\ NoFault /\ UNCHANGED <<archives, pc, crashes>>

Delete == /\ Serving /\ Counted
          /\ \E n \in db : /\ db' = db \ {n}
                           /\ docs' = Files(docs) \ {n}
          /\ Answered /\ NoFault /\ UNCHANGED <<archives, pc, crashes>>

-----------------------------------------------------------------------------
(* create_backup, for itself or as the safety backup of a restore.             *)

StartBackup == /\ pc = "idle" /\ Counted
               /\ pc' = "copyDb" /\ job' = [NoJob EXCEPT !.result = "saving"]
               /\ NoFault /\ UNCHANGED <<db, docs, archives, crashes>>

\* The request fails before it changed anything: its partial files are removed.
Abandon == Fault /\ pc' = "idle" /\ job' = NoJob

\* _copy_database: sqlite3 backup, a consistent copy.
CopyDb == /\ pc = "copyDb"
          /\ \/ NoFault /\ job' = [job EXCEPT !.copy = db] /\ pc' = "copyDocs"
             \/ Abandon
          /\ NotCounted /\ UNCHANGED <<db, docs, archives, crashes>>

\* _documents_to_archive, archived_document_names: registered in the copy, and present.
Archived(copy) == copy \cap Files(docs)

\* Variant: one archive is safety enough.
KeptIfFirst(copy) == IF archives = {} THEN {Archive(copy, Archived(copy))} ELSE archives
Kept(copy) == archives \cup {Archive(copy, Archived(copy))}

\* The archive appears under its name by a rename, complete or not at all.
CopyDocs == /\ pc = "copyDocs"
            /\ \/ /\ NoFault
                  /\ archives' = Kept(job.copy)
                  /\ IF Saving THEN pc' = "idle" /\ job' = NoJob
                               ELSE pc' = "snapshot" /\ UNCHANGED job
               \/ Abandon /\ UNCHANGED archives
            /\ NotCounted /\ UNCHANGED <<db, docs, crashes>>

\* verify_backup, _record_check: the result is kept with the fingerprint of the file.
Verify == /\ pc = "idle" /\ Counted
          /\ \E a \in archives :
               archives' = (archives \ {a})
                 \cup {[a EXCEPT !.check = IF a.sound THEN "ok" ELSE "failed"]}
          /\ Answered /\ NoFault /\ UNCHANGED <<db, docs, pc, crashes>>

\* integrity_view: a check counts for the file it was made on.
CheckAfterDamage(a) == "unchecked"

\* The file changes on the disk.
Damage == /\ Fault
          /\ \E a \in archives :
               /\ a.sound
               /\ archives' = (archives \ {a})
                    \cup {[a EXCEPT !.sound = FALSE, !.check = CheckAfterDamage(a)]}
          /\ UNCHANGED <<db, docs, pc, job, steps, crashes>>

-----------------------------------------------------------------------------
(* restore_backup.                                                             *)

\* _inspect, _archive_documents: an archive whose contents match its manifest.
StartRestore == /\ pc = "idle" /\ Counted
                /\ \E a \in archives : a.sound /\ job' = [NoJob EXCEPT !.goal = a]
                /\ pc' = "copyDb"
                /\ NoFault /\ UNCHANGED <<db, docs, archives, crashes>>

\* _snapshot_database, _snapshot_documents. A failure here has changed nothing.
Snapshot == /\ pc = "snapshot"
            /\ \/ /\ NoFault /\ pc' = "installDb"
                  /\ job' = [job EXCEPT !.snapDb = db, !.snapDocs = docs]
               \/ Abandon
            /\ NotCounted /\ UNCHANGED <<db, docs, archives, crashes>>

\* Where the except clause of restore_backup leads.
Fail(j) == /\ pc' = "rollbackDb" /\ job' = j

\* Whether the archive can still be extracted.
Intact == \E a \in archives : a.sound /\ a.db = job.goal.db /\ a.docs = job.goal.docs

\* Variant: the documents count as started once they are replaced.
StartedLate(j) == j
\* documents_started is set between the two replacements.
Started(j) == [j EXCEPT !.documentsStarted = TRUE]

\* _replace_live_database: the extraction and the check may fail before the
\* rename, the reopening after it.
InstallDb ==
  /\ pc = "installDb"
  /\ \/ /\ Intact /\ NoFault
        /\ db' = job.goal.db /\ pc' = "stage" /\ job' = Started(job)
     \/ ~Intact /\ NoFault /\ Fail(job) /\ UNCHANGED db
     \/ Fault /\ Fail(job) /\ db' \in {db, job.goal.db}
  /\ NotCounted /\ UNCHANGED <<docs, archives, crashes>>

\* _replace_documents: the files are written to a staging directory, the
\* directory in service is set aside, the staging one takes its name.
Stage ==
  /\ pc = "stage"
  /\ \/ NoFault /\ pc' = "install" /\ job' = [job EXCEPT !.aside = docs] /\ docs' = NoDir
     \/ Fault /\ Fail(job) /\ UNCHANGED docs
  /\ NotCounted /\ UNCHANGED <<db, archives, crashes>>

\* A rename that fails puts the directory set aside back, which may fail too.
InstallDocs ==
  /\ pc = "install"
  /\ \/ /\ NoFault /\ docs' = job.goal.docs
        /\ pc' = "idle" /\ job' = [job EXCEPT !.result = "restored"]
     \/ Fault /\ pc' = "putBack" /\ UNCHANGED <<docs, job>>
  /\ NotCounted /\ UNCHANGED <<db, archives, crashes>>

PutBack ==
  /\ pc = "putBack" /\ Fail(job)
  /\ \/ NoFault /\ docs' = job.aside
     \/ Fault /\ UNCHANGED docs
  /\ NotCounted /\ UNCHANGED <<db, archives, crashes>>

\* _rollback_restore, _restore_database_file: a failure does not keep the
\* documents from being put back.
RollbackDb ==
  /\ pc = "rollbackDb"
  /\ \/ NoFault /\ db' = job.snapDb /\ UNCHANGED job
     \/ Fault /\ db' \in {db, job.snapDb} /\ job' = [job EXCEPT !.failed = TRUE]
  /\ pc' = "rollbackDocs"
  /\ NotCounted /\ UNCHANGED <<docs, archives, crashes>>

Outcome(failed) == IF failed THEN "broken" ELSE "undone"

\* _restore_documents_snapshot: displaced, copied back from the snapshot, put in
\* place; a failure gives the displaced directory its name back if it can.
RollbackDocs ==
  LET ended(failed) == job' = [job EXCEPT !.failed = failed, !.result = Outcome(failed)]
  IN /\ pc = "rollbackDocs" /\ pc' = "idle"
     /\ \/ ~job.documentsStarted /\ NoFault /\ UNCHANGED docs /\ ended(job.failed)
        \/ job.documentsStarted /\ NoFault /\ docs' = job.snapDocs /\ ended(job.failed)
        \/ job.documentsStarted /\ Fault /\ docs' \in {docs, NoDir} /\ ended(TRUE)
     /\ NotCounted /\ UNCHANGED <<db, archives, crashes>>

\* The process stops: files stay as they are, and no start-up code looks for a
\* restore that was cut short.
Crash == /\ pc # "idle" /\ crashes < MaxCrashes
         /\ crashes' = crashes + 1
         /\ pc' = "idle"
         /\ job' = IF Saving \/ pc \in {"copyDb", "copyDocs", "snapshot"} THEN NoJob
                   ELSE [job EXCEPT !.result = "broken"]
         /\ UNCHANGED <<db, docs, archives, steps, faults>>

Work == \/ CopyDb \/ CopyDocs \/ Snapshot \/ InstallDb \/ Stage \/ InstallDocs
        \/ PutBack \/ RollbackDb \/ RollbackDocs

Next == \/ Upload \/ Delete \/ StartBackup \/ StartRestore \/ Verify \/ Damage
        \/ Work \/ Crash

Spec == Init /\ [][Next]_vars

-----------------------------------------------------------------------------
(* Properties.                                                                 *)

\* The restore has begun to replace files.
Installing == pc \in {"installDb", "stage", "install", "putBack",
                      "rollbackDb", "rollbackDocs"}

\* The present state while files are replaced is the one of before.
Stored == IF Installing THEN [db |-> job.snapDb, docs |-> Files(job.snapDocs)]
                        ELSE [db |-> db, docs |-> Files(docs)]


Promise == INSTANCE AtomicRestore WITH
  Contents <- [db : SUBSET Names, docs : SUBSET Names],
  content <- Stored,
  target <- [db |-> job.goal.db, docs |-> job.goal.docs],
  status <- IF Installing THEN "restoring"
            ELSE IF job.result \in {"none", "saving"} THEN "idle" ELSE job.result

\* restore_backup, "A failed install puts the previous database and documents
\* back": whatever file operations fail, a restore installs the archive whole or
\* leaves database and documents as they were, unless the rollback itself failed,
\* which is raised, or the process died.
FileRestoreIsAtomic == Promise!Spec

\* docs/BACKUP.md: before anything is replaced, the present state is in an
\* archive of its own, with every document its rows register and the disk holds.
SafetyArchiveFirst ==
  Installing => \E a \in archives : /\ a.db = job.snapDb
                                    /\ a.docs = a.db \cap Files(job.snapDocs)
=============================================================================
