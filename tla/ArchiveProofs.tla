---------------------------- MODULE ArchiveProofs ----------------------------
(***************************************************************************)
(* The theorems of Backup and Archive, for any documents, accounts and     *)
(* requests and any number of writes, failures and crashes. The restore of *)
(* an installation is atomic (it implements AtomicRestore) and begins with *)
(* an archive of what it replaces. When a restore of a dossier is alone,   *)
(* it ends on one side and deletes no file of another account, and a       *)
(* registered document loses its file only to an accident or to a refused  *)
(* request that named it.                                                  *)
(***************************************************************************)
EXTENDS MCArchive, TLAPS

(***************************************************************************)
(* The backup and restore of an installation.                              *)
(***************************************************************************)

Directories == (SUBSET Names) \cup {NoDir}
Steps == {"idle", "copyDb", "copyDocs", "snapshot", "installDb", "stage",
          "install", "putBack", "rollbackDb", "rollbackDocs"}
Saved == [db : SUBSET Names, docs : SUBSET Names, sound : BOOLEAN,
          check : {"unchecked", "ok", "failed"}]
Jobs == [goal : Saved, copy : SUBSET Names, snapDb : SUBSET Names,
         snapDocs : Directories, aside : Directories, documentsStarted : BOOLEAN,
         failed : BOOLEAN,
         result : {"none", "saving", "restored", "undone", "broken"}]

TypeOK ==
  /\ db \in SUBSET Names /\ docs \in Directories
  /\ archives \subseteq Saved
  /\ pc \in Steps /\ job \in Jobs

\* An archive of the present state, with the documents that its rows register.
Safe(names, dir) == \E a \in archives : a.db = names /\ a.docs = names \cap Files(dir)

\* What is known of the files at each step of a restore: the two that are being
\* replaced and what the rollback will find of them.
Progress ==
  /\ pc \in {"copyDb", "copyDocs"} => job.result \in {"none", "saving"}
  /\ pc = "copyDocs" /\ ~ Saving => job.copy = db
  /\ pc = "snapshot" => job.result = "none" /\ Safe(db, docs)
                        /\ ~ job.documentsStarted /\ ~ job.failed
  /\ pc \in {"copyDb", "copyDocs"} => ~ job.documentsStarted /\ ~ job.failed
  /\ Installing => job.result = "none" /\ Safe(job.snapDb, job.snapDocs)
  /\ pc = "installDb" => /\ ~ job.documentsStarted /\ ~ job.failed
                         /\ db = job.snapDb /\ docs = job.snapDocs
  /\ pc \in {"stage", "install", "putBack"} =>
       job.documentsStarted /\ ~ job.failed /\ db = job.goal.db
  /\ pc = "rollbackDb" => ~ job.failed
  /\ pc \in {"rollbackDb", "rollbackDocs"} /\ ~ job.documentsStarted =>
       docs = job.snapDocs
  /\ pc = "rollbackDocs" /\ ~ job.failed => db = job.snapDb

BackupInv == TypeOK /\ Progress

-----------------------------------------------------------------------------
(* Types *)

LEMMA FilesAreNames ==
  ASSUME NEW dir \in Directories
  PROVE  Files(dir) \in SUBSET Names
  BY DEF Files, Directories

LEMMA NoJobTyped == NoJob \in Jobs
  BY DEF NoJob, Jobs, Saved, Archive, Directories

\* The assignments of the handlers keep the type of a job.
LEMMA JobUpdates ==
  ASSUME NEW j \in Jobs
  PROVE  /\ \A x \in SUBSET Names : [j EXCEPT !.copy = x] \in Jobs
         /\ \A x \in {"none", "saving", "restored", "undone", "broken"} :
              [j EXCEPT !.result = x] \in Jobs
         /\ \A x \in Saved : [j EXCEPT !.goal = x] \in Jobs
         /\ \A x \in SUBSET Names, y \in Directories :
              [j EXCEPT !.snapDb = x, !.snapDocs = y] \in Jobs
         /\ \A x \in Directories : [j EXCEPT !.aside = x] \in Jobs
         /\ [j EXCEPT !.documentsStarted = TRUE] \in Jobs
         /\ [j EXCEPT !.failed = TRUE] \in Jobs
         /\ \A x \in BOOLEAN, y \in {"undone", "broken"} :
              [j EXCEPT !.failed = x, !.result = y] \in Jobs
  BY DEF Jobs

LEMMA Initial == Init => BackupInv
<1> SUFFICES ASSUME Init PROVE BackupInv
  OBVIOUS
<1>1. TypeOK
  BY NoJobTyped DEF Init, TypeOK, Directories, Steps
<1>2. Progress
  BY DEF Init, Progress, Installing
<1> QED  BY <1>1, <1>2 DEF BackupInv

LEMMA Typed ==
  ASSUME TypeOK, [Next]_vars
  PROVE  TypeOK'
<1> USE DEF TypeOK
<1>1. CASE Upload
  BY <1>1, NoJobTyped, FilesAreNames DEF Upload, Answered, Directories
<1>2. CASE Delete
  BY <1>2, NoJobTyped, FilesAreNames DEF Delete, Answered, Directories
<1>3. CASE StartBackup
  BY <1>3, NoJobTyped, JobUpdates DEF StartBackup, Steps
<1>4. CASE StartRestore
  BY <1>4, NoJobTyped, JobUpdates DEF StartRestore, Steps
<1>5. CASE Verify
  BY <1>5, NoJobTyped DEF Verify, Answered, Saved
<1>6. CASE Damage
  BY <1>6 DEF Damage, CheckAfterDamage, Saved
<1>7. CASE CopyDb
  <2>1. job' \in Jobs
    <3>1. [job EXCEPT !.copy = db] \in Jobs
      BY JobUpdates
    <3> QED  BY <1>7, <3>1, NoJobTyped DEF CopyDb, Abandon
  <2> QED  BY <1>7, <2>1 DEF CopyDb, Abandon, Steps
<1>8. CASE CopyDocs
  <2>1. Archive(job.copy, Archived(job.copy)) \in Saved
    BY FilesAreNames DEF Jobs, Archive, Archived, Saved
  <2> QED  BY <1>8, <2>1, NoJobTyped DEF CopyDocs, Kept, Abandon, Steps
<1>9. CASE Snapshot
  <2>1. [job EXCEPT !.snapDb = db, !.snapDocs = docs] \in Jobs
    BY JobUpdates
  <2>2. job' \in Jobs
    BY <1>9, <2>1, NoJobTyped DEF Snapshot, Abandon
  <2> QED  BY <1>9, <2>2 DEF Snapshot, Abandon, Steps
<1>10. CASE InstallDb
  <2>1. job.goal.db \in SUBSET Names
    BY DEF Jobs, Saved
  <2> QED  BY <1>10, <2>1, JobUpdates DEF InstallDb, Started, Fail, Steps
<1>11. CASE Stage
  BY <1>11, JobUpdates DEF Stage, Fail, Steps, Directories
<1>12. CASE InstallDocs
  <2>1. job.goal.docs \in Directories
    BY DEF Jobs, Saved, Directories
  <2> QED  BY <1>12, <2>1, JobUpdates DEF InstallDocs, Steps
<1>13. CASE PutBack
  <2>1. job.aside \in Directories
    BY DEF Jobs
  <2> QED  BY <1>13, <2>1 DEF PutBack, Fail, Steps
<1>14. CASE RollbackDb
  <2>1. job.snapDb \in SUBSET Names
    BY DEF Jobs
  <2> QED  BY <1>14, <2>1, JobUpdates DEF RollbackDb, Steps
<1>15. CASE RollbackDocs
  <2>1. job.snapDocs \in Directories /\ job.failed \in BOOLEAN
    BY DEF Jobs
  <2>2. \A x \in BOOLEAN : Outcome(x) \in {"undone", "broken"}
    BY DEF Outcome
  <2>3. docs' \in Directories
    BY <1>15, <2>1 DEF RollbackDocs, Directories
  <2>4. job' \in Jobs
    BY <1>15, <2>1, <2>2, JobUpdates DEF RollbackDocs
  <2> QED  BY <1>15, <2>3, <2>4 DEF RollbackDocs, Steps
<1>16. CASE Crash
  BY <1>16, NoJobTyped, JobUpdates DEF Crash, Steps
<1>17. CASE UNCHANGED vars
  BY <1>17 DEF vars
<1> QED
  BY <1>1, <1>2, <1>3, <1>4, <1>5, <1>6, <1>7, <1>8, <1>9, <1>10, <1>11, <1>12,
     <1>13, <1>14, <1>15, <1>16, <1>17 DEF Next, Work

-----------------------------------------------------------------------------
(* Progress *)

\* An archive stays, with its rows and documents, whatever is checked or damaged.
LEMMA SafeStays ==
  ASSUME NEW names \in SUBSET Names, NEW dir \in Directories, Safe(names, dir),
         \A a \in archives : \E b \in archives' : b.db = a.db /\ b.docs = a.docs
  PROVE  Safe(names, dir)'
  BY DEF Safe, Files

LEMMA ArchivesKept ==
  ASSUME TypeOK, [Next]_vars
  PROVE  \A a \in archives : \E b \in archives' : b.db = a.db /\ b.docs = a.docs
<1>1. CASE archives' = archives
  BY <1>1
<1>2. CASE CopyDocs
  BY <1>2 DEF CopyDocs, Kept
<1>3. CASE Verify
  <2>1. PICK v \in archives :
          archives' = (archives \ {v})
            \cup {[v EXCEPT !.check = IF v.sound THEN "ok" ELSE "failed"]}
    BY <1>3 DEF Verify
  <2> DEFINE w == [v EXCEPT !.check = IF v.sound THEN "ok" ELSE "failed"]
  <2>2. w.db = v.db /\ w.docs = v.docs
    BY DEF TypeOK, Saved
  <2> HIDE DEF w
  <2>3. archives' = (archives \ {v}) \cup {w}
    BY <2>1 DEF w
  <2> QED  BY <2>2, <2>3
<1>4. CASE Damage
  <2>1. PICK v \in archives :
          archives' = (archives \ {v})
            \cup {[v EXCEPT !.sound = FALSE, !.check = CheckAfterDamage(v)]}
    BY <1>4 DEF Damage
  <2> DEFINE w == [v EXCEPT !.sound = FALSE, !.check = CheckAfterDamage(v)]
  <2>2. w.db = v.db /\ w.docs = v.docs
    BY DEF TypeOK, Saved
  <2> HIDE DEF w
  <2>3. archives' = (archives \ {v}) \cup {w}
    BY <2>1 DEF w
  <2> QED  BY <2>2, <2>3
<1> QED
  BY <1>1, <1>2, <1>3, <1>4 DEF Next, Work, vars, Upload, Delete, StartBackup,
     StartRestore, CopyDb, Snapshot, InstallDb, Stage, InstallDocs, PutBack,
     RollbackDb, RollbackDocs, Crash

LEMMA Progresses ==
  ASSUME BackupInv, [Next]_vars
  PROVE  Progress'
<1> USE DEF BackupInv
<1>1. CASE Upload \/ Delete
  BY <1>1 DEF Upload, Delete, Serving, Saving, Answered, NoJob, Progress, Installing
<1>2. CASE StartBackup
  BY <1>2 DEF StartBackup, NoJob, Progress, Installing, Saving, TypeOK, Jobs
<1>3. CASE StartRestore
  BY <1>3 DEF StartRestore, NoJob, Progress, Installing, Saving
<1>4. CASE Verify
  BY <1>4 DEF Verify, Progress, Installing
<1>5. CASE Damage
  <2>1. \A names \in SUBSET Names, dir \in Directories : Safe(names, dir) => Safe(names, dir)'
    BY ArchivesKept, SafeStays
  <2>2. /\ db \in SUBSET Names /\ docs \in Directories
        /\ job.snapDb \in SUBSET Names /\ job.snapDocs \in Directories
    BY DEF TypeOK, Jobs
  <2>3. UNCHANGED <<db, docs, pc, job>>
    BY <1>5 DEF Damage
  <2>4. (pc' = "snapshot" => Safe(db, docs)') /\ (Installing' => Safe(job.snapDb, job.snapDocs)')
    <3>1. pc = "snapshot" => Safe(db, docs)
      BY DEF Progress
    <3>2. Installing => Safe(job.snapDb, job.snapDocs)
      BY DEF Progress
    <3>3. Safe(db, docs) => Safe(db, docs)'
      BY <2>1, <2>2, <2>3 DEF Safe
    <3>4. Safe(job.snapDb, job.snapDocs) => Safe(job.snapDb, job.snapDocs)'
      <4> DEFINE names == job.snapDb
                 dir == job.snapDocs
      <4>1. Safe(names, dir) => \E b \in archives' : b.db = names /\ b.docs = names \cap Files(dir)
        BY ArchivesKept DEF Safe
      <4>2. job' = job
        BY <2>3
      <4> QED  BY <4>1, <4>2 DEF Safe, Files
    <3>5. pc' = pc /\ (Installing' <=> Installing)
      BY <2>3 DEF Installing
    <3> QED  BY  <3>1, <3>2, <3>3, <3>4, <3>5
  <2> QED  BY <2>3, <2>4 DEF Progress, Installing, Saving
<1>6. CASE CopyDb
  BY <1>6 DEF CopyDb, Abandon, NoJob, Progress, Installing, Saving, TypeOK, Jobs
<1>7. CASE CopyDocs
  <2>1. CASE Saving \/ Abandon
    BY <1>7, <2>1 DEF CopyDocs, Abandon, Progress, Installing, Saving
  <2>2. CASE ~ Saving /\ ~ Abandon
    <3>1. Archive(db, Archived(db)) \in archives' /\ UNCHANGED <<db, docs>>
      BY <1>7, <2>2 DEF CopyDocs, Kept, Progress
    <3>2. Safe(db, docs)'
      BY <3>1 DEF Archive, Archived, Safe
    <3> QED  BY <1>7, <2>2, <3>2 DEF CopyDocs, Progress, Installing, Saving
  <2> QED  BY <2>1, <2>2
<1>8. CASE Snapshot
  <2>1. CASE Abandon
    BY <1>8, <2>1 DEF Snapshot, Abandon, Progress, Installing
  <2>2. CASE ~ Abandon
    <3>1. /\ job' = [job EXCEPT !.snapDb = db, !.snapDocs = docs] /\ pc' = "installDb"
          /\ UNCHANGED <<db, docs, archives>>
      BY <1>8, <2>2 DEF Snapshot
    <3>2. /\ job'.snapDb = db /\ job'.snapDocs = docs /\ job'.result = job.result
          /\ job'.documentsStarted = job.documentsStarted /\ job'.failed = job.failed
      BY <3>1 DEF TypeOK, Jobs
    <3> QED  BY <1>8, <3>1, <3>2 DEF Snapshot, Progress, Installing, Safe
  <2> QED  BY <2>1, <2>2
<1>9. CASE InstallDb
  BY <1>9 DEF InstallDb, Started, Fail, Progress, Installing, Safe, TypeOK, Jobs
<1>10. CASE Stage
  BY <1>10 DEF Stage, Fail, Progress, Installing, Safe, TypeOK, Jobs
<1>11. CASE InstallDocs
  BY <1>11 DEF InstallDocs, Progress, Installing, Safe
<1>12. CASE PutBack
  BY <1>12 DEF PutBack, Fail, Progress, Installing, Safe
<1>13. CASE RollbackDb
  BY <1>13 DEF RollbackDb, Progress, Installing, Safe, TypeOK, Jobs
<1>14. CASE RollbackDocs
  BY <1>14 DEF RollbackDocs, Progress, Installing
<1>15. CASE Crash
  BY <1>15 DEF Crash, Progress, Installing
<1>16. CASE UNCHANGED vars
  BY <1>16 DEF vars, Progress, Installing, Saving, Safe
<1> QED
  BY <1>1, <1>2, <1>3, <1>4, <1>5, <1>6, <1>7, <1>8, <1>9, <1>10, <1>11, <1>12,
     <1>13, <1>14, <1>15, <1>16 DEF Next, Work

LEMMA Inductive == BackupInv /\ [Next]_vars => BackupInv'
  BY Typed, Progresses DEF BackupInv

-----------------------------------------------------------------------------
(* Before anything is replaced *)

\* restore_backup, create_backup: a restore begins to replace files only once
\* an archive holds what is there, and that archive is kept until it ends.
THEOREM SafetyArchiveFirstHolds == Spec => []SafetyArchiveFirst
<1>1. BackupInv => SafetyArchiveFirst
  <2> SUFFICES ASSUME BackupInv, Installing
               PROVE  \E a \in archives : /\ a.db = job.snapDb
                                          /\ a.docs = a.db \cap Files(job.snapDocs)
    BY DEF SafetyArchiveFirst
  <2> QED  BY DEF BackupInv, Progress, Safe
<1> QED  BY <1>1, Initial, Inductive, PTL DEF Spec

-----------------------------------------------------------------------------
(* Atomicity *)

Contents == [db : SUBSET Names, docs : SUBSET Names]
Target == [db |-> job.goal.db, docs |-> job.goal.docs]
Status == IF Installing THEN "restoring"
          ELSE IF job.result \in {"none", "saving"} THEN "idle" ELSE job.result

LEMMA ContentsTyped ==
  ASSUME TypeOK
  PROVE  Stored \in Contents /\ Target \in Contents
  BY FilesAreNames DEF TypeOK, Jobs, Saved, Stored, Target, Contents

\* The steps of the promise, on what is stored, the target and the status.
Writes == Status # "restoring" /\ Status' = "idle"
Begins == Status # "restoring" /\ Status' = "restoring" /\ UNCHANGED Stored
Ends == /\ Status = "restoring" /\ UNCHANGED Target
        /\ \/ Stored' = Target /\ Status' = "restored"
           \/ UNCHANGED Stored /\ Status' = "undone"
           \/ Status' = "broken"
Stutters == UNCHANGED <<Stored, Target, Status>>

\* Until it installs, a restore or a backup that gives up leaves no trace but
\* the archive.
LEMMA Preparation ==
  ASSUME BackupInv, Next, ~ Installing, ~ Installing'
  PROVE  Writes \/ Stutters
<1> USE DEF BackupInv
<1>1. job.result \in {"none", "saving", "restored", "undone", "broken"} /\ pc \in Steps
  BY DEF TypeOK, Jobs
<1>2. Status # "restoring"
  BY <1>1 DEF Status
<1>3. CASE Upload \/ Delete
  BY <1>1, <1>2, <1>3 DEF Upload, Delete, Serving, Saving, Answered, NoJob, Status, Writes
<1>4. CASE StartBackup
  <2>1. job'.result = "saving"
    BY <1>4 DEF StartBackup, NoJob
  <2> QED  BY <1>2, <2>1 DEF Writes, Status
<1>5. CASE StartRestore
  <2>1. job'.result = "none"
    BY <1>5 DEF StartRestore, NoJob
  <2> QED  BY <1>2, <2>1 DEF Writes, Status
<1>6. CASE Verify
  <2>1. job'.result = "none"
    BY <1>6 DEF Verify, Answered, NoJob
  <2> QED  BY <1>2, <2>1 DEF Writes, Status
<1>7. CASE Damage
  BY <1>7 DEF Damage, Stutters, Stored, Target, Status, Installing
<1>8. CASE CopyDb
  <2>1. CASE Abandon
    BY <1>2, <2>1 DEF Abandon, NoJob, Writes, Status
  <2>2. CASE ~ Abandon
    <3>1. job' = [job EXCEPT !.copy = db] /\ UNCHANGED <<db, docs>>
      BY <1>8, <2>2 DEF CopyDb
    <3>2. job'.goal = job.goal /\ job'.result = job.result
      BY <3>1 DEF TypeOK, Jobs
    <3> QED  BY <3>1, <3>2 DEF Stutters, Stored, Target, Status
  <2> QED  BY <2>1, <2>2
<1>9. CASE CopyDocs
  <2>1. CASE job' = NoJob
    BY <1>2, <2>1 DEF NoJob, Writes, Status
  <2>2. CASE job' # NoJob
    BY <1>9, <2>2 DEF CopyDocs, Abandon, Stutters, Stored, Target, Status
  <2> QED  BY <2>1, <2>2
<1>10. CASE Snapshot
  <2>1. CASE Abandon
    BY <1>2, <2>1 DEF Abandon, NoJob, Writes, Status
  <2>2. CASE ~ Abandon
    BY <1>10, <2>2 DEF Snapshot, Installing
  <2> QED  BY <2>1, <2>2
<1>11. CASE InstallDb \/ Stage \/ InstallDocs \/ PutBack \/ RollbackDb \/ RollbackDocs
  BY <1>11 DEF InstallDb, Stage, InstallDocs, PutBack, RollbackDb, RollbackDocs, Installing
<1>12. CASE Crash
  <2>1. job' = NoJob
    BY <1>1, <1>12 DEF Crash, Installing, Steps
  <2> QED  BY <1>2, <2>1 DEF NoJob, Writes, Status
<1> QED
  BY <1>3, <1>4, <1>5, <1>6, <1>7, <1>8, <1>9, <1>10, <1>11, <1>12 DEF Next, Work

\* The snapshot is of what is stored.
LEMMA Beginning ==
  ASSUME BackupInv, Next, ~ Installing, Installing'
  PROVE  Begins
<1> USE DEF BackupInv
<1>1. Snapshot /\ pc' = "installDb"
  BY DEF Next, Work, Upload, Delete, StartBackup, StartRestore, Verify, Damage, CopyDb,
         CopyDocs, Snapshot, Abandon, InstallDb, Stage, InstallDocs, PutBack,
         RollbackDb, RollbackDocs, Crash, Installing, Serving, Saving
<1>2. job' = [job EXCEPT !.snapDb = db, !.snapDocs = docs]
  BY <1>1 DEF Snapshot, Abandon
<1>3. job'.snapDb = db /\ job'.snapDocs = docs /\ job.result = "none"
  BY <1>1, <1>2 DEF TypeOK, Jobs, Progress, Snapshot
<1>4. UNCHANGED Stored
  BY <1>3 DEF Stored
<1> QED  BY <1>3, <1>4 DEF Begins, Status

\* While files are replaced, what is stored is what the rollback would put back.
LEMMA Middle ==
  ASSUME BackupInv, Next, Installing, Installing'
  PROVE  Stutters
<1> USE DEF BackupInv
<1>1. job'.snapDb = job.snapDb /\ job'.snapDocs = job.snapDocs /\ job'.goal = job.goal
  <2>1. job' = job \/ job' = Started(job) \/ job' = [job EXCEPT !.aside = docs]
        \/ job' = [job EXCEPT !.failed = TRUE]
    BY DEF Next, Work, Upload, Delete, StartBackup, StartRestore, Verify, Damage,
           CopyDb, CopyDocs, Snapshot, InstallDb, Stage, InstallDocs, PutBack,
           RollbackDb, RollbackDocs, Crash, Installing, Serving, Saving, Fail
  <2> QED  BY <2>1 DEF TypeOK, Jobs, Started
<1> QED  BY <1>1 DEF Stutters, Stored, Target, Status

\* The last step of a restore: whole, undone, or declared broken.
LEMMA Ending ==
  ASSUME NamesAssumption, BackupInv, Next, Installing, ~ Installing'
  PROVE  Ends
<1> USE DEF BackupInv
<1>1. Status = "restoring"
  BY DEF Status
<1>2. CASE InstallDocs
  <2>1. job' = [job EXCEPT !.result = "restored"] /\ docs' = job.goal.docs /\ db' = job.goal.db
    BY <1>2 DEF InstallDocs, Installing, Progress
  <2>2. job'.goal = job.goal /\ job'.result = "restored"
    BY <2>1 DEF TypeOK, Jobs
  <2>3. job.goal.docs # NoDir
    BY DEF NamesAssumption, NoDir, TypeOK, Jobs, Saved
  <2>4. Stored' = Target
    BY <2>1, <2>3 DEF Stored, Target, Files
  <2> QED  BY <1>1, <2>2, <2>4 DEF Ends, Target, Status
<1>3. CASE RollbackDocs
  <2>1. PICK failed \in BOOLEAN :
          /\ job' = [job EXCEPT !.failed = failed, !.result = Outcome(failed)]
          /\ ~ failed => ~ job.failed /\ docs' = job.snapDocs
    BY <1>3 DEF RollbackDocs, TypeOK, Jobs, Progress
  <2>2. job'.goal = job.goal /\ job'.result = Outcome(failed)
    BY <2>1 DEF TypeOK, Jobs
  <2>3. CASE failed
    BY <1>1, <2>2, <2>3 DEF Ends, Target, Status, Outcome
  <2>4. CASE ~ failed
    <3>1. db' = job.snapDb /\ docs' = job.snapDocs
      BY <1>3, <2>1, <2>4 DEF RollbackDocs, Progress
    <3>2. UNCHANGED Stored
      BY <3>1 DEF Stored
    <3> QED  BY <1>1, <2>2, <2>4, <3>2 DEF Ends, Target, Status, Outcome
  <2> QED  BY <2>3, <2>4
<1>4. CASE Crash
  <2>1. job' = [job EXCEPT !.result = "broken"]
    BY <1>4 DEF Crash, Installing, Saving
  <2>2. job'.goal = job.goal /\ job'.result = "broken"
    BY <2>1 DEF TypeOK, Jobs
  <2> QED  BY <1>1, <2>2 DEF Ends, Target, Status
<1> QED
  BY <1>2, <1>3, <1>4 DEF Next, Work, Upload, Delete, StartBackup, StartRestore,
     Verify, Damage, CopyDb, CopyDocs, Snapshot, InstallDb, Stage, PutBack, RollbackDb,
     Fail, Installing, Serving, Saving

\* The four cases are steps of AtomicRestore.
LEMMA Implements ==
  ASSUME NamesAssumption, BackupInv, BackupInv', [Next]_vars
  PROVE  Promise!Next \/ Stutters
<1>1. Stored' \in Contents /\ Target' \in Contents
  BY FilesAreNames DEF BackupInv, TypeOK, Jobs, Saved, Stored, Target, Contents
<1>2. CASE UNCHANGED vars
  BY <1>2 DEF vars, Stutters, Stored, Target, Status, Installing
<1>3. CASE Writes
  BY <1>1, <1>3 DEF Writes, Contents, Target, Status, Promise!Next, Promise!Write
<1>4. CASE Begins
  BY <1>1, <1>4 DEF Begins, Contents, Target, Status, Promise!Next, Promise!Begin
<1>5. CASE Ends
  BY <1>1, <1>5 DEF Ends, Contents, Target, Status, Promise!Next, Promise!Restored,
                    Promise!Undone, Promise!Broken
<1> QED
  BY <1>2, <1>3, <1>4, <1>5, Preparation, Beginning, Middle, Ending

LEMMA Starts == Init => Promise!Init
<1> SUFFICES ASSUME Init PROVE Promise!Init
  OBVIOUS
<1>1. Stored \in Contents /\ Target \in Contents
  BY Initial, ContentsTyped DEF BackupInv
<1>2. ~ Installing /\ job.result = "none"
  BY DEF Init, Installing, NoJob
<1> QED  BY <1>1, <1>2 DEF Contents, Target, Promise!Init

\* restore_backup: whatever file operations fail, a restore installs the archive
\* whole or leaves what was stored, unless its rollback failed or the process died.
THEOREM FileRestoreIsAtomicHolds ==
  ASSUME NamesAssumption
  PROVE  Spec => FileRestoreIsAtomic
<1>1. Init => Promise!Init
  BY Starts
<1>2. BackupInv /\ BackupInv' /\ [Next]_vars => Promise!Next \/ Stutters
  BY Implements, NamesAssumption
<1>3. Init => BackupInv
  BY Initial
<1>4. BackupInv /\ [Next]_vars => BackupInv'
  BY Inductive
<1> QED
  BY <1>1, <1>2, <1>3, <1>4, PTL DEF Spec, FileRestoreIsAtomic, Promise!Spec, Stutters,
     Target, Status
(***************************************************************************)
(* Documents and dossiers, when nothing else runs while a restore does.    *)
(*                                                                         *)
(* ReadableUnlessWithdrawn is not inductive. A step keeps it because of    *)
(* three facts about other pieces of state: only the holder of the         *)
(* transaction is between an object and its row (Exclusive); no two        *)
(* accounts register one name, and a name being uploaded is fresh          *)
(* (NamesApart); a restore knows at each step which files its rows and     *)
(* those of the other accounts need, and spares them (RestoreHolds).       *)
(***************************************************************************)

Writing == {"upload", "complete", "delete", "commit"}
Replacings == {"sync", "put", "list", "prune", "undoPut", "undoList", "undoPrune", "undoRows"}
Stages == {"idle", "begin", "read", "gather", "remember", "snapshot", "protect", "replace",
           "ended"} \cup Writing \cup Replacings
Dossier == [owner : Owners \cup {"nobody"}, docs : SUBSET Nat, sound : BOOLEAN]
Request == [pc : Stages, kind : {"none", "upload", "complete", "delete", "export", "restore"},
            owner : Owners \cup {"nobody"}, name : Nat, goal : Dossier,
            payload : SUBSET Nat, snapshot : SUBSET Nat, managed : SUBSET Nat,
            before : SUBSET Nat, todo : SUBSET Nat,
            result : {"none", "restored", "undone", "broken"}]

\* The names whose object an accident or a refused request of their own took.
Gone == lost \cup withdrawn

DossierTypes ==
  /\ rows \in [Owners -> SUBSET Nat]
  /\ objects \in SUBSET Nat /\ Gone \in SUBSET Nat
  /\ dossiers \in SUBSET Dossier
  /\ req \in [Slots -> Request]
  /\ spent \in Nat

\* The kind of a request tells the steps it may be at.
KindFits(x) ==
  /\ x.pc = "idle" => x = A!Idle
  /\ x.pc # "idle" => x.owner \in Owners
  /\ x.pc = "begin" => x.kind \in {"upload", "complete", "delete"}
  /\ x.pc \in {"upload", "complete", "delete"} => x.kind = x.pc
  /\ x.pc = "commit" => x.kind \in {"upload", "complete", "delete"}
  /\ x.pc \in {"read", "gather", "remember"} => x.kind \in {"export", "restore"}
  /\ x.pc \in {"snapshot", "protect", "replace", "ended"} \cup Replacings
       => x.kind = "restore"
  /\ x.pc \in {"read", "gather", "remember", "snapshot", "protect", "replace", "sync"}
       => x.before = {}

\* One writer, and a restore is alone.
Exclusive ==
  /\ \A r \in Slots : req[r].pc \in Writing => lock = r
  /\ \A r, q \in Slots : A!Restoring(r) /\ A!Running(q) => q = r

\* The names handed out, and those a request has read.
Handed == {n \in Nat : n <= spent}
Held(x) == x.payload \cup x.snapshot \cup x.goal.docs \cup x.before
Uploading(r) == A!Running(r) /\ req[r].kind = "upload"

\* A name is handed out once; no two accounts register it; one being uploaded is
\* of no row yet, and of no object before its file is put.
NamesApart ==
  /\ objects \subseteq Handed
  /\ \A o \in Owners : rows[o] \subseteq Handed
  /\ \A a \in dossiers : a.docs \subseteq Handed
  /\ \A r \in Slots : Held(req[r]) \subseteq Handed
  /\ \A o, p \in Owners : o # p => rows[o] \cap rows[p] = {}
  /\ \A r \in Slots : Uploading(r) =>
       /\ req[r].name \in Handed
       /\ \A o \in Owners : req[r].name \notin rows[o]
       /\ req[r].pc # "commit" => req[r].name \notin objects
  /\ \A r, q \in Slots : Uploading(r) /\ Uploading(q) /\ req[r].name = req[q].name
                           => r = q

\* What a request that is about to register a document has in hand.
InHand(r) ==
  req[r].pc = "commit" /\ req[r].kind \in {"upload", "complete"} =>
    /\ req[r].name \in objects
    /\ \A o \in Owners : req[r].name \notin rows[o]

\* What a restore knows of the rows and the files at each of its steps.
RestoreHolds(r) == A!Restoring(r) =>
  LET x == req[r]
      o == x.owner
  IN
  /\ x.pc \in {"gather", "remember"} => x.payload = rows[o]
  /\ x.pc \in {"remember", "snapshot", "protect", "replace"} => rows[o] \subseteq objects
  /\ x.pc \in {"protect", "replace"} => x.snapshot = rows[o]
  /\ x.pc \in {"replace", "sync", "put", "list", "prune"}
       => \A p \in Owners \ {o} : rows[p] \subseteq x.managed
  /\ x.pc \in {"sync", "put", "list", "prune", "undoPut", "undoList", "undoPrune"}
       => rows[o] = x.goal.docs
  /\ x.pc = "sync" => x.snapshot \subseteq objects
  /\ x.pc \in {"put", "list", "prune", "undoPut", "undoList", "undoPrune"}
       => /\ x.snapshot \subseteq x.before
          /\ \A p \in Owners \ {o} : /\ rows[p] \subseteq x.before \cup Gone
                                     /\ rows[p] \cap objects \subseteq x.before
  /\ x.pc = "put" => x.todo \subseteq x.goal.docs /\ x.goal.docs \subseteq objects \cup x.todo
  /\ x.pc \in {"list", "prune"} => x.goal.docs \subseteq objects
  /\ x.pc = "prune" => x.todo \cap (x.goal.docs \cup x.managed) = {}
  /\ x.pc = "undoPut" => x.todo \subseteq x.before /\ x.before \subseteq objects \cup x.todo
  /\ x.pc \in {"undoList", "undoPrune"} => x.before \subseteq objects
  /\ x.pc = "undoPrune" => x.todo \cap x.before = {}
  /\ x.pc = "undoRows" /\ x.result # "broken"
       => x.snapshot \subseteq objects /\ x.before \subseteq objects
  /\ x.pc = "ended" /\ x.result = "restored"
       => rows[o] = x.goal.docs /\ rows[o] \subseteq objects
  /\ x.pc = "ended" /\ x.result = "undone"
       => rows[o] = x.snapshot /\ x.before \subseteq objects

\* A document can be read, is gone, or its account is changing it.
Covered ==
  \A o \in Owners : \A n \in rows[o] :
    \/ n \in objects \cup Gone
    \/ \E r \in Slots : req[r].owner = o /\ (A!Replacing(r) \/ n \in A!Dangling(r))

DossierInv ==
  /\ DossierTypes
  /\ \A r \in Slots : KindFits(req[r]) /\ InHand(r) /\ RestoreHolds(r)
  /\ Exclusive
  /\ NamesApart
  /\ Covered

\* The other requests do not change.
Only(r) == req' \in [Slots -> Request] /\ \A q \in Slots \ {r} : req'[q] = req[q]

\* The fields of a request other than those of a set.
Keeps(r, fields) ==
  \A f \in {"pc", "kind", "owner", "name", "goal", "payload", "snapshot", "managed",
            "before", "todo", "result"} \ fields : req'[r][f] = req[r][f]

LEMMA GotoIs ==
  ASSUME NEW r \in Slots, NEW stage \in Stages, DossierTypes, A!Goto(r, stage)
  PROVE  /\ Only(r)
         /\ req'[r].pc = stage /\ Keeps(r, {"pc"})
<1> DEFINE x == [req[r] EXCEPT !.pc = stage]
<1>1. req[r] \in Request
  BY DEF DossierTypes
<1>2. x \in Request /\ x.pc = stage
  BY <1>1 DEF Request
<1>3. req' = [req EXCEPT ![r] = x]
  BY DEF A!Goto
<1>4. Only(r) /\ req'[r] = x
  BY <1>2, <1>3 DEF Only, DossierTypes
<1> QED  BY <1>1, <1>2, <1>4 DEF Keeps, Request

\* Records with some fields replaced are records of requests.
LEMMA Replaced ==
  ASSUME NEW z \in Request, NEW stage \in Stages, NEW S \in SUBSET Nat, NEW T \in SUBSET Nat,
         NEW result \in {"none", "restored", "undone", "broken"}
  PROVE  /\ [z EXCEPT !.payload = S, !.pc = stage] \in Request
         /\ [z EXCEPT !.snapshot = S, !.pc = stage] \in Request
         /\ [z EXCEPT !.managed = S, !.pc = stage] \in Request
         /\ [z EXCEPT !.before = S, !.todo = T, !.pc = stage] \in Request
         /\ [z EXCEPT !.todo = S, !.pc = stage] \in Request
         /\ [z EXCEPT !.pc = stage, !.todo = S] \in Request
         /\ [z EXCEPT !.todo = S] \in Request
         /\ [z EXCEPT !.pc = stage, !.result = result] \in Request
<1>1. [z EXCEPT !.payload = S, !.pc = stage] \in Request
  BY DEF Request
<1>2. [z EXCEPT !.snapshot = S, !.pc = stage] \in Request
  BY DEF Request
<1>3. [z EXCEPT !.managed = S, !.pc = stage] \in Request
  BY DEF Request
<1>4. [z EXCEPT !.before = S, !.todo = T, !.pc = stage] \in Request
  BY DEF Request
<1>5. [z EXCEPT !.todo = S, !.pc = stage] \in Request
  BY DEF Request
<1>6. [z EXCEPT !.pc = stage, !.todo = S] \in Request
  BY DEF Request
<1>7. [z EXCEPT !.todo = S] \in Request
  BY DEF Request
<1>8. [z EXCEPT !.pc = stage, !.result = result] \in Request
  BY DEF Request
<1> QED  BY <1>1, <1>2, <1>3, <1>4, <1>5, <1>6, <1>7, <1>8

LEMMA IdleIn == A!Idle \in Request /\ A!NoArchive \in Dossier
<1>1. A!NoArchive \in Dossier
  BY DEF A!NoArchive, A!Nobody, Dossier
<1> HIDE DEF Dossier
<1> QED  BY <1>1 DEF A!Idle, A!Nobody, Request, Stages

LEMMA RequestStarts ==
  ASSUME NEW r \in Slots, NEW kind \in {"upload", "complete", "delete", "export", "restore"},
         NEW o \in Owners, NEW n \in Nat, NEW goal \in Dossier, NEW stage \in {"begin", "read"},
         DossierTypes, A!Start(r, kind, o, n, goal, stage)
  PROVE  /\ Only(r) /\ A!MayStart(r, kind)
         /\ req'[r].pc = stage /\ req'[r].kind = kind /\ req'[r].owner = o
         /\ req'[r].name = n /\ req'[r].goal = goal
         /\ req'[r].payload = {} /\ req'[r].snapshot = {} /\ req'[r].before = {}
<1> DEFINE x == [A!Idle EXCEPT !.pc = stage, !.kind = kind, !.owner = o, !.name = n,
                               !.goal = goal]
<1>1. stage \in Stages
  BY DEF Stages
<1>2. x \in Request
  BY <1>1, IdleIn DEF Request
<1>3. /\ x.pc = stage /\ x.kind = kind /\ x.owner = o /\ x.name = n /\ x.goal = goal
      /\ x.payload = {} /\ x.snapshot = {} /\ x.before = {}
  BY DEF A!Idle
<1>4. req' = [req EXCEPT ![r] = x] /\ A!MayStart(r, kind)
  BY DEF A!Start
<1>5. Only(r) /\ req'[r] = x
  <2> HIDE DEF x
  <2> QED  BY <1>2, <1>4 DEF Only, DossierTypes
<1>6. /\ req'[r].pc = stage /\ req'[r].kind = kind /\ req'[r].owner = o
      /\ req'[r].name = n /\ req'[r].goal = goal
      /\ req'[r].payload = {} /\ req'[r].snapshot = {} /\ req'[r].before = {}
  <2> HIDE DEF x
  <2> QED  BY <1>3, <1>5
<1> QED  BY <1>4, <1>5, <1>6

LEMMA KeepsFields ==
  ASSUME NEW r, NEW F, Keeps(r, F)
  PROVE  /\ "pc" \notin F => req'[r].pc = req[r].pc
         /\ "kind" \notin F => req'[r].kind = req[r].kind
         /\ "owner" \notin F => req'[r].owner = req[r].owner
         /\ "name" \notin F => req'[r].name = req[r].name
         /\ "goal" \notin F => req'[r].goal = req[r].goal
         /\ "payload" \notin F => req'[r].payload = req[r].payload
         /\ "snapshot" \notin F => req'[r].snapshot = req[r].snapshot
         /\ "managed" \notin F => req'[r].managed = req[r].managed
         /\ "before" \notin F => req'[r].before = req[r].before
         /\ "todo" \notin F => req'[r].todo = req[r].todo
         /\ "result" \notin F => req'[r].result = req[r].result
  BY DEF Keeps

-----------------------------------------------------------------------------
(* What a step keeps *)

\* Names stay apart when a request touches only what it has handed out, registers
\* no name of another account and puts no file of another upload.
LEMMA NamesKept ==
  ASSUME NEW r \in Slots, NamesApart, Only(r), spent' = spent,
         objects' \subseteq Handed,
         \A o \in Owners : rows'[o] \subseteq Handed,
         \A a \in dossiers' : a.docs \subseteq Handed,
         Held(req'[r]) \subseteq Handed,
         \A o, p \in Owners : o # p => rows'[o] \cap rows'[p] = {},
         \A q \in Slots \ {r} : Uploading(q) =>
           /\ \A o \in Owners : req[q].name \notin rows'[o]
           /\ req[q].pc # "commit" => req[q].name \notin objects',
         Uploading(r)' =>
           /\ Uploading(r) /\ req'[r].name = req[r].name
           /\ \A o \in Owners : req[r].name \notin rows'[o]
           /\ req'[r].pc # "commit" => req[r].name \notin objects'
  PROVE  NamesApart'
<1>1. Handed' = Handed
  BY DEF Handed
<1>2. ASSUME NEW q \in Slots, Uploading(q)'
      PROVE  /\ Uploading(q) /\ req'[q].name = req[q].name
             /\ \A o \in Owners : req[q].name \notin rows'[o]
             /\ req'[q].pc # "commit" => req[q].name \notin objects'
  <2>1. CASE q = r
    BY <1>2, <2>1
  <2>2. CASE q # r
    <3>1. req'[q] = req[q]
      BY <2>2 DEF Only
    <3>2. Uploading(q)
      BY <1>2, <3>1 DEF Uploading, A!Running
    <3> QED  BY <2>2, <3>1, <3>2
  <2> QED  BY <2>1, <2>2
<1>3. \A q \in Slots : Held(req'[q]) \subseteq Handed
  BY DEF Only, NamesApart
<1>4. \A q \in Slots : Held(req[q])' = Held(req'[q])
  BY DEF Held
<1>5. \A q \in Slots : Uploading(q)' =>
        /\ req'[q].name \in Handed
        /\ \A o \in Owners : req'[q].name \notin rows'[o]
        /\ req'[q].pc # "commit" => req'[q].name \notin objects'
  BY <1>2 DEF NamesApart
<1>6. \A p, q \in Slots : Uploading(p)' /\ Uploading(q)' /\ req'[p].name = req'[q].name
                            => p = q
  BY <1>2 DEF NamesApart
<1> HIDE DEF Handed, Held
<1> QED  BY <1>1, <1>3, <1>4, <1>5, <1>6 DEF NamesApart

\* The files a request of a document may change: its own if it uploads, or fewer.
Touches(r) == \/ objects' \subseteq objects
              \/ Uploading(r) /\ objects' = objects \cup {req[r].name}

\* Names stay apart when no row changes.
LEMMA NamesStay ==
  ASSUME NEW r \in Slots, NamesApart, Only(r), spent' = spent, rows' = rows, Touches(r),
         \A a \in dossiers' : a.docs \subseteq Handed,
         Held(req'[r]) \subseteq Handed,
         Uploading(r)' => /\ Uploading(r) /\ req'[r].name = req[r].name
                          /\ req'[r].pc = "commit" \/ /\ objects' = objects
                                                      /\ req[r].pc # "commit"
  PROVE  NamesApart'
<1>1. objects' \subseteq Handed
  BY DEF NamesApart, Touches
<1>2. ASSUME NEW q \in Slots \ {r}, Uploading(q)
      PROVE  /\ \A o \in Owners : req[q].name \notin rows[o]
             /\ req[q].pc # "commit" => req[q].name \notin objects'
  BY <1>2 DEF NamesApart, Touches
<1>3. Uploading(r)' => /\ \A o \in Owners : req[r].name \notin rows[o]
                       /\ req'[r].pc # "commit" => req[r].name \notin objects'
  BY DEF NamesApart
<1>4. /\ \A o \in Owners : rows[o] \subseteq Handed
      /\ \A o, p \in Owners : o # p => rows[o] \cap rows[p] = {}
  BY DEF NamesApart
<1> HIDE DEF Handed, Held, Touches, Uploading
<1> QED  BY <1>1, <1>2, <1>3, <1>4, NamesKept

\* The documents that could be read can be read, in the same rows.
LEMMA ReadableKept ==
  ASSUME NEW r \in Slots, Covered, Only(r), rows' = rows,
         \A o \in Owners : \A n \in rows[o] :
           \/ n \in objects \cup Gone
           \/ req[r].owner = o /\ (A!Replacing(r) \/ n \in A!Dangling(r))
           => \/ n \in objects' \cup Gone'
              \/ req'[r].owner = o /\ (A!Replacing(r)' \/ n \in A!Dangling(r)')
  PROVE  Covered'
<1> SUFFICES ASSUME NEW o \in Owners, NEW n \in rows[o]
             PROVE  \/ n \in objects' \cup Gone'
                    \/ \E q \in Slots : /\ req'[q].owner = o
                                        /\ A!Replacing(q)' \/ n \in A!Dangling(q)'
  BY DEF Covered
<1>1. CASE \E q \in Slots \ {r} : /\ req[q].owner = o
                                  /\ A!Replacing(q) \/ n \in A!Dangling(q)
  BY <1>1 DEF Only, A!Replacing, A!Restoring, A!Running, A!Dangling
<1>2. CASE \/ n \in objects \cup Gone
           \/ req[r].owner = o /\ (A!Replacing(r) \/ n \in A!Dangling(r))
  BY <1>2
<1> QED  BY <1>1, <1>2 DEF Covered

LEMMA StepKeepsDossiers ==
  ASSUME NEW r \in Slots, DossierInv, A!Running(r), DossierTypes', Only(r),
         req'[r].pc = "idle" \/ req'[r].kind = req[r].kind,
         KindFits(req'[r]), InHand(r)', RestoreHolds(r)', NamesApart',
         Covered',
         req'[r].pc \in Writing => lock' = r,
         \A q \in Slots \ {r} : lock = q => lock' = q,
         (\E q \in Slots \ {r} : req[q].pc = "commit")
           => objects \subseteq objects' /\ rows' = rows
  PROVE  DossierInv'
<1>1. ASSUME NEW q \in Slots \ {r}
      PROVE  KindFits(req'[q]) /\ InHand(q)' /\ RestoreHolds(q)'
  <2>1. req'[q] = req[q]
    BY DEF Only
  <2>2. ~ A!Restoring(q)
    BY DEF DossierInv, Exclusive
  <2>3. KindFits(req[q]) /\ InHand(q)
    BY DEF DossierInv
  <2> QED  BY <2>1, <2>2, <2>3 DEF InHand, RestoreHolds, A!Restoring, A!Running
<1>2. Exclusive'
  <2>1. ASSUME NEW q \in Slots, req'[q].pc \in Writing PROVE lock' = q
    BY <2>1 DEF Only, DossierInv, Exclusive
  <2>2. \A q \in Slots : /\ A!Restoring(q)' => A!Restoring(q)
                         /\ A!Running(q)' => A!Running(q)
    BY DEF Only, A!Restoring, A!Running
  <2> QED  BY <2>1, <2>2 DEF DossierInv, Exclusive
<1> QED  BY <1>1, <1>2 DEF DossierInv

-----------------------------------------------------------------------------
(* Requests that end *)

LEMMA EndIs ==
  ASSUME NEW r \in Slots, DossierTypes, A!End(r)
  PROVE  /\ Only(r) /\ req'[r] = A!Idle
         /\ \A q \in Slots \ {r} : lock = q => lock' = q
<1>1. req' = [req EXCEPT ![r] = A!Idle]
  BY DEF A!End
<1>2. Only(r) /\ req'[r] = A!Idle
  <2> HIDE DEF Request
  <2> QED  BY <1>1, IdleIn DEF Only, DossierTypes
<1> QED  BY <1>2 DEF A!End, A!Released

LEMMA IdleHolds ==
  ASSUME NEW r, req'[r] = A!Idle
  PROVE  /\ KindFits(req'[r]) /\ InHand(r)' /\ RestoreHolds(r)' /\ ~ Uploading(r)'
         /\ Held(req'[r]) = {} /\ req'[r].pc = "idle"
<1>1. /\ A!Idle.pc = "idle" /\ A!Idle.payload = {} /\ A!Idle.snapshot = {}
      /\ A!Idle.goal = A!NoArchive /\ A!Idle.before = {}
  BY DEF A!Idle
<1>2. A!NoArchive.docs = {}
  BY DEF A!NoArchive
<1>3. KindFits(A!Idle)
  BY <1>1 DEF KindFits, Replacings
<1> QED  BY <1>1, <1>2, <1>3 DEF InHand, RestoreHolds, Uploading, Held, A!Running,
            A!Restoring

\* The archive a request adds.
Added(r) == [owner |-> req[r].owner, docs |-> req[r].payload, sound |-> TRUE]

LEMMA AddedIs ==
  ASSUME NEW r \in Slots, DossierInv, A!Running(r)
  PROVE  /\ Added(r) \in Dossier
         /\ Added(r).docs \subseteq Handed
<1>1. req[r] \in Request /\ req[r].owner \in Owners
  BY DEF DossierInv, DossierTypes, KindFits, A!Running
<1>2. req[r].payload \in SUBSET Nat
  BY <1>1 DEF Request
<1>3. req[r].payload \subseteq Handed
  BY DEF DossierInv, NamesApart, Held
<1> QED  BY <1>1, <1>2, <1>3 DEF Added, Dossier

LEMMA EndKeeps ==
  ASSUME NEW r \in Slots, DossierInv, A!Running(r), A!End(r), rows' = rows,
         objects' \in SUBSET Nat, Gone' \in SUBSET Nat, spent' = spent,
         dossiers' \in {dossiers, dossiers \cup {Added(r)}},
         \A o \in Owners : \A n \in rows[o] : n \in objects \cup Gone
                                               => n \in objects' \cup Gone',
         \A n \in rows[req[r].owner] : A!Replacing(r) \/ n \in A!Dangling(r)
                                               => n \in objects' \cup Gone',
         (\E q \in Slots \ {r} : req[q].pc = "commit") => objects \subseteq objects',
         Touches(r)
  PROVE  DossierInv'
<1>1. /\ DossierTypes /\ NamesApart /\ Covered
  BY DEF DossierInv
<1>2. /\ Only(r) /\ req'[r] = A!Idle
      /\ \A q \in Slots \ {r} : lock = q => lock' = q
  BY <1>1, EndIs
<1>3. /\ KindFits(req'[r]) /\ InHand(r)' /\ RestoreHolds(r)' /\ ~ Uploading(r)'
      /\ Held(req'[r]) = {} /\ req'[r].pc = "idle"
  BY <1>2, IdleHolds
<1>4. DossierTypes'
  BY <1>1, <1>2, AddedIs DEF DossierTypes, Only
<1>5. \A a \in dossiers' : a.docs \subseteq Handed
  BY <1>1, AddedIs DEF NamesApart
<1>6. NamesApart'
  BY <1>1, <1>2, <1>3, <1>5, NamesStay
<1>7. Covered'
  BY <1>1, <1>2, ReadableKept
<1>8. "idle" \notin Writing
  BY DEF Writing
<1> QED  BY <1>2, <1>3, <1>4, <1>6, <1>7, <1>8, StepKeepsDossiers

\* A step that ends and touches neither rows nor files, archives apart.
LEMMA PlainEnd ==
  ASSUME NEW r \in Slots, DossierInv, A!Running(r), A!End(r), rows' = rows,
         objects' = objects, Gone' = Gone, spent' = spent,
         dossiers' \in {dossiers, dossiers \cup {Added(r)}},
         ~ A!Replacing(r), A!Dangling(r) = {}
  PROVE  DossierInv'
  BY EndKeeps DEF DossierInv, DossierTypes, Touches

-----------------------------------------------------------------------------
(* Documents *)

\* While a request other than a restore runs, no restore does.
LEMMA NoRestore ==
  ASSUME NEW r \in Slots, DossierInv, A!Running(r), req[r].kind # "restore"
  PROVE  \A q \in Slots : ~ A!Restoring(q)
  BY DEF DossierInv, Exclusive, A!Restoring

\* A request other than a restore goes on, with the rows as they are.
LEMMA GoesOn ==
  ASSUME NEW r \in Slots, NEW stage \in Stages, DossierInv, A!Running(r),
         req[r].kind # "restore", A!Goto(r, stage), rows' = rows,
         objects' \in SUBSET Nat, Gone' = Gone, spent' = spent,
         dossiers' = dossiers,
         \/ stage \in {"upload", "complete", "delete"} /\ req[r].kind = stage
         \/ stage = "commit" /\ req[r].kind \in {"upload", "complete", "delete"}
         \/ stage \in {"gather", "remember"} /\ req[r].kind = "export"
              /\ req[r].before = {},
         stage \in Writing => lock' = r,
         \A q \in Slots \ {r} : lock = q => lock' = q,
         (\E q \in Slots \ {r} : req[q].pc = "commit") => objects \subseteq objects',
         stage = "commit" /\ req[r].kind \in {"upload", "complete"}
           => req[r].name \in objects' /\ \A o \in Owners : req[r].name \notin rows[o],
         req[r].pc # "commit",
         Touches(r), objects' = objects \/ stage = "commit",
         \A o \in Owners : \A n \in rows[o] :
           n \in objects => \/ n \in objects'
                            \/ /\ req[r].owner = o /\ stage = "commit"
                               /\ req[r].kind = "delete" /\ n = req[r].name
  PROVE  DossierInv'
<1>1. /\ DossierTypes /\ NamesApart /\ Covered /\ InHand(r)
  BY DEF DossierInv
<1>2. Only(r) /\ req'[r].pc = stage /\ Keeps(r, {"pc"})
  BY <1>1, GotoIs
<1>3. /\ req'[r].kind = req[r].kind /\ req'[r].owner = req[r].owner
      /\ req'[r].name = req[r].name /\ req'[r].goal = req[r].goal
      /\ req'[r].payload = req[r].payload /\ req'[r].snapshot = req[r].snapshot
      /\ req'[r].before = req[r].before
  BY <1>2, KeepsFields
<1>4. KindFits(req'[r])
  <2>1. req[r].owner \in Owners
    BY DEF DossierInv, KindFits, A!Running
  <2> QED  BY <1>2, <1>3, <2>1 DEF KindFits, Replacings
<1>5. DossierTypes'
  BY <1>1, <1>2 DEF DossierTypes, Only
<1>6. InHand(r)'
  BY <1>1, <1>2, <1>3 DEF InHand
<1>7. RestoreHolds(r)'
  BY <1>3 DEF RestoreHolds, A!Restoring
<1>8. Uploading(r)' => Uploading(r)
  BY <1>3 DEF Uploading
<1>13. Held(req'[r]) \subseteq Handed
  BY <1>1, <1>3 DEF NamesApart, Held
<1>9. NamesApart'
  <2>1. \A a \in dossiers' : a.docs \subseteq Handed
    BY <1>1 DEF NamesApart
  <2> QED  BY <1>1, <1>2, <1>3, <1>8, <1>13, <2>1, NamesStay
<1>10. Covered'
  <2>1. ~ A!Replacing(r) /\ A!Dangling(r) = {}
    BY DEF A!Replacing, A!Restoring, A!Dangling
  <2> SUFFICES ASSUME NEW o \in Owners, NEW n \in rows[o], n \in objects \cup Gone
               PROVE  \/ n \in objects' \cup Gone'
                      \/ req'[r].owner = o /\ n \in A!Dangling(r)'
    BY <1>1, <1>2, <2>1, ReadableKept
  <2> QED  BY <1>2, <1>3 DEF A!Dangling
<1> QED  BY <1>2, <1>3, <1>4, <1>5, <1>6, <1>7, <1>9, <1>10, StepKeepsDossiers

LEMMA BeginKeeps ==
  ASSUME NEW r \in Slots, DossierInv, A!Begin(r)
  PROVE  DossierInv'
<1>1. /\ req[r].pc = "begin" /\ A!Running(r)
      /\ req[r].kind \in {"upload", "complete", "delete"}
  BY DEF A!Begin, DossierInv, KindFits, A!Running
<1>2. /\ A!Goto(r, req[r].kind) /\ lock = "nobody" /\ lock' = r
      /\ UNCHANGED <<rows, objects, dossiers, spent, Gone>>
  BY DEF A!Begin, A!Fixed, A!Nobody, Gone
<1>3. req[r].kind \in Stages
  BY <1>1 DEF Stages, Writing
<1>4. \A q \in Slots : lock # q
  BY <1>2, RequestsAssumption DEF A!SlotsAssumption
<1>5. objects' \in SUBSET Nat
  BY <1>2 DEF DossierInv, DossierTypes
<1>6. Touches(r)
  BY <1>2 DEF Touches
<1> QED  BY <1>1, <1>2, <1>3, <1>4, <1>5, <1>6, GoesOn

LEMMA GiveUpKeeps ==
  ASSUME NEW r \in Slots, DossierInv, A!GiveUp(r)
  PROVE  DossierInv'
  BY PlainEnd DEF A!GiveUp, A!Fixed, A!Running, A!Replacing, A!Dangling, Gone

\* The holder of the transaction is the only one that may be about to commit.
LEMMA OneWriter ==
  ASSUME NEW r \in Slots, DossierInv, req[r].pc \in Writing
  PROVE  \A q \in Slots \ {r} : req[q].pc \notin Writing
  BY DEF DossierInv, Exclusive

\* What a step that leaves the excuses alone says of them.
LEMMA SameGone ==
  ASSUME UNCHANGED <<lost, withdrawn>>
  PROVE  Gone' = Gone
  BY DEF Gone

LEMMA PutObjectKeeps ==
  ASSUME NEW r \in Slots, DossierInv, A!PutObject(r)
  PROVE  DossierInv'
<1>1. /\ req[r].pc = "upload" /\ A!Running(r) /\ req[r].kind = "upload"
      /\ req[r].name \in Nat /\ lock = r /\ objects \in SUBSET Nat /\ Uploading(r)
  BY DEF A!PutObject, DossierInv, DossierTypes, KindFits, A!Running, Request, Exclusive,
     Writing, Uploading
<1>2. UNCHANGED <<rows, dossiers, spent, Gone>>
  BY SameGone DEF A!PutObject, A!Fixed
<1>3. CASE /\ objects' = objects \cup {req[r].name}
           /\ A!Goto(r, "commit") /\ UNCHANGED lock
  <2>1. "commit" \in Stages
    BY DEF Stages, Writing
  <2>2. Touches(r)
    BY <1>1, <1>3 DEF Touches
  <2>3. \A o \in Owners : req[r].name \notin rows[o]
    BY <1>1 DEF DossierInv, NamesApart
  <2> QED  BY <1>1, <1>2, <1>3, <2>1, <2>2, <2>3, GoesOn
<1>4. CASE A!End(r) /\ objects' \in {objects, objects \cup {req[r].name}}
  <2>1. Touches(r)
    BY <1>1, <1>4 DEF Touches
  <2>2. ~ A!Replacing(r) /\ A!Dangling(r) = {}
    BY <1>1 DEF A!Replacing, A!Dangling
  <2>3. objects' \in SUBSET Nat /\ Gone' \in SUBSET Nat
    BY <1>1, <1>2, <1>4 DEF DossierInv, DossierTypes
  <2> QED  BY <1>1, <1>2, <1>4, <2>1, <2>2, <2>3, EndKeeps
<1> QED  BY <1>3, <1>4 DEF A!PutObject, A!Unconfirmed

\* A refused request that erased a file, or did not, and says which rows lost it.
LEMMA WithdrawnKeeps ==
  ASSUME NEW r \in Slots, DossierInv, req[r].pc \in {"complete", "delete"}, A!End(r),
         A!Withdraws, UNCHANGED <<rows, dossiers, spent, lost>>,
         objects' \in {objects, objects \ {req[r].name}}
  PROVE  DossierInv'
<1>1. /\ A!Running(r) /\ objects \in SUBSET Nat /\ Gone \in SUBSET Nat
      /\ ~ A!Replacing(r) /\ A!Dangling(r) = {}
  BY DEF DossierInv, DossierTypes, A!Running, A!Replacing, A!Dangling
<1>2. Gone' = Gone \cup ((objects \ objects') \cap UNION {rows[o] : o \in Owners})
  BY DEF A!Withdraws, Gone
<1>3. ~ \E q \in Slots \ {r} : req[q].pc = "commit"
  BY OneWriter DEF Writing
<1>4. \A o \in Owners : \A n \in rows[o] : n \in objects \cup Gone
                                               => n \in objects' \cup Gone'
  BY <1>2
<1>5. objects' \in SUBSET Nat /\ Gone' \in SUBSET Nat
  BY <1>1, <1>2
<1>6. Touches(r)
  BY DEF Touches
<1> QED  BY <1>1, <1>3, <1>4, <1>5, <1>6, EndKeeps

LEMMA CheckUploadKeeps ==
  ASSUME NEW r \in Slots, DossierInv, A!CheckUpload(r)
  PROVE  DossierInv'
<1> DEFINE n == req[r].name
<1>1. /\ req[r].pc = "complete" /\ A!Running(r) /\ req[r].kind = "complete"
      /\ lock = r /\ objects \in SUBSET Nat
  BY DEF A!CheckUpload, DossierInv, DossierTypes, KindFits, A!Running, Exclusive, Writing
<1>2. UNCHANGED <<rows, dossiers, spent, lost>>
  BY DEF A!CheckUpload, A!Fixed
<1>3. CASE /\ n \in objects /\ \A o \in Owners : n \notin rows[o]
           /\ A!Goto(r, "commit") /\ UNCHANGED <<objects, lock, withdrawn>>
  <2>1. "commit" \in Stages
    BY DEF Stages, Writing
  <2>2. Touches(r) /\ Gone' = Gone
    BY <1>2, <1>3, SameGone DEF Touches
  <2> QED  BY <1>1, <1>2, <1>3, <2>1, <2>2, GoesOn
<1>4. CASE A!End(r) /\ UNCHANGED <<objects, withdrawn>>
  <2>1. Gone' = Gone
    BY <1>2, <1>4, SameGone
  <2> QED  BY <1>1, <1>2, <1>4, <2>1, PlainEnd DEF A!Replacing, A!Dangling
<1>5. CASE A!End(r) /\ A!Withdraws /\ objects' \in {objects, objects \ {n}}
  BY <1>1, <1>2, <1>5, WithdrawnKeeps
<1> QED  BY <1>1, <1>3, <1>4, <1>5 DEF A!CheckUpload, A!Discarded, A!Unconfirmed, A!Erased

LEMMA EraseObjectKeeps ==
  ASSUME NEW r \in Slots, DossierInv, A!EraseObject(r)
  PROVE  DossierInv'
<1>1. /\ req[r].pc = "delete" /\ A!Running(r) /\ req[r].kind = "delete"
      /\ lock = r /\ objects \in SUBSET Nat /\ req[r].owner \in Owners
  BY DEF A!EraseObject, DossierInv, DossierTypes, KindFits, A!Running, Exclusive, Writing
<1>2. UNCHANGED <<rows, dossiers, spent, lost>>
  BY DEF A!EraseObject, A!Fixed
<1>3. CASE /\ req[r].name \in rows[req[r].owner]
           /\ objects' = objects \ {req[r].name}
           /\ A!Goto(r, "commit") /\ UNCHANGED <<lock, withdrawn>>
  <2>1. "commit" \in Stages
    BY DEF Stages, Writing
  <2>2. ~ \E q \in Slots \ {r} : req[q].pc = "commit"
    BY <1>1, OneWriter DEF Writing
  <2>3. \A o \in Owners : req[r].name \in rows[o] => req[r].owner = o
    BY <1>1, <1>3 DEF DossierInv, NamesApart
  <2>4. Touches(r) /\ Gone' = Gone
    BY <1>2, <1>3, SameGone DEF Touches
  <2> QED  BY <1>1, <1>2, <1>3, <2>1, <2>2, <2>3, <2>4, GoesOn
<1>4. CASE A!End(r) /\ UNCHANGED <<objects, withdrawn>>
  <2>1. Gone' = Gone
    BY <1>2, <1>4, SameGone
  <2> QED  BY <1>1, <1>2, <1>4, <2>1, PlainEnd DEF A!Replacing, A!Dangling
<1>5. CASE A!End(r) /\ A!Withdraws /\ objects' \in {objects, objects \ {req[r].name}}
  BY <1>1, <1>2, <1>5, WithdrawnKeeps
<1> QED  BY <1>3, <1>4, <1>5 DEF A!EraseObject, A!Unconfirmed, A!Erased

LEMMA CommitFailsKeeps ==
  ASSUME NEW r \in Slots, DossierInv, A!CommitFails(r)
  PROVE  DossierInv'
<1>1. /\ req[r].pc = "commit" /\ A!Running(r)
      /\ req[r].kind \in {"upload", "complete", "delete"}
      /\ objects \in SUBSET Nat /\ Gone \in SUBSET Nat /\ req[r].name \in Nat
      /\ A!End(r)
  BY DEF A!CommitFails, DossierInv, DossierTypes, KindFits, A!Running, Request
<1>2. UNCHANGED <<rows, dossiers, spent>> /\ Gone' = Gone \cup A!Dangling(r)
  BY DEF A!CommitFails, Gone
<1>3. objects' \in {objects, objects \ A!Discarded(req[r].kind, req[r].name)}
  BY DEF A!CommitFails
<1>4. \A o \in Owners : \A n \in rows[o] : n \in objects => n \in objects'
  <2>1. req[r].kind = "upload" => \A o \in Owners : req[r].name \notin rows[o]
    BY <1>1 DEF DossierInv, InHand
  <2> QED  BY <1>3, <2>1 DEF A!Discarded
<1>5. ~ A!Replacing(r)
  BY <1>1 DEF A!Replacing
<1>6. ~ \E q \in Slots \ {r} : req[q].pc = "commit"
  BY <1>1, OneWriter DEF Writing
<1>7. Gone' \in SUBSET Nat
  BY <1>1, <1>2 DEF A!Dangling
<1>8. objects' \in SUBSET Nat /\ Touches(r)
  BY <1>1, <1>3 DEF Touches
<1> QED  BY <1>1, <1>2, <1>4, <1>5, <1>6, <1>7, <1>8, EndKeeps

LEMMA CommitKeeps ==
  ASSUME NEW r \in Slots, DossierInv, A!Commit(r)
  PROVE  DossierInv'
<1> DEFINE o == req[r].owner
           n == req[r].name
           kind == req[r].kind
<1>1. /\ req[r].pc = "commit" /\ A!Running(r) /\ o \in Owners
      /\ kind \in {"upload", "complete", "delete"} /\ n \in Nat
      /\ kind \in {"upload", "complete"} =>
           n \in objects /\ \A p \in Owners : n \notin rows[p]
  BY DEF A!Commit, DossierInv, DossierTypes, KindFits, A!Running, Request, InHand
<1>2. /\ rows' = [rows EXCEPT ![o] = A!Registered(r)] /\ A!End(r)
      /\ UNCHANGED <<dossiers, spent, Gone, objects>>
  BY SameGone DEF A!Commit, A!Fixed
<1>3. /\ Only(r) /\ req'[r] = A!Idle
      /\ \A q \in Slots \ {r} : lock = q => lock' = q
  BY <1>2, EndIs DEF DossierInv
<1>4. /\ KindFits(req'[r]) /\ InHand(r)' /\ RestoreHolds(r)' /\ ~ Uploading(r)'
      /\ Held(req'[r]) = {} /\ req'[r].pc = "idle"
  BY <1>3, IdleHolds
<1>5. /\ rows'[o] = IF kind = "delete" THEN rows[o] \ {n} ELSE rows[o] \cup {n}
      /\ \A p \in Owners \ {o} : rows'[p] = rows[p]
      /\ rows' \in [Owners -> SUBSET Nat]
  BY <1>1, <1>2 DEF DossierInv, DossierTypes, A!Registered
<1>6. DossierTypes'
  BY <1>2, <1>3, <1>5 DEF DossierInv, DossierTypes, Only
<1>7. NamesApart
  BY DEF DossierInv
<1>8. NamesApart'
  <2>1. \A p \in Owners : rows'[p] \subseteq Handed
    BY <1>1, <1>5, <1>7 DEF NamesApart
  <2>2. \A p, q \in Owners : p # q => rows'[p] \cap rows'[q] = {}
    BY <1>1, <1>5, <1>7 DEF NamesApart
  <2>3. ASSUME NEW q \in Slots \ {r}, Uploading(q)
        PROVE  /\ \A p \in Owners : req[q].name \notin rows'[p]
               /\ req[q].pc # "commit" => req[q].name \notin objects
    <3>1. req[q].pc # "commit"
      BY <1>1, OneWriter DEF Writing
    <3>2. /\ req[q].name \notin objects
          /\ \A p \in Owners : req[q].name \notin rows[p]
      BY <1>7, <2>3, <3>1 DEF NamesApart
    <3> QED  BY <1>1, <1>5, <3>2
  <2>4. objects \subseteq Handed /\ \A a \in dossiers : a.docs \subseteq Handed
    BY <1>7 DEF NamesApart
  <2> HIDE DEF Handed, Held, Uploading, o, n, kind
  <2> QED  BY <1>2, <1>3, <1>4, <1>7, <2>1, <2>2, <2>3, <2>4, NamesKept
<1>9. \A q \in Slots : ~ A!Restoring(q) /\ (q # r => req[q].pc # "commit")
  BY <1>1, NoRestore, OneWriter DEF Writing
<1>10. ASSUME NEW p \in Owners, NEW m \in rows[p]
       PROVE  m \in objects \cup Gone \/ (p = o /\ m \in A!Dangling(r))
  BY <1>9 DEF DossierInv, Covered, A!Replacing, A!Dangling
<1>11. Covered'
  <2> SUFFICES ASSUME NEW p \in Owners, NEW m \in rows'[p] PROVE m \in objects \cup Gone
    BY <1>2 DEF Covered
  <2>1. CASE m \in rows[p]
    BY <1>5, <1>10, <2>1 DEF A!Dangling
  <2>2. CASE m \notin rows[p]
    BY <1>1, <1>5, <2>2
  <2> QED  BY <2>1, <2>2
<1>12. "idle" \notin Writing
  BY DEF Writing
<1> QED  BY <1>1, <1>2, <1>3, <1>4, <1>6, <1>8, <1>9, <1>11, <1>12,
            StepKeepsDossiers

-----------------------------------------------------------------------------
(* Dossiers *)

\* A restore is alone, and only its own rows may be without their files.
LEMMA RestoreAlone ==
  ASSUME NEW r \in Slots, DossierInv, A!Restoring(r)
  PROVE  /\ \A q \in Slots \ {r} : ~ A!Running(q)
         /\ \A p \in Owners : \A n \in rows[p] :
              n \in objects \cup Gone \/ (p = req[r].owner /\ A!Replacing(r))
         /\ req[r].owner \in Owners /\ req[r] \in Request /\ A!Running(r)
         /\ objects \in SUBSET Nat /\ Gone \in SUBSET Nat
<1>1. \A q \in Slots \ {r} : ~ A!Running(q)
  BY DEF DossierInv, Exclusive
<1>2. \A q \in Slots \ {r} : ~ A!Replacing(q) /\ A!Dangling(q) = {}
  BY <1>1 DEF A!Replacing, A!Restoring, A!Dangling, A!Running
<1>3. A!Dangling(r) = {}
  BY DEF A!Restoring, A!Dangling
<1>4. req[r].owner \in Owners /\ req[r] \in Request /\ A!Running(r)
      /\ objects \in SUBSET Nat /\ Gone \in SUBSET Nat
  BY DEF DossierInv, DossierTypes, KindFits, A!Restoring, A!Running
<1> QED  BY <1>1, <1>2, <1>3, <1>4 DEF DossierInv, Covered

LEMMA RestoreStep ==
  ASSUME NEW r \in Slots, DossierInv, A!Restoring(r), Only(r),
         rows' \in [Owners -> SUBSET Nat], objects' \in SUBSET Nat, Gone' \in SUBSET Nat,
         dossiers' \in {dossiers, dossiers \cup {Added(r)}},
         spent' = spent, lock' = lock,
         req'[r].kind = req[r].kind, req'[r].owner = req[r].owner,
         req'[r].goal = req[r].goal,
         req'[r].payload \in {req[r].payload, rows[req[r].owner]},
         req'[r].snapshot \in {req[r].snapshot, rows[req[r].owner]},
         req'[r].pc \in {"gather", "remember", "snapshot", "protect", "replace", "ended"}
                          \cup Replacings,
         req'[r].pc \in {"gather", "remember", "snapshot", "protect", "replace", "sync"}
           => req'[r].before = {},
         req'[r].before \in {req[r].before, objects},
         objects' \subseteq objects \cup req[r].goal.docs \cup req[r].before,
         \A p \in Owners :
           \/ rows'[p] = rows[p]
           \/ /\ p = req[r].owner /\ rows'[p] \in {req[r].goal.docs, req[r].snapshot}
              /\ \A q \in Owners \ {p} : rows'[p] \cap rows[q] = {},
         \A p \in Owners : \A n \in rows'[p] :
           \/ n \in objects' \cup Gone'
           \/ p = req[r].owner /\ req'[r].pc \in Replacings,
         RestoreHolds(r)'
  PROVE  DossierInv'
<1>1. /\ A!Running(r) /\ req[r].owner \in Owners /\ req[r].kind = "restore"
      /\ \A q \in Slots \ {r} : ~ A!Running(q)
  BY RestoreAlone DEF A!Restoring
<1>2. DossierTypes'
  BY <1>1, AddedIs DEF DossierInv, DossierTypes, Only
<1>3. KindFits(req'[r])
  BY <1>1 DEF KindFits, Replacings
<1>4. InHand(r)'
  BY <1>1 DEF InHand
<1>5. ~ Uploading(r)'
  BY <1>1 DEF Uploading
<1>6. NamesApart'
  <2>1. NamesApart /\ Held(req[r]) \subseteq Handed
    BY DEF DossierInv, NamesApart
  <2>2. /\ req[r].goal.docs \subseteq Handed /\ req[r].snapshot \subseteq Handed
        /\ req[r].payload \subseteq Handed /\ req[r].before \subseteq Handed
    BY <2>1 DEF Held
  <2>3. /\ objects \subseteq Handed /\ \A p \in Owners : rows[p] \subseteq Handed
        /\ \A a \in dossiers : a.docs \subseteq Handed
    BY <2>1 DEF NamesApart
  <2> HIDE DEF Handed
  <2>4. objects' \subseteq Handed
    BY <2>2, <2>3
  <2>5. \A p \in Owners : rows'[p] \subseteq Handed
    BY <2>2, <2>3
  <2>6. \A a \in dossiers' : a.docs \subseteq Handed
    BY <1>1, <2>3, AddedIs
  <2>7. Held(req'[r]) \subseteq Handed
    BY <1>1, <2>2, <2>3 DEF Held
  <2>8. \A p, q \in Owners : p # q => rows'[p] \cap rows'[q] = {}
    BY <2>1 DEF NamesApart
  <2>9. \A q \in Slots : ~ Uploading(q)
    BY <1>1 DEF Uploading
  <2> HIDE DEF Held, Uploading
  <2> QED  BY <1>5, <2>1, <2>4, <2>5, <2>6, <2>7, <2>8, <2>9, NamesKept
<1>7. Covered'
  <2>1. req'[r].pc \in Replacings => A!Replacing(r)'
    BY <1>1 DEF A!Replacing, A!Restoring, A!Running, Replacings
  <2> QED  BY <2>1 DEF Covered
<1>8. req'[r].pc \notin Writing
  BY DEF Writing, Replacings
<1>9. ~ \E q \in Slots \ {r} : req[q].pc = "commit"
  BY <1>1 DEF A!Running
<1> QED  BY <1>1, <1>2, <1>3, <1>4, <1>6, <1>7, <1>8, <1>9, StepKeepsDossiers

\* Fields set together.
LEMMA FieldsSet ==
  ASSUME NEW r \in Slots, DossierTypes, NEW x \in Request, req' = [req EXCEPT ![r] = x]
  PROVE  Only(r) /\ req'[r] = x
<1> HIDE DEF Request
<1> QED  BY DEF Only, DossierTypes

LEMMA ReadPayloadKeeps ==
  ASSUME NEW r \in Slots, DossierInv, A!ReadPayload(r)
  PROVE  DossierInv'
<1> DEFINE o == req[r].owner
           S == rows[o]
           x == [req[r] EXCEPT !.payload = S, !.pc = "gather"]
<1>1. /\ req[r].pc = "read" /\ A!Running(r) /\ req[r].kind \in {"export", "restore"}
      /\ req[r].before = {} /\ req[r] \in Request /\ o \in Owners
      /\ DossierTypes /\ NamesApart /\ Covered
  BY DEF A!ReadPayload, DossierInv, DossierTypes, KindFits, A!Running
<1>2. S \in SUBSET Nat /\ "gather" \in Stages
  BY <1>1 DEF DossierTypes, Stages
<1>3. UNCHANGED <<rows, objects, dossiers, lock, spent, Gone>>
  BY SameGone DEF A!ReadPayload, A!Quiet
<1>4. /\ x \in Request /\ x.pc = "gather" /\ x.payload = S
      /\ x.kind = req[r].kind /\ x.owner = o /\ x.snapshot = req[r].snapshot
      /\ x.goal = req[r].goal /\ x.before = req[r].before
  <2>1. x \in Request
    <3> HIDE DEF S
    <3> QED  BY <1>1, <1>2, Replaced
  <2> QED  BY <1>1, <2>1 DEF Request
<1>5. Only(r) /\ req'[r] = x
  <2>1. req' = [req EXCEPT ![r] = x]
    BY DEF A!ReadPayload
  <2> HIDE DEF x
  <2> QED  BY <1>1, <1>4, <2>1, FieldsSet
<1> HIDE DEF x
<1>6. KindFits(req'[r])
  BY <1>1, <1>4, <1>5 DEF KindFits, Replacings
<1>7. InHand(r)' /\ ~ Uploading(r)'
  BY <1>1, <1>4, <1>5 DEF InHand, Uploading
<1>8. RestoreHolds(r)'
  BY <1>3, <1>4, <1>5 DEF RestoreHolds
<1>9. DossierTypes'
  BY <1>1, <1>3, <1>5 DEF DossierTypes, Only
<1>10. NamesApart'
  <2>1. Held(req'[r]) \subseteq Handed /\ \A a \in dossiers' : a.docs \subseteq Handed
    BY <1>1, <1>3, <1>4, <1>5 DEF NamesApart, Held
  <2>2. Touches(r)
    BY <1>3 DEF Touches
  <2> QED  BY <1>1, <1>3, <1>5, <1>7, <2>1, <2>2, NamesStay
<1>11. Covered'
  BY <1>1, <1>3, <1>5, ReadableKept DEF A!Replacing, A!Dangling
<1>12. "gather" \notin Writing
  BY DEF Writing
<1> QED  BY <1>1, <1>3, <1>4, <1>5, <1>6, <1>7, <1>8, <1>9, <1>10, <1>11, <1>12,
            StepKeepsDossiers

\* A restore moves to its next step and nothing else changes but its archive.
LEMMA RestoreMoves ==
  ASSUME NEW r \in Slots, DossierInv, A!Restoring(r), NEW stage \in Stages,
         A!Goto(r, stage), rows' = rows, objects' = objects, Gone' = Gone,
         dossiers' \in {dossiers, dossiers \cup {Added(r)}},
         spent' = spent, lock' = lock,
         stage \in {"remember", "snapshot"},
         req[r].before = {},
         stage = "remember" => req[r].payload = rows[req[r].owner],
         rows[req[r].owner] \subseteq objects, ~ A!Replacing(r)
  PROVE  DossierInv'
<1>1. Only(r) /\ req'[r].pc = stage /\ Keeps(r, {"pc"})
  BY GotoIs DEF DossierInv
<1>2. /\ req'[r].kind = req[r].kind /\ req'[r].owner = req[r].owner
      /\ req'[r].goal = req[r].goal /\ req'[r].payload = req[r].payload
      /\ req'[r].snapshot = req[r].snapshot /\ req'[r].before = req[r].before
  BY <1>1, KeepsFields
<1>3. RestoreHolds(r)'
  BY <1>1, <1>2 DEF RestoreHolds
<1>4. rows \in [Owners -> SUBSET Nat]
  BY DEF DossierInv, DossierTypes
<1>5. \A p \in Owners : \A n \in rows'[p] : n \in objects' \cup Gone'
  BY RestoreAlone
<1>6. objects' \in SUBSET Nat /\ Gone' \in SUBSET Nat
  BY RestoreAlone
<1> QED  BY <1>1, <1>2, <1>3, <1>4, <1>5, <1>6, RestoreStep

LEMMA GatherKeeps ==
  ASSUME NEW r \in Slots, DossierInv, A!Gather(r)
  PROVE  DossierInv'
<1>1. /\ req[r].pc = "gather" /\ A!Running(r) /\ req[r].kind \in {"export", "restore"}
      /\ req[r].before = {} /\ "remember" \in Stages /\ "remember" \notin Writing
      /\ objects \in SUBSET Nat
  BY DEF A!Gather, DossierInv, DossierTypes, KindFits, A!Running, Stages, Writing
<1>2. UNCHANGED <<rows, objects, dossiers, spent, Gone>>
  BY SameGone DEF A!Gather, A!Fixed
<1>3. ~ A!Replacing(r) /\ A!Dangling(r) = {}
  BY <1>1 DEF A!Replacing, A!Dangling
<1>4. CASE A!End(r)
  BY <1>1, <1>2, <1>3, <1>4, PlainEnd
<1>5. CASE req[r].payload \subseteq objects /\ A!Goto(r, "remember") /\ UNCHANGED lock
  <2>1. CASE req[r].kind = "export"
    BY <1>1, <1>2, <1>5, <2>1, GoesOn DEF Touches
  <2>2. CASE req[r].kind = "restore"
    <3>1. A!Restoring(r)
      BY <1>1, <2>2 DEF A!Restoring
    <3>2. req[r].payload = rows[req[r].owner]
      BY <1>1, <3>1 DEF DossierInv, RestoreHolds
    <3> QED  BY <1>1, <1>2, <1>3, <1>5, <3>1, <3>2, RestoreMoves
  <2> QED  BY <1>1, <2>1, <2>2
<1> QED  BY <1>4, <1>5 DEF A!Gather

LEMMA RememberKeeps ==
  ASSUME NEW r \in Slots, DossierInv, A!Remember(r)
  PROVE  DossierInv'
<1>1. /\ req[r].pc = "remember" /\ A!Running(r) /\ req[r].kind \in {"export", "restore"}
      /\ req[r].before = {} /\ "snapshot" \in Stages
  BY DEF A!Remember, DossierInv, KindFits, A!Running, Stages
<1>2. UNCHANGED <<rows, objects, spent, Gone>>
  BY SameGone DEF A!Remember
<1>3. ~ A!Replacing(r) /\ A!Dangling(r) = {}
  BY <1>1 DEF A!Replacing, A!Dangling
<1>4. CASE A!End(r) /\ UNCHANGED dossiers
  BY <1>1, <1>2, <1>3, <1>4, PlainEnd
<1>5. CASE A!End(r) /\ dossiers' = dossiers \cup {Added(r)}
  BY <1>1, <1>2, <1>3, <1>5, PlainEnd
<1>6. CASE /\ dossiers' = dossiers \cup {Added(r)} /\ req[r].kind = "restore"
           /\ A!Goto(r, "snapshot") /\ UNCHANGED lock
  <2>1. A!Restoring(r)
    BY <1>1, <1>6 DEF A!Restoring
  <2>2. rows[req[r].owner] \subseteq objects
    BY <1>1, <2>1 DEF DossierInv, RestoreHolds
  <2> QED  BY <1>1, <1>2, <1>3, <1>6, <2>1, <2>2, RestoreMoves
<1> QED  BY <1>4, <1>5, <1>6 DEF A!Remember, Added

\* The steps of a restore alone.
LEMMA RestoreStage ==
  ASSUME NEW r \in Slots, DossierInv,
         req[r].pc \in {"snapshot", "protect", "replace", "ended"} \cup Replacings
  PROVE  /\ A!Restoring(r) /\ RestoreHolds(r) /\ req[r] \in Request
         /\ req[r].kind = "restore" /\ req[r].owner \in Owners
         /\ req[r].pc \in {"snapshot", "protect", "replace", "sync"} => req[r].before = {}
         /\ rows \in [Owners -> SUBSET Nat] /\ DossierTypes
  BY DEF DossierInv, DossierTypes, KindFits, A!Restoring, A!Running, Replacings

LEMMA SnapshotKeeps ==
  ASSUME NEW r \in Slots, DossierInv, A!Snapshot(r)
  PROVE  DossierInv'
<1> DEFINE o == req[r].owner
           S == rows[o]
           x == [req[r] EXCEPT !.snapshot = S, !.pc = "protect"]
<1>1. req[r].pc = "snapshot"
  BY DEF A!Snapshot
<1>2. /\ A!Restoring(r) /\ RestoreHolds(r) /\ req[r] \in Request
      /\ o \in Owners /\ req[r].before = {}
      /\ rows \in [Owners -> SUBSET Nat] /\ DossierTypes
  BY <1>1, RestoreStage
<1>3. UNCHANGED <<rows, objects, dossiers, lock, spent, Gone>>
  BY SameGone DEF A!Snapshot, A!Quiet
<1>4. /\ x \in Request /\ x.pc = "protect" /\ x.payload = req[r].payload
      /\ x.kind = req[r].kind /\ x.owner = o /\ x.snapshot = S
      /\ x.goal = req[r].goal /\ x.before = req[r].before
  <2>1. x \in Request
    <3>1. S \in SUBSET Nat /\ "protect" \in Stages
      BY <1>2 DEF Stages
    <3> HIDE DEF S
    <3> QED  BY <1>2, <3>1, Replaced
  <2> QED  BY <1>2, <2>1 DEF Request
<1>5. Only(r) /\ req'[r] = x
  <2>1. req' = [req EXCEPT ![r] = x]
    BY DEF A!Snapshot
  <2> HIDE DEF x
  <2> QED  BY <1>2, <1>4, <2>1, FieldsSet
<1> HIDE DEF x
<1>6. rows[o] \subseteq objects
  BY <1>1, <1>2 DEF RestoreHolds
<1>7. RestoreHolds(r)'
  BY <1>3, <1>4, <1>5, <1>6 DEF RestoreHolds
<1>8. \A p \in Owners : \A n \in rows'[p] : n \in objects' \cup Gone'
  BY <1>1, <1>2, <1>3, RestoreAlone DEF A!Replacing
<1>9. objects' \in SUBSET Nat /\ Gone' \in SUBSET Nat
  BY <1>2, <1>3, RestoreAlone
<1> QED  BY <1>2, <1>3, <1>4, <1>5, <1>7, <1>8, <1>9, RestoreStep

LEMMA ProtectKeeps ==
  ASSUME NEW r \in Slots, DossierInv, A!Protect(r)
  PROVE  DossierInv'
<1> DEFINE o == req[r].owner
           S == A!OtherNames(o)
           x == [req[r] EXCEPT !.managed = S, !.pc = "replace"]
<1>1. req[r].pc = "protect"
  BY DEF A!Protect
<1>2. /\ A!Restoring(r) /\ RestoreHolds(r) /\ req[r] \in Request
      /\ o \in Owners /\ req[r].before = {}
      /\ rows \in [Owners -> SUBSET Nat] /\ DossierTypes
  BY <1>1, RestoreStage
<1>3. UNCHANGED <<rows, objects, dossiers, lock, spent, Gone>>
  BY SameGone DEF A!Protect, A!Quiet
<1>10. S \in SUBSET Nat /\ \A p \in Owners \ {o} : rows[p] \subseteq S
  BY <1>2 DEF A!OtherNames
<1>4. /\ x \in Request /\ x.pc = "replace" /\ x.payload = req[r].payload
      /\ x.kind = req[r].kind /\ x.owner = o /\ x.snapshot = req[r].snapshot
      /\ x.goal = req[r].goal /\ x.before = req[r].before /\ x.managed = S
  <2>1. x \in Request
    <3>1. "replace" \in Stages
      BY DEF Stages
    <3> HIDE DEF S
    <3> QED  BY <1>2, <1>10, <3>1, Replaced
  <2> QED  BY <1>2, <2>1 DEF Request
<1>5. Only(r) /\ req'[r] = x
  <2>1. req' = [req EXCEPT ![r] = x]
    BY DEF A!Protect
  <2> HIDE DEF x
  <2> QED  BY <1>2, <1>4, <2>1, FieldsSet
<1> HIDE DEF x
<1>6. rows[o] \subseteq objects /\ req[r].snapshot = rows[o]
  BY <1>1, <1>2 DEF RestoreHolds
<1>7. RestoreHolds(r)'
  BY <1>3, <1>4, <1>5, <1>6, <1>10 DEF RestoreHolds
<1>8. \A p \in Owners : \A n \in rows'[p] : n \in objects' \cup Gone'
  BY <1>1, <1>2, <1>3, RestoreAlone DEF A!Replacing
<1>9. objects' \in SUBSET Nat /\ Gone' \in SUBSET Nat
  BY <1>2, <1>3, RestoreAlone
<1> QED  BY <1>2, <1>3, <1>4, <1>5, <1>7, <1>8, <1>9, RestoreStep

\* What Goto leaves of a restore.
LEMMA RestoreGoto ==
  ASSUME NEW r \in Slots, NEW stage \in Stages, DossierTypes, A!Goto(r, stage)
  PROVE  /\ Only(r) /\ req'[r].pc = stage
         /\ req'[r].kind = req[r].kind /\ req'[r].owner = req[r].owner
         /\ req'[r].goal = req[r].goal /\ req'[r].payload = req[r].payload
         /\ req'[r].snapshot = req[r].snapshot /\ req'[r].managed = req[r].managed
         /\ req'[r].before = req[r].before /\ req'[r].todo = req[r].todo
         /\ req'[r].result = req[r].result
<1>1. Only(r) /\ req'[r].pc = stage /\ Keeps(r, {"pc"})
  BY GotoIs
<1> QED  BY <1>1, KeepsFields

LEMMA ReplaceRowsKeeps ==
  ASSUME NEW r \in Slots, DossierInv, A!ReplaceRows(r)
  PROVE  DossierInv'
<1> DEFINE o == req[r].owner
<1>1. req[r].pc = "replace"
  BY DEF A!ReplaceRows
<1>2. /\ A!Restoring(r) /\ RestoreHolds(r) /\ req[r] \in Request
      /\ o \in Owners /\ req[r].before = {}
      /\ rows \in [Owners -> SUBSET Nat] /\ DossierTypes
  BY <1>1, RestoreStage
<1>3. UNCHANGED <<objects, dossiers, spent, Gone>>
  BY SameGone DEF A!ReplaceRows, A!Fixed
<1>4. CASE A!End(r) /\ UNCHANGED rows
  BY <1>1, <1>2, <1>3, <1>4, PlainEnd, RestoreAlone DEF A!Replacing, A!Dangling
<1>5. CASE /\ rows' = [rows EXCEPT ![o] = req[r].goal.docs]
           /\ ~ A!Conflicts(o, req[r].goal.docs)
           /\ A!Goto(r, "sync") /\ UNCHANGED lock
  <2>1. "sync" \in Stages /\ "sync" \in Replacings
    BY DEF Stages, Replacings
  <2>2. req[r].goal.docs \in SUBSET Nat
    BY <1>2 DEF Request, Dossier
  <2>3. /\ rows' \in [Owners -> SUBSET Nat] /\ rows'[o] = req[r].goal.docs
        /\ \A p \in Owners \ {o} : rows'[p] = rows[p]
    BY <1>2, <1>5, <2>2
  <2>4. /\ Only(r) /\ req'[r].pc = "sync"
        /\ req'[r].kind = req[r].kind /\ req'[r].owner = o
        /\ req'[r].goal = req[r].goal /\ req'[r].payload = req[r].payload
        /\ req'[r].snapshot = req[r].snapshot /\ req'[r].managed = req[r].managed
        /\ req'[r].before = req[r].before
    BY <1>2, <1>5, <2>1, RestoreGoto
  <2>5. /\ rows[o] \subseteq objects /\ req[r].snapshot = rows[o]
        /\ \A p \in Owners \ {o} : rows[p] \subseteq req[r].managed
    BY <1>1, <1>2 DEF RestoreHolds
  <2>6. RestoreHolds(r)'
    BY <1>3, <2>3, <2>4, <2>5 DEF RestoreHolds
  <2>7. \A p \in Owners : \A n \in rows'[p] : n \in objects' \cup Gone' \/ p = o
    BY <1>1, <1>2, <1>3, <2>3, RestoreAlone DEF A!Replacing
  <2>8. objects' \in SUBSET Nat /\ Gone' \in SUBSET Nat
    BY <1>2, <1>3, RestoreAlone
  <2>9. \A q \in Owners \ {o} : rows'[o] \cap rows[q] = {}
    BY <1>5, <2>3 DEF A!Conflicts, A!OtherNames
  <2>10. \A p \in Owners :
           \/ rows'[p] = rows[p]
           \/ /\ p = o /\ rows'[p] \in {req[r].goal.docs, req[r].snapshot}
              /\ \A q \in Owners \ {p} : rows'[p] \cap rows[q] = {}
    BY <2>3, <2>9
  <2>11. /\ lock' = lock /\ rows' \in [Owners -> SUBSET Nat]
         /\ req'[r].before = {} /\ req'[r].before \in {req[r].before, objects}
    BY <1>2, <1>5, <2>3, <2>4
  <2> QED  BY <1>2, <1>3, <2>1, <2>4, <2>6, <2>7, <2>8, <2>10, <2>11, RestoreStep
<1> QED  BY <1>4, <1>5 DEF A!ReplaceRows, A!Payload

\* The files that the rows of the other accounts need are there.
LEMMA OthersThere ==
  ASSUME NEW r \in Slots, DossierInv, A!Restoring(r)
  PROVE  \A p \in Owners \ {req[r].owner} : rows[p] \subseteq objects \cup Gone
  BY RestoreAlone

LEMMA SyncKeeps ==
  ASSUME NEW r \in Slots, DossierInv, A!Sync(r)
  PROVE  DossierInv'
<1> DEFINE o == req[r].owner
           S == objects
           T == req[r].goal.docs
<1>1. req[r].pc = "sync"
  BY DEF A!Sync
<1>2. /\ A!Restoring(r) /\ RestoreHolds(r) /\ req[r] \in Request
      /\ o \in Owners /\ req[r].before = {} /\ req[r].kind = "restore"
      /\ rows \in [Owners -> SUBSET Nat] /\ DossierTypes
  BY <1>1, RestoreStage DEF Replacings
<1>3. UNCHANGED <<rows, objects, dossiers, lock, spent, Gone>>
  BY SameGone DEF A!Sync, A!Quiet
<1>4. \A p \in Owners : \A n \in rows'[p] : n \in objects' \cup Gone' \/ p = o
  BY <1>2, <1>3, RestoreAlone
<1>5. objects' \in SUBSET Nat /\ Gone' \in SUBSET Nat
  BY <1>2, <1>3, RestoreAlone
<1>6. /\ req[r].snapshot \subseteq objects /\ rows[o] = T
      /\ \A p \in Owners \ {o} : rows[p] \subseteq req[r].managed
  BY <1>1, <1>2 DEF RestoreHolds
<1>7. CASE A!Goto(r, "undoRows")
  <2>1. "undoRows" \in Stages /\ "undoRows" \in Replacings
    BY DEF Stages, Replacings
  <2>2. /\ Only(r) /\ req'[r].pc = "undoRows"
        /\ req'[r].kind = req[r].kind /\ req'[r].owner = o
        /\ req'[r].goal = req[r].goal /\ req'[r].payload = req[r].payload
        /\ req'[r].snapshot = req[r].snapshot /\ req'[r].before = {}
    BY <1>2, <1>7, <2>1, RestoreGoto
  <2>3. RestoreHolds(r)'
    BY <1>3, <1>6, <2>2 DEF RestoreHolds
  <2> QED  BY <1>2, <1>3, <1>4, <1>5, <2>1, <2>2, <2>3, RestoreStep
<1>8. CASE req' = [req EXCEPT ![r].before = S, ![r].todo = T, ![r].pc = "put"]
  <2> DEFINE x == [req[r] EXCEPT !.before = S, !.todo = T, !.pc = "put"]
  <2>1. "put" \in Stages /\ "put" \in Replacings
    BY DEF Stages, Replacings
  <2>2. /\ x \in Request /\ x.pc = "put" /\ x.payload = req[r].payload
        /\ x.kind = req[r].kind /\ x.owner = o /\ x.snapshot = req[r].snapshot
        /\ x.goal = req[r].goal /\ x.before = S /\ x.managed = req[r].managed
        /\ x.todo = T
    <3>1. x \in Request
      <4>1. S \in SUBSET Nat /\ T \in SUBSET Nat
        BY <1>2 DEF DossierTypes, Request, Dossier
      <4> HIDE DEF S, T
      <4> QED  BY <1>2, <2>1, <4>1, Replaced
    <3> QED  BY <1>2, <3>1 DEF Request
  <2>3. Only(r) /\ req'[r] = x
    <3>1. req' = [req EXCEPT ![r] = x]
      BY <1>8
    <3> HIDE DEF x
    <3> QED  BY <1>2, <2>2, <3>1, FieldsSet
  <2> HIDE DEF x
  <2>4. \A p \in Owners \ {o} : rows[p] \subseteq objects \cup Gone
    BY <1>2, OthersThere
  <2>5. RestoreHolds(r)'
    BY <1>3, <1>6, <2>2, <2>3, <2>4 DEF RestoreHolds
  <2> QED  BY <1>2, <1>3, <1>4, <1>5, <2>1, <2>2, <2>3, <2>5, RestoreStep
<1> QED  BY <1>7, <1>8 DEF A!Sync

\* What _apply_documents finds at each of its steps.
LEMMA ApplyStage ==
  ASSUME NEW r \in Slots, DossierInv,
         req[r].pc \in {"put", "list", "prune", "undoPut", "undoList", "undoPrune"}
  PROVE  /\ A!Restoring(r) /\ RestoreHolds(r) /\ req[r] \in Request
         /\ req[r].kind = "restore" /\ req[r].owner \in Owners
         /\ req[r].pc \in Stages /\ req[r].pc \in Replacings
         /\ rows \in [Owners -> SUBSET Nat] /\ DossierTypes
         /\ objects \in SUBSET Nat /\ Gone \in SUBSET Nat
         /\ req[r].before \in SUBSET Nat /\ req[r].todo \in SUBSET Nat
         /\ req[r].goal.docs \in SUBSET Nat
         /\ \A p \in Owners : \A n \in rows[p] :
              n \in objects \cup Gone \/ p = req[r].owner
<1>1. req[r].pc \in Replacings
  BY DEF Replacings
<1>2. /\ A!Restoring(r) /\ RestoreHolds(r) /\ req[r] \in Request
      /\ req[r].kind = "restore" /\ req[r].owner \in Owners
      /\ rows \in [Owners -> SUBSET Nat] /\ DossierTypes
  BY <1>1, RestoreStage
<1>3. req[r].before \in SUBSET Nat /\ req[r].todo \in SUBSET Nat
      /\ req[r].goal.docs \in SUBSET Nat /\ req[r].pc \in Stages
  BY <1>2 DEF Request, Dossier
<1> QED  BY <1>1, <1>2, <1>3, RestoreAlone

LEMMA OnFailureKeeps ==
  ASSUME NEW r \in Slots, DossierInv,
         req[r].pc \in {"put", "list", "prune", "undoPut", "undoList", "undoPrune"},
         req' = [req EXCEPT ![r] = A!OnFailure(r)],
         UNCHANGED <<rows, dossiers, lock, spent>>,
         objects' \in SUBSET Nat, Gone' \in SUBSET Nat,
         objects' \subseteq objects \cup req[r].goal.docs \cup req[r].before,
         \A p \in Owners \ {req[r].owner} :
           /\ rows[p] \subseteq objects \cup Gone => rows[p] \subseteq objects' \cup Gone'
           /\ rows[p] \subseteq req[r].before \cup Gone
                => rows[p] \subseteq req[r].before \cup Gone'
           /\ rows[p] \cap objects \subseteq req[r].before
                => rows[p] \cap objects' \subseteq req[r].before
  PROVE  DossierInv'
<1> DEFINE o == req[r].owner
           S == req[r].before
<1>1. /\ A!Restoring(r) /\ RestoreHolds(r) /\ req[r] \in Request
      /\ o \in Owners /\ S \in SUBSET Nat
      /\ rows \in [Owners -> SUBSET Nat] /\ DossierTypes
      /\ objects \in SUBSET Nat /\ Gone \in SUBSET Nat
      /\ \A p \in Owners : \A n \in rows[p] : n \in objects \cup Gone \/ p = o
  BY ApplyStage
<1>4. \A p \in Owners : \A n \in rows'[p] : n \in objects' \cup Gone' \/ p = o
  BY <1>1
<1>2. CASE req[r].pc \in {"put", "list", "prune"}
  <2> DEFINE x == [req[r] EXCEPT !.pc = "undoPut", !.todo = S]
  <2>1. "undoPut" \in Stages /\ "undoPut" \in Replacings
    BY DEF Stages, Replacings
  <2>2. x \in Request
    <3> HIDE DEF S
    <3> QED  BY <1>1, <2>1, Replaced
  <2>3. /\ x.pc = "undoPut" /\ x.payload = req[r].payload
        /\ x.kind = req[r].kind /\ x.owner = o /\ x.snapshot = req[r].snapshot
        /\ x.goal = req[r].goal /\ x.before = S /\ x.todo = S
    BY <1>1, <2>2 DEF Request
  <2>4. Only(r) /\ req'[r] = x
    <3>1. req' = [req EXCEPT ![r] = x]
      BY <1>2 DEF A!OnFailure
    <3> HIDE DEF x
    <3> QED  BY <1>1, <2>2, <3>1, FieldsSet
  <2> HIDE DEF x
  <2>5. /\ req[r].snapshot \subseteq S /\ rows[o] = req[r].goal.docs
        /\ \A p \in Owners \ {o} : /\ rows[p] \subseteq S \cup Gone
                                   /\ rows[p] \cap objects \subseteq S
    BY <1>1, <1>2 DEF RestoreHolds
  <2>7. \A p \in Owners \ {o} : /\ rows[p] \subseteq S \cup Gone'
                              /\ rows[p] \cap objects' \subseteq S
    BY <2>5
  <2>6. RestoreHolds(r)'
    BY <2>3, <2>4, <2>5, <2>7 DEF RestoreHolds
  <2> QED  BY <1>1, <1>4, <2>1, <2>3, <2>4, <2>6, RestoreStep
<1>3. CASE req[r].pc \notin {"put", "list", "prune"}
  <2> DEFINE x == [req[r] EXCEPT !.pc = "undoRows", !.result = "broken"]
  <2>1. "undoRows" \in Stages /\ "undoRows" \in Replacings
    BY DEF Stages, Replacings
  <2>2. x \in Request
    BY <1>1, <2>1, Replaced
  <2>3. /\ x.pc = "undoRows" /\ x.payload = req[r].payload
        /\ x.kind = req[r].kind /\ x.owner = o /\ x.snapshot = req[r].snapshot
        /\ x.goal = req[r].goal /\ x.before = S /\ x.result = "broken"
    BY <1>1, <2>2 DEF Request
  <2>4. Only(r) /\ req'[r] = x
    <3>1. req' = [req EXCEPT ![r] = x]
      BY <1>3 DEF A!OnFailure
    <3> HIDE DEF x
    <3> QED  BY <1>1, <2>2, <3>1, FieldsSet
  <2> HIDE DEF x
  <2>6. RestoreHolds(r)'
    BY <2>3, <2>4 DEF RestoreHolds
  <2> QED  BY <1>1, <1>4, <2>1, <2>3, <2>4, <2>6, RestoreStep
<1> QED  BY <1>2, <1>3

LEMMA PutFileKeeps ==
  ASSUME NEW r \in Slots, DossierInv, A!PutFile(r)
  PROVE  DossierInv'
<1> DEFINE o == req[r].owner
<1>1. req[r].pc \in {"put", "undoPut"}
  BY DEF A!PutFile
<1>2. /\ A!Restoring(r) /\ RestoreHolds(r) /\ req[r] \in Request
      /\ o \in Owners /\ req[r].todo \in SUBSET Nat
      /\ req[r].pc \in Stages /\ req[r].pc \in Replacings
      /\ rows \in [Owners -> SUBSET Nat] /\ DossierTypes
      /\ objects \in SUBSET Nat /\ Gone \in SUBSET Nat
      /\ \A p \in Owners : \A n \in rows[p] : n \in objects \cup Gone \/ p = o
  BY <1>1, ApplyStage
<1>3. UNCHANGED <<rows, dossiers, lock, spent>>
  BY DEF A!PutFile, A!Quiet
<1>4. /\ req[r].snapshot \subseteq req[r].before
      /\ \A p \in Owners \ {o} : /\ rows[p] \subseteq req[r].before \cup Gone
                                 /\ rows[p] \cap objects \subseteq req[r].before
      /\ rows[o] = req[r].goal.docs
      /\ req[r].pc = "put" =>
           /\ req[r].todo \subseteq req[r].goal.docs
           /\ req[r].goal.docs \subseteq objects \cup req[r].todo
           /\ \A p \in Owners \ {o} : rows[p] \subseteq req[r].managed
      /\ req[r].pc = "undoPut" => /\ req[r].todo \subseteq req[r].before
                                  /\ req[r].before \subseteq objects \cup req[r].todo
  BY <1>1, <1>2 DEF RestoreHolds
<1>8. \A p \in Owners \ {o} : rows[p] \cap rows[o] = {}
  BY <1>2 DEF DossierInv, NamesApart
\* The file put is one of the archive, or one there was.
<1>9. ASSUME NEW n \in req[r].todo, A!Written(n)
      PROVE  /\ objects' = objects \cup {n} /\ Gone' = Gone \ {n}
             /\ objects' \subseteq objects \cup req[r].goal.docs \cup req[r].before
             /\ \A p \in Owners \ {o} :
                  /\ rows[p] \subseteq req[r].before \cup Gone'
                  /\ rows[p] \cap objects' \subseteq req[r].before
  <2>1. objects' = objects \cup {n} /\ Gone' = Gone \ {n}
    BY <1>9 DEF A!Written, Gone
  <2>2. CASE req[r].pc = "put"
    <3>1. \A p \in Owners \ {o} : n \notin rows[p]
      BY <1>4, <1>8, <2>2
    <3> QED  BY <1>4, <2>1, <2>2, <3>1
  <2>3. CASE req[r].pc = "undoPut"
    BY <1>4, <2>1, <2>3
  <2> QED  BY <1>1, <2>1, <2>2, <2>3
<1>5. ASSUME NEW n \in req[r].todo, A!Written(n),
             req' = [req EXCEPT ![r].todo = @ \ {n}]
      PROVE  DossierInv'
  <2> DEFINE S == req[r].todo \ {n}
             x == [req[r] EXCEPT !.todo = S]
  <2>1. x \in Request
    <3>1. S \in SUBSET Nat
      BY <1>2
    <3> HIDE DEF S
    <3> QED  BY <1>2, <3>1, Replaced
  <2>2. /\ x.pc = req[r].pc /\ x.payload = req[r].payload
        /\ x.kind = req[r].kind /\ x.owner = o /\ x.snapshot = req[r].snapshot
        /\ x.goal = req[r].goal /\ x.before = req[r].before /\ x.managed = req[r].managed
        /\ x.todo = S
    BY <1>2, <2>1 DEF Request
  <2>3. Only(r) /\ req'[r] = x
    <3>1. req' = [req EXCEPT ![r] = x]
      BY <1>5
    <3> HIDE DEF x
    <3> QED  BY <1>2, <2>1, <3>1, FieldsSet
  <2> HIDE DEF x
  <2>4. /\ objects' = objects \cup {n} /\ Gone' = Gone \ {n}
        /\ objects' \subseteq objects \cup req[r].goal.docs \cup req[r].before
        /\ \A p \in Owners \ {o} : /\ rows[p] \subseteq req[r].before \cup Gone'
                                   /\ rows[p] \cap objects' \subseteq req[r].before
    BY <1>5, <1>9
  <2>5. RestoreHolds(r)'
    <3>1. CASE req[r].pc = "put"
      <4>1. S \subseteq req[r].goal.docs /\ req[r].goal.docs \subseteq objects' \cup S
        BY <1>4, <2>4, <3>1
      <4> HIDE DEF S
      <4> QED  BY <1>3, <1>4, <2>2, <2>3, <2>4, <3>1, <4>1 DEF RestoreHolds
    <3>2. CASE req[r].pc = "undoPut"
      <4>1. S \subseteq req[r].before /\ req[r].before \subseteq objects' \cup S
        BY <1>4, <2>4, <3>2
      <4> HIDE DEF S
      <4> QED  BY <1>3, <1>4, <2>2, <2>3, <2>4, <3>2, <4>1 DEF RestoreHolds
    <3> QED  BY <1>1, <3>1, <3>2
  <2>6. \A p \in Owners : \A m \in rows'[p] : m \in objects' \cup Gone' \/ p = o
    BY <1>2, <1>3, <2>4
  <2>7. objects' \in SUBSET Nat /\ Gone' \in SUBSET Nat
    BY <1>2, <2>4
  <2>8. req[r].pc \notin {"gather", "remember", "snapshot", "protect", "replace", "sync"}
    BY <1>1
  <2> QED  BY <1>2, <1>3, <2>2, <2>3, <2>4, <2>5, <2>6, <2>7, <2>8, RestoreStep
<1>6. ASSUME NEW n \in req[r].todo, req' = [req EXCEPT ![r] = A!OnFailure(r)],
             A!Written(n) \/ UNCHANGED <<objects, lost, withdrawn>>
      PROVE  DossierInv'
  <2>1. CASE A!Written(n)
    <3>1. /\ objects' = objects \cup {n} /\ Gone' = Gone \ {n}
          /\ objects' \subseteq objects \cup req[r].goal.docs \cup req[r].before
          /\ \A p \in Owners \ {o} : /\ rows[p] \subseteq req[r].before \cup Gone'
                                     /\ rows[p] \cap objects' \subseteq req[r].before
      BY <2>1, <1>9
    <3>2. objects' \in SUBSET Nat /\ Gone' \in SUBSET Nat
      BY <1>2, <3>1
    <3> QED  BY <1>1, <1>3, <1>6, <3>1, <3>2, OnFailureKeeps
  <2>2. CASE UNCHANGED <<objects, lost, withdrawn>>
    BY <1>1, <1>2, <1>3, <1>6, <2>2, SameGone, OnFailureKeeps
  <2> QED  BY <1>6, <2>1, <2>2
<1>7. CASE /\ req[r].todo = {} /\ UNCHANGED <<objects, lost, withdrawn>>
           /\ A!Goto(r, IF A!Undoing(r) THEN "undoList" ELSE "list")
  <2> DEFINE stage == IF A!Undoing(r) THEN "undoList" ELSE "list"
  <2>1. /\ stage \in {"list", "undoList"} /\ stage \in Stages /\ stage \in Replacings
        /\ req[r].pc = "put" => stage = "list"
        /\ req[r].pc = "undoPut" => stage = "undoList"
    BY DEF Stages, Replacings, A!Undoing
  <2> HIDE DEF stage
  <2>2. /\ Only(r) /\ req'[r].pc = stage
        /\ req'[r].kind = req[r].kind /\ req'[r].owner = o
        /\ req'[r].goal = req[r].goal /\ req'[r].payload = req[r].payload
        /\ req'[r].snapshot = req[r].snapshot /\ req'[r].managed = req[r].managed
        /\ req'[r].before = req[r].before
    <3>1. A!Goto(r, stage)
      BY <1>7 DEF stage
    <3> QED  BY <1>2, <2>1, <3>1, RestoreGoto
  <2>3. RestoreHolds(r)'
    BY <1>1, <1>3, <1>4, <1>7, <2>1, <2>2, SameGone DEF RestoreHolds
  <2> QED  BY <1>2, <1>3, <1>7, <2>1, <2>2, <2>3, SameGone, RestoreStep
<1> QED  BY <1>5, <1>6, <1>7 DEF A!PutFile

LEMMA ListNamesKeeps ==
  ASSUME NEW r \in Slots, DossierInv, A!ListNames(r)
  PROVE  DossierInv'
<1> DEFINE o == req[r].owner
           S == IF A!Undoing(r) THEN A!Doomed(req[r].before, {})
                                ELSE A!Doomed(req[r].goal.docs, req[r].managed)
           stage == IF A!Undoing(r) THEN "undoPrune" ELSE "prune"
           x == [req[r] EXCEPT !.todo = S, !.pc = stage]
<1>1. req[r].pc \in {"list", "undoList"}
  BY DEF A!ListNames
<1>2. /\ A!Restoring(r) /\ RestoreHolds(r) /\ req[r] \in Request
      /\ o \in Owners
      /\ rows \in [Owners -> SUBSET Nat] /\ DossierTypes
      /\ objects \in SUBSET Nat /\ Gone \in SUBSET Nat
      /\ \A p \in Owners : \A n \in rows[p] : n \in objects \cup Gone \/ p = o
  BY <1>1, ApplyStage
<1>3. UNCHANGED <<rows, objects, dossiers, lock, spent, Gone>>
  BY SameGone DEF A!ListNames, A!Quiet
<1>4. CASE req' = [req EXCEPT ![r] = A!OnFailure(r)]
  BY <1>1, <1>2, <1>3, <1>4, OnFailureKeeps
<1>5. CASE req' = [req EXCEPT ![r].todo = S, ![r].pc = stage]
  <2>1. /\ stage \in Stages /\ stage \in Replacings /\ S \in SUBSET Nat
        /\ req[r].pc = "list" => stage = "prune" /\ S \cap (req[r].goal.docs
                                                             \cup req[r].managed) = {}
        /\ req[r].pc = "undoList" => stage = "undoPrune" /\ S \cap req[r].before = {}
    <3>1. CASE req[r].pc = "list"
      BY <1>2, <3>1 DEF Stages, Replacings, A!Undoing, A!Doomed
    <3>2. CASE req[r].pc = "undoList"
      BY <1>2, <3>2 DEF Stages, Replacings, A!Undoing, A!Doomed
    <3> QED  BY <1>1, <3>1, <3>2
  <2>2. req' = [req EXCEPT ![r] = x]
    BY <1>5
  <2> HIDE DEF S, stage
  <2>3. x \in Request
    BY <1>2, <2>1, Replaced
  <2>4. /\ x.pc = stage /\ x.payload = req[r].payload
        /\ x.kind = req[r].kind /\ x.owner = o /\ x.snapshot = req[r].snapshot
        /\ x.goal = req[r].goal /\ x.before = req[r].before /\ x.managed = req[r].managed
        /\ x.todo = S
    BY <1>2, <2>3 DEF Request
  <2> HIDE DEF x
  <2>5. Only(r) /\ req'[r] = x
    BY <1>2, <2>2, <2>3, FieldsSet
  <2>6. /\ req[r].snapshot \subseteq req[r].before
        /\ \A p \in Owners \ {o} : /\ rows[p] \subseteq req[r].before \cup Gone
                                   /\ rows[p] \cap objects \subseteq req[r].before
        /\ rows[o] = req[r].goal.docs
        /\ req[r].pc = "list" =>
             /\ req[r].goal.docs \subseteq objects /\ rows[o] = req[r].goal.docs
             /\ \A p \in Owners \ {o} : rows[p] \subseteq req[r].managed
        /\ req[r].pc = "undoList" => req[r].before \subseteq objects
    BY <1>1, <1>2 DEF RestoreHolds
  <2>7. RestoreHolds(r)'
    BY <1>1, <1>3, <2>1, <2>4, <2>5, <2>6 DEF RestoreHolds
  <2>8. stage \in {"prune", "undoPrune"}
    BY <1>1, <2>1
  <2> QED  BY <1>2, <1>3, <2>1, <2>4, <2>5, <2>7, <2>8, RestoreStep
<1> QED  BY <1>4, <1>5 DEF A!ListNames

\* What a restore, or its undo, is about to delete is no file of a row of another
\* account.
LEMMA OthersSpared ==
  ASSUME NEW r \in Slots, DossierInv, req[r].pc \in {"prune", "undoPrune"}
  PROVE  \A n \in req[r].todo : \A p \in Owners \ {req[r].owner} :
           n \notin rows[p] \cap objects
<1>1. RestoreHolds(r) /\ A!Restoring(r)
  BY ApplyStage
<1>2. CASE req[r].pc = "prune"
  BY <1>1, <1>2 DEF RestoreHolds
<1>3. CASE req[r].pc = "undoPrune"
  BY <1>1, <1>3 DEF RestoreHolds
<1> QED  BY <1>2, <1>3

LEMMA PruneFileKeeps ==
  ASSUME NEW r \in Slots, DossierInv, A!PruneFile(r)
  PROVE  DossierInv'
<1> DEFINE o == req[r].owner
<1>1. req[r].pc \in {"prune", "undoPrune"}
  BY DEF A!PruneFile
<1>2. /\ A!Restoring(r) /\ RestoreHolds(r) /\ req[r] \in Request
      /\ o \in Owners /\ req[r].todo \in SUBSET Nat
      /\ req[r].pc \in Stages /\ req[r].pc \in Replacings
      /\ rows \in [Owners -> SUBSET Nat] /\ DossierTypes
      /\ objects \in SUBSET Nat /\ Gone \in SUBSET Nat
      /\ \A p \in Owners : \A n \in rows[p] : n \in objects \cup Gone \/ p = o
  BY <1>1, ApplyStage
<1>3. UNCHANGED <<rows, dossiers, lock, spent, Gone>>
  BY SameGone DEF A!PruneFile, A!Quiet
<1>4. /\ req[r].snapshot \subseteq req[r].before
      /\ \A p \in Owners \ {o} : /\ rows[p] \subseteq req[r].before \cup Gone
                                 /\ rows[p] \cap objects \subseteq req[r].before
      /\ rows[o] = req[r].goal.docs
      /\ req[r].pc = "prune" =>
           /\ req[r].goal.docs \subseteq objects
           /\ \A p \in Owners \ {o} : rows[p] \subseteq req[r].managed
           /\ req[r].todo \cap (req[r].goal.docs \cup req[r].managed) = {}
      /\ req[r].pc = "undoPrune" => /\ req[r].before \subseteq objects
                                    /\ req[r].todo \cap req[r].before = {}
  BY <1>1, <1>2 DEF RestoreHolds
\* The name listed is of no row of another account that has its file.
<1>8. \A n \in req[r].todo : \A p \in Owners \ {o} : n \notin rows[p] \cap objects
  BY OthersSpared, <1>1
<1>5. ASSUME NEW n \in req[r].todo, objects' = objects \ {n},
             req' = [req EXCEPT ![r].todo = @ \ {n}]
      PROVE  DossierInv'
  <2> DEFINE S == req[r].todo \ {n}
             x == [req[r] EXCEPT !.todo = S]
  <2>1. x \in Request
    <3>1. S \in SUBSET Nat
      BY <1>2
    <3> HIDE DEF S
    <3> QED  BY <1>2, <3>1, Replaced
  <2>2. /\ x.pc = req[r].pc /\ x.payload = req[r].payload
        /\ x.kind = req[r].kind /\ x.owner = o /\ x.snapshot = req[r].snapshot
        /\ x.goal = req[r].goal /\ x.before = req[r].before /\ x.managed = req[r].managed
        /\ x.todo = S
    BY <1>2, <2>1 DEF Request
  <2>3. Only(r) /\ req'[r] = x
    <3>1. req' = [req EXCEPT ![r] = x]
      BY <1>5
    <3> HIDE DEF x
    <3> QED  BY <1>2, <2>1, <3>1, FieldsSet
  <2> HIDE DEF x
  <2>4. \A p \in Owners \ {o} : rows[p] \cap objects' \subseteq req[r].before
    BY <1>4, <1>5
  <2>5. RestoreHolds(r)'
    <3>1. CASE req[r].pc = "prune"
      <4>1. /\ req[r].goal.docs \subseteq objects'
            /\ S \cap (req[r].goal.docs \cup req[r].managed) = {}
        BY <1>4, <1>5, <3>1
      <4> HIDE DEF S
      <4> QED  BY <1>3, <1>4, <2>2, <2>3, <2>4, <3>1, <4>1 DEF RestoreHolds
    <3>2. CASE req[r].pc = "undoPrune"
      <4>1. req[r].before \subseteq objects' /\ S \cap req[r].before = {}
        BY <1>4, <1>5, <3>2
      <4> HIDE DEF S
      <4> QED  BY <1>3, <1>4, <2>2, <2>3, <2>4, <3>2, <4>1 DEF RestoreHolds
    <3> QED  BY <1>1, <3>1, <3>2
  <2>6. \A p \in Owners : \A m \in rows'[p] : m \in objects' \cup Gone' \/ p = o
    BY <1>2, <1>3, <1>5, <1>8
  <2>7. objects' \in SUBSET Nat /\ Gone' \in SUBSET Nat
    BY <1>2, <1>3, <1>5
  <2>8. req[r].pc \notin {"gather", "remember", "snapshot", "protect", "replace", "sync"}
    BY <1>1
  <2> QED  BY <1>2, <1>3, <1>5, <2>2, <2>3, <2>5, <2>6, <2>7, <2>8, RestoreStep
<1>6. ASSUME NEW n \in req[r].todo, req' = [req EXCEPT ![r] = A!OnFailure(r)],
             objects' \in {objects, objects \ {n}}
      PROVE  DossierInv'
  BY <1>1, <1>2, <1>3, <1>6, <1>8, OnFailureKeeps
<1>7. CASE /\ UNCHANGED objects
           /\ req' = [req EXCEPT
                ![r].pc = IF A!Undoing(r) THEN "undoRows" ELSE "ended",
                ![r].result = IF A!Undoing(r) THEN "undone" ELSE "restored"]
  <2> DEFINE stage == IF A!Undoing(r) THEN "undoRows" ELSE "ended"
             result == IF A!Undoing(r) THEN "undone" ELSE "restored"
             x == [req[r] EXCEPT !.pc = stage, !.result = result]
  <2>1. /\ stage \in Stages /\ stage \in {"undoRows", "ended"}
        /\ result \in {"none", "restored", "undone", "broken"}
        /\ req[r].pc = "prune" => stage = "ended" /\ result = "restored"
        /\ req[r].pc = "undoPrune" => stage = "undoRows" /\ result = "undone"
    BY DEF Stages, Replacings, A!Undoing
  <2>2. req' = [req EXCEPT ![r] = x]
    BY <1>7
  <2> HIDE DEF stage, result
  <2>3. x \in Request
    BY <1>2, <2>1, Replaced
  <2>4. /\ x.pc = stage /\ x.result = result /\ x.payload = req[r].payload
        /\ x.kind = req[r].kind /\ x.owner = o /\ x.snapshot = req[r].snapshot
        /\ x.goal = req[r].goal /\ x.before = req[r].before
    BY <1>2, <2>3 DEF Request
  <2> HIDE DEF x
  <2>5. Only(r) /\ req'[r] = x
    BY <1>2, <2>2, <2>3, FieldsSet
  <2>6. RestoreHolds(r)'
    <3>1. CASE req[r].pc = "prune"
      BY <1>3, <1>4, <1>7, <2>1, <2>4, <2>5, <3>1 DEF RestoreHolds
    <3>2. CASE req[r].pc = "undoPrune"
      <4>1. req[r].snapshot \subseteq objects
        BY <1>4, <3>2
      <4> QED  BY <1>3, <1>4, <1>7, <2>1, <2>4, <2>5, <3>2, <4>1 DEF RestoreHolds
    <3> QED  BY <1>1, <3>1, <3>2
  <2>7. \A p \in Owners : \A n \in rows'[p] :
           n \in objects' \cup Gone' \/ (p = o /\ req'[r].pc \in Replacings)
    <3>1. CASE req[r].pc = "prune"
      BY <1>2, <1>3, <1>4, <1>7, <3>1
    <3>2. CASE req[r].pc = "undoPrune"
      BY <1>2, <1>3, <1>7, <2>1, <2>4, <2>5, <3>2 DEF Replacings
    <3> QED  BY <1>1, <3>1, <3>2
  <2>8. req'[r].pc \in {"ended"} \cup Replacings
    BY <2>1, <2>4, <2>5 DEF Replacings
  <2>9. req'[r].pc \notin {"gather", "remember", "snapshot", "protect", "replace", "sync"}
    BY <2>1, <2>4, <2>5
  <2> QED  BY <1>2, <1>3, <1>7, <2>4, <2>5, <2>6, <2>7, <2>8, <2>9, RestoreStep
<1> QED  BY <1>5, <1>6, <1>7 DEF A!PruneFile, A!Unconfirmed, A!Erased

LEMMA UndoRowsKeeps ==
  ASSUME NEW r \in Slots, DossierInv, A!UndoRows(r)
  PROVE  DossierInv'
<1> DEFINE o == req[r].owner
           Ended(rs, result) ==
             /\ req' = [req EXCEPT ![r].pc = "ended", ![r].result = result]
             /\ lost' = IF result = "broken" THEN lost \cup (rs[o] \ objects) ELSE lost
<1>1. req[r].pc = "undoRows" /\ req[r].pc \in Replacings
  BY DEF A!UndoRows, Replacings
<1>2. /\ A!Restoring(r) /\ RestoreHolds(r) /\ req[r] \in Request
      /\ o \in Owners
      /\ rows \in [Owners -> SUBSET Nat] /\ DossierTypes
  BY <1>1, RestoreStage
<1>3. UNCHANGED <<objects, dossiers, lock, spent, withdrawn>>
  BY DEF A!UndoRows, A!Quiet
<1>4. /\ objects \in SUBSET Nat /\ Gone \in SUBSET Nat
      /\ \A p \in Owners : \A n \in rows[p] : n \in objects \cup Gone \/ p = o
  BY <1>2, RestoreAlone
<1>5. req[r].result # "broken" => /\ req[r].snapshot \subseteq objects
                                  /\ req[r].before \subseteq objects
  BY <1>1, <1>2 DEF RestoreHolds
<1>6. ASSUME NEW result \in {"undone", "broken"}, Ended(rows', result),
             \/ /\ rows' = [rows EXCEPT ![o] = req[r].snapshot]
                /\ ~ A!Conflicts(o, req[r].snapshot)
                /\ result = "undone" => req[r].result # "broken"
             \/ rows' = rows /\ result = "broken"
      PROVE  DossierInv'
  <2> DEFINE x == [req[r] EXCEPT !.pc = "ended", !.result = result]
  <2>1. "ended" \in Stages /\ req[r].snapshot \in SUBSET Nat
    BY <1>2 DEF Stages, Request
  <2>2. x \in Request
    BY <1>2, <2>1, Replaced
  <2>3. /\ x.pc = "ended" /\ x.result = result /\ x.payload = req[r].payload
        /\ x.kind = req[r].kind /\ x.owner = o /\ x.snapshot = req[r].snapshot
        /\ x.goal = req[r].goal /\ x.before = req[r].before
    BY <1>2, <2>2 DEF Request
  <2>4. Only(r) /\ req'[r] = x
    <3>1. req' = [req EXCEPT ![r] = x]
      BY <1>6
    <3> HIDE DEF x
    <3> QED  BY <1>2, <2>2, <3>1, FieldsSet
  <2> HIDE DEF x
  <2>5. /\ rows' \in [Owners -> SUBSET Nat]
        /\ \A p \in Owners \ {o} : rows'[p] = rows[p]
        /\ rows'[o] \in {rows[o], req[r].snapshot}
        /\ result = "undone" => rows'[o] = req[r].snapshot
    BY <1>2, <1>6, <2>1
  <2>6. Gone' = IF result = "broken" THEN Gone \cup (rows'[o] \ objects) ELSE Gone
    BY <1>3, <1>6 DEF Gone
  <2>7. RestoreHolds(r)'
    <3>1. CASE result = "undone"
      <4>1. /\ req'[r].pc = "ended" /\ req'[r].result = "undone" /\ req'[r].owner = o
            /\ req'[r].snapshot = req[r].snapshot /\ req'[r].before = req[r].before
        BY <2>3, <2>4, <3>1
      <4>2. rows'[o] = req[r].snapshot /\ req[r].before \subseteq objects'
        BY <1>3, <1>5, <1>6, <2>5, <3>1
      <4> QED  BY <4>1, <4>2 DEF RestoreHolds
    <3>2. CASE result = "broken"
      BY <2>3, <2>4, <3>2 DEF RestoreHolds
    <3> QED  BY <3>1, <3>2
  <2>8. rows'[o] \in SUBSET Nat
    BY <1>2, <2>5
  <2>9. objects' \in SUBSET Nat /\ Gone' \in SUBSET Nat
    BY <1>3, <1>4, <2>6, <2>8
  <2>10. \A p \in Owners : \A n \in rows'[p] : n \in objects' \cup Gone'
    <3>1. rows'[o] \subseteq objects \cup Gone'
      <4>1. CASE result = "undone"
        BY <1>5, <1>6, <2>1, <2>5, <4>1
      <4>2. CASE result = "broken"
        BY <2>6, <4>2
      <4> QED  BY <4>1, <4>2
    <3>2. Gone \subseteq Gone'
      BY <2>6
    <3> QED  BY <1>3, <1>4, <2>5, <3>1, <3>2
  <2>11. \A p \in Owners : \/ rows'[p] = rows[p]
                           \/ /\ p = o /\ rows'[p] \in {req[r].goal.docs, req[r].snapshot}
                              /\ \A q \in Owners \ {p} : rows'[p] \cap rows[q] = {}
    BY <1>2, <1>6, <2>1, <2>5 DEF A!Conflicts, A!OtherNames
  <2> QED  BY <1>2, <1>3, <2>3, <2>4, <2>5, <2>7, <2>9, <2>10, <2>11, RestoreStep
<1>7. CASE /\ rows' = [rows EXCEPT ![o] = req[r].snapshot]
           /\ ~ A!Conflicts(o, req[r].snapshot)
           /\ Ended(rows', IF req[r].result = "broken" THEN "broken" ELSE "undone")
  BY <1>6, <1>7
<1>8. CASE rows' = rows /\ Ended(rows, "broken")
  BY <1>6, <1>8
<1> QED  BY <1>7, <1>8 DEF A!UndoRows

LEMMA AnswerKeeps ==
  ASSUME NEW r \in Slots, DossierInv, A!Answer(r)
  PROVE  DossierInv'
  BY PlainEnd DEF A!Answer, A!Fixed, Gone, A!Running, A!Replacing, A!Dangling

\* A process that dies leaves as Gone what its request was in the middle of.
LEMMA CrashKeeps ==
  ASSUME NEW r \in Slots, DossierInv, A!Crash(r)
  PROVE  DossierInv'
<1> DEFINE S == IF A!Replacing(r) THEN rows[req[r].owner] \ objects ELSE {}
<1>1. /\ A!Running(r) /\ A!End(r) /\ Gone' = Gone \cup A!Dangling(r) \cup S
      /\ UNCHANGED <<rows, objects, dossiers, spent>> /\ Touches(r)
  BY DEF A!Crash, Gone, Touches
<1>2. /\ req[r].owner \in Owners /\ req[r].name \in Nat /\ rows \in [Owners -> SUBSET Nat]
      /\ objects \in SUBSET Nat /\ Gone \in SUBSET Nat
  BY <1>1 DEF DossierInv, DossierTypes, KindFits, A!Running, Request
<1>3. A!Dangling(r) \in SUBSET Nat /\ S \in SUBSET Nat
  BY <1>2 DEF A!Dangling
<1>4. \A n \in rows[req[r].owner] : A!Replacing(r) \/ n \in A!Dangling(r)
                                       => n \in objects \cup Gone'
  BY <1>1
<1> HIDE DEF S
<1>5. Gone' \in SUBSET Nat
  BY <1>1, <1>2, <1>3
<1> QED  BY <1>1, <1>2, <1>4, <1>5, EndKeeps

-----------------------------------------------------------------------------
(* Requests that arrive, clients, and damaged archives *)

LEMMA StartKeeps ==
  ASSUME Alone = TRUE, NEW r \in Slots,
         NEW kind \in {"upload", "complete", "delete", "export", "restore"},
         NEW o \in Owners, NEW n \in Nat, NEW goal \in Dossier, NEW stage \in {"begin", "read"},
         DossierInv, A!Start(r, kind, o, n, goal, stage),
         UNCHANGED <<rows, objects, dossiers, lock, Gone>>,
         goal.docs \subseteq Handed,
         stage = "begin" <=> kind \in {"upload", "complete", "delete"},
         kind = "upload" => n = spent + 1 /\ spent' = spent + 1,
         kind # "upload" => spent' = spent
  PROVE  DossierInv'
<1>1. /\ DossierTypes /\ NamesApart /\ Covered /\ spent \in Nat
  BY DEF DossierInv, DossierTypes
<1>2. /\ Only(r) /\ A!MayStart(r, kind)
      /\ req'[r].pc = stage /\ req'[r].kind = kind /\ req'[r].owner = o
      /\ req'[r].name = n /\ req'[r].goal = goal
      /\ req'[r].payload = {} /\ req'[r].snapshot = {} /\ req'[r].before = {}
  BY <1>1, RequestStarts
<1>3. /\ req[r].pc = "idle" /\ \A q \in Slots : ~ A!Restoring(q)
      /\ kind = "restore" => \A q \in Slots : ~ A!Running(q)
  BY <1>2 DEF A!MayStart
<1>4. spent' \in Nat /\ spent <= spent'
  BY <1>1
<1>5. DossierTypes'
  BY <1>1, <1>2, <1>4 DEF DossierTypes, Only
<1>6. /\ KindFits(req'[r]) /\ InHand(r)' /\ RestoreHolds(r)'
  <2>1. KindFits(req'[r])
    BY <1>2 DEF KindFits, Replacings
  <2>2. InHand(r)'
    BY <1>2 DEF InHand
  <2>3. RestoreHolds(r)'
    BY <1>2 DEF RestoreHolds
  <2> QED  BY <2>1, <2>2, <2>3
<1>7. ASSUME NEW q \in Slots \ {r}
      PROVE  KindFits(req'[q]) /\ InHand(q)' /\ RestoreHolds(q)'
  <2>1. req'[q] = req[q]
    BY <1>2 DEF Only
  <2>2. KindFits(req[q]) /\ InHand(q) /\ ~ A!Restoring(q)
    BY <1>3 DEF DossierInv
  <2> QED  BY <2>1, <2>2 DEF InHand, RestoreHolds, A!Restoring, A!Running
<1>8. Exclusive'
  <2>1. ASSUME NEW q \in Slots, req'[q].pc \in Writing PROVE lock' = q
    BY <1>2, <2>1 DEF Only, DossierInv, Exclusive, Writing
  <2>2. ASSUME NEW q1 \in Slots, NEW q2 \in Slots, A!Restoring(q1)', A!Running(q2)'
        PROVE  q2 = q1
    BY <1>2, <1>3, <2>2 DEF Only, A!Restoring, A!Running
  <2> QED  BY <2>1, <2>2 DEF Exclusive
<1>9. Handed \subseteq Handed' /\ (n = spent + 1 => n \notin Handed)
  BY <1>1, <1>4 DEF Handed
<1>10. NamesApart'
  <2>1. /\ objects \subseteq Handed' /\ \A p \in Owners : rows[p] \subseteq Handed'
        /\ \A a \in dossiers : a.docs \subseteq Handed'
    BY <1>1, <1>9 DEF NamesApart
  <2>2. ASSUME NEW q \in Slots PROVE Held(req[q])' \subseteq Handed'
    <3>1. CASE q = r
      <4>1. Held(req'[r]) = goal.docs
        BY <1>2 DEF Held
      <4> QED  BY <1>9, <3>1, <4>1 DEF Held
    <3>2. CASE q # r
      <4>1. req'[q] = req[q] /\ Held(req[q]) \subseteq Handed
        BY <1>1, <1>2, <3>2 DEF Only, NamesApart
      <4> QED  BY <1>9, <4>1 DEF Held
    <3> QED  BY <3>1, <3>2
  <2>3. Uploading(r)' => n = spent + 1 /\ n \in Handed'
    <3>1. Uploading(r)' => kind = "upload"
      BY <1>2 DEF Uploading
    <3> QED  BY <1>1, <3>1 DEF Handed
  <2>4. ASSUME NEW q \in Slots \ {r}, Uploading(q)'
        PROVE  Uploading(q) /\ req'[q] = req[q]
    BY <1>2, <2>4 DEF Only, Uploading, A!Running
  <2> HIDE DEF Handed, Held, Uploading
  <2>5. ASSUME NEW q \in Slots, Uploading(q)'
        PROVE  /\ req'[q].name \in Handed'
               /\ \A p \in Owners : req'[q].name \notin rows[p]
               /\ req'[q].pc # "commit" => req'[q].name \notin objects
    <3>1. CASE q = r
      <4>1. n \notin Handed /\ n \in Handed' /\ req'[r].name = n
        BY <1>2, <1>9, <2>3, <2>5, <3>1
      <4> QED  BY <1>1, <3>1, <4>1 DEF NamesApart
    <3>2. CASE q # r
      BY <1>1, <1>9, <2>4, <2>5, <3>2 DEF NamesApart
    <3> QED  BY <3>1, <3>2
  <2>6. ASSUME NEW q1 \in Slots, NEW q2 \in Slots, Uploading(q1)', Uploading(q2)',
               req'[q1].name = req'[q2].name
        PROVE  q1 = q2
    <3>1. ASSUME NEW q \in Slots \ {r}, Uploading(q)', Uploading(r)'
          PROVE  req'[q].name # req'[r].name
      BY <1>1, <1>2, <1>9, <2>3, <2>4, <3>1 DEF NamesApart
    <3>2. CASE q1 # r /\ q2 # r
      BY <1>1, <2>4, <2>6, <3>2 DEF NamesApart
    <3> QED  BY <2>6, <3>1, <3>2
  <2>7. \A p, q \in Owners : p # q => rows[p] \cap rows[q] = {}
    BY <1>1 DEF NamesApart
  <2> QED  BY <2>1, <2>2, <2>5, <2>6, <2>7 DEF NamesApart
<1>11. Covered'
  <2>1. ~ A!Replacing(r) /\ A!Dangling(r) = {}
    BY <1>3 DEF A!Replacing, A!Restoring, A!Running, A!Dangling
  <2> QED  BY <1>1, <1>2, <2>1, ReadableKept
<1> QED  BY <1>5, <1>6, <1>7, <1>8, <1>10, <1>11 DEF DossierInv

LEMMA ArriveKeeps ==
  ASSUME Alone = TRUE, NEW r \in Slots, DossierInv, A!Arrive(r)
  PROVE  DossierInv'
<1>1. PICK o \in Owners : \/ A!Upload(r, o) \/ A!CompleteUpload(r, o)
                          \/ A!DeleteDocument(r, o) \/ A!Export(r, o) \/ A!Restore(r, o)
  BY DEF A!Arrive
<1>2. A!NoArchive \in Dossier /\ A!NoArchive.docs = {}
  BY IdleIn DEF A!NoArchive
<1>3. /\ spent \in Nat /\ rows \in [Owners -> SUBSET Nat]
      /\ dossiers \in SUBSET Dossier
  BY DEF DossierInv, DossierTypes
<1>4. CASE A!Upload(r, o)
  BY <1>2, <1>3, <1>4, SameGone, StartKeeps DEF A!Upload
<1>5. CASE A!CompleteUpload(r, o)
  <2>1. PICK n \in 1..spent : A!Start(r, "complete", o, n, A!NoArchive, "begin")
    BY <1>5 DEF A!CompleteUpload
  <2>2. n \in Nat
    BY <1>3
  <2> QED  BY <1>2, <1>5, <2>1, <2>2, SameGone, StartKeeps DEF A!CompleteUpload
<1>6. CASE A!DeleteDocument(r, o)
  BY <1>2, <1>3, <1>6, SameGone, StartKeeps DEF A!DeleteDocument
<1>7. CASE A!Export(r, o)
  BY <1>2, <1>3, <1>7, SameGone, StartKeeps DEF A!Export
<1>8. CASE A!Restore(r, o)
  <2>1. PICK a \in dossiers : a.owner = o /\ A!Start(r, "restore", o, 0, a, "read")
    BY <1>8 DEF A!Restore
  <2>2. a \in Dossier /\ a.docs \subseteq Handed
    BY <1>3, <2>1 DEF DossierInv, NamesApart
  <2>3. UNCHANGED <<rows, objects, dossiers, lock, Gone, spent>>
    BY <1>8, SameGone DEF A!Restore
  <2> QED  BY <2>1, <2>2, <2>3, StartKeeps
<1> QED  BY <1>1, <1>4, <1>5, <1>6, <1>7, <1>8

LEMMA ClientPutKeeps ==
  ASSUME DossierInv, A!ClientPut
  PROVE  DossierInv'
<1> DEFINE n == spent + 1
<1>1. /\ spent' = n /\ objects' = objects \cup {n}
      /\ UNCHANGED <<rows, dossiers, lock, req, Gone>>
  BY SameGone DEF A!ClientPut
<1>2. DossierTypes /\ NamesApart /\ Covered /\ spent \in Nat
  BY DEF DossierInv, DossierTypes
<1>3. n \in Nat /\ n \notin Handed /\ n \in Handed' /\ Handed \subseteq Handed'
  BY <1>1, <1>2 DEF Handed
<1> HIDE DEF n
<1>4. DossierTypes'
  BY <1>1, <1>2, <1>3 DEF DossierTypes
<1>5. \A r \in Slots : KindFits(req'[r]) /\ InHand(r)'
  BY <1>1 DEF DossierInv, InHand, A!Running
<1>6. ASSUME NEW r \in Slots PROVE RestoreHolds(r)'
  <2>1. RestoreHolds(r) /\ (A!Restoring(r)' <=> A!Restoring(r)) /\ objects \subseteq objects'
    BY <1>1 DEF DossierInv, A!Restoring, A!Running
  <2>2. \A p \in Owners : rows[p] \cap objects' = rows[p] \cap objects
    BY <1>1, <1>2, <1>3 DEF NamesApart
  <2> QED  BY <1>1, <2>1, <2>2 DEF RestoreHolds
<1>7. Exclusive'
  BY <1>1 DEF DossierInv, Exclusive, A!Restoring, A!Running
<1>8. ASSUME NEW r \in Slots, Uploading(r)'
      PROVE  Uploading(r) /\ req[r].name \in Handed /\ req[r].name # n
  <2>1. Uploading(r)
    BY <1>1, <1>8 DEF Uploading, A!Running
  <2> HIDE DEF Handed
  <2> QED  BY <1>2, <1>3, <2>1 DEF NamesApart
<1>9. NamesApart'
  <2> HIDE DEF Handed, Uploading
  <2>1. /\ objects' \subseteq Handed' /\ \A p \in Owners : rows[p] \subseteq Handed'
        /\ \A a \in dossiers : a.docs \subseteq Handed'
        /\ \A p, q \in Owners : p # q => rows[p] \cap rows[q] = {}
    BY <1>1, <1>2, <1>3 DEF NamesApart
  <2>2. \A r \in Slots : Held(req[r])' \subseteq Handed'
    <3>1. \A r \in Slots : Held(req[r]) \subseteq Handed'
      BY <1>2, <1>3 DEF NamesApart
    <3> QED  BY <1>1, <3>1 DEF Held
  <2>3. \A r \in Slots : Uploading(r)' =>
          /\ req[r].name \in Handed'
          /\ \A p \in Owners : req[r].name \notin rows[p]
          /\ req[r].pc # "commit" => req[r].name \notin objects'
    BY <1>1, <1>2, <1>3, <1>8 DEF NamesApart
  <2>4. \A r, q \in Slots : Uploading(r)' /\ Uploading(q)' /\ req[r].name = req[q].name
                              => r = q
    BY <1>2, <1>8 DEF NamesApart
  <2> QED  BY <1>1, <2>1, <2>2, <2>3, <2>4 DEF NamesApart
<1>10. Covered'
  BY <1>1, <1>2 DEF Covered, A!Replacing, A!Restoring, A!Running, A!Dangling
<1> QED  BY <1>4, <1>5, <1>6, <1>7, <1>9, <1>10 DEF DossierInv

LEMMA DamageKeeps ==
  ASSUME DossierInv, A!Damage
  PROVE  DossierInv'
<1>1. UNCHANGED <<rows, objects, lock, req, spent, Gone>>
  BY SameGone DEF A!Damage
<1>2. PICK a \in dossiers : dossiers' = (dossiers \ {a}) \cup {[a EXCEPT !.sound = FALSE]}
  BY DEF A!Damage
<1> DEFINE b == [a EXCEPT !.sound = FALSE]
<1>3. DossierTypes /\ NamesApart /\ Covered /\ a \in Dossier
  BY DEF DossierInv, DossierTypes
<1>4. b \in Dossier /\ b.owner = a.owner /\ b.docs = a.docs
  BY <1>3 DEF Dossier
<1> HIDE DEF b
<1>5. dossiers' = (dossiers \ {a}) \cup {b}
  BY <1>2 DEF b
<1>6. DossierTypes'
  BY <1>1, <1>3, <1>4, <1>5 DEF DossierTypes
<1>7. \A r \in Slots : KindFits(req'[r]) /\ InHand(r)'
  BY <1>1 DEF DossierInv, InHand, A!Running
<1>8. ASSUME NEW r \in Slots PROVE RestoreHolds(r)'
  <2>1. RestoreHolds(r) /\ (A!Restoring(r)' <=> A!Restoring(r))
    BY <1>1 DEF DossierInv, A!Restoring, A!Running
  <2> QED  BY <1>1, <2>1 DEF RestoreHolds
<1>9. Exclusive'
  BY <1>1 DEF DossierInv, Exclusive, A!Restoring, A!Running
<1>11. NamesApart'
  <2>1. \A r \in Slots : Uploading(r)' => Uploading(r)
    BY <1>1 DEF Uploading, A!Running
  <2>2. \A c \in dossiers' : c.docs \subseteq Handed
    BY <1>3, <1>4, <1>5 DEF NamesApart
  <2>3. Handed' = Handed /\ \A r \in Slots : Held(req[r])' = Held(req[r])
    BY <1>1 DEF Handed, Held
  <2> HIDE DEF Handed, Held, Uploading
  <2> QED  BY <1>1, <1>3, <2>1, <2>2, <2>3 DEF NamesApart
<1>12. Covered'
  BY <1>1, <1>3 DEF Covered, A!Replacing, A!Restoring, A!Running, A!Dangling
<1> QED  BY <1>6, <1>7, <1>8, <1>9, <1>11, <1>12 DEF DossierInv

-----------------------------------------------------------------------------
LEMMA DossierInit == A!Init => DossierInv
<1> SUFFICES ASSUME A!Init PROVE DossierInv
  OBVIOUS
<1>1. /\ rows = [o \in Owners |-> {}] /\ objects = {} /\ dossiers = {} /\ Gone = {}
      /\ spent = 0
      /\ \A r \in Slots : req[r] = A!Idle
  BY DEF A!Init, Gone
<1>2. req \in [Slots -> Request]
  <2> HIDE DEF Request
  <2> QED  BY IdleIn DEF A!Init
<1>3. /\ A!Idle.pc = "idle" /\ A!Idle.payload = {} /\ A!Idle.snapshot = {}
      /\ A!Idle.goal = A!NoArchive /\ A!NoArchive.docs = {} /\ A!Idle.before = {}
  BY DEF A!Idle, A!NoArchive
<1>4. DossierTypes
  BY <1>1, <1>2 DEF DossierTypes
<1>5. \A r \in Slots : ~ A!Running(r)
  BY <1>1, <1>3 DEF A!Running
<1>6. \A r \in Slots : KindFits(req[r]) /\ InHand(r) /\ RestoreHolds(r)
  BY <1>1, <1>3, <1>5 DEF KindFits, InHand, RestoreHolds, A!Restoring, Replacings, A!Running
<1>7. Exclusive
  BY <1>1, <1>3, <1>5 DEF Exclusive, A!Restoring, Writing
<1>8. \A r \in Slots : Held(req[r]) = {} /\ ~ Uploading(r)
  BY <1>1, <1>3, <1>5 DEF Held, Uploading
<1>9. NamesApart
  <2> HIDE DEF Held, Uploading, Handed
  <2> QED  BY <1>1, <1>8 DEF NamesApart
<1>10. Covered
  BY <1>1 DEF Covered
<1> QED  BY <1>4, <1>6, <1>7, <1>9, <1>10 DEF DossierInv

LEMMA DossierNext ==
  ASSUME Alone = TRUE, DossierInv, [MCNext]_MCVars
  PROVE  DossierInv'
<1>1. CASE A!Next
  <2>1. CASE \E r \in Slots : A!Arrive(r)
    BY <2>1, ArriveKeeps
  <2>2. ASSUME NEW r \in Slots, A!Step(r) PROVE DossierInv'
    BY <2>2, BeginKeeps, GiveUpKeeps, PutObjectKeeps, CheckUploadKeeps, EraseObjectKeeps,
       CommitKeeps, CommitFailsKeeps, ReadPayloadKeeps, GatherKeeps, RememberKeeps,
       SnapshotKeeps, ProtectKeeps, ReplaceRowsKeeps, SyncKeeps, PutFileKeeps,
       ListNamesKeeps, PruneFileKeeps, UndoRowsKeeps, AnswerKeeps DEF A!Step
  <2>3. CASE \E r \in Slots : A!Crash(r)
    BY <2>3, CrashKeeps
  <2>4. CASE A!ClientPut
    BY <2>4, ClientPutKeeps
  <2>5. CASE A!Damage
    BY <2>5, DamageKeeps
  <2> QED  BY <1>1, <2>1, <2>2, <2>3, <2>4, <2>5 DEF A!Next
<1>2. CASE UNCHANGED dossierVars
  <2>1. UNCHANGED <<rows, objects, dossiers, lock, req, spent, Gone>>
    BY <1>2 DEF dossierVars, Gone
  <2>2. DossierTypes'
    BY <2>1 DEF DossierInv, DossierTypes
  <2>3. \A r \in Slots : KindFits(req'[r])
    BY <2>1 DEF DossierInv
  <2>4. \A r \in Slots : InHand(r)'
    BY <2>1 DEF DossierInv, InHand, A!Running
  <2>5. \A r \in Slots : RestoreHolds(r)'
    <3> SUFFICES ASSUME NEW r \in Slots PROVE RestoreHolds(r)'
      OBVIOUS
    <3>1. RestoreHolds(r)
      BY DEF DossierInv
    <3>2. rows' = rows /\ objects' = objects /\ req' = req /\ Gone' = Gone
      BY <2>1
    <3>3. A!Restoring(r)' <=> A!Restoring(r)
      BY <3>2 DEF A!Restoring, A!Running
    <3> QED  BY <3>1, <3>2, <3>3 DEF RestoreHolds
  <2>6. Exclusive'
    BY <2>1 DEF DossierInv, Exclusive, A!Restoring, A!Running
  <2>7. NamesApart'
    <3>1. /\ Handed' = Handed
          /\ \A r \in Slots : /\ Held(req[r])' = Held(req[r])
                              /\ Uploading(r)' <=> Uploading(r)
      BY <2>1 DEF Handed, Held, Uploading, A!Running
    <3> HIDE DEF Handed, Held, Uploading
    <3> QED  BY <2>1, <3>1 DEF DossierInv, NamesApart
  <2>8. Covered'
    BY <2>1 DEF DossierInv, Covered, A!Replacing, A!Restoring, A!Running, A!Dangling
  <2>9. \A r \in Slots : KindFits(req[r])'
    BY <2>3 DEF KindFits
  <2> QED  BY <2>2, <2>4, <2>5, <2>6, <2>7, <2>8, <2>9 DEF DossierInv
<1> QED  BY <1>1, <1>2 DEF MCNext, MCVars

LEMMA DossierInvariant ==
  ASSUME Alone = TRUE
  PROVE  MCSpec => []DossierInv
<1>1. MCInit => DossierInv
  BY DossierInit DEF MCInit
<1>2. DossierInv /\ [MCNext]_MCVars => DossierInv'
  BY DossierNext
<1> QED  BY <1>1, <1>2, PTL DEF MCSpec

\* read_document_content: when nothing runs beside a restore, and whatever the
\* store refuses and whichever process dies, a registered document can be read
\* back, unless its account is at this moment replacing or deleting it, a crash or
\* a failed rollback lost it, or a request that named this very document and was
\* refused took it (a mismatched completion, a deletion not committed).
THEOREM ReadableUnlessWithdrawnHolds ==
  ASSUME Alone = TRUE
  PROVE  MCSpec => []ReadableUnlessWithdrawn
<1>1. DossierInv => ReadableUnlessWithdrawn
  BY DEF DossierInv, Covered, Gone, ReadableUnlessWithdrawn, A!ReadableUnlessWithdrawn,
     A!Readable
<1> QED  BY <1>1, DossierInvariant, PTL

\* restore_dossier: a restore that ends has the rows of the archive with all
\* their files, or those of before with theirs and every file there was.
THEOREM RestoreAllOrNothingHolds ==
  ASSUME Alone = TRUE
  PROVE  MCSpec => []RestoreAllOrNothing
<1>1. ASSUME DossierInv PROVE RestoreAllOrNothing
  <2> SUFFICES ASSUME NEW r \in Slots, req[r].pc = "ended"
               PROVE  /\ req[r].result = "restored" =>
                           /\ rows[req[r].owner] = req[r].goal.docs
                           /\ rows[req[r].owner] \subseteq objects
                      /\ req[r].result = "undone" =>
                           /\ rows[req[r].owner] = req[r].snapshot
                           /\ req[r].before \subseteq objects
    BY DEF RestoreAllOrNothing, A!RestoreAllOrNothing
  <2>1. RestoreHolds(r) /\ A!Restoring(r)
    BY <1>1, RestoreStage
  <2> QED  BY <2>1 DEF RestoreHolds
<1> QED  BY <1>1, DossierInvariant, PTL

\* "Files that belong to someone else and must survive this restore": when the
\* restore is alone no step of it, nor of its undo, deletes the file of a row of
\* another account, for any accounts, files and failures. With other requests
\* under way it may (run restore_overlap).
THEOREM OthersFilesSurviveHolds ==
  ASSUME Alone = TRUE
  PROVE  MCSpec => OthersFilesSurvive
<1> DEFINE Spares == \A r \in Slots : A!PruneFile(r) =>
              \A o \in Owners \ {req[r].owner} : rows[o] \cap objects \subseteq objects'
<1>1. DossierInv => [Spares]_(A!vars)
  <2> SUFFICES ASSUME DossierInv, NEW r \in Slots, A!PruneFile(r)
               PROVE  \A o \in Owners \ {req[r].owner} : rows[o] \cap objects \subseteq objects'
    OBVIOUS
  <2>1. req[r].pc \in {"prune", "undoPrune"}
    BY DEF A!PruneFile
  <2>2. objects' = objects \/ \E n \in req[r].todo : objects' = objects \ {n}
    BY DEF A!PruneFile, A!Unconfirmed, A!Erased
  <2> QED  BY <2>1, <2>2, OthersSpared
<1> QED  BY <1>1, DossierInvariant, PTL DEF OthersFilesSurvive, A!OthersFilesSurvive
=============================================================================
