--------------------------- MODULE BackupRotation ---------------------------
(***************************************************************************)
(* The backup scripts that cron runs over one directory without a lock     *)
(* (ops/backup/backup-database.sh full and incremental, verify-backup.sh), *)
(* and the full restore an operator runs (ops/restore/restore-database.sh).*)
(* Time is counted in days, as the retention is.  A backup is known by its *)
(* age; what it holds is the whole database or tells how it came to hold   *)
(* less.  WAL files and copies on S3 are left out: a dump of pg_dump is no *)
(* base for the first, and no script reads the second.                     *)
(***************************************************************************)
EXTENDS Naturals, FiniteSets

CONSTANTS Retention,    \* RETENTION_DAYS
          MaxFaults,    \* bound on failing steps
          MaxRestores,  \* bound on restores
          NoFile

ASSUME BackupAssumption == {Retention, MaxFaults, MaxRestores} \subseteq Nat /\ Retention > 1

VARIABLES
  files,      \* backup_*.dump.gz in the full directory, by age
  db,         \* what the database holds
  full,       \* the full backup that runs: where it stands, what it dumps
  incremental,\* the incremental backup that runs
  restore,    \* the restore that runs, and the age of the file it was given
  ran,        \* which of cron's daily jobs ran today
  sinceGood,  \* days since a full backup was completed, Retention + 1 for more
  alerted,    \* an alert was sent since then
  faults, restores

vars == <<files, db, full, incremental, restore, ran, sinceGood, alerted, faults, restores>>
jobs == <<full, incremental, restore>>
bounds == <<faults, restores>>

Ages == 0..(Retention + 1)   \* the last one stands for every higher age
Data == {"whole", "overlap", "expired", "truncated", "interrupted", "loading"}
File == [state : {"partial", "gz"}, data : Data]

ASSUME NoFileAssumption == NoFile \notin File

Idle == [at |-> "idle", dump |-> "whole"]
NoRestore == [at |-> "idle", age |-> 0]

\* One backup was completed before the story begins.
Init ==
  /\ files = [a \in Ages |-> IF a = 0 THEN [state |-> "gz", data |-> "whole"] ELSE NoFile]
  /\ db = "whole"
  /\ full = Idle /\ incremental = "idle" /\ restore = NoRestore
  /\ ran = {"full"} /\ sinceGood = 0 /\ alerted = FALSE
  /\ faults = 0 /\ restores = 0

\* Every cron job and every restore ends within the day.
Tick ==
  /\ full = Idle /\ incremental = "idle" /\ restore = NoRestore
  /\ ran = {"full", "verify"}
  /\ files' = [a \in Ages |->
       IF a = 0 THEN NoFile
       ELSE IF a = Retention + 1 /\ files[a - 1] = NoFile THEN files[a] ELSE files[a - 1]]
  /\ sinceGood' = IF sinceGood > Retention THEN sinceGood ELSE sinceGood + 1
  /\ ran' = {}
  /\ UNCHANGED <<db, jobs, alerted, bounds>>

-----------------------------------------------------------------------------
(* backup-database.sh full.                                                *)

\* Mutant of StartFull: no backup while yesterday's is there.
StartFullIfOld ==
  /\ "full" \notin ran
  /\ ran' = ran \union {"full"}
  /\ full' = IF db = "missing" \/ files[1] # NoFile THEN full
             ELSE [at |-> "dump", dump |-> IF db = "loading" THEN "overlap" ELSE db]
  /\ UNCHANGED <<files, db, incremental, restore, sinceGood, alerted, bounds>>

\* check_postgres ends the script when there is no database; pg_dump dumps what
\* is there when it starts.
StartFull ==
  /\ "full" \notin ran
  /\ ran' = ran \union {"full"}
  /\ full' = IF db = "missing" THEN full
             ELSE [at |-> "dump", dump |-> IF db = "loading" THEN "overlap" ELSE db]
  /\ UNCHANGED <<files, db, incremental, restore, sinceGood, alerted, bounds>>

\* pg_dump writes backup_*.dump, which no script looks at; gzip then writes
\* backup_*.dump.gz as it goes.
DumpDone ==
  /\ full.at = "dump"
  /\ full' = [full EXCEPT !.at = "gzip"]
  /\ files' = [files EXCEPT ![0] = [state |-> "partial", data |-> full.dump]]
  /\ UNCHANGED <<db, incremental, restore, ran, sinceGood, alerted, bounds>>

GzipDone ==
  /\ full.at = "gzip"
  /\ full' = [full EXCEPT !.at = "clean"]
  /\ files' = [files EXCEPT ![0] = [@ EXCEPT !.state = "gz"]]
  /\ sinceGood' = 0 /\ alerted' = FALSE
  /\ UNCHANGED <<db, incremental, restore, ran, bounds>>

\* pg_dump fails, or gzip does and removes what it wrote, or the machine stops
\* and leaves it.  error_exit, or set -e, ends the script before the clean-up.
FullFails ==
  /\ full.at \in {"dump", "gzip"} /\ faults < MaxFaults
  /\ faults' = faults + 1
  /\ full' = Idle
  /\ files' \in {files} \union
       (IF full.at = "gzip" THEN {[files EXCEPT ![0] = NoFile]} ELSE {})
  /\ UNCHANGED <<db, incremental, restore, ran, sinceGood, alerted, restores>>

\* Mutant of Expired: find -mtime +N taken for N days or more.
ExpiredEarly(a) == a >= Retention

\* find -mtime +RETENTION_DAYS.
Expired(a) == a > Retention

Cleaned == [a \in Ages |-> IF Expired(a) THEN NoFile ELSE files[a]]

CleanUpFull ==
  /\ full.at = "clean"
  /\ full' = Idle
  /\ files' = Cleaned
  /\ UNCHANGED <<db, incremental, restore, ran, sinceGood, alerted, bounds>>

-----------------------------------------------------------------------------
(* backup-database.sh incremental: hourly, and it cleans up like a full one. *)

StartIncremental ==
  /\ incremental = "idle" /\ db # "missing"
  /\ incremental' = "clean"
  /\ UNCHANGED <<files, db, full, restore, ran, sinceGood, alerted, bounds>>

CleanUpIncremental ==
  /\ incremental = "clean"
  /\ incremental' = "idle"
  /\ files' = Cleaned
  /\ UNCHANGED <<db, full, restore, ran, sinceGood, alerted, bounds>>

-----------------------------------------------------------------------------
(* verify-backup.sh.                                                       *)

Present == {a \in Ages : files[a] # NoFile}
Newest(n) == {a \in Present : Cardinality({b \in Present : b < a}) < n}

\* check_backup_age: the newest file is at most 26 hours old.  That of
\* yesterday is, until today's backup should have been made.
CheckAge == 0 \in Present \/ (1 \in Present /\ "full" \notin ran)

\* verify_backup_integrity: gzip -t of the newest three.
CheckIntegrity == \A a \in Newest(3) : files[a].state = "gz"

\* Every six hours: the day is over after a run that follows the full backup.
Verify ==
  /\ alerted' = (alerted \/ ~CheckAge \/ ~CheckIntegrity)
  /\ ran' = ran \union (IF "full" \in ran THEN {"verify"} ELSE {})
  /\ UNCHANGED <<files, db, jobs, sinceGood, bounds>>

-----------------------------------------------------------------------------
(* restore-database.sh full.                                               *)

\* find_latest_backup, or BACKUP_FILE.
StartRestore ==
  /\ restore.at = "idle" /\ restores < MaxRestores
  /\ restores' = restores + 1
  /\ \E a \in Present : restore' = [at |-> "check", age |-> a]
  /\ UNCHANGED <<files, db, full, incremental, ran, sinceGood, alerted, faults>>

\* gzip -t.
Sound(a) == files[a] # NoFile /\ files[a].state = "gz"

CheckFile ==
  /\ restore.at = "check"
  /\ restore' = IF Sound(restore.age) THEN [restore EXCEPT !.at = "terminate"] ELSE NoRestore
  /\ UNCHANGED <<files, db, full, incremental, ran, sinceGood, alerted, bounds>>

\* pg_terminate_backend for every connection to the database: a dump fails.
Terminate ==
  /\ restore.at = "terminate"
  /\ restore' = [restore EXCEPT !.at = "drop"]
  /\ full' = IF full.at = "dump" THEN Idle ELSE full
  /\ UNCHANGED <<files, db, incremental, ran, sinceGood, alerted, bounds>>

\* The API, or a dump that has just begun, may be connected again: the database
\* is not dropped and the restore ends.
Drop ==
  /\ restore.at = "drop"
  /\ \/ restore' = NoRestore /\ db' = db
     \/ full.at # "dump" /\ restore' = [restore EXCEPT !.at = "create"] /\ db' = "missing"
  /\ UNCHANGED <<files, full, incremental, ran, sinceGood, alerted, bounds>>

Create ==
  /\ restore.at = "create"
  /\ restore' = [restore EXCEPT !.at = "load"]
  /\ db' = "loading"
  /\ UNCHANGED <<files, full, incremental, ran, sinceGood, alerted, bounds>>

\* zcat | pg_restore: whatever happens, the script goes on and ends well.
Load ==
  /\ restore.at = "load"
  /\ restore' = NoRestore
  /\ db' = IF files[restore.age] = NoFile THEN "expired"
           ELSE IF files[restore.age].state = "partial" THEN "truncated"
           ELSE files[restore.age].data
  /\ UNCHANGED <<files, full, incremental, ran, sinceGood, alerted, bounds>>

\* A step fails and ends the script, or pg_restore reports errors, which are
\* ignored.
RestoreFails ==
  /\ restore # NoRestore /\ faults < MaxFaults
  /\ faults' = faults + 1
  /\ restore' = NoRestore
  /\ db' = IF db = "loading" THEN "interrupted" ELSE db
  /\ UNCHANGED <<files, full, incremental, ran, sinceGood, alerted, restores>>

-----------------------------------------------------------------------------
RestoreStep == CheckFile \/ Terminate \/ Drop \/ Create \/ Load
FullStep == StartFull \/ DumpDone \/ GzipDone \/ CleanUpFull

Next ==
  \/ Tick \/ FullStep \/ FullFails
  \/ StartIncremental \/ CleanUpIncremental
  \/ Verify
  \/ StartRestore \/ RestoreStep \/ RestoreFails

\* Days pass, cron starts the daily jobs, and scripts that run come to an end.
Fairness ==
  /\ WF_vars(FullStep) /\ WF_vars(CleanUpIncremental) /\ WF_vars(RestoreStep)
  /\ WF_vars(Verify) /\ SF_vars(Tick)

Spec == Init /\ [][Next]_vars /\ Fairness

-----------------------------------------------------------------------------
(* Properties.                                                             *)

\* Every variable has its type, and only today's backup can be in the making.
TypeOK ==
  /\ files \in [Ages -> {NoFile} \union File]
  /\ db \in Data \union {"missing"}
  /\ full \in [at : {"idle", "dump", "gzip", "clean"}, dump : Data]
  /\ incremental \in {"idle", "clean"}
  /\ restore \in [at : {"idle", "check", "terminate", "drop", "create", "load"}, age : Ages]
  /\ ran \subseteq {"full", "verify"} /\ sinceGood \in Ages /\ alerted \in BOOLEAN
  /\ faults \in 0..MaxFaults /\ restores \in 0..MaxRestores
  /\ full.at = "gzip" => files[0] # NoFile /\ files[0].state = "partial"

SoundFiles == {a \in Ages : files[a] # NoFile /\ files[a].state = "gz"}

\* Hourly clean-ups go on while full backups fail, so the last backup does get
\* deleted, but only after no full backup was completed for longer than the
\* retention, in whatever order the jobs of a day run or fail.
LossNeedsLongFailure == SoundFiles = {} => sinceGood > Retention

\* By then verify-backup.sh has sent an alert: a directory without a usable
\* backup never comes as a surprise.
LossIsAnnounced == SoundFiles = {} => alerted

\* A dump that was cut off, or is still being compressed, never replaces the
\* database, although a restore takes any file by its name and backups are
\* made and deleted while it runs.
NoTruncatedRestore ==
  /\ db # "truncated"
  /\ \A a \in SoundFiles : files[a].data # "truncated"

\* Failures end: once there are no more of them, there is a complete backup of
\* today or yesterday every day, unless a restore stopped halfway has left no
\* database to dump.
BackupsResume == <>[](db = "missing") \/ <>[](SoundFiles \intersect {0, 1} # {})

\* However the scripts overlap, fail and stop: the last sound backup is not
\* lost before a whole retention period without one, nor silently, and what
\* a restore loads is not truncated.
BackupInv == TypeOK /\ LossNeedsLongFailure /\ LossIsAnnounced /\ NoTruncatedRestore
=============================================================================
