------------------------------- MODULE Backup -------------------------------
(***************************************************************************)
(* scripts/backup.py next to a running service: the database is copied in  *)
(* one transaction, then the snapshot directories one after the other, then*)
(* the archive is packed and later restored into an empty store.  The      *)
(* service goes on meanwhile.                                              *)
(***************************************************************************)
EXTENDS RunPipeline

VARIABLES
  stage         \* the temporary directory, then the archive made of it

Stages == {"none", "database", "directories", "packed"}

\* catalogue: the table snapshots in the copy of the database; todo: directories
\* copytree has listed and not copied yet; files: the copies made.
NoArchive ==
  [ at |-> "none", catalogue |-> {}, todo |-> {},
    files |-> [h \in Hashes |-> {}] ]

StageOK ==
  stage \in [ at : Stages, catalogue : SUBSET Hashes, todo : SUBSET Hashes,
              files : [Hashes -> SUBSET Tables] ]

BackupInit == Init /\ stage = NoArchive

\* Connection.backup, or pg_dump.
CopyDatabase ==
  /\ stage.at = "none"
  /\ stage' = [stage EXCEPT !.at = "database", !.catalogue = catalogue]
  /\ UNCHANGED vars

\* shutil.copytree lists the directories once ...
ListDirectories ==
  /\ stage.at = "database"
  /\ stage' = [stage EXCEPT !.at = "directories", !.todo = dirs]
  /\ UNCHANGED vars

\* ... and copies each with the files it has when its turn comes.
CopyDirectory ==
  /\ stage.at = "directories"
  /\ \E h \in stage.todo :
       stage' = [stage EXCEPT !.files[h] = files[h], !.todo = @ \ {h}]
  /\ UNCHANGED vars

\* Mutant: the directories are listed and copied before the database.
PackLate ==
  /\ stage.at = "directories"
  /\ stage.todo = {}
  /\ stage' = [stage EXCEPT !.at = "packed", !.catalogue = catalogue]
  /\ UNCHANGED vars

\* The manifest is computed from the stage, then the archive is written.
Pack ==
  /\ stage.at = "directories"
  /\ stage.todo = {}
  /\ stage' = [stage EXCEPT !.at = "packed"]
  /\ UNCHANGED vars

BackupNext ==
  \/ Next /\ UNCHANGED stage
  \/ CopyDatabase \/ ListDirectories \/ CopyDirectory \/ Pack

backupVars == <<vars, stage>>

BackupSpec == BackupInit /\ [][BackupNext]_backupVars

-----------------------------------------------------------------------------
\* What a restored store lists as a snapshot can be loaded, although the service
\* kept writing: nothing in the copied catalogue is newer than the copied files
\* (backup.py, lines 68-78).
ArchiveConsistent ==
  stage.at = "packed" =>
    \A h \in stage.catalogue : stage.files[h] = Tables

\* Why: what was complete when the database was copied stays so, and is listed.
StageCovered ==
  /\ \A h \in stage.catalogue : h \in catalogue
  /\ stage.at \in {"directories", "packed"} =>
       \A h \in stage.catalogue : h \in stage.todo \/ stage.files[h] = Tables
  /\ stage.at = "packed" => stage.todo = {}
=============================================================================
