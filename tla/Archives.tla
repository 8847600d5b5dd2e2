-------------------------------- MODULE Archives --------------------------------
(***************************************************************************)
(* The archives of scripts/backup.py over the life of a store: backup with *)
(* retention, verify, restore into an empty directory or, with --force,    *)
(* over the store that is there, and backups of what was restored.  A      *)
(* command runs alone here; module Backup has the service next to it.      *)
(*                                                                         *)
(* A file is its name and a number for its content; a digest is the        *)
(* content.  The metadata are in the file store.sqlite, or in PostgreSQL   *)
(* and then in an archive as the file store.pgdump.                        *)
(***************************************************************************)
EXTENDS Integers, Sequences, FiniteSets, SequencesExt

CONSTANTS
  MaxCommands,    \* bound: backups and restores
  MaxWork,        \* bound: changes of the metadata
  MaxDamages      \* bound: archives damaged and restores cut short

ASSUME ArchiveBounds == MaxCommands \in Nat /\ MaxWork \in Nat /\ MaxDamages \in Nat

VARIABLES
  onServer,       \* whether the metadata are in PostgreSQL
  server,         \* what is there
  store,          \* file name -> content, of the store directory
  archives,       \* the archives in the directory of backups, by name
  outcome,        \* what the last command did
  latest,         \* the number of the last archive that was made
  commands,       \* backups and restores begun
  damages         \* faults that happened

archiveVars == <<onServer, server, store, archives, outcome, latest, commands,
                 damages>>

NoFiles == [n \in {} |-> 0]

\* What a reader of the store finds as its metadata.
Metadata == IF onServer THEN server ELSE store["store.sqlite"]

\* Files a, written over those of b.
Over(a, b) ==
  [n \in DOMAIN a \cup DOMAIN b |-> IF n \in DOMAIN a THEN a[n] ELSE b[n]]

OneFile(name, content) == [n \in {name} |-> content]
OnlyFiles(files, names) == [n \in DOMAIN files \cap names |-> files[n]]
AllBut(files, names) == [n \in DOMAIN files \ names |-> files[n]]

Silent == [command |-> "none"]

ArchivesInit ==
  /\ onServer \in BOOLEAN
  /\ server = 0
  /\ store = [n \in {"snapshots", "secrets.json"}
                      \cup (IF onServer THEN {} ELSE {"store.sqlite"}) |-> 0]
  /\ archives = <<>>
  /\ outcome = Silent
  /\ latest = 0
  /\ commands = 0
  /\ damages = 0

\* The service goes on: the metadata change, or a snapshot is added.
ChangeMetadata ==
  /\ Metadata < MaxWork
  /\ IF onServer
     THEN server' = server + 1 /\ UNCHANGED store
     ELSE store' = [store EXCEPT !["store.sqlite"] = @ + 1] /\ UNCHANGED server
  /\ outcome' = Silent
  /\ UNCHANGED <<onServer, archives, commands, damages, latest>>

-----------------------------------------------------------------------------
Metafile == IF onServer THEN "store.pgdump" ELSE "store.sqlite"

\* The files next to the database are copied over what was staged, whatever they
\* are called.
Staged(withSecrets) ==
  Over(AllBut(store, {"store.sqlite"} \cup
                     (IF withSecrets THEN {} ELSE {"secrets.json"})),
       OneFile(Metafile, Metadata))

\* The manifest lists the stage, and is then written into it.
ArchiveOf(n, withSecrets) ==
  LET stage == Staged(withSecrets)
  IN  [ number |-> n,
        digests |-> stage,
        files |-> Over(OneFile("manifest.json", n), stage),
        made |-> Metadata,
        secrets |-> withSecrets,
        restored |-> "manifest.json" \in DOMAIN store,
        intact |-> TRUE ]

\* --retain: the newest so many; nothing is removed without it.
Retained(all, retain) ==
  IF retain = 0 \/ Len(all) <= retain THEN all
  ELSE SubSeq(all, Len(all) - retain + 1, Len(all))

RunBackup ==
  /\ commands < MaxCommands
  /\ \E retain \in {0, 1, 2}, withSecrets \in BOOLEAN :
       archives' = Retained(Append(archives, ArchiveOf(commands + 1, withSecrets)),
                            retain)
  /\ latest' = commands + 1
  /\ commands' = commands + 1
  /\ outcome' = Silent
  /\ UNCHANGED <<onServer, server, store, damages>>

\* A file of an archive is not what was written.
DamageArchive ==
  /\ damages < MaxDamages
  /\ \E k \in DOMAIN archives : \E n \in DOMAIN archives[k].digests :
       /\ archives[k].intact
       /\ n # "manifest.json"
       /\ archives' = [archives EXCEPT ![k].files[n] = -1, ![k].intact = FALSE]
  /\ damages' = damages + 1
  /\ UNCHANGED <<onServer, server, store, outcome, commands, latest>>

Verifies(a) == \A n \in DOMAIN a.digests : a.files[n] = a.digests[n]

-----------------------------------------------------------------------------
Ended(a, ok) ==
  [ command |-> "restore", archive |-> a, ok |-> ok, before |-> store,
    server |-> server ]

\* The directory is not empty and --force is not given, or verify fails.
RefuseRestore ==
  /\ commands < MaxCommands
  /\ \E k \in DOMAIN archives : outcome' = Ended(archives[k], FALSE)
  /\ commands' = commands + 1
  /\ UNCHANGED <<onServer, server, store, archives, damages, latest>>

\* Mutant: the archive is not verified before it is extracted.
RestoreUnverified ==
  /\ commands < MaxCommands
  /\ \E k \in DOMAIN archives, target \in {store, NoFiles}, url \in BOOLEAN :
       LET files == Over(archives[k].files, target)
           dumped == "store.pgdump" \in DOMAIN files
       IN  /\ store' = files
           /\ server' = IF dumped /\ url THEN files["store.pgdump"] ELSE server
           /\ outcome' = Ended(archives[k], dumped => url)
  /\ commands' = commands + 1
  /\ UNCHANGED <<onServer, archives, damages, latest>>

\* Into an empty directory, on which the service is started then, or with --force
\* over the one that is there: all files are extracted, and a dump that is found
\* is loaded into the server the command was given, or it ends with an error.
Restore ==
  /\ commands < MaxCommands
  /\ \E k \in DOMAIN archives, target \in {store, NoFiles}, url \in BOOLEAN :
       LET files == Over(archives[k].files, target)
           dumped == "store.pgdump" \in DOMAIN files
       IN  /\ Verifies(archives[k])
           /\ store' = files
           /\ server' = IF dumped /\ url THEN files["store.pgdump"] ELSE server
           /\ outcome' = Ended(archives[k], dumped => url)
  /\ commands' = commands + 1
  /\ UNCHANGED <<onServer, archives, damages, latest>>

\* The members of an archive are in the order of their names.
MemberOrder ==
  <<"manifest.json", "secrets.json", "snapshots", "store.pgdump", "store.sqlite">>

\* A restore over the store is stopped while it extracts.
CutRestore ==
  /\ commands < MaxCommands
  /\ damages < MaxDamages
  /\ \E k \in DOMAIN archives, n \in 1 .. Len(MemberOrder) :
       /\ Verifies(archives[k])
       /\ store' = Over(OnlyFiles(archives[k].files,
                                  Range(SubSeq(MemberOrder, 1, n))), store)
  /\ outcome' = Silent
  /\ commands' = commands + 1
  /\ damages' = damages + 1
  /\ UNCHANGED <<onServer, server, archives, latest>>

ArchivesNext ==
  \/ ChangeMetadata
  \/ RunBackup
  \/ DamageArchive
  \/ RefuseRestore
  \/ Restore
  \/ CutRestore

ArchivesSpec == ArchivesInit /\ [][ArchivesNext]_archiveVars

-----------------------------------------------------------------------------
(***************************************************************************)
(* A restore that says it worked left the metadata the store had when the  *)
(* archive was made, and every file as it was archived; one that did not   *)
(* left all as it was, but for a dump without a server to load it into,    *)
(* which is found out after the files were replaced (backup.py, 135-160).  *)
(* An archive verifies as long as it is intact - unless it is one of a     *)
(* store that was restored: such a store has a manifest.json, and maybe an *)
(* old store.pgdump, that are staged as files of its own (79-97).  Secrets *)
(* are in an archive only if they were asked for; retention keeps the      *)
(* newest archive (99-101).                                                *)
(***************************************************************************)
RestoreSound ==
  /\ outcome.command = "restore" =>
       IF outcome.ok
       THEN /\ Metadata = outcome.archive.made
            /\ \A n \in DOMAIN outcome.archive.files :
                 store[n] = outcome.archive.files[n]
       ELSE /\ server = outcome.server
            /\ onServer \/ store = outcome.before
  /\ \A k \in DOMAIN archives :
       LET a == archives[k]
       IN  /\ Verifies(a) <=> a.intact /\ ~a.restored
           /\ "secrets.json" \in DOMAIN a.files => a.secrets
  /\ latest # 0 => archives # <<>> /\ Last(archives).number = latest

(***************************************************************************)
(* What backup.py says of itself (12-13): every file of an archive is      *)
(* listed with its digest, so that an archive nobody touched verifies.     *)
(***************************************************************************)
IntactVerifies == \A k \in DOMAIN archives : archives[k].intact => Verifies(archives[k])
=============================================================================
