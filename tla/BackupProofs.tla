---------------------------- MODULE BackupProofs ----------------------------
(***************************************************************************)
(* Theorems of RunPipeline and Backup, for any number of runs, executors,  *)
(* contents, tables and faults.                                            *)
(***************************************************************************)
EXTENDS Backup, TLAPS

LEMMA InitType == Init => TypeOK
  BY PipelineAssumption
  DEF PipelineAssumption, Init, TypeOK, Free, Outcomes, Steps

LEMMA ExecuteType ==
  ASSUME TypeOK, NEW e \in Executors, Execute(e)
  PROVE  TypeOK'
<1> USE PipelineAssumption
    DEF PipelineAssumption, TypeOK, At, Goto, snapshotVars, runVars, Steps,
        Outcomes
<1>1. CASE Read(e)
  BY <1>1 DEF Read
<1>2. CASE FindDir(e)
  BY <1>2 DEF FindDir, Loaded, Finish, Free
<1>3. CASE MakeDir(e)
  BY <1>3 DEF MakeDir
<1>4. CASE DirExists(e) \/ Reject(e) \/ Done(e) \/ Fail(e)
  BY <1>4 DEF DirExists, Reject, Done, Fail, End, Finish, Free
<1>5. CASE WriteTable(e)
  BY <1>5 DEF WriteTable
<1>6. CASE Catalogue(e)
  BY <1>6 DEF Catalogue, Loaded, Finish, Free
<1>7. CASE Register(e)
  BY <1>7 DEF Register
<1>8. CASE SaveBundle(e) \/ LogRun(e)
  BY <1>8 DEF SaveBundle, LogRun
<1>9. CASE SaveModel(e)
  BY <1>9 DEF SaveModel
<1>10. CASE Keep(e)
  BY <1>10 DEF Keep
<1>11. CASE BeginDump(e) \/ EndDump(e)
  BY <1>11 DEF BeginDump, EndDump
<1>12. CASE DumpError(e)
  BY <1>12 DEF DumpError
<1>13. CASE Die(e)
  BY <1>13 DEF Die, Finish, Free
<1> QED
  BY <1>1, <1>2, <1>3, <1>4, <1>5, <1>6, <1>7, <1>8, <1>9, <1>10, <1>11,
     <1>12, <1>13
  DEF Execute

LEMMA NextType == TypeOK /\ [Next]_vars => TypeOK'
<1> SUFFICES ASSUME TypeOK, [Next]_vars PROVE TypeOK'
  OBVIOUS
<1>1. CASE \E e \in Executors : Execute(e)
  BY <1>1, ExecuteType
<1>2. CASE \E r \in Runs : Open(r)
  BY <1>2 DEF Open, TypeOK, snapshotVars
<1>3. CASE Change
  BY <1>3 DEF Change, TypeOK, snapshotVars, runVars
<1>4. CASE CrashApi
  BY <1>4, PipelineAssumption
  DEF CrashApi, TypeOK, snapshotVars, Free, Steps, PipelineAssumption
<1>5. CASE UNCHANGED vars
  BY <1>5 DEF vars, TypeOK, snapshotVars, runVars
<1> QED
  BY <1>1, <1>2, <1>3, <1>4, <1>5 DEF Next

\* The pipeline is type correct, for any number of executors and faults.
THEOREM PipelineType == Spec => []TypeOK
<1>1. Init => TypeOK
  BY InitType
<1>2. TypeOK /\ [Next]_vars => TypeOK'
  BY NextType
<1> QED
  BY <1>1, <1>2, PTL DEF Spec

-----------------------------------------------------------------------------
(* save_snapshot: only its own actions touch directories, files, catalogue.*)

\* A directory is there while it is written, and a written one is complete.
SnapshotInv == TypeOK /\ OneWriter /\ CatalogueComplete

LEMMA ExecuteSnapshot ==
  ASSUME SnapshotInv, NEW e \in Executors, Execute(e)
  PROVE  OneWriter' /\ CatalogueComplete'
<1> USE PipelineAssumption
    DEF PipelineAssumption, SnapshotInv, TypeOK, At
<1>1. CASE Read(e)
  <2>1. CatalogueComplete'
    BY <1>1 DEF Read, CatalogueComplete, snapshotVars
  <2>2. \A d \in Executors : At(d, "writing")' => At(d, "writing") /\ d # e
    BY <1>1 DEF Read
  <2>3. \A d \in Executors : d # e => ex'[d] = ex[d]
    BY <1>1 DEF Read
  <2> QED
    BY <1>1, <2>1, <2>2, <2>3 DEF Read, OneWriter, snapshotVars
<1>2. CASE MakeDir(e)
  <2>1. CatalogueComplete'
    BY <1>2 DEF MakeDir, CatalogueComplete
  <2>2. ex'[e].hash = ex[e].hash /\ ex[e].hash \in dirs' \ dirs
    BY <1>2 DEF MakeDir, Goto
  <2>3. \A d \in Executors : d # e => ex'[d] = ex[d]
    BY <1>2 DEF MakeDir, Goto
  <2>4. dirs \subseteq dirs'
    BY <1>2 DEF MakeDir
  <2> QED
    BY <2>1, <2>2, <2>3, <2>4 DEF OneWriter
<1>3. CASE WriteTable(e)
  <2>1. CatalogueComplete'
    BY <1>3 DEF WriteTable, CatalogueComplete
  <2> QED
    BY <1>3, <2>1 DEF WriteTable, OneWriter
<1>4. CASE Catalogue(e)
  <2>1. CatalogueComplete'
    BY <1>4 DEF Catalogue, CatalogueComplete, OneWriter
  <2>2. \A d \in Executors : At(d, "writing")' => At(d, "writing") /\ d # e
    BY <1>4 DEF Catalogue, Loaded, Goto, Finish, Free
  <2>3. \A d \in Executors : d # e => ex'[d] = ex[d]
    BY <1>4 DEF Catalogue, Loaded, Goto, Finish
  <2> QED
    BY <1>4, <2>1, <2>2, <2>3 DEF Catalogue, OneWriter
<1>5. CASE /\ UNCHANGED snapshotVars
           /\ ex'[e].pc # "writing"
           /\ \A d \in Executors : d # e => ex'[d] = ex[d]
  BY <1>5 DEF OneWriter, CatalogueComplete, snapshotVars
<1>6. CASE SaveModel(e)
  BY <1>6 DEF SaveModel, OneWriter, CatalogueComplete, snapshotVars
<1>7. CASE FindDir(e) \/ DirExists(e) \/ Reject(e) \/ Done(e) \/ Fail(e)
             \/ Die(e)
  BY <1>5, <1>7
  DEF FindDir, DirExists, Reject, Done, Fail, Die, End, Loaded, Goto, Finish,
      Free
<1>8. CASE Register(e) \/ SaveBundle(e) \/ Keep(e) \/ BeginDump(e)
             \/ EndDump(e) \/ DumpError(e) \/ LogRun(e)
  BY <1>5, <1>8
  DEF Register, SaveBundle, Keep, BeginDump, EndDump, DumpError, LogRun, Goto
<1> QED
  BY <1>1, <1>2, <1>3, <1>4, <1>6, <1>7, <1>8 DEF Execute

LEMMA NextSnapshot == SnapshotInv /\ [Next]_vars => SnapshotInv'
<1> SUFFICES ASSUME SnapshotInv, [Next]_vars PROVE SnapshotInv'
  OBVIOUS
<1>1. TypeOK'
  BY NextType DEF SnapshotInv
<1>2. CASE \E e \in Executors : Execute(e)
  BY <1>1, <1>2, ExecuteSnapshot DEF SnapshotInv
<1>3. CASE CrashApi
  <2>1. \A d \in Executors : At(d, "writing")' => ex'[d] = ex[d]
    BY <1>3 DEF CrashApi, At, Free
  <2> QED
    BY <1>1, <1>3, <2>1
    DEF CrashApi, SnapshotInv, OneWriter, CatalogueComplete, At, snapshotVars
<1>4. CASE (\E r \in Runs : Open(r)) \/ Change \/ UNCHANGED vars
  BY <1>1, <1>4
  DEF Open, Change, vars, SnapshotInv, OneWriter, CatalogueComplete, At,
      snapshotVars
<1> QED
  BY <1>2, <1>3, <1>4 DEF Next

LEMMA InitSnapshot == Init => SnapshotInv
  BY InitType
  DEF Init, SnapshotInv, OneWriter, CatalogueComplete, At, Free

\* No two executors write one snapshot at a time, whatever fails: the code has
\* nothing but mkdir for a lock.
THEOREM SnapshotOneWriter == Spec => []OneWriter
<1>1. SnapshotInv => OneWriter
  BY DEF SnapshotInv
<1> QED
  BY <1>1, InitSnapshot, NextSnapshot, PTL DEF Spec

\* A snapshot that the catalogue lists has every table on disk, after any faults.
THEOREM SnapshotComplete == Spec => []CatalogueComplete
<1>1. SnapshotInv => CatalogueComplete
  BY DEF SnapshotInv
<1> QED
  BY <1>1, InitSnapshot, NextSnapshot, PTL DEF Spec

-----------------------------------------------------------------------------
(* What a run leaves behind: which executor has it, and how far it is.     *)

\* A job that is taken up is running and only one executor has it.
JobHeld ==
  /\ \A e \in Executors : At(e, "idle") => ex[e].run = NoRun
  /\ \A e \in Executors : ex[e].run \in Runs => outcome[ex[e].run] = "running"
  /\ \A d, e \in Executors :
       ex[d].run = ex[e].run /\ ex[e].run \in Runs => d = e

\* A step of an executor takes up a job, goes on with it, or lets it go.
LEMMA ExecuteShape ==
  ASSUME TypeOK, NEW e \in Executors, Execute(e)
  PROVE  /\ \A d \in Executors : d # e => ex'[d] = ex[d]
         /\ \/ /\ At(e, "idle") /\ ex'[e].pc = "read" /\ ex'[e].hash = source
               /\ \/ /\ ex'[e].run \in Runs
                     /\ outcome[ex'[e].run] = "queued"
                     /\ outcome' = [outcome EXCEPT ![ex'[e].run] = "running"]
                  \/ ex'[e].run = NoRun /\ outcome' = outcome
            \/ /\ ~At(e, "idle") /\ ex'[e].pc # "idle"
               /\ ex'[e].run = ex[e].run /\ ex'[e].hash = ex[e].hash
               /\ outcome' = outcome
            \/ /\ ex'[e] = Free
               /\ \A r \in Runs : r # ex[e].run => outcome'[r] = outcome[r]
<1> USE PipelineAssumption DEF PipelineAssumption, TypeOK, At
<1>1. CASE Read(e)
  BY <1>1 DEF Read
<1>2. CASE FindDir(e)
  BY <1>2 DEF FindDir, Loaded, Goto, Finish
<1>3. CASE MakeDir(e) \/ WriteTable(e)
  BY <1>3 DEF MakeDir, WriteTable, Goto
<1>4. CASE Catalogue(e)
  BY <1>4 DEF Catalogue, Loaded, Goto, Finish
<1>5. CASE DirExists(e) \/ Reject(e) \/ Done(e) \/ Fail(e) \/ Die(e)
  BY <1>5 DEF DirExists, Reject, Done, Fail, Die, End, Finish
<1>6. CASE Register(e) \/ SaveBundle(e) \/ SaveModel(e) \/ Keep(e)
  BY <1>6 DEF Register, SaveBundle, SaveModel, Keep, Goto
<1>7. CASE BeginDump(e) \/ EndDump(e) \/ DumpError(e) \/ LogRun(e)
  BY <1>7 DEF BeginDump, EndDump, DumpError, LogRun, Goto
<1> QED
  BY <1>1, <1>2, <1>3, <1>4, <1>5, <1>6, <1>7 DEF Execute

LEMMA HeldStep == TypeOK /\ JobHeld /\ [Next]_vars => JobHeld'
<1> SUFFICES ASSUME TypeOK, JobHeld, [Next]_vars PROVE JobHeld'
  OBVIOUS
<1> USE PipelineAssumption DEF PipelineAssumption, JobHeld, At
<1>1. ASSUME NEW e \in Executors, Execute(e)
      PROVE  JobHeld'
  <2>1. \A d \in Executors : d # e => ex'[d] = ex[d]
    BY <1>1, ExecuteShape
  <2>2. CASE /\ At(e, "idle") /\ ex'[e].pc = "read"
             /\ ex'[e].run \in Runs
             /\ outcome[ex'[e].run] = "queued"
             /\ outcome' = [outcome EXCEPT ![ex'[e].run] = "running"]
    BY <2>1, <2>2 DEF TypeOK
  <2>3. CASE /\ ex'[e].pc # "idle" /\ outcome' = outcome
             /\ ex'[e].run = ex[e].run \/ ex'[e].run = NoRun
    BY <2>1, <2>3
  <2>4. CASE /\ ex'[e] = Free
             /\ \A r \in Runs : r # ex[e].run => outcome'[r] = outcome[r]
    BY <2>1, <2>4 DEF Free
  <2> QED
    BY <1>1, <2>2, <2>3, <2>4, ExecuteShape
<1>2. CASE CrashApi
  BY <1>2 DEF CrashApi, Free, TypeOK
<1>3. CASE (\E r \in Runs : Open(r)) \/ Change \/ UNCHANGED vars
  BY <1>3 DEF Open, Change, vars
<1> QED
  BY <1>1, <1>2, <1>3 DEF Next

-----------------------------------------------------------------------------
(* RunTraced: a directory that is found is catalogued or being written.    *)

Fetched ==
  { "loaded", "registered", "bundled", "kept", "dumping", "dumped", "logged" }

\* Without faults: the directories, the data a job works on, the runs listed.
Backed(h) == h \in catalogue \/ Writing(h)

SnapshotsBacked ==
  faults = 0 =>
    /\ \A h \in dirs : Backed(h)
    /\ \A e \in Executors : ex[e].pc \in Fetched => Backed(ex[e].hash)
    /\ \A r \in Runs : Listed(r) => Backed(registered[r])

\* Only a fault lets go of a snapshot that is neither catalogued nor written on.
LEMMA BackedKept ==
  ASSUME TypeOK, [Next]_vars, faults' = 0, NEW h, Backed(h)
  PROVE  h \in catalogue' \/ \E e \in Executors : ex'[e].pc = "writing"
                                                  /\ ex'[e].hash = h
<1> USE PipelineAssumption DEF PipelineAssumption, At, Backed, Writing
<1>1. ASSUME NEW e \in Executors, Execute(e)
      PROVE  h \in catalogue' \/ \E d \in Executors : ex'[d].pc = "writing"
                                                      /\ ex'[d].hash = h
  <2>1. catalogue \subseteq catalogue'
    BY <1>1 DEF Execute, Read, FindDir, MakeDir, DirExists, WriteTable,
       Catalogue, Reject, Register, SaveBundle, SaveModel, Keep, BeginDump,
       EndDump, DumpError, LogRun, Done, Fail, Die, snapshotVars
  <2>2. \A d \in Executors : d # e => ex'[d] = ex[d]
    BY <1>1, ExecuteShape
  <2>3. ASSUME ex[e].pc = "writing"
        PROVE  ex'[e] = ex[e] \/ ex[e].hash \in catalogue'
    <3>1. ~Fail(e) /\ ~Die(e) /\ ~DumpError(e)
      BY DEF Fail, Die, DumpError, TypeOK
    <3>2. WriteTable(e) \/ Catalogue(e)
      BY <1>1, <2>3, <3>1
         DEF Execute, Read, FindDir, MakeDir, DirExists, Reject, Register,
             SaveBundle, SaveModel, Keep, BeginDump, EndDump, LogRun, Done
    <3> QED
      BY <3>2 DEF WriteTable, Catalogue
  <2> QED
    BY <2>1, <2>2, <2>3
<1>2. CASE CrashApi
  BY <1>2 DEF CrashApi, TypeOK
<1>3. CASE (\E r \in Runs : Open(r)) \/ Change \/ UNCHANGED vars
  BY <1>3 DEF Open, Change, vars, snapshotVars
<1> QED
  BY <1>1, <1>2, <1>3 DEF Next

LEMMA SnapshotsStep ==
  TypeOK /\ SnapshotsBacked /\ [Next]_vars => SnapshotsBacked'
<1> SUFFICES ASSUME TypeOK, SnapshotsBacked, [Next]_vars, faults' = 0
             PROVE  /\ \A h \in dirs' : Backed(h)'
                    /\ \A e \in Executors :
                         ex'[e].pc \in Fetched => Backed(ex[e].hash)'
                    /\ \A r \in Runs : Listed(r)' => Backed(registered[r])'
  BY DEF SnapshotsBacked, Fetched
<1> USE PipelineAssumption DEF PipelineAssumption, At
<1>1. faults = 0
  BY DEF Next, Execute, Read, FindDir, MakeDir, DirExists, WriteTable,
     Catalogue, Reject, Register, SaveBundle, SaveModel, Keep, BeginDump,
     EndDump, DumpError, LogRun, Done, Fail, Die, Open, Change, CrashApi, vars,
     TypeOK
<1>2. ASSUME NEW h, Backed(h)
      PROVE  h \in catalogue' \/ \E e \in Executors : ex'[e].pc = "writing"
                                                      /\ ex'[e].hash = h
  BY <1>2, BackedKept
<1>3. ASSUME NEW h \in dirs'
      PROVE  Backed(h)'
  <2>1. CASE h \in dirs
    BY <1>1, <1>2, <2>1 DEF SnapshotsBacked, Backed, Writing
  <2>2. CASE h \notin dirs
    <3>1. PICK e \in Executors : MakeDir(e)
      BY <1>3, <2>2
         DEF Next, Execute, Read, FindDir, DirExists, WriteTable, Catalogue,
             Reject, Register, SaveBundle, SaveModel, Keep, BeginDump, EndDump,
             DumpError, LogRun, Done, Fail, Die, Open, Change, CrashApi, vars,
             snapshotVars
    <3>2. ex'[e].pc = "writing" /\ ex'[e].hash = h
      BY <1>3, <2>2, <3>1 DEF MakeDir, Goto, TypeOK
    <3> QED
      BY <3>2 DEF Backed, Writing
  <2> QED
    BY <2>1, <2>2
<1>4. ASSUME NEW e \in Executors, ex'[e].pc \in Fetched
      PROVE  Backed(ex[e].hash)'
  <2>1. CASE ex'[e].hash = ex[e].hash /\ ex[e].pc \in Fetched
    BY <1>1, <1>2, <2>1 DEF SnapshotsBacked, Backed, Writing
  <2>2. CASE FindDir(e)
    <3>1. ex[e].hash \in dirs /\ ex'[e].hash = ex[e].hash
      BY <1>4, <2>2 DEF FindDir, Loaded, Goto, Finish, Free, TypeOK, Fetched
    <3> QED
      BY <1>1, <1>2, <3>1 DEF SnapshotsBacked, Backed, Writing
  <2>3. CASE Catalogue(e)
    <3>1. ex'[e].hash = ex[e].hash /\ ex[e].hash \in catalogue'
      BY <1>4, <2>3 DEF Catalogue, Loaded, Goto, Finish, Free, TypeOK, Fetched
    <3> QED
      BY <3>1 DEF Backed
  <2>4. ASSUME Execute(e)
        PROVE  \/ ex'[e].hash = ex[e].hash /\ ex[e].pc \in Fetched
               \/ FindDir(e) \/ Catalogue(e)
    <3>1. ~Read(e) /\ ~MakeDir(e)
      BY <1>4 DEF Read, MakeDir, Goto, TypeOK, Fetched
    <3>2. ~Finish(e)
      BY <1>4 DEF Finish, Free, TypeOK, Fetched
    <3>3. ASSUME WriteTable(e)
          PROVE  FALSE
      BY <1>4, <3>3 DEF WriteTable, Fetched
    <3>4. ASSUME \/ Register(e) \/ SaveBundle(e) \/ SaveModel(e) \/ Keep(e)
                 \/ BeginDump(e) \/ EndDump(e) \/ DumpError(e) \/ LogRun(e)
          PROVE  ex'[e].hash = ex[e].hash /\ ex[e].pc \in Fetched
      BY <1>4, <3>4 DEF Register, SaveBundle, SaveModel, Keep, BeginDump,
         EndDump, DumpError, LogRun, Goto, TypeOK, Fetched
    <3> QED
      BY <2>4, <3>1, <3>2, <3>3, <3>4
         DEF Execute, DirExists, Reject, Done, Fail, Die, End
  <2>5. CASE ~Execute(e)
    <3>1. ex'[e] = ex[e]
      <4>1. ASSUME NEW d \in Executors, d # e, Execute(d)
            PROVE  ex'[e] = ex[e]
        BY <4>1, ExecuteShape
      <4>2. CASE CrashApi
        BY <1>4, <4>2 DEF CrashApi, Free, Fetched
      <4> QED
        BY <2>5, <4>1, <4>2 DEF Next, Open, Change, vars
    <3> QED
      BY <1>4, <2>1, <3>1
  <2> QED
    BY <2>1, <2>2, <2>3, <2>4, <2>5
<1>5. ASSUME NEW r \in Runs, Listed(r)'
      PROVE  Backed(registered[r])'
  <2>1. CASE registered'[r] = registered[r]
    BY <1>1, <1>2, <1>5, <2>1 DEF SnapshotsBacked, Backed, Writing, Listed
  <2>2. CASE registered'[r] # registered[r]
    <3>1. PICK e \in Executors : Register(e)
      BY <2>2
         DEF Next, Execute, Read, FindDir, MakeDir, DirExists, WriteTable,
             Catalogue, Reject, SaveBundle, SaveModel, Keep, BeginDump, EndDump,
             DumpError, LogRun, Done, Fail, Die, Open, Change, CrashApi, vars,
             runVars
    <3>2. registered'[r] = ex[e].hash /\ ex[e].pc \in Fetched
      BY <2>2, <3>1 DEF Register, TypeOK, Fetched
    <3> QED
      BY <1>1, <1>2, <3>2 DEF SnapshotsBacked, Backed, Writing
  <2> QED
    BY <2>1, <2>2
<1> QED
  BY <1>3, <1>4, <1>5

-----------------------------------------------------------------------------
(* DoneCanBeOpened and MemoryBacked: what an executor has written by then. *)

\* The parts of a run are written in this order, and a job has those it is past.
JobParts ==
  \A e \in Executors :
    /\ ex[e].pc \in Fetched \ {"loaded"} => Listed(ex[e].run)
    /\ ex[e].pc \in Fetched \ {"loaded", "registered"} => ex[e].run \in bundles
    /\ ex[e].pc \in {"kept", "dumping", "dumped", "logged"} =>
         \A s \in Sectors : <<ex[e].run, s>> \in models
    /\ ex[e].pc = "logged" => ex[e].run \in logged

\* The artefact is written once: a job that has not come to it has none, one that
\* is past it has a whole one unless the dump failed.
JobArtefact ==
  /\ \A r \in Runs : outcome[r] = "queued" => artefact[r] = "none"
  /\ \A e \in Executors :
       /\ ex[e].run \in Runs /\ ex[e].pc \notin {"dumping", "dumped", "logged"}
            => artefact[ex[e].run] = "none"
       /\ faults = 0 /\ ex[e].pc \in {"dumped", "logged"}
            => artefact[ex[e].run] = "whole"

\* Nothing that is written is taken away, and only the job's own dump touches its
\* artefact.
LEMMA PartsGrow ==
  ASSUME TypeOK, [Next]_vars
  PROVE  /\ \A r \in Runs : registered[r] # NoHash => registered'[r] # NoHash
         /\ bundles \subseteq bundles' /\ models \subseteq models'
         /\ logged \subseteq logged'
         /\ faults' = 0 => faults = 0
         /\ \A r \in Runs :
              \/ artefact'[r] = artefact[r]
              \/ \E e \in Executors :
                   ex[e].run = r /\ (BeginDump(e) \/ EndDump(e))
<1> USE PipelineAssumption DEF PipelineAssumption, TypeOK
<1>1. ASSUME NEW e \in Executors, Execute(e), ~Register(e),
             ~BeginDump(e), ~EndDump(e)
      PROVE  /\ registered' = registered /\ artefact' = artefact
             /\ bundles \subseteq bundles' /\ models \subseteq models'
             /\ logged \subseteq logged'
             /\ faults' = 0 => faults = 0
  <2>1. CASE \/ Read(e) \/ FindDir(e) \/ MakeDir(e) \/ DirExists(e)
             \/ WriteTable(e) \/ Catalogue(e) \/ Reject(e) \/ Done(e)
    BY <2>1 DEF Read, FindDir, MakeDir, DirExists, WriteTable, Catalogue,
       Reject, Done, runVars
  <2>2. CASE SaveBundle(e) \/ SaveModel(e) \/ Keep(e) \/ LogRun(e)
    BY <2>2 DEF SaveBundle, SaveModel, Keep, LogRun
  <2>3. CASE DumpError(e) \/ Fail(e) \/ Die(e)
    BY <2>3 DEF DumpError, Fail, Die, runVars
  <2> QED
    BY <1>1, <2>1, <2>2, <2>3 DEF Execute
<1>2. ASSUME NEW e \in Executors, Register(e)
      PROVE  \A r \in Runs : registered[r] # NoHash => registered'[r] # NoHash
  BY <1>2 DEF Register, At
<1>3. ASSUME NEW e \in Executors, BeginDump(e) \/ EndDump(e)
      PROVE  \A r \in Runs : r # ex[e].run => artefact'[r] = artefact[r]
  BY <1>3 DEF BeginDump, EndDump
<1>4. ASSUME NEW e \in Executors, Register(e) \/ BeginDump(e) \/ EndDump(e)
      PROVE  /\ bundles \subseteq bundles' /\ models \subseteq models'
             /\ logged \subseteq logged' /\ faults' = faults
             /\ Register(e) => artefact' = artefact
             /\ ~Register(e) => registered' = registered
  BY <1>4 DEF Register, BeginDump, EndDump
<1>5. CASE (\E r \in Runs : Open(r)) \/ Change \/ CrashApi \/ UNCHANGED vars
  BY <1>5 DEF Open, Change, CrashApi, vars, runVars
<1> QED
  BY <1>1, <1>2, <1>3, <1>4, <1>5 DEF Next

\* A step moves at most the executor that takes it, unless the API process dies.
LEMMA OneExecutes ==
  ASSUME TypeOK, [Next]_vars, NEW u \in Executors
  PROVE  ex'[u] = ex[u] \/ Execute(u) \/ ex'[u] = Free
<1>1. ASSUME NEW e \in Executors, Execute(e), e # u
      PROVE  ex'[u] = ex[u]
  BY <1>1, ExecuteShape
<1> QED
  BY <1>1 DEF Next, Open, Change, CrashApi, vars, TypeOK

LEMMA PartsStep == TypeOK /\ JobParts /\ [Next]_vars => JobParts'
<1> SUFFICES ASSUME TypeOK, JobParts, [Next]_vars, NEW u \in Executors
             PROVE  /\ ex'[u].pc \in Fetched \ {"loaded"} => Listed(ex[u].run)'
                    /\ ex'[u].pc \in Fetched \ {"loaded", "registered"}
                         => ex'[u].run \in bundles'
                    /\ ex'[u].pc \in {"kept", "dumping", "dumped", "logged"} =>
                         \A s \in Sectors : <<ex'[u].run, s>> \in models'
                    /\ ex'[u].pc = "logged" => ex'[u].run \in logged'
  BY DEF JobParts, Fetched
<1> USE DEF Fetched, Listed, At
<1>1. /\ \A r \in Runs : registered[r] # NoHash => registered'[r] # NoHash
      /\ bundles \subseteq bundles' /\ models \subseteq models'
      /\ logged \subseteq logged'
  BY PartsGrow
<1>2. /\ ex[u].pc \in Fetched \ {"loaded"} => Listed(ex[u].run)
      /\ ex[u].pc \in Fetched \ {"loaded", "registered"}
           => ex[u].run \in bundles
      /\ ex[u].pc \in {"kept", "dumping", "dumped", "logged"} =>
           \A s \in Sectors : <<ex[u].run, s>> \in models
      /\ ex[u].pc = "logged" => ex[u].run \in logged
      /\ ex[u].pc \in Fetched => ex[u].run \in Runs
  BY DEF JobParts, TypeOK
<1>3. CASE ex'[u] = ex[u]
  BY <1>1, <1>2, <1>3
<1>4. CASE ex'[u] = Free
  BY <1>4 DEF Free
<1>5. ASSUME Execute(u), ex'[u].run = ex[u].run,
             ex'[u].pc \in Fetched \ {"loaded"}, ex'[u] # ex[u]
      PROVE  \/ Register(u) \/ SaveBundle(u) \/ Keep(u) \/ BeginDump(u)
             \/ EndDump(u) \/ DumpError(u) \/ LogRun(u)
  <2>1. ~Read(u) /\ ~MakeDir(u) /\ ~SaveModel(u) /\ ~WriteTable(u)
    BY <1>5 DEF Read, MakeDir, WriteTable, SaveModel, Goto, TypeOK
  <2>2. ~Finish(u)
    BY <1>5 DEF Finish, Free, TypeOK
  <2>3. ~Goto(u, "loaded") /\ ~Goto(u, "absent")
    BY <1>5 DEF Goto, TypeOK
  <2> QED
    BY <1>5, <2>1, <2>2, <2>3 DEF Execute, FindDir, DirExists, Catalogue,
       Loaded, Reject, Done, Fail, Die, End
<1>6. CASE Register(u)
  <2>1. ex'[u].pc = "registered" /\ ex'[u].run = ex[u].run
    BY <1>6 DEF Register, Goto, TypeOK
  <2>2. registered'[ex[u].run] # NoHash
    BY <1>2, <1>6, PipelineAssumption DEF Register, TypeOK, PipelineAssumption
  <2> QED
    BY <2>1, <2>2
<1>7. CASE SaveBundle(u)
  <2>1. /\ ex'[u].pc = "bundled" /\ ex'[u].run = ex[u].run
        /\ ex[u].pc = "registered" /\ ex[u].run \in bundles'
    BY <1>7 DEF SaveBundle, Goto, TypeOK
  <2> QED
    BY <1>1, <1>2, <2>1
<1>8. CASE Keep(u)
  <2>1. /\ ex'[u].pc = "kept" /\ ex'[u].run = ex[u].run
        /\ ex[u].pc = "bundled"
        /\ \A s \in Sectors : <<ex[u].run, s>> \in models
    BY <1>8 DEF Keep, Goto, TypeOK
  <2> QED
    BY <1>1, <1>2, <2>1
<1>9. CASE BeginDump(u) \/ EndDump(u) \/ DumpError(u)
  <2>1. /\ ex'[u].pc \in {"dumping", "dumped"} /\ ex'[u].run = ex[u].run
        /\ ex[u].pc \in {"kept", "dumping"}
    BY <1>9 DEF BeginDump, EndDump, DumpError, Goto, TypeOK
  <2> QED
    BY <1>1, <1>2, <2>1
<1>10. CASE LogRun(u)
  <2>1. /\ ex'[u].pc = "logged" /\ ex'[u].run = ex[u].run
        /\ ex[u].pc = "dumped" /\ ex[u].run \in logged'
    BY <1>10 DEF LogRun, Goto, TypeOK
  <2> QED
    BY <1>1, <1>2, <2>1
<1>11. Execute(u) /\ ex'[u].run # ex[u].run => ex'[u].pc \in {"idle", "read"}
  BY ExecuteShape DEF Free
<1> QED
  BY <1>3, <1>4, <1>5, <1>6, <1>7, <1>8, <1>9, <1>10, <1>11, OneExecutes

LEMMA ArtefactStep ==
  TypeOK /\ JobHeld /\ JobArtefact /\ [Next]_vars => JobArtefact'
<1> SUFFICES ASSUME TypeOK, JobHeld, JobArtefact, [Next]_vars
             PROVE  JobArtefact'
  OBVIOUS
<1> USE PipelineAssumption DEF PipelineAssumption, At
<1>1. ASSUME NEW e \in Executors, BeginDump(e)
      PROVE  JobArtefact'
  <2>1. /\ ex[e].pc = "kept" /\ ex[e].run \in Runs
        /\ ex' = [ex EXCEPT ![e].pc = "dumping"]
        /\ artefact' = [artefact EXCEPT ![ex[e].run] = "torn"]
        /\ outcome' = outcome /\ faults' = faults
    BY <1>1 DEF BeginDump, Goto, TypeOK
  <2>2. outcome[ex[e].run] = "running"
    BY <2>1 DEF JobHeld
  <2> QED
    BY <2>1, <2>2 DEF JobArtefact, JobHeld, TypeOK
<1>2. ASSUME NEW e \in Executors, EndDump(e)
      PROVE  JobArtefact'
  <2>1. /\ ex[e].pc = "dumping" /\ ex[e].run \in Runs
        /\ ex' = [ex EXCEPT ![e].pc = "dumped"]
        /\ artefact' = [artefact EXCEPT ![ex[e].run] = "whole"]
        /\ outcome' = outcome /\ faults' = faults
    BY <1>2 DEF EndDump, Goto, TypeOK
  <2>2. outcome[ex[e].run] = "running"
    BY <2>1 DEF JobHeld
  <2> QED
    BY <2>1, <2>2 DEF JobArtefact, JobHeld, TypeOK
<1>3. ASSUME artefact' = artefact, faults' = 0 => faults = 0,
             NEW e \in Executors, \A d \in Executors : d # e => ex'[d] = ex[d],
             \A r \in Runs : outcome'[r] = "queued" => outcome[r] = "queued",
             ex'[e].run \in Runs /\ ex'[e].run # ex[e].run =>
               outcome[ex'[e].run] = "queued" /\ ex'[e].pc = "read",
             ex'[e].pc \in {"dumped", "logged"} =>
               \/ faults' # 0
               \/ /\ ex[e].pc \in {"dumped", "logged"}
                  /\ ex'[e].run = ex[e].run,
             ex[e].pc \in {"dumping", "dumped", "logged"}
               => ex'[e].run = NoRun
                  \/ ex'[e].pc \in {"dumping", "dumped", "logged"}
      PROVE  JobArtefact'
  BY <1>3 DEF JobArtefact, TypeOK
<1>4. ASSUME NEW e \in Executors, Execute(e), ~BeginDump(e), ~EndDump(e)
      PROVE  JobArtefact'
  <2>1. /\ artefact' = artefact
        /\ faults' = 0 => faults = 0
    BY <1>4 DEF Execute, Read, FindDir, MakeDir, DirExists, WriteTable,
       Catalogue, Reject, Register, SaveBundle, SaveModel, Keep, DumpError,
       LogRun, Done, Fail, Die, runVars, TypeOK
  <2>2. /\ \A d \in Executors : d # e => ex'[d] = ex[d]
        /\ ex'[e].run \in Runs /\ ex'[e].run # ex[e].run =>
             outcome[ex'[e].run] = "queued" /\ ex'[e].pc = "read"
    BY <1>4, ExecuteShape DEF Free
  <2>3. \A r \in Runs : outcome'[r] = "queued" => outcome[r] = "queued"
    BY <1>4 DEF Execute, Read, FindDir, MakeDir, DirExists, WriteTable,
       Catalogue, Reject, Register, SaveBundle, SaveModel, Keep, DumpError,
       LogRun, Done, Fail, Die, End, TypeOK
  <2>4. /\ ex'[e].pc \in {"dumped", "logged"} =>
             \/ faults' # 0
             \/ /\ ex[e].pc \in {"dumped", "logged"}
                /\ ex'[e].run = ex[e].run
        /\ ex[e].pc \in {"dumping", "dumped", "logged"}
             => ex'[e].run = NoRun
                \/ ex'[e].pc \in {"dumping", "dumped", "logged"}
    <3>1. CASE Finish(e)
      BY <3>1 DEF Finish, Free, TypeOK
    <3>2. CASE DumpError(e)
      BY <3>2 DEF DumpError, Goto, TypeOK
    <3>3. CASE LogRun(e)
      BY <3>3 DEF LogRun, Goto, TypeOK
    <3>4. CASE Read(e) \/ MakeDir(e) \/ WriteTable(e) \/ Register(e)
                 \/ SaveBundle(e) \/ SaveModel(e) \/ Keep(e)
      BY <3>4 DEF Read, MakeDir, WriteTable, Register, SaveBundle, SaveModel,
         Keep, Goto, TypeOK
    <3>5. CASE FindDir(e) /\ ~Finish(e)
      BY <3>5 DEF FindDir, Loaded, Goto, TypeOK
    <3>6. CASE Catalogue(e) /\ ~Finish(e)
      BY <3>6 DEF Catalogue, Loaded, Goto, TypeOK
    <3> QED
      BY <1>4, <3>1, <3>2, <3>3, <3>4, <3>5, <3>6
         DEF Execute, DirExists, Reject, Done, Fail, Die, End
  <2> QED
    BY <1>3, <1>4, <2>1, <2>2, <2>3, <2>4
<1>5. CASE CrashApi
  BY <1>5 DEF CrashApi, JobArtefact, Free, TypeOK
<1>6. CASE (\E r \in Runs : Open(r)) \/ Change \/ UNCHANGED vars
  BY <1>6 DEF Open, Change, vars, runVars, JobArtefact
<1> QED
  BY <1>1, <1>2, <1>4, <1>5, <1>6 DEF Next

\* A done run keeps what made it so: no executor has it any more.
LEMMA DoneStep ==
  /\ TypeOK /\ JobHeld /\ JobParts /\ JobArtefact
  /\ DoneCanBeOpened /\ [Next]_vars
  => DoneCanBeOpened'
<1> SUFFICES ASSUME TypeOK, JobHeld, JobParts, JobArtefact, DoneCanBeOpened,
                    [Next]_vars, NEW r \in Runs, outcome'[r] = "done"
             PROVE  /\ Listed(r)' /\ r \in bundles' /\ r \in logged'
                    /\ \A s \in Sectors : <<r, s>> \in models'
                    /\ faults' = 0 => artefact'[r] = "whole"
  BY DEF DoneCanBeOpened, Listed
<1> USE DEF At, Listed
<1>1. /\ registered[r] # NoHash => registered'[r] # NoHash
      /\ bundles \subseteq bundles' /\ models \subseteq models'
      /\ logged \subseteq logged'
      /\ faults' = 0 => faults = 0
      /\ \/ artefact'[r] = artefact[r]
         \/ \E e \in Executors :
              ex[e].run = r /\ (BeginDump(e) \/ EndDump(e))
  BY PartsGrow
<1>2. CASE outcome[r] = "done"
  <2>1. \A e \in Executors : ex[e].run # r
    BY <1>2 DEF JobHeld
  <2> QED
    BY <1>1, <1>2, <2>1 DEF DoneCanBeOpened
<1>3. CASE outcome[r] # "done"
  <2>1. PICK e \in Executors : Done(e) /\ ex[e].run = r
    <3>1. PICK e \in Executors : Execute(e) /\ outcome' # outcome
      BY <1>3 DEF Next, Open, Change, CrashApi, vars
    <3>2. ~Read(e)
      BY <1>3 DEF Read, TypeOK
    <3>3. ~End(e, "failed")
      BY <1>3 DEF End, TypeOK
    <3>4. Done(e)
      BY <3>1, <3>2, <3>3
         DEF Execute, FindDir, MakeDir, DirExists, WriteTable, Catalogue,
             Reject, Register, SaveBundle, SaveModel, Keep, BeginDump, EndDump,
             DumpError, LogRun, Fail, Die
    <3>5. ex[e].run = r
      BY <1>3, <3>4 DEF Done, End, TypeOK
    <3> QED
      BY <3>4, <3>5
  <2>2. ex[e].pc = "logged" /\ artefact' = artefact
    BY <2>1 DEF Done, runVars
  <2>3. /\ Listed(r) /\ r \in bundles /\ r \in logged
        /\ \A s \in Sectors : <<r, s>> \in models
    BY <2>1, <2>2 DEF JobParts, Fetched
  <2>4. faults = 0 => artefact[r] = "whole"
    BY <2>1, <2>2 DEF JobArtefact
  <2> QED
    BY <1>1, <2>2, <2>3, <2>4
<1> QED
  BY <1>2, <1>3

\* What the API holds in memory stays backed by the disk or by the thread that is
\* writing it there.
LEMMA MemoryStep ==
  /\ TypeOK /\ JobHeld /\ JobParts /\ JobArtefact
  /\ MemoryBacked /\ [Next]_vars
  => MemoryBacked'
<1> SUFFICES ASSUME TypeOK, JobHeld, JobParts, JobArtefact, MemoryBacked,
                    [Next]_vars, NEW r \in memory'
             PROVE  /\ Listed(r)'
                    /\ faults' = 0 =>
                         \/ artefact'[r] = "whole"
                         \/ \E e \in InApi : /\ ex'[e].run = r
                                             /\ ex'[e].pc \in {"kept", "dumping"}
  BY DEF MemoryBacked, Listed
<1> USE PipelineAssumption DEF PipelineAssumption, At, Listed
<1>1. /\ r \in Runs => (registered[r] # NoHash => registered'[r] # NoHash)
      /\ faults' = 0 => faults = 0
      /\ r \in Runs =>
           \/ artefact'[r] = artefact[r]
           \/ \E e \in Executors :
                ex[e].run = r /\ (BeginDump(e) \/ EndDump(e))
  BY PartsGrow
<1>2. CASE r \notin memory
  <2>1. CASE Open(r)
    BY <2>1 DEF Open
  <2>2. ASSUME NEW e \in Executors, Keep(e), e \in InApi, r = ex[e].run
        PROVE  /\ Listed(r)'
               /\ ex'[e].run = r /\ ex'[e].pc = "kept"
    <3>1. Listed(r) /\ registered' = registered
      BY <2>2 DEF JobParts, Fetched, Keep
    <3>2. ex'[e].run = r /\ ex'[e].pc = "kept"
      BY <2>2 DEF Keep, Goto, TypeOK
    <3> QED
      BY <3>1, <3>2
  <2>3. \/ Open(r)
        \/ \E e \in Executors : Keep(e) /\ e \in InApi /\ r = ex[e].run
    <3>1. ASSUME NEW e \in Executors, Execute(e), ~Keep(e)
          PROVE  memory' = memory
      BY <3>1 DEF Execute, Read, FindDir, MakeDir, DirExists, WriteTable,
         Catalogue, Reject, Register, SaveBundle, SaveModel, BeginDump, EndDump,
         DumpError, LogRun, Done, Fail, Die, runVars
    <3> QED
      BY <1>2, <3>1 DEF Next, Keep, Open, Change, CrashApi, vars, runVars
  <2> QED
    BY <2>1, <2>2, <2>3
<1>3. CASE r \in memory
  <2>1. /\ r \in Runs /\ Listed(r)
        /\ faults = 0 =>
             \/ artefact[r] = "whole"
             \/ \E e \in InApi : ex[e].run = r /\ ex[e].pc \in {"kept", "dumping"}
    BY <1>3 DEF MemoryBacked, TypeOK
  <2>2. CASE faults' # 0
    BY <1>1, <2>1, <2>2
  <2>3. ASSUME NEW d \in Executors, faults' = 0,
               ex[d].run = r, ex[d].pc \in {"kept", "dumping"}, d \in InApi
        PROVE  \/ artefact'[r] = "whole"
               \/ ex'[d].run = r /\ ex'[d].pc \in {"kept", "dumping"}
    <3>1. CASE ex'[d] = ex[d]
      BY <2>3, <3>1
    <3>2. ~Fail(d) /\ ~Die(d) /\ ~DumpError(d) /\ ~CrashApi
      BY <2>3 DEF Fail, Die, DumpError, CrashApi, TypeOK
    <3>3. CASE BeginDump(d) \/ EndDump(d)
      BY <2>1, <2>3, <3>3 DEF BeginDump, EndDump, Goto, TypeOK
    <3>4. ex'[d] = ex[d] \/ BeginDump(d) \/ EndDump(d)
      <4>1. CASE Execute(d)
        BY <2>3, <3>2, <4>1
           DEF Execute, Read, FindDir, MakeDir, DirExists, WriteTable,
               Catalogue, Reject, Register, SaveBundle, SaveModel, Keep, LogRun,
               Done
      <4>2. ASSUME NEW e \in Executors, Execute(e), e # d
            PROVE  ex'[d] = ex[d]
        BY <4>2, ExecuteShape
      <4> QED
        BY <3>2, <4>1, <4>2 DEF Next, Open, Change, vars
    <3> QED
      BY <3>1, <3>3, <3>4
  <2>4. ASSUME faults' = 0, artefact[r] = "whole"
        PROVE  artefact'[r] = "whole"
    <3>1. ASSUME NEW e \in Executors, ex[e].run = r, BeginDump(e)
          PROVE  FALSE
      BY <2>1, <2>4, <3>1 DEF JobArtefact, BeginDump
    <3>2. ASSUME NEW e \in Executors, ex[e].run = r, EndDump(e)
          PROVE  artefact'[r] = "whole"
      BY <2>1, <3>2 DEF EndDump, TypeOK
    <3> QED
      BY <1>1, <2>1, <2>4, <3>1, <3>2
  <2> QED
    BY <1>1, <2>1, <2>2, <2>3, <2>4
<1> QED
  BY <1>2, <1>3

\* A run that is listed can be used, however executors interleave, fail and end:
\* without faults its snapshot is there or being written; when its job is done, it
\* has its bundle, its models, its audit entry and an artefact that opens; what the
\* API keeps in memory is on disk too or about to be.  The invariant says which
\* executor has which job and what it has written so far.
THEOREM PipelineUsable == Spec => []RunsUsable
<1> DEFINE Inv == /\ TypeOK /\ JobHeld /\ SnapshotsBacked /\ JobParts
                  /\ JobArtefact /\ DoneCanBeOpened /\ MemoryBacked
<1>1. Init => Inv
  <2> SUFFICES ASSUME Init PROVE Inv
    OBVIOUS
  <2>1. /\ TypeOK
        /\ \A e \in Executors : ex[e] = Free
        /\ \A r \in Runs : /\ outcome[r] = "queued"
                           /\ artefact[r] = "none"
                           /\ registered[r] = NoHash
        /\ dirs = {} /\ memory = {}
    BY InitType DEF Init
  <2>2. JobHeld /\ JobParts /\ JobArtefact
    BY <2>1, PipelineAssumption DEF JobHeld, JobParts, JobArtefact, Fetched,
       Free, At, PipelineAssumption
  <2>3. SnapshotsBacked /\ DoneCanBeOpened /\ MemoryBacked
    BY <2>1 DEF SnapshotsBacked, DoneCanBeOpened, MemoryBacked, Listed, Fetched,
       Free
  <2> QED
    BY <2>1, <2>2, <2>3
<1>2. Inv /\ [Next]_vars => Inv'
  BY NextType, HeldStep, SnapshotsStep, PartsStep, ArtefactStep, DoneStep,
     MemoryStep
<1>3. Inv => RunsUsable
  BY DEF SnapshotsBacked, Backed, RunTraced, RunsUsable
<1> QED
  BY <1>1, <1>2, <1>3, PTL DEF Spec

\* The same beside a backup, which only reads.
THEOREM BackupUsable == BackupSpec => []RunsUsable
<1>1. BackupInit => Init
  BY DEF BackupInit
<1>2. [BackupNext]_backupVars => [Next]_vars
  BY DEF BackupNext, CopyDatabase, ListDirectories, CopyDirectory, Pack,
         backupVars
<1>3. BackupSpec => Spec
  BY <1>1, <1>2, PTL DEF BackupSpec, Spec
<1> QED
  BY <1>3, PipelineUsable, PTL

-----------------------------------------------------------------------------
(* The backup: the snapshots it lists were complete before it copied them. *)

BackupInv == SnapshotInv /\ StageOK /\ StageCovered

\* Steps of the service take nothing from the catalogue and the directories.
LEMMA NextGrows ==
  ASSUME SnapshotInv, [Next]_vars
  PROVE  catalogue \subseteq catalogue'
<1> USE DEF snapshotVars, runVars
<1>1. CASE \E e \in Executors : Execute(e)
  BY <1>1
  DEF Execute, Read, FindDir, MakeDir, DirExists, WriteTable, Catalogue, Reject,
      Register, SaveBundle, SaveModel, Keep, BeginDump, EndDump, DumpError,
      LogRun, Done, Fail, Die
<1> QED
  BY <1>1 DEF Next, Open, Change, CrashApi, vars

LEMMA BackupStep == BackupInv /\ [BackupNext]_backupVars => BackupInv'
<1> SUFFICES ASSUME BackupInv, [BackupNext]_backupVars PROVE BackupInv'
  OBVIOUS
<1> USE DEF BackupInv, StageOK, StageCovered, Stages
<1>1. CASE UNCHANGED stage /\ [Next]_vars
  BY <1>1, NextSnapshot, NextGrows
<1>2. CASE UNCHANGED vars /\ BackupNext
  <2>1. SnapshotInv'
    BY <1>2, NextSnapshot
  <2>2. UNCHANGED <<catalogue, dirs, files>>
    BY <1>2 DEF vars, snapshotVars
  <2>3. CASE CopyDatabase
    BY <2>1, <2>2, <2>3 DEF CopyDatabase, SnapshotInv, TypeOK
  <2>4. CASE ListDirectories
    BY <2>1, <2>2, <2>4
    DEF ListDirectories, SnapshotInv, TypeOK, CatalogueComplete
  <2>5. CASE CopyDirectory
    <3>1. PICK h \in stage.todo :
            stage' = [stage EXCEPT !.files[h] = files[h], !.todo = @ \ {h}]
      BY <2>5 DEF CopyDirectory
    <3>2. /\ h \in Hashes
          /\ files[h] \in SUBSET Tables
          /\ h \in stage.catalogue => files[h] = Tables
      BY DEF SnapshotInv, TypeOK, CatalogueComplete
    <3>3. StageOK'
      BY <3>1, <3>2
    <3>4. /\ stage'.at = stage.at
          /\ stage'.catalogue = stage.catalogue
          /\ stage'.todo = stage.todo \ {h}
          /\ stage'.files[h] = files[h]
          /\ \A k \in Hashes : k # h => stage'.files[k] = stage.files[k]
      BY <3>1, <3>2
    <3>5. stage.at = "directories"
      BY <2>5 DEF CopyDirectory
    <3> QED
      BY <2>1, <2>2, <3>2, <3>3, <3>4, <3>5
  <2>6. CASE Pack
    BY <2>1, <2>2, <2>6 DEF Pack
  <2>7. CASE UNCHANGED stage
    BY <2>1, <2>2, <2>7
  <2> QED
    BY <1>2, <2>3, <2>4, <2>5, <2>6, <2>7 DEF BackupNext
<1> QED
  BY <1>1, <1>2
  DEF BackupNext, CopyDatabase, ListDirectories, CopyDirectory, Pack, backupVars

\* Every snapshot in the copied database has all its tables in the archive, though
\* the service, its failures and its crashes go on while the backup is made.
THEOREM ArchiveUsable == BackupSpec => []ArchiveConsistent
<1>1. BackupInit => BackupInv
  BY InitSnapshot
  DEF BackupInit, BackupInv, StageOK, StageCovered, Stages, NoArchive
<1>2. BackupInv => ArchiveConsistent
  BY DEF BackupInv, StageCovered, StageOK, ArchiveConsistent
<1> QED
  BY <1>1, <1>2, BackupStep, PTL DEF BackupSpec
=============================================================================
