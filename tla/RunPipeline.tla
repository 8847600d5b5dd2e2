----------------------------- MODULE RunPipeline -----------------------------
(***************************************************************************)
(* The life of a run, from the source data to the result a user opens:     *)
(* load_data and save_snapshot (store/project.py), the steps of _run_job   *)
(* after the engine (api/service.py) and the run registry, and _artifact,  *)
(* which reads a run's artefact back.  Threads of the API process and      *)
(* worker processes execute runs side by side; requests that only look at  *)
(* the wells load the data too.  They share the database, the snapshot     *)
(* directories and the artefact files, and each step touches one of them.  *)
(*                                                                         *)
(* A file counts as there when it is closed.  The content of the source is *)
(* its hash.                                                               *)
(***************************************************************************)
EXTENDS Naturals, FiniteSets

CONSTANTS
  Runs,         \* jobs, each of which registers one run
  NoRun,        \* what a request that only loads the data is about
  Executors,    \* threads and worker processes
  InApi,        \* those of them that are threads of the API process
  Hashes,       \* contents the source may have
  NoHash,
  Tables,       \* mapped tables of a source
  Sectors,      \* sectors of a run that have a winning model
  MaxFaults     \* bound: store errors, failed dumps and crashes

ASSUME PipelineAssumption ==
  /\ NoRun \notin Runs
  /\ NoHash \notin Hashes
  /\ InApi \subseteq Executors
  /\ MaxFaults \in Nat

VARIABLES
  source,       \* content of the source now (external)
  dirs,         \* directories under snapshots/
  files,        \* hash -> tables written in its directory
  catalogue,    \* table snapshots
  registered,   \* table runs: run -> snapshot_hash of its summary, or NoHash
  bundles,      \* table bundles
  models,       \* table models
  artefact,     \* run -> file under artifacts/
  memory,       \* Service._artifacts of the API process
  logged,       \* runs with an audit entry
  outcome,      \* run -> how its job stands
  ex,           \* executor -> where it is, with what
  faults

snapshotVars == <<dirs, files, catalogue>>
runVars == <<registered, bundles, models, artefact, memory, logged>>
vars == <<source, snapshotVars, runVars, outcome, ex, faults>>

\* "read": the source is read; "absent": save_snapshot found no directory;
\* "writing": this executor made it; "loaded": load_data is over; then one step
\* per part of the result.
Steps ==
  { "idle", "read", "absent", "writing", "loaded", "registered", "bundled",
    "kept", "dumping", "dumped", "logged" }

Outcomes == {"queued", "running", "done", "failed"}

Free == [pc |-> "idle", run |-> NoRun, hash |-> NoHash]

TypeOK ==
  /\ source \in Hashes
  /\ dirs \subseteq Hashes
  /\ files \in [Hashes -> SUBSET Tables]
  /\ catalogue \subseteq Hashes
  /\ registered \in [Runs -> Hashes \cup {NoHash}]
  /\ bundles \subseteq Runs
  /\ models \subseteq Runs \X Sectors
  /\ artefact \in [Runs -> {"none", "torn", "whole"}]
  /\ memory \subseteq Runs
  /\ logged \subseteq Runs
  /\ outcome \in [Runs -> Outcomes]
  /\ ex \in [Executors -> [ pc : Steps, run : Runs \cup {NoRun},
                            hash : Hashes \cup {NoHash} ]]
  /\ \A e \in Executors :
       /\ ex[e].pc # "idle" => ex[e].hash \in Hashes
       /\ ex[e].pc \notin {"idle", "read", "absent", "writing"} =>
            ex[e].run \in Runs
  /\ faults \in Nat

Init ==
  /\ source \in Hashes
  /\ dirs = {} /\ catalogue = {}
  /\ files = [h \in Hashes |-> {}]
  /\ registered = [r \in Runs |-> NoHash]
  /\ bundles = {} /\ models = {}
  /\ artefact = [r \in Runs |-> "none"]
  /\ memory = {} /\ logged = {}
  /\ outcome = [r \in Runs |-> "queued"]
  /\ ex = [e \in Executors |-> Free]
  /\ faults = 0

-----------------------------------------------------------------------------
At(e, pc) == ex[e].pc = pc

Goto(e, pc) == ex' = [ex EXCEPT ![e].pc = pc]

Finish(e) == ex' = [ex EXCEPT ![e] = Free]

Listed(r) == registered[r] # NoHash

\* The job of e ends as given; a request has none.
End(e, result) ==
  /\ Finish(e)
  /\ outcome' = IF ex[e].run = NoRun THEN outcome
                ELSE [outcome EXCEPT ![ex[e].run] = result]

\* What load_data ends with: the job goes on, a request is answered.
Loaded(e) == IF ex[e].run = NoRun THEN Finish(e) ELSE Goto(e, "loaded")

\* The database or the files of the source get other content.
Change ==
  /\ source' \in Hashes \ {source}
  /\ UNCHANGED <<snapshotVars, runVars, outcome, ex, faults>>

\* load_data, to the digest in save_snapshot: for a job, or for a request.
Read(e) ==
  /\ At(e, "idle")
  /\ \/ \E r \in Runs :
          /\ outcome[r] = "queued"
          /\ outcome' = [outcome EXCEPT ![r] = "running"]
          /\ ex' = [ex EXCEPT ![e] =
                      [pc |-> "read", run |-> r, hash |-> source]]
     \/ /\ e \in InApi
        /\ ex' = [ex EXCEPT ![e] =
                    [pc |-> "read", run |-> NoRun, hash |-> source]]
        /\ UNCHANGED outcome
  /\ UNCHANGED <<source, snapshotVars, runVars, faults>>

\* save_snapshot: if not d.exists().
FindDir(e) ==
  /\ At(e, "read")
  /\ IF ex[e].hash \in dirs THEN Loaded(e) ELSE Goto(e, "absent")
  /\ UNCHANGED <<source, snapshotVars, runVars, outcome, faults>>

\* d.mkdir(parents=True) ...
MakeDir(e) ==
  /\ At(e, "absent")
  /\ ex[e].hash \notin dirs
  /\ dirs' = dirs \cup {ex[e].hash}
  /\ Goto(e, "writing")
  /\ UNCHANGED <<source, files, catalogue, runVars, outcome, faults>>

\* ... raises FileExistsError when another executor has made it meanwhile.
DirExists(e) ==
  /\ At(e, "absent")
  /\ ex[e].hash \in dirs
  /\ End(e, "failed")
  /\ UNCHANGED <<source, snapshotVars, runVars, faults>>

WriteTable(e) ==
  /\ At(e, "writing")
  /\ \E t \in Tables \ files[ex[e].hash] :
       files' = [files EXCEPT ![ex[e].hash] = @ \cup {t}]
  /\ UNCHANGED <<source, dirs, catalogue, runVars, outcome, ex, faults>>

\* Mutant: the row is inserted before the tables are written.
CatalogueFirst(e) ==
  /\ At(e, "writing")
  /\ catalogue' = catalogue \cup {ex[e].hash}
  /\ IF files[ex[e].hash] = Tables THEN Loaded(e) ELSE UNCHANGED ex
  /\ UNCHANGED <<source, dirs, files, runVars, outcome, faults>>

\* INSERT OR IGNORE INTO snapshots, when every table is written.
Catalogue(e) ==
  /\ At(e, "writing")
  /\ files[ex[e].hash] = Tables
  /\ catalogue' = catalogue \cup {ex[e].hash}
  /\ Loaded(e)
  /\ UNCHANGED <<source, dirs, files, runVars, outcome, faults>>

\* The data are not accepted: load_project raises on the tables, or run_engine
\* or optimize_sectors on the data.
Reject(e) ==
  /\ ex[e].pc \in {"read", "loaded"}
  /\ End(e, "failed")
  /\ UNCHANGED <<source, snapshotVars, runVars, faults>>

\* Mutant: the summary names the content the source has by now.
RegisterCurrent(e) ==
  /\ At(e, "loaded")
  /\ registered' = [registered EXCEPT ![ex[e].run] = source]
  /\ Goto(e, "registered")
  /\ UNCHANGED <<source, snapshotVars, bundles, models, artefact, memory,
                 logged, outcome, faults>>

\* registry.register: the run is listed from here on, with status done.
Register(e) ==
  /\ At(e, "loaded")
  /\ registered' = [registered EXCEPT ![ex[e].run] = ex[e].hash]
  /\ Goto(e, "registered")
  /\ UNCHANGED <<source, snapshotVars, bundles, models, artefact, memory,
                 logged, outcome, faults>>

SaveBundle(e) ==
  /\ At(e, "registered")
  /\ bundles' = bundles \cup {ex[e].run}
  /\ Goto(e, "bundled")
  /\ UNCHANGED <<source, snapshotVars, registered, models, artefact, memory,
                 logged, outcome, faults>>

\* registry.save_model, sector by sector.
SaveModel(e) ==
  /\ At(e, "bundled")
  /\ \E s \in Sectors :
       /\ <<ex[e].run, s>> \notin models
       /\ models' = models \cup {<<ex[e].run, s>>}
  /\ UNCHANGED <<source, snapshotVars, registered, bundles, artefact, memory,
                 logged, outcome, ex, faults>>

\* self._artifacts[run_id] = art, in the process of the executor.
Keep(e) ==
  /\ At(e, "bundled")
  /\ \A s \in Sectors : <<ex[e].run, s>> \in models
  /\ memory' = IF e \in InApi THEN memory \cup {ex[e].run} ELSE memory
  /\ Goto(e, "kept")
  /\ UNCHANGED <<source, snapshotVars, registered, bundles, models, artefact,
                 logged, outcome, faults>>

\* joblib.dump opens the file, which is readable and incomplete from now on, ...
BeginDump(e) ==
  /\ At(e, "kept")
  /\ artefact' = [artefact EXCEPT ![ex[e].run] = "torn"]
  /\ Goto(e, "dumping")
  /\ UNCHANGED <<source, snapshotVars, registered, bundles, models, memory,
                 logged, outcome, faults>>

\* ... and closes it.
EndDump(e) ==
  /\ At(e, "dumping")
  /\ artefact' = [artefact EXCEPT ![ex[e].run] = "whole"]
  /\ Goto(e, "dumped")
  /\ UNCHANGED <<source, snapshotVars, registered, bundles, models, memory,
                 logged, outcome, faults>>

\* The directory or the file cannot be written: the exception is swallowed.
DumpError(e) ==
  /\ ex[e].pc \in {"kept", "dumping"}
  /\ faults < MaxFaults
  /\ faults' = faults + 1
  /\ Goto(e, "dumped")
  /\ UNCHANGED <<source, snapshotVars, runVars, outcome>>

LogRun(e) ==
  /\ At(e, "dumped")
  /\ logged' = logged \cup {ex[e].run}
  /\ Goto(e, "logged")
  /\ UNCHANGED <<source, snapshotVars, registered, bundles, models, artefact,
                 memory, outcome, faults>>

\* _run_job returns and the job is marked done.
Done(e) ==
  /\ At(e, "logged")
  /\ End(e, "done")
  /\ UNCHANGED <<source, snapshotVars, runVars, faults>>

\* A step raises: the job is marked failed, what was written stays.
Fail(e) ==
  /\ ~At(e, "idle")
  /\ faults < MaxFaults
  /\ faults' = faults + 1
  /\ End(e, "failed")
  /\ UNCHANGED <<source, snapshotVars, runVars>>

\* A worker process dies; its job stays running.
Die(e) ==
  /\ e \notin InApi
  /\ ~At(e, "idle")
  /\ faults < MaxFaults
  /\ faults' = faults + 1
  /\ Finish(e)
  /\ UNCHANGED <<source, snapshotVars, runVars, outcome>>

\* The API process dies and is restarted.
CrashApi ==
  /\ faults < MaxFaults
  /\ faults' = faults + 1
  /\ ex' = [e \in Executors |-> IF e \in InApi THEN Free ELSE ex[e]]
  /\ memory' = {}
  /\ UNCHANGED <<source, snapshotVars, registered, bundles, models, artefact,
                 logged, outcome>>

\* _artifact in the API process, for a run that is not in its memory: joblib.load
\* raises on an incomplete file, and the request fails.
Open(r) ==
  /\ r \notin memory
  /\ Listed(r)
  /\ artefact[r] = "whole"
  /\ memory' = memory \cup {r}
  /\ UNCHANGED <<source, snapshotVars, registered, bundles, models, artefact,
                 logged, outcome, ex, faults>>

Execute(e) ==
  \/ Read(e) \/ FindDir(e) \/ MakeDir(e) \/ DirExists(e) \/ WriteTable(e)
  \/ Catalogue(e) \/ Reject(e) \/ Register(e) \/ SaveBundle(e) \/ SaveModel(e)
  \/ Keep(e) \/ BeginDump(e) \/ EndDump(e) \/ DumpError(e) \/ LogRun(e)
  \/ Done(e) \/ Fail(e) \/ Die(e)

Next ==
  \/ \E e \in Executors : Execute(e)
  \/ \E r \in Runs : Open(r)
  \/ Change
  \/ CrashApi

Spec == Init /\ [][Next]_vars

-----------------------------------------------------------------------------
\* What the catalogue lists is complete on disk, whatever crashes: the row is
\* inserted after the last table (project.py, lines 151-165).
CatalogueComplete == \A h \in catalogue : h \in dirs /\ files[h] = Tables

\* Two loads of the same content never write the same snapshot, though both may
\* have found no directory: mkdir stops the second one (project.py, lines 151-154).
OneWriter ==
  /\ \A e \in Executors : At(e, "writing") => ex[e].hash \in dirs
  /\ \A d, e \in Executors :
       At(d, "writing") /\ At(e, "writing") /\ ex[d].hash = ex[e].hash => d = e

Writing(h) == \E e \in Executors : At(e, "writing") /\ ex[e].hash = h

\* "Referenced by content hash, so a result can always be traced" (docs/
\* USER_GUIDE.md, line 52): without faults a listed run has its snapshot, or
\* another executor is just writing it.
RunTraced ==
  faults = 0 =>
    \A r \in Runs : Listed(r) =>
      registered[r] \in catalogue \/ Writing(registered[r])

\* A run whose job is done has every part a reader asks for; without faults the
\* API can open its artefact too, now and after a restart (service.py, lines
\* 520-550 and 579-600).
DoneCanBeOpened ==
  \A r \in Runs : outcome[r] = "done" =>
    /\ Listed(r) /\ r \in bundles /\ r \in logged
    /\ \A s \in Sectors : <<r, s>> \in models
    /\ faults = 0 => artefact[r] = "whole"

\* What the memory of the API holds is an artefact of a listed run that is on
\* disk too or being written by a thread of its own, unless a dump failed.
MemoryBacked ==
  \A r \in memory :
    /\ Listed(r)
    /\ faults = 0 =>
         \/ artefact[r] = "whole"
         \/ \E e \in InApi : ex[e].run = r /\ ex[e].pc \in {"kept", "dumping"}

\* What is listed can be used: the three above, however executors interleave, fail
\* and end (service.py, lines 505-550 and 579-600).
RunsUsable == RunTraced /\ DoneCanBeOpened /\ MemoryBacked

\* "A result can always be traced back to exactly the numbers it was built from"
\* (docs/USER_GUIDE.md, lines 52-53): the snapshot directory that a done run names
\* has every table, once the executors are at rest.  Not so in the code: a
\* directory left by a failed load is taken for the snapshot ever after.
DoneTraced ==
  \A r \in Runs :
    outcome[r] = "done" /\ (\A e \in Executors : At(e, "idle"))
      => files[registered[r]] = Tables
=============================================================================
