# Verification of the waterflood optimisation service

This directory holds TLA+ specifications of the program in `src/waterflood_app`, the TLC
configurations that model-check them on small instances, and theorems proved with TLAPS. The program
is a FastAPI service with a thread pool, a relational store (SQLite or PostgreSQL), optional worker
processes, and a numerical engine. What is hard to get right in it, and hard to test, is in the first
three: handlers that read, change and write back rows in separate transactions, workers that race
for rows, and failures between two steps. The model starts there.

Paths below are relative to `src/waterflood_app` unless they start with `scripts/`, `docs/` or `ui/`.

## Inventory

| Component | State | Operations | Interacts with | Hard behaviour |
|---|---|---|---|---|
| Recommendation lifecycle (`workflow/states.py`) | one `Recommendation`: state, history, snapshot, flags, implemented rates, evaluations | `review`, `approve`, `reject`, `implement`, `evaluate` | called by the service | long sequences of legal calls; roles; LOW badge; separation of duties |
| Recommendation service (`api/service.py` 872-1070, 689-760) | tables `recommendations`, `audit`, `validation`, `writebacks`, setting `separation_policy` | create, transition, add_evaluation, writeback, set_separation_policy | store, audit log, surveillance system, webhooks | lost updates, stale reads, one write of several failing |
| Job queue and worker (`api/jobs.py`, `api/worker.py`) | table `jobs`, executor queue in memory, stop flag | submit, claim_next, _run, main loop | store, run pipeline | races for rows, death with a job in hand, SIGTERM, liveness |
| Run pipeline and registry (`api/service.py` 480-550, `store/registry.py`) | tables `runs`, `models`, `bundles`, files `artifacts/` | _run_job, register, bundle, _artifact | job queue, engine | a run visible before its parts are written; torn files |
| Snapshot store and backup (`store/project.py`, `scripts/backup.py`) | table `snapshots`, directories of Parquet files | save_snapshot, load, backup, restore | run pipeline | directory exists before its content; database and files copied at different times |
| Users, roles, tokens (`api/auth.py`) | table `users`, secret file | create, update, authenticate, require | every handler | check-then-insert; last administrator |
| Settings (`config.py`, `api/service.py` 1080-1121) | table `settings`, project configurations | patch_thresholds, set_separation_policy, effective_config | every handler | read-modify-write of one JSON value |
| Connections and mappings (`api/service.py` 164-360, `ingest/sql.py`) | tables `connections`, `mappings`, file `secrets.json` | create_connection, save_mapping, set_query_override | run pipeline (`load_data`) | a whole file rewritten in place; password and row stored apart |
| Webhook delivery (`api/service.py` 1154-1192) | table of subscriptions, daemon threads | dispatch_webhook, _post, _deliver | subscribers, audit log | sent once; failed, late or interrupted deliveries |
| Surveillance rules (`workflow/alerts.py`, `evaluation.py`, `scheduler.py`) | none (functions of rows) | due dates, recalibration, alerts, monthly rules | tests only, so far | calendar arithmetic, thresholds |
| Condition map (`messaging/conditions.py`) | log of a run | emit, scope, worst level | engine, bundle | what is merged into whose log |
| Database shim (`store/db.py`) | one connection per thread | connect, commit on exit, rollback on error, translate | every store call | a connection that is used again after a failure or a break |
| Ingestion (`ingest/`) | none | suggestions, mapping, units, well types, load | connections, snapshot store | what is loaded unconfirmed; roles that change |
| Preparation (`prep/`) | none | grid, cleaning, pressure, windows, sectors, gates, split | engine | boundary cases of windows and thresholds |
| Models, tournament, change detection (`models/`) | none | fits, members, verification, forecast, selection, CUSUM | engine, optimiser | which of several fits is used for what |
| Optimiser (`optimize/`) | none | posture, constraints, plans, scenarios, ramps, action list | engine, service | infeasible starts; limits that were broken before; balance of water |
| Engine (`engine.py`), bundle (`api/bundle.py`) | none | windows, sectors, runs; what is shown | all of the above | what a run takes from which window; units |
| Figures, report, export, HTTP layer, UI, validation suites | none of their own | rendering, routing | | not modelled, see below |

What makes each correct:

* **Lifecycle**: a history is a path through the table made by roles entitled to it; an approval is
  made once, freezes a snapshot, and is never undone; evaluations follow an implementation.
* **Recommendation service**: whatever interleaves or fails, rows are ones the lifecycle can produce;
  requests served one at a time act as the lifecycle's methods do; audit, calibration and target rows
  agree with the recommendations.
* **Job queue**: at most one execution per job; nothing left behind without a fault; final states are
  final; submission order; every queued job ends.
* **Run pipeline**: a finished run has all its parts and can be opened, names the data it was computed
  from, and what the API keeps in memory is on disk too.
* **Snapshots and backup**: a snapshot in the catalogue is complete and is written by one load only; an
  archive is usable by itself.
* **Users and settings**: unique names; a change of a setting is lost in no way but a race of two writers
  (which the code does not exclude); a connection has its password; a mapping has its connection.
* **Database shim**: one unit of work is one transaction, which the modules above take for granted.
* **Archives**: what is restored is what was there; an intact archive verifies.
* **Tokens, webhooks**: a restart logs nobody out; every notice ends in exactly one way.
* **The rules of a run**: what a function promises its caller, stated without repeating its algorithm:
  a partition, a bound, a balance, a comparison on equal terms. Where the code breaks the obvious promise
  the property states the exact exception, so that it still notices any other.

## Plan

In the order in which it was carried out; the first item is the most important behaviour.

1. The lifecycle of a recommendation and the service that has to implement it, with proofs.
2. The job queue; the run pipeline, snapshots and backup; administration; each with proofs.
3. The parts beside the service that keep state: tokens (`Sessions`), webhook delivery (`Webhooks`), units
   of work (`Database`), archives (`Archives`).
4. The algorithms of a run, from ingestion to the bundle, as operators over small numbers, each with the
   questions that are asked of it.
5. Theorems: the types and invariants of 1, 2 and 3, and of 4 the sectors, windows, conversions, forecasts,
   shifts, plans, evaluations and settings, and bounds that hold for all numbers.

Left: the scenario handlers that change a run's artefact in memory and on disk (`api/service.py`), the
comments and deletion of connections, and proofs of more of the rules (see the end of "Proofs").
Runs keep two actors and two or three objects: each hazard is a race of two actors over one row, or
one fault between two steps.

## Modules

| Module | Models |
|---|---|
| `Recommendation` | the object and methods of `workflow/states.py` as operators: a method is the set of its outcomes, empty when it raises |
| `RecLifecycle` | abstract specification: a table of recommendations on which methods act atomically |
| `RecService` | the handlers of `api/service.py`, one action per store call |
| `JobQueue` | `api/jobs.py` and `api/worker.py` in the modes external, pool and inline |
| `RunPipeline` | `load_data`, `save_snapshot`, the storing steps of `_run_job`, `_artifact` |
| `Backup` | `scripts/backup.py` next to `RunPipeline` |
| `Administration` | `UserStore`, patch_thresholds, create_connection with `SecretsStore.set`, save_mapping |
| `Sessions` | the secret of `TokenService`, login and `resolve_principal` over starts and restarts of processes |
| `Webhooks` | `dispatch_webhook`, `_post` and the delivery threads |
| `Database` | `store/db.py`: connect, the unit of work, `translate` |
| `Archives` | `scripts/backup.py` as a sequence of commands: backup, retention, verify, restore |
| `WellTypes`, `Loading`, `Volumes` | `ingest/`: roles and entities, suggestions and what a load ends with, units and reservoir volumes |
| `Preparation`, `Sectors`, `Profiles` | `prep/`: grid, cleaning, pressure, windows and split; sectors; the numbers the gates judge |
| `Engine` | `engine.py`: windows, sectors and the runs the forecast starts from |
| `Calibration`, `Verification`, `Selection`, `Forecast` | `models/`: members and refinement; verification and spread; gates, tournament, badge, rolling windows and shifts; history and forecast |
| `Planning`, `Scenarios` | `optimize/`: posture, constraints, choice of a plan, ramps, action list; scenarios and sensitivities |
| `Surveillance` | `workflow/`: evaluation dates, monthly rules, alerts, recalibration |
| `Settings`, `Reporting` | `config.py`; conditions, bundle, payload of a recommendation and its evaluation |
| `Questions`, `DataRules`, `ModelRules`, `PlanRules`, `SettingsRules`, `ReportRules` | the questions asked of the operators above, and what must hold of the answers |
| `MCRules`, `MCRecService`, `MCJobQueue`, `MCBackup`, `MCAdministration` | users, inputs, workloads and symmetries of the runs |
| `RecommendationProofs`, `RecServiceProofs`, `RunProofs`, `BackupProofs`, `AdministrationProofs`, `ServerProofs`, `RulesProofs`, `DataProofs` | the theorems |

`Backup` extends `RunPipeline`; `RecLifecycle` and `RecService` extend `Recommendation`; `RecService`
instantiates `RecLifecycle` as the specification it implements. Operators marked *Mutant* are wrong versions of the definition that
follows them, in the way a bug could be; no specification uses them. Each was put in the place of
the right one to see that the properties notice.

### Recommendation and RecLifecycle

A recommendation is a record of originator, badge, state, history, snapshot, the flags set by an
approval, the implementation entry and the evaluations. Hashes, rates and notes are written once and
never compared, so they are left out; the snapshot keeps the badge as its content. Times are the
numbers of requests. Badges are LOW and everything else, the only distinction `approve` makes.
`Consistent` gathers what states.py promises of one object: `LegalHistory`, `SnapshotFrozen`,
`ApprovalGated`, `EntriesMatchState`.

### RecService

State: the tables as functions and sets, and per server thread the request it handles and how far it
is. `ProjectStore.conn` opens and commits one transaction per call, so every store call is one action:

| Action | Code |
|---|---|
| `Create`, `SetPolicy` | first (and only) row written by `create_recommendation`, `set_separation_policy` |
| `Load` | `_load_rec` and `_project`: the thread gets its copy of the row |
| `Decide`, `Refuse` | the policy is read and the method applied to the copy, or it raises |
| `Save` | `_save_rec`: INSERT OR REPLACE of the whole row |
| `CountEvaluation` | the insert into `validation` |
| `WriteTargets`, `RecordWriteback` | the write to the surveillance system (external, one transaction) and the insert into `writebacks` |
| `Audit`, `Dispatch` | `log`, `dispatch_webhook` |
| `Fail`, `Crash` | a store call raises; the process ends and is restarted |

The checks a handler makes before its first store call are the guard of its first action (`Gate`). The
read of the policy and the in-memory call are one action: nothing shared is touched in between.

### JobQueue

`created` and `filed` are read from one clock: `_now()` is taken before the row is inserted, so rows
may become visible in another order. A worker process selects and claims in two steps (PostgreSQL
and SQLite both let another process in between them). `Start` is the update outside the `try`, `Call`
the job function, `MarkDone` and `MarkFailed` the two updates after it. `StoreError` follows the
`try`: inside it the job goes to the `except` branch, outside it a worker process ends. A thread of
the pool takes any queued `_run`: the executor's order is left open. `started` and `filed` are history
variables. The variable `mode` is chosen in `Init` and never changes: `external` has worker processes,
`pool` a thread pool in the API process, `inline` runs the job in the thread that submits it. Progress
updates write only columns no property reads and are left out.

### RunPipeline and Backup

`JobQueue` ends where the function of a job is called; `RunPipeline` is that function, seen from the
store. Its executors are threads of the API process (`InApi`) and worker processes; a request that
only looks at the wells calls `load_data` too. The content of the source is a model value, since the
code knows it by its hash.

| Action | Code |
|---|---|
| `Read` | `load_data` up to the digest, for a queued job or a request |
| `FindDir`, `MakeDir`, `DirExists` | `if not d.exists(): d.mkdir(...)`, which raises if another load made it meanwhile |
| `WriteTable`, `Catalogue` | one Parquet file; the row of `snapshots` after the last one |
| `Reject` | `load_project`, `run_engine` or the optimiser raises |
| `Register`, `SaveBundle`, `SaveModel`, `Keep` | the rows of the run, then `_artifacts` of the executing process |
| `BeginDump`, `EndDump`, `DumpError` | `joblib.dump` opens and closes the file, or its exception is swallowed |
| `LogRun`, `Done`, `Fail`, `Die`, `CrashApi` | the audit entry; the end of the job; a step raises; a process dies |
| `Open` | `_artifact`: a file is loaded into the memory of the API; an incomplete one raises |

`Backup` adds the temporary directory of one backup. `Connection.backup` (or `pg_dump`) is one
transaction; `copytree` lists the directories once and copies each when its turn comes, while the
service writes on. A job that was left `running` by a dead process stays so: nothing in the code takes it
up again.

### Administration

One variable per table, and `secrets.json` as its content (`secrets`) and whether it can be read (`file`):
`write_text` empties the file, then writes it when it is closed. `thr` holds per thread the request and
what the handler has read so far.

| Action | Code |
|---|---|
| `Accept` | `resolve_principal`, `require`, `_project`: the user's row is read here and not again |
| `CheckName`, `InsertUser`, `InsertRaises` | `UserStore.create`: the look-up, the INSERT, the UNIQUE constraint |
| `FindUser`, `UpdateUser` | `UserStore.update`, which writes the given columns only |
| `ReadOverrides`, `WriteOverrides` | `patch_thresholds`: the JSON value is read, merged and written back whole |
| `ReadSecrets`, `ReadRaises`, `OpenSecrets`, `WriteSecrets`, `InsertConnection` | `create_connection` |
| `CheckConnection`, `SaveMapping` | `save_mapping` |
| `Fail`, `Crash` | a step raises; the process ends and is restarted |

Two threads may write the same JSON value, and the code does not exclude it: one change is then lost. The
history variables `asked` (the overrides if every patch were one step), `current` (nobody has written
back since this thread read) and `lost` (an outdated copy was written, or a write of the file was cut
short) let the properties say that this is the only way to lose one: whatever is not in `lost` must be
there. `Offered` and `Room` bound the requests.

### Sessions, Webhooks, Database and Archives

* `Sessions`: a process starts in the steps between which another one may come: does the file exist, then
  read it, or empty it and write. `raced` marks processes whose starts overlapped, `firm` tokens of processes
  that are not marked. Expiry and password hashes are left out; the variable `WFO_JWT_SECRET`, with which no
  file is used, is not modelled.
* `Webhooks`: `dispatch_webhook` reads the rows once and posts one notice after the other, in daemon
  threads or, with inline jobs, itself. `FailDelivery` covers both a refused connection and an answer that
  comes too late (`got`); an answer 4xx or 5xx raises nothing in the code and counts as an answer.
  `FailUnrecorded` is an audit entry that raises, which inline ends the whole dispatch.
* `Database`: SQLite opens a connection per unit, PostgreSQL keeps one per thread, rolls it back before it
  is used again and opens another if that raises. A connection may break in a unit, between two, or while
  the commit is under way. `Effect` is what SQLite does with a statement and `Executed` what PostgreSQL
  does with its translation.
  `UnitsAtomic` compares two records that are kept apart: `committed` is what the commits wrote of whatever
  statements were waiting on the connection, and `succeeded` the units that ended without an exception. A
  statement that an earlier unit left there, or one that got lost, makes them differ. Only a unit whose
  connection broke while it was committing (`interrupted`) may be in either.
* `Archives`: the commands run one at a time. The manifest is written into the stage after the files were
  listed, and restored with them.

### The rules of a run

`Questions` gives every question the same shape: an input of a kind is there in the initial state, and one
action of `DataRules`, `ModelRules`, `PlanRules`, `SettingsRules` or `ReportRules` computes the answer,
with the operators of the modules above. `DataSpec`, `ModelSpec`, `PlanSpec` and `SettingsSpec` are
the behaviours of those with properties that are proved; `Rules` runs all five. Numbers are integers: rates are small, ratios in hundredths, thresholds those of
`config/thresholds.yaml`. What a numerical search or fit returns is an input, chosen from a small set, so
that the rules around it are checked for whatever it may return. The properties never repeat the
algorithm: they relate the answer to the input, to another answer, or to another function's answer.

| Property | Says of |
|---|---|
| `RolesExplained` | roles, conversions and split entities of a well: no volume lost, no role change missed |
| `LoadSound` | suggested columns, rows that are kept, what is loaded and what the snapshot holds |
| `WindowsUsable` | windows cover the history, events cut them, training and blind steps are there, shut-ins are reported |
| `GridSound` | volumes of the grid, cleaning, pressures, free gas, units there and back |
| `SectorsPartition` | sectors are disjoint, can be fitted, keep blocks apart |
| `ConversionsCut` | windows and conversions; the runs that forecast and the confidence they give |
| `MembersBounded` | members that forecast allocate water once, when the winner was refined for it |
| `EnsembleSound` | winner, ensemble, badge, gates, verification and spread agree |
| `ShiftSound` | rolling windows, and what a reported shift is evidence of |
| `ForecastContinues` | a forecast equals the model run over history and plan |
| `PlanSound` | a plan is feasible and better, or it is hold-current; the robust posture lowers no member's objective |
| `ScenariosComparable` | scenarios differ from hold-current in what they are about |
| `RampSafe` | weekly steps and the list of actions |
| `EvaluationsOnTime` | due dates, monthly rules, alerts, recalibration |
| `SettingsLayered` | the topmost layer wins and nothing else is lost |
| `ShownAsComputed` | conditions, light, recommendations and evaluations as displayed |

`MCRules` puts these questions and the four parts above, and the lifecycle, side by side: a variable `kind`
says which part a behaviour is about and the others stay as they begin. The state space is the sum, not
the product, of the parts.

## Runs

| Run | Instance | Shows |
|---|---|---|
| `service_sequential` | 1 thread, 6 requests, 1 fault, a policy that may change at the third request | refinement of the lifecycle; separation of duties; targets, calibration and webhooks in step with the rows |
| `service_concurrent` | 2 threads, 6 requests, no faults | stale saves leave consistent, audited, counted rows |
| `service_lost_approval` | 2 threads, 4 requests | **violation**: a stale save undoes an audited approval |
| `service_unlogged` | 1 thread, 3 requests, 1 fault | **violation**: an approval without audit entry |
| `queue` | 3 jobs, 2 workers, 1 fault, all 3 modes | at most one execution, submission order, what a fault leaves behind |
| `queue_live` | 2 jobs, 2 workers of which one may be stopped, no faults, all 3 modes | every queued job ends |
| `queue_once_race` | 2 jobs, 2 `--once` workers | **violation**: `--once` leaves after a lost race |
| `pipeline_backup` | 2 runs, an API thread and a worker, 2 contents of 2 tables, 1 fault, 1 backup | complete snapshots, runs that can be opened, consistent archives |
| `pipeline_torn` | the same without the backup | **violation**: a torn directory is taken for a snapshot |
| `rules` | every question on all inputs of a small set (see `MCRules`); 2 processes with 4 starts, 2 subscribers and 2 events, 2 threads with 3 units, 4 archive commands, 1 recommendation with 6 identities; 1 fault in each part | the properties of the rules, of the parts beside the service, and that an approval and its snapshot are never undone |
| `archive_of_restored` | 3 archive commands | **violation**: the archive of a restored store fails its own verification |
| `administration` | 2 threads, 2 names, 2 ids beside the first administrator, 2 projects, 2 connections, 3 patches, 1 fault | unique names, usable mappings, what may lose an override or a password |

Bounds. One recommendation is enough for the service: handlers of different rows share only the
policy, and every property speaks of one row. Two threads make every race of a load, decide, save
sequence; six requests reach EVALUATED and a writeback. `Workload` (`Administered`, `Racing`,
`Everything` in `MCRecService`) says of which kinds the n-th request may be: the two long runs script
the way to the end of the lifecycle with alternatives at each step. In `queue`, two workers make every
race for a row, and the third job is one that waits behind it; worker w1 may get SIGTERM, w2 is a
`--once` worker. In `pipeline_backup` two executors make every race for a directory, and the two
contents let the source change under a run; one sector stands for the loop over the sectors.
In `administration` two threads make every race of a read and a write; two keys
of one scope show a lost override, one key of another scope that scopes do not interfere; one project's
connections have passwords and the other's have none. In `rules` an input is as long as the
rule's window of attention plus one (five months for a role, nine steps for windows, two patterns, two members),
and its numbers are those on both sides of each threshold, including equality. `MaxFaults = 1` puts one error or crash between any two steps of the program; what a second one could
add is left to the theorems, which have no bound. `MaxRequests`, `MaxFaults` and `Times` only stop
requests, faults and events from coming.

Deadlock is checked in every run but three: in `administration` nothing is enabled once the only
administrator has been deactivated and no engineer is left; in `rules` a question that is answered is
over; in `archive_of_restored` the commands are bounded.

Symmetry is used over threads, jobs, runs, contents, tables and connections where all are alike, never in a run
with a liveness property.

Fairness. `JobQueue!FairSpec` has weak fairness of each worker's own steps: the operating system runs
every thread, SQLite and PostgreSQL answer, and the job function ends (there is no timeout in the
code, so this is assumed). Submissions, signals, faults and restarts have none. The claim itself is
limited to no faults and one worker that is not stopped; with faults a job can be left behind, as
`StrandedByFaults` says. The other specifications state safety only.

What the runs found:

* A stale save undoes an approval (`service_lost_approval`): transition loads and replaces whole rows
  without a lock or version check (`api/service.py` 980-1000), against the "immutable snapshot" of
  `workflow/states.py` 8-9.
* An approval can stay unlogged (`service_unlogged`): row and audit entry are two transactions, against
  `store/audit.py` 1-2.
* `claim_next` answers None after a lost race (`queue_once_race`), against its docstring
  (`api/jobs.py` 115), so a `--once` worker can leave a queue that is not empty.
* A load that fails after `mkdir` leaves a directory without its tables, and `save_snapshot` takes any
  directory for a snapshot (`pipeline_torn`, `store/project.py` 151): later runs of the same data end as
  done with a snapshot that cannot be loaded, against `docs/USER_GUIDE.md` 52-53. The catalogue never
  lists it (`CatalogueComplete`).
* `secrets.json` is emptied and written in place (`ingest/sql.py` 48): after an error or a crash in between,
  no connection has its password and no other can be stored, since the file cannot be read any more
  (`ReadRaises`). `SecretsKept` excludes this case by `lost`.
* The last active administrator can deactivate himself; nobody can administer the store afterwards.
* Two first loads of the same content at once: one of them fails with FileExistsError
  (`store/project.py` 152). The model has it as `DirExists`; it is what makes `OneWriter` hold.
* A restored store holds the `manifest.json` of the archive it came from, and `backup` stages it as a file of
  the store and then writes the new manifest over it (`scripts/backup.py` 79-97): no archive of a restored
  store verifies, and none can be restored (`archive_of_restored`), against `scripts/backup.py` 12-13.
  `RestoreSound` states that nothing else makes an archive fail.

Met on the way, and stated as the exception in a property that holds otherwise:

* Ingestion: a dataset without a saved mapping is loaded by suggestion, without confirmation, and is not in
  the snapshot, although `ingest/mapping.py` 3 speaks of mappings "confirmed by the user"; rows without a
  date are dropped unreported (`LoadSound`). A gas rate in m3/d cannot be the target of a conversion from
  Mscf/d, since the first kind with the tag is taken (`GridSound`).
* Preparation: pressures are lost on grids that are not dated the first of a month (`GridSound`); an
  isolated well whose nearest counterpart is isolated too is in no sector (`SectorsPartition`); long
  shut-ins at either end of the history are not reported (`WindowsUsable`). A pump of unknown intake is
  reported with `DATUM_DEPTH_MISSING`, "could not be shifted to the project datum" (`condition_map.yaml` 139),
  and is then shifted, when mid-perforation and datum are known (`prep/pressure_prep.py` 189-192); a gauge without
  depth is not shifted and not reported. `GridSound` asks for the shift and not for this report.
* Engine: conversions found in the rates are dropped if the events table lacks its optional column `note`
  (`ConversionsCut`).
* Models: an implausible winner can be left out of its own ensemble (`EnsembleSound`); members that were
  not refined may allocate an injector's water more than once (`MembersBounded`); a shift is dated by the
  first window that was ever above the limit (`ShiftSound`).
* Optimiser: the robust posture compares the members' values of the objective (`optimize/solvers.py` 125, 212,
  283), so with net present value or least water as the objective a robust plan may lose oil in a member,
  against `docs/USER_GUIDE.md` 59-60 and `optimize/posture.py` 7-8, and the note "candidate lost oil" speaks of
  something else; `PlanSound` asks that no member's objective goes down, and no member's oil where the objective
  is the oil. Under the default `same_water` the objective of least water is a constant, and hold-current is
  always the answer, whether it reaches the target or not. Hold-current is the answer also where it breaks the limits itself, as in sweeps below today's
  water (`PlanSound`, `ScenariosComparable`); scenarios with a new or converted well drop the level anchor
  that hold-current keeps; a price bar drops a price deck; small changes that are suppressed break the balance
  of a plan (`RampSafe`). The list of actions is ordered by expected gain, and one that gains no oil, as with
  another objective than oil, leaves the injectors in their own order. No rate is cut by the 520 weeks with the
  steps that are shipped; one of 1 % a week is in the run, and is.
* Surveillance: the floor of the blind r2 stays when 80 % of the HIGH evaluations are within the band or above
  it (`workflow/evaluation.py` 115), against "within band" in the docstrings at 5 and 110; `EvaluationsOnTime`
  states what the code does. Where the two shares come to exactly 80 % their floating-point sum may be less
  (0.7 + 0.1), and the floor goes up; model and property take either outcome there (`short`). A missing water cut counts as dry (`EvaluationsOnTime`); nothing in the service calls the
  monthly rules, `due_evaluations` or the alerts.
* Settings and display: an override can be changed but not taken away (`SettingsLayered`); net present values
  are converted like volumes while the tornado of the same plan is not, realised oil is compared with the
  objective's values whatever the objective, and a bundle is red for a history that is too short in any
  window (`ShownAsComputed`).

## Proofs

For all values of the constants, under the named assumptions of the modules:

* **Lifecycle** (`ServerProofs`): `LifecycleType`, `LifecycleConsistent`, `LifecycleAppendOnly`,
  `LifecycleImmutable`. `RowConsistent` is inductive: `RecommendationProofs` shows that each outcome of
  each method applied to a consistent object is consistent and extends its history by one event (`StepBy`).
* **Service** (`RecServiceProofs`), for any number of threads, requests and faults: `ServiceType` and
  `ServiceConsistent`. `RowConsistent` alone is not inductive, since `Save` stores a thread's copy: the
  invariant is `RowConsistent /\ CopiesConsistent`.
  * `ServiceNotifies`: the invariant `ThreadsProgress` says what a request that has come so far has committed.
  * `ServiceAudits`, `ServiceCounts`: the rows alone say too little, since a stale copy may bring an event
    back. The invariant is `RowsKnown /\ CopiesKnown`: everything on a row or a copy is logged (counted), or
    its own handler is about to log it, or it is what the copy's handler has just added and not saved.
  * `ServiceTargets` needs besides that an approved row has an approval in its history (`Sound`) and that this
    approval is known (`TargetsKnown`). Its hypothesis is that no user goes by the name `NoApprover`, the empty
    string that `writeback.py` writes when it finds no approval: the schema asks for two characters
    (`api/schemas.py` 26) before `UserStore.create` strips the name (`api/auth.py` 101), so a name of blanks
    only would be stored as the empty one.
  * For one thread: `ServiceImplementsLifecycle` (`Spec` implies `ImplementsLifecycle`), `ServiceSeparates` and
    `ServiceTraceable`. They need that the decided copy is still the outcome of a method on the row in the
    table under the policy in force, which a second thread would break; the invariant `ThreadsFresh` says so.
* **Job queue** (`RunProofs`), in every mode: `QueueType`, `QueueOwnership`, `QueueRunsOnce`,
  `QueueEndedStays`, `QueueClaimsInOrder`, `QueueStrandedByFaults`. `RunsOnce` is not inductive: `Ownership`
  adds that a job has one holder at most, that a holder about to call it is the first, and that nobody holds
  a job that waits or is over. `ClaimedInOrder` needs `SelectedInOrder`, since the row was the oldest when it was
  selected, not when it is claimed. `StrandedByFaults` is proved step by step: `Stranded` is finite, no step
  adds more than one job to it, and only one that counts a fault adds any.
* **Pipeline and backup** (`BackupProofs`): `PipelineType`, `SnapshotOneWriter`, `SnapshotComplete`,
  `PipelineUsable`, `BackupUsable`, `ArchiveUsable`, for any number of executors, contents and faults.
  `CatalogueComplete` needs `OneWriter`: the directory a row is inserted for is there and nobody else writes
  in it. `RunsUsable` needs that a job has one executor (`JobHeld`), that a directory is catalogued or being
  written while there was no fault (`SnapshotsBacked`), and that a job has every part it is past (`JobParts`,
  `JobArtefact`). `ArchiveConsistent` needs `StageCovered`: what the copied database lists was complete when
  it was copied, stays so, and is among the directories listed afterwards.
* **Administration** (`AdministrationProofs`): `AdministrationType`, `NamesAreUnique`, `OverridesAreKept`,
  `PasswordsAreKept`, `MappingsAreUsable`, for any number of threads, requests and faults. `PatchesKept`
  needs `CopiesCurrent`: a copy nobody has outdated equals what is stored. `SecretsKept` also needs
  `WritersCurrent` (a writer nobody has outdated finds the file as it emptied it) and `SecretsStored`.
  `MappingUsable` needs `DrawnFresh` and `ConnectionsChecked`: a connection's row is inserted once, so what
  save_mapping checked stays true.
* **Sessions** (`ServerProofs`): `SessionsAreHeld`, for any number of processes, users and restarts.
  `SessionsHold` speaks of one answer; the invariant says that the secret of a process that started alone,
  and of every token it gave, is the one in the file for good, since whoever starts later finds the file.
* **Archives** (`ServerProofs`): `RestoresAreSound`, for any number of commands, changes and damages. An
  archive verifies exactly when it is intact and no manifest was staged in it, because a staged manifest is of
  an older archive and so of a smaller number. A store without PostgreSQL never holds a dump, and a dump
  never comes without a manifest, since a restore that is cut extracts the manifest first.
* **Webhooks** (`ServerProofs`): `NoticesStayAccounted`, for any subscribers, dispatches and failures. A notice
  is in one place (`OnePlace`, `AllPlaced`) only because the list that is still to be sent has none twice and
  none that has left it, and a receiver heard of it once if it was answered (`HeardOnce`).
* **Database** (`RulesProofs`): `DatabaseIsAtomic`, for any threads, keys, units and breaks. What waits on a
  connection in a unit is of that unit only (`PendingIsOwn`), since the connection is rolled back before it is
  used again or a new one is opened; so a commit stores what one unit executed, and a unit that ended well is
  there in full.
* **Plans and evaluations** (`RulesProofs`): `PlansAreSound` and `EvaluationsAreOnTime`, for every problem,
  number of wells and points, date, month and record that `ProblemsAssumption`, `DatesAssumption` and
  `EvaluationsAssumption` admit, and these admit all the code can be given. The step from the question to the
  answer is a theorem about operators, for each of the three objectives: `SectorPlanIsBest` says that the fold over the points that were found
  ends with one of them that is allowed and as good as any other, or with hold-current.
* **Settings** (`RulesProofs`): `SettingsAreLayered`, for any configurations and any number of patches that
  `LayersAssumption` admits. `FoldIsStack` shows by induction over the layers that a merge is their stack: it
  has the paths that are on top, with the values of their layers, and no others. What a configuration has and
  the same patches applied one by one have not was hidden by a value that a later patch of the same level took
  away (`PatchedHides`).
* **Sectors, windows, conversions** (`DataProofs`): `SectorsArePartitions`, `WindowsAreUsable` and
  `ConversionsAreCut`, for fields, timelines and histories of any size.
  * A component is grown one step of neighbours at a time; after as many steps as there are wells it no longer
    grows, so components are classes (`ComponentsAreClasses`), and each way `sectorize` splits a field adds
    isolated wells to classes in their own block.
  * The windows are what a fold over the pieces between breaks has kept so far. Its invariant (`Merging`) says
    that they cover the pieces from the first to the present one without a gap and that all but the last are
    long enough. Pieces are found by the rank of their bounds, which a set has as many of as elements
    (`EachHasItsPlace`).
  * `ConversionsAreCut` uses the same lemmas: the windows of `Engine` are those of `Preparation` for the
    breaks of the events and of the conversions that were found.
  * `FieldsAssumption`: every injector and producer has a distance to every other; a sector has one of each.
    `TimelinesAssumption`: breaks lie inside the grid, as `build_windows` takes them. `RunsAssumption`: the
    series of all wells are as long as the grid, as `build_grid` makes them.
* **Forecasts and shifts** (`RunProofs`): `ForecastsContinue` and `ShiftsAreSound`, for models, plans, series and
  rolling windows of any size.
  * History, continuation and the plan as lived are three recursions over time. Where each has the same start
    and the same steps, it has the same states (`EvolvesOnce`, by induction over the steps), and the lived plan
    starts each producer as the history does (`StartStays`).
  * The drift of a cumulative sum at a window is the largest of the sums that end there (`DriftIsLargest`).
    The sum over a set does not depend on the order in which the set is taken (`SumAny`). The least hit is when
    the sum first was above the limit, so it dates the shift.
  * Rolling windows start at multiples of the step between two breaks. The last one leaves less than the minimum
    behind it (`LastAreLeft`).
  * `PlansAssumption`: a model has a value for each producer and injector at every step.
    `RefitsAssumption`: the step is one at least, or the loop of `rolling.py` would not end; the defaults are in
    `config/thresholds.yaml`. `AllocationsAssumption`: a pair's series has a value, since windows are
    fitted before it is made. The minimum may exceed the length of a window; then no window reaches it, and
    `ShiftSound` says so.
* **Bounds** (`RulesProofs`): `TwoLeftToTrain`, `RampApproaches`, `DueDateOnCalendar`, `RobustLosesNothing`,
  `MergeIsConfig`, `PatchesMayBeMergedFirst`, for all numbers, plans and configurations. The last says when it
  makes no difference that patches are merged with each other before they are applied.

Besides the hypothesis of `ServiceTargets` and the one thread where it is said, the theorems rest on the named
assumptions of the modules (`PipelineAssumption` and its like): special values are outside their sets, bounds
are numbers, and inputs of the rules have the types the code gives them.

Induction over data. The library's induction theorems take an operator, which the provers cannot
instantiate. The folds of the community modules are recursive functions all the same, and what they return is
proved by sets: the numbers for which a claim holds are a subset of the naturals, and `WFMin`, on their order,
shows that it is all of them (`SetInduction`). `RulesProofs`, `DataProofs` and `RunProofs` each have these
lemmas for what they need.

Only model-checked: liveness (`JobsEnd`), since TLAPS does not prove it under fairness; and the properties of
the rules `RolesExplained`, `LoadSound`, `GridSound`, `MembersBounded`, `EnsembleSound`,
`ScenariosComparable`, `RampSafe` and `ShownAsComputed`, of which some of the bounds above are parts.
What `RampSafe` says of the 520 weeks depends on the sizes of the rates, so only
`RampApproaches` is proved of ramps. They relate the results of several nested
folds with sorting or integer division, where each proof would be longer than the model; their inputs are
finite in nature (wells, months, windows), and the run has them on both sides of each threshold. The type
invariants, `Ownership`, `OneWriter`, `EndedStays` and `HistoryAppendOnly` are proved and therefore not run.

## Not modelled

* Floating-point work: regressions and differential equations of `models/`, the search of
  `optimize/solvers.py`. Their results are inputs of the rules. Aquifer, crossflow and two-phase variants,
  and the PVT interpolation above the first row are left out with them. A forecast is linear in the rates:
  the discount is in its numbers, one price stands for a price deck, and a plan has one rate per injector for
  the whole horizon. The scenarios of `Scenarios` are those of the objective oil.
* Pressures: the intake of a well has one depth (the code keeps one of those in its rows), gradients are whole
  numbers, and the rows are of the wells of the grid. A well with a pump that measures only wellhead pressure is
  neither used nor reported; `GridSound` speaks of what its source measures.
* Rendering (`outputs/figures.py`, `report.py`, `export.py`), routing (`api/app.py`, `schemas.py`), the UI and
  the validation suites: no state whose steps interact.
* File formats and SQL of the sources, number parsing, texts of conditions.
* In `RecService`: notes, hashes, rates and display units; handlers that only read; the writeback
  switch and the connection check, which refuse before anything is written (`Refuse`).
* In `RunPipeline` and `Backup`: the engine between `Read` and `Register` (it writes nothing), progress
  updates. The archive has no artefacts: a restored store lists runs whose scenarios cannot be opened until
  the run is repeated (`_artifact` says so to the user). The scenario handlers that change an artefact.
* In `Administration` and `Sessions`: password hashes, expiry of tokens, deletion of secrets, and the
  environment's `WFO_JWT_SECRET`.
