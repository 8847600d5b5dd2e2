------------------------------ MODULE JobQueue ------------------------------
(***************************************************************************)
(* The job table of the project store and those who execute it: JobRunner  *)
(* (api/jobs.py) in its three modes and the worker process of              *)
(* api/worker.py.  A job is submitted by an API handler.  In mode          *)
(* "external" only its row is written, and worker processes that share     *)
(* nothing but the table claim it; in mode "pool" a thread of the API      *)
(* process takes it from the executor's in-memory queue; in mode "inline"  *)
(* the submitting thread runs it.                                          *)
(***************************************************************************)
EXTENDS Naturals, FiniteSets

CONSTANTS
  Jobs,         \* jobs that may be submitted
  Workers,      \* worker processes, or threads of the API process
  NoJob,
  Modes,        \* the modes JobRunner may be configured with
  OnceWorkers,  \* workers started with --once
  Stoppable,    \* workers an operator may send SIGTERM to
  MaxFaults     \* bound: store errors and process deaths in a behaviour

ASSUME QueueAssumption ==
  /\ NoJob \notin Jobs
  /\ Modes \subseteq {"external", "pool", "inline"}
  /\ OnceWorkers \subseteq Workers
  /\ Stoppable \subseteq Workers
  /\ MaxFaults \in Nat

VARIABLES
  mode,         \* JobRunner.mode, fixed by the environment
  clock,        \* read by _now(), advanced by each submission and insertion
  created,      \* job -> created_at; 0: not submitted
  filed,        \* job -> when its row was committed; 0: not yet (history)
  status,       \* job -> column status; "none": no row
  pooled,       \* the executor's queue, in the memory of the API process
  started,      \* job -> how often its function was called (history)
  wk,           \* worker -> where it is, and on which job
  stopping,     \* workers whose _STOP flag is set
  faults

vars ==
  <<mode, clock, created, filed, status, pooled, started, wk, stopping, faults>>

Status == {"none", "queued", "running", "done", "failed"}

\* "selected": claim_next has read the oldest row; "claimed": about to write
\* status running in _run; "called": fn is at work; "returned", "raised": fn is
\* over and its outcome not yet written.
Holding == {"claimed", "called", "returned", "raised"}
Steps == {"idle", "selected", "exited", "dead"} \cup Holding

TypeOK ==
  /\ mode \in Modes
  /\ clock \in Nat
  /\ created \in [Jobs -> Nat]
  /\ filed \in [Jobs -> Nat]
  /\ status \in [Jobs -> Status]
  /\ pooled \subseteq Jobs
  /\ started \in [Jobs -> Nat]
  /\ wk \in [Workers -> [pc : Steps, job : Jobs \cup {NoJob}]]
  /\ \A w \in Workers :
       wk[w].pc \in Holding \cup {"selected"} => wk[w].job \in Jobs
  /\ stopping \subseteq Workers
  /\ faults \in Nat

Free == [pc |-> "idle", job |-> NoJob]
Exited == [pc |-> "exited", job |-> NoJob]
Dead == [pc |-> "dead", job |-> NoJob]

Init ==
  /\ mode \in Modes
  /\ clock = 0
  /\ created = [j \in Jobs |-> 0]
  /\ filed = [j \in Jobs |-> 0]
  /\ status = [j \in Jobs |-> "none"]
  /\ pooled = {}
  /\ started = [j \in Jobs |-> 0]
  /\ wk = [w \in Workers |-> Free]
  /\ stopping = {}
  /\ faults = 0

-----------------------------------------------------------------------------
Queued == { j \in Jobs : status[j] = "queued" }

\* ORDER BY created_at LIMIT 1.
Oldest == { j \in Queued : \A k \in Queued : created[j] <= created[k] }

At(w, pc) == wk[w].pc = pc

Goto(w, pc) == wk' = [wk EXCEPT ![w].pc = pc]

Take(w, pc, j) == wk' = [wk EXCEPT ![w] = [pc |-> pc, job |-> j]]

Become(w, state) == wk' = [wk EXCEPT ![w] = state]

\* submit: created_at is computed ...
Submit(j) ==
  /\ created[j] = 0
  /\ clock' = clock + 1
  /\ created' = [created EXCEPT ![j] = clock + 1]
  /\ UNCHANGED <<mode, filed, status, pooled, started, wk, stopping, faults>>

\* ... then the row is inserted and committed, and the job handed over.
Insert(j) ==
  /\ created[j] > 0
  /\ status[j] = "none"
  /\ clock' = clock + 1
  /\ filed' = [filed EXCEPT ![j] = clock + 1]
  /\ status' = [status EXCEPT ![j] = "queued"]
  /\ \/ mode = "external" /\ UNCHANGED <<pooled, wk>>
     \/ mode = "pool" /\ pooled' = pooled \cup {j} /\ UNCHANGED wk
     \/ /\ mode = "inline"
        /\ \E w \in Workers : At(w, "idle") /\ Take(w, "claimed", j)
        /\ UNCHANGED pooled
  /\ UNCHANGED <<mode, created, started, stopping, faults>>

\* Mutant: the job stays in the queue of the executor.
DequeueKeeps(w) ==
  /\ mode = "pool"
  /\ At(w, "idle")
  /\ \E j \in pooled : Take(w, "claimed", j)
  /\ UNCHANGED <<mode, clock, created, filed, status, pooled, started,
                 stopping, faults>>

\* A thread of the pool picks up _run; in which order is left open.
Dequeue(w) ==
  /\ mode = "pool"
  /\ At(w, "idle")
  /\ \E j \in pooled : Take(w, "claimed", j) /\ pooled' = pooled \ {j}
  /\ UNCHANGED <<mode, clock, created, filed, status, started, stopping,
                 faults>>

\* Mutant: no ORDER BY.
SelectAny(w) ==
  /\ mode = "external"
  /\ At(w, "idle")
  /\ w \notin stopping
  /\ \E j \in Queued : Take(w, "selected", j)
  /\ UNCHANGED <<mode, clock, created, filed, status, pooled, started,
                 stopping, faults>>

\* claim_next, the SELECT.  With no row the worker sleeps and asks again.
Select(w) ==
  /\ mode = "external"
  /\ At(w, "idle")
  /\ w \notin stopping
  /\ \E j \in Oldest : Take(w, "selected", j)
  /\ UNCHANGED <<mode, clock, created, filed, status, pooled, started,
                 stopping, faults>>

\* claim_next, the UPDATE ... WHERE status = 'queued'.
Claim(w) ==
  /\ At(w, "selected")
  /\ status[wk[w].job] = "queued"
  /\ status' = [status EXCEPT ![wk[w].job] = "running"]
  /\ Goto(w, "claimed")
  /\ UNCHANGED <<mode, clock, created, filed, pooled, started, stopping,
                 faults>>

\* Mutant: the worker insists on the row it has lost.
LoseRaceRetry(w) ==
  /\ At(w, "selected")
  /\ status[wk[w].job] # "queued"
  /\ UNCHANGED vars

\* No row was updated, another worker won the race: claim_next answers None, and
\* main takes that for an empty queue.
LoseRace(w) ==
  /\ At(w, "selected")
  /\ status[wk[w].job] # "queued"
  /\ Become(w, IF w \in OnceWorkers THEN Exited ELSE Free)
  /\ UNCHANGED <<mode, clock, created, filed, status, pooled, started,
                 stopping, faults>>

\* claim_next finds no row and the worker was started with --once.
LeaveEmpty(w) ==
  /\ mode = "external"
  /\ w \in OnceWorkers
  /\ At(w, "idle")
  /\ w \notin stopping
  /\ Queued = {}
  /\ Become(w, Exited)
  /\ UNCHANGED <<mode, clock, created, filed, status, pooled, started,
                 stopping, faults>>

\* _run: status running, then fn is called.
Start(w) ==
  /\ At(w, "claimed")
  /\ status' = [status EXCEPT ![wk[w].job] = "running"]
  /\ started' = [started EXCEPT ![wk[w].job] = @ + 1]
  /\ Goto(w, "called")
  /\ UNCHANGED <<mode, clock, created, filed, pooled, stopping, faults>>

\* fn returns or raises.
Call(w) ==
  /\ At(w, "called")
  /\ Goto(w, "returned") \/ Goto(w, "raised")
  /\ UNCHANGED <<mode, clock, created, filed, status, pooled, started,
                 stopping, faults>>

\* _run, the first UPDATE after fn: inside the try.
MarkDone(w) ==
  /\ At(w, "returned")
  /\ status' = [status EXCEPT ![wk[w].job] = "done"]
  /\ Become(w, Free)
  /\ UNCHANGED <<mode, clock, created, filed, pooled, started, stopping,
                 faults>>

\* _run, the except branch.
MarkFailed(w) ==
  /\ At(w, "raised")
  /\ status' = [status EXCEPT ![wk[w].job] = "failed"]
  /\ Become(w, Free)
  /\ UNCHANGED <<mode, clock, created, filed, pooled, started, stopping,
                 faults>>

\* SIGTERM or SIGINT: the handler sets _STOP.
Stop(w) ==
  /\ mode = "external"
  /\ w \in Stoppable \ stopping
  /\ wk[w].pc \notin {"exited", "dead"}
  /\ stopping' = stopping \cup {w}
  /\ UNCHANGED <<mode, clock, created, filed, status, pooled, started, wk,
                 faults>>

\* Mutant: the flag is honoured as soon as claim_next has returned.
LeaveClaimed(w) ==
  /\ w \in stopping
  /\ wk[w].pc \in {"idle", "claimed"}
  /\ Become(w, Exited)
  /\ UNCHANGED <<mode, clock, created, filed, status, pooled, started,
                 stopping, faults>>

\* while not _STOP: the flag is read between two jobs only.
Leave(w) ==
  /\ w \in stopping
  /\ At(w, "idle")
  /\ Become(w, Exited)
  /\ UNCHANGED <<mode, clock, created, filed, status, pooled, started,
                 stopping, faults>>

\* A store call raises.  Inside the try of _run the job is to be marked failed;
\* outside it a worker process ends, while in the API process the exception stays
\* in a Future or goes to the caller.
StoreError(w) ==
  /\ wk[w].pc \in {"selected"} \cup Holding
  /\ faults < MaxFaults
  /\ faults' = faults + 1
  /\ IF wk[w].pc \in {"called", "returned"}
       THEN Goto(w, "raised")
       ELSE Become(w, IF mode = "external" THEN Dead ELSE Free)
  /\ UNCHANGED <<mode, clock, created, filed, status, pooled, started,
                 stopping>>

\* A worker process is killed.
Die(w) ==
  /\ mode = "external"
  /\ wk[w].pc \notin {"exited", "dead"}
  /\ faults < MaxFaults
  /\ faults' = faults + 1
  /\ Become(w, Dead)
  /\ UNCHANGED <<mode, clock, created, filed, status, pooled, started,
                 stopping>>

\* The container's restart policy.
Restart(w) ==
  /\ At(w, "dead")
  /\ w \notin stopping
  /\ Become(w, Free)
  /\ UNCHANGED <<mode, clock, created, filed, status, pooled, started,
                 stopping, faults>>

\* The API process dies and is restarted: its threads and the executor's queue
\* are gone, and so is a submission that has no row yet.
CrashApi ==
  /\ faults < MaxFaults
  /\ faults' = faults + 1
  /\ created' = [j \in Jobs |-> IF status[j] = "none" THEN 0 ELSE created[j]]
  /\ pooled' = {}
  /\ wk' = IF mode = "external" THEN wk ELSE [w \in Workers |-> Free]
  /\ UNCHANGED <<mode, clock, filed, status, started, stopping>>

\* Every job is submitted and nobody has anything to do.
Quiet ==
  /\ \A j \in Jobs : status[j] # "none"
  /\ \A w \in Workers : wk[w].pc \in {"idle", "exited", "dead"}
  /\ UNCHANGED vars

\* What a worker does by itself.
Work(w) ==
  \/ Dequeue(w) \/ Select(w) \/ Claim(w) \/ LoseRace(w) \/ LeaveEmpty(w)
  \/ Start(w) \/ Call(w) \/ MarkDone(w) \/ MarkFailed(w) \/ Leave(w)

Next ==
  \/ \E j \in Jobs : Submit(j) \/ Insert(j)
  \/ \E w \in Workers :
       Work(w) \/ Stop(w) \/ StoreError(w) \/ Die(w) \/ Restart(w)
  \/ CrashApi
  \/ Quiet

Spec == Init /\ [][Next]_vars

\* The operating system runs every thread, and fn ends: nothing else is promised.
\* Submissions, signals, faults and restarts may or may not come.
FairSpec == Spec /\ \A w \in Workers : WF_vars(Work(w))

-----------------------------------------------------------------------------
Ended == {"done", "failed"}

Holds(w, j) == wk[w].pc \in Holding /\ wk[w].job = j

\* A job is in nobody's hands before it is handed over: in the table (external)
\* or in the executor's queue (pool).
Waiting(j) == status[j] = "queued" /\ (mode = "external" \/ j \in pooled)

\* "Several workers never run the same job" (docs/ADMIN_GUIDE.md, line 100): the
\* function of a job is called at most once, whatever races, store errors,
\* deaths and restarts there are (jobs.py, lines 114-152).
RunsOnce == \A j \in Jobs : started[j] <= 1

\* Why: a job has one worker at most, which has not called it while it is
\* "claimed", and none while it is waiting, not inserted or over.  Only external
\* workers select.
Ownership ==
  /\ \A v, w \in Workers, j \in Jobs : Holds(v, j) /\ Holds(w, j) => v = w
  /\ \A w \in Workers, j \in Jobs : Holds(w, j) =>
       /\ status[j] \in {"queued", "running"} /\ ~Waiting(j)
       /\ At(w, "claimed") => started[j] = 0
  /\ \A j \in Jobs : Waiting(j) \/ status[j] = "none" => started[j] = 0
  /\ \A j \in pooled : mode = "pool" /\ status[j] = "queued"
  /\ \A w \in Workers : At(w, "selected") => mode = "external"

\* Jobs that will stay as they are though they have not ended.
Stranded ==
  { j \in Jobs : /\ status[j] \in {"queued", "running"}
                 /\ ~Waiting(j)
                 /\ \A w \in Workers : ~Holds(w, j) }

\* A worker process leaves at most one job behind per fault, and none when it is
\* stopped by a signal or loses a race; threads of the API process leave none
\* behind while there is no fault (worker.py, line 43; jobs.py, lines 141-151).
StrandedByFaults ==
  IF mode = "external" THEN Cardinality(Stranded) <= faults
                       ELSE faults = 0 => Stranded = {}

\* What is done or failed stays so.
EndedStays ==
  [][ \A j \in Jobs : status[j] \in Ended => status'[j] = status[j] ]_vars

\* A job is passed over only if its row was committed after the other one's
\* created_at was taken: the order of jobs submitted one after the other is kept
\* (jobs.py, line 119).
ClaimedInOrder ==
  [][ \A j, k \in Jobs :
        ( /\ mode = "external"
          /\ status[k] = "queued" /\ status'[k] = "running"
          /\ status[j] = "queued" /\ j # k
          /\ created[j] < created[k] )
            => filed[j] > created[k] ]_vars

\* Under FairSpec without faults, while a worker stays, every inserted job ends.
JobsEnd == \A j \in Jobs : (status[j] = "queued") ~> (status[j] \in Ended)

\* "None when the queue is empty" (jobs.py, line 115), "process the queue once
\* and exit" (worker.py, line 36): a --once worker leaves an empty queue.
OnceDrains ==
  [][ \A w \in Workers :
        (wk[w].pc # "exited" /\ wk'[w].pc = "exited" /\ w \notin stopping)
          => Queued = {} ]_vars
=============================================================================
