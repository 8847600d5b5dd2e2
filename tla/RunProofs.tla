------------------------------- MODULE RunProofs -------------------------------
(***************************************************************************)
(* Proofs about a run: its job in the queue, for all jobs, workers, modes  *)
(* and faults, and the forecasts of its models, for models of any size.    *)
(***************************************************************************)
EXTENDS JobQueue, ModelRules, WellFoundedInduction, FiniteSetTheorems, TLAPS

(* The types are those TypeOK states: every action assigns values of them. *)
LEMMA TypeStep == TypeOK /\ [Next]_vars => TypeOK'
<1> SUFFICES ASSUME TypeOK, [Next]_vars PROVE TypeOK'
  OBVIOUS
<1> USE QueueAssumption DEF TypeOK, Status, Steps, Holding
<1>1. ASSUME NEW j \in Jobs, Submit(j) PROVE TypeOK'
  BY <1>1 DEF Submit
<1>2. ASSUME NEW j \in Jobs, Insert(j) PROVE TypeOK'
  BY <1>2 DEF Insert, Take, At
<1>3. ASSUME NEW w \in Workers, Work(w) PROVE TypeOK'
  <2>1. CASE Dequeue(w)
    BY <2>1 DEF Dequeue, Take
  <2>2. CASE Select(w)
    BY <2>2 DEF Select, Take, Oldest, Queued
  <2>3. CASE Claim(w)
    BY <2>3 DEF Claim, Goto, At
  <2>4. CASE LoseRace(w)
    BY <2>4 DEF LoseRace, Become, Free, Exited
  <2>5. CASE LeaveEmpty(w)
    BY <2>5 DEF LeaveEmpty, Become, Exited
  <2>6. CASE Start(w)
    BY <2>6 DEF Start, Goto, At
  <2>7. CASE Call(w)
    BY <2>7 DEF Call, Goto, At
  <2>8. CASE MarkDone(w) \/ MarkFailed(w)
    BY <2>8 DEF MarkDone, MarkFailed, Become, Free
  <2>9. CASE Leave(w)
    BY <2>9 DEF Leave, Become, Exited
  <2> QED
    BY <1>3, <2>1, <2>2, <2>3, <2>4, <2>5, <2>6, <2>7, <2>8, <2>9 DEF Work
<1>4. ASSUME NEW w \in Workers, Stop(w) PROVE TypeOK'
  BY <1>4 DEF Stop
<1>5. ASSUME NEW w \in Workers, StoreError(w) PROVE TypeOK'
  BY <1>5 DEF StoreError, Goto, Become, Free, Dead
<1>6. ASSUME NEW w \in Workers, Die(w) \/ Restart(w) PROVE TypeOK'
  BY <1>6 DEF Die, Restart, Become, Free, Dead
<1>7. CASE CrashApi
  BY <1>7 DEF CrashApi, Free
<1>8. CASE Quiet \/ UNCHANGED vars
  BY <1>8 DEF Quiet, vars
<1> QED
  BY <1>1, <1>2, <1>3, <1>4, <1>5, <1>6, <1>7, <1>8 DEF Next

(* Type correctness of the job queue. *)
THEOREM QueueType == Spec => []TypeOK
<1>1. Init => TypeOK
  BY QueueAssumption DEF Init, TypeOK, Free, Status, Steps, Holding
<1> QED
  BY <1>1, TypeStep, PTL DEF Spec

(* A job changes hands only by being taken from where it waits. *)
LEMMA OwnershipStep == TypeOK /\ Ownership /\ [Next]_vars => Ownership'
<1> SUFFICES ASSUME TypeOK, Ownership, [Next]_vars PROVE Ownership'
  OBVIOUS
<1> USE DEF TypeOK, Ownership, Holds, Waiting, Holding, At
<1>1. ASSUME NEW j \in Jobs, Submit(j) PROVE Ownership'
  BY <1>1 DEF Submit
<1>2. ASSUME NEW j \in Jobs, Insert(j) PROVE Ownership'
  <2>1. CASE mode = "external"
    BY <1>2, <2>1 DEF Insert
  <2>2. CASE mode = "pool"
    BY <1>2, <2>2 DEF Insert
  <2>3. CASE mode = "inline"
    <3>1. PICK w \in Workers : At(w, "idle") /\ Take(w, "claimed", j)
      BY <1>2, <2>3 DEF Insert
    <3>2. wk'[w] = [pc |-> "claimed", job |-> j]
      BY <3>1 DEF Take
    <3>3. \A v \in Workers : v # w => wk'[v] = wk[v]
      BY <3>1 DEF Take
    <3>4. \A v \in Workers : ~Holds(v, j)
      BY <1>2 DEF Insert
    <3>5. \A v \in Workers, i \in Jobs :
            Holds(v, i)' <=> IF v = w THEN i = j ELSE Holds(v, i)
      BY <3>2, <3>3
    <3>6. /\ mode' = mode /\ started' = started /\ pooled' = pooled
          /\ status'[j] = "queued"
          /\ \A i \in Jobs : i # j => status'[i] = status[i]
          /\ j \notin pooled /\ started[j] = 0
      BY <1>2, <2>3 DEF Insert
    <3> QED
      BY <2>3, <3>2, <3>3, <3>4, <3>5, <3>6
  <2> QED
    BY <1>2, <2>1, <2>2, <2>3 DEF Insert
<1>3. ASSUME NEW w \in Workers, Work(w) PROVE Ownership'
  <2>1. CASE Dequeue(w)
    BY <2>1 DEF Dequeue, Take
  <2>2. CASE Select(w)
    BY <2>2 DEF Select, Take
  <2>3. CASE Claim(w)
    <3> DEFINE j == wk[w].job
    <3>1. j \in Jobs /\ mode = "external" /\ Waiting(j)
      BY <2>3 DEF Claim
    <3>2. wk'[w].pc = "claimed" /\ wk'[w].job = j
      BY <2>3 DEF Claim, Goto
    <3>3. \A v \in Workers : v # w => wk'[v] = wk[v]
      BY <2>3 DEF Claim, Goto
    <3>4. started[j] = 0 /\ \A v \in Workers : ~Holds(v, j)
      BY <3>1
    <3>5. \A v \in Workers, i \in Jobs :
            Holds(v, i)' <=> IF v = w THEN i = j ELSE Holds(v, i)
      BY <3>2, <3>3
    <3>6. /\ mode' = mode /\ started' = started /\ status'[j] = "running"
          /\ \A i \in Jobs : i # j => status'[i] = status[i]
          /\ pooled = {} /\ pooled' = {}
      BY <2>3, <3>1 DEF Claim
    <3> HIDE DEF j
    <3> QED
      BY <3>1, <3>2, <3>3, <3>4, <3>5, <3>6
  <2>4. CASE LoseRace(w)
    BY <2>4 DEF LoseRace, Become, Free, Exited
  <2>5. CASE LeaveEmpty(w)
    BY <2>5 DEF LeaveEmpty, Become, Exited
  <2>6. CASE Start(w)
    BY <2>6 DEF Start, Goto
  <2>7. CASE Call(w)
    <3>1. /\ wk'[w].pc \in {"returned", "raised"}
          /\ wk'[w].job = wk[w].job
          /\ \A v \in Workers : v # w => wk'[v] = wk[v]
      BY <2>7 DEF Call, Goto
    <3>2. \A v \in Workers, i \in Jobs : Holds(v, i)' <=> Holds(v, i)
      BY <2>7, <3>1 DEF Call
    <3>3. UNCHANGED <<mode, status, started, pooled>>
      BY <2>7 DEF Call
    <3> QED
      BY <3>1, <3>2, <3>3
  <2>8. CASE MarkDone(w) \/ MarkFailed(w)
    BY <2>8 DEF MarkDone, MarkFailed, Become, Free
  <2>9. CASE Leave(w)
    BY <2>9 DEF Leave, Become, Exited
  <2> QED
    BY <1>3, <2>1, <2>2, <2>3, <2>4, <2>5, <2>6, <2>7, <2>8, <2>9 DEF Work
<1>4. ASSUME NEW w \in Workers, Stop(w) PROVE Ownership'
  BY <1>4 DEF Stop
<1>5. ASSUME NEW w \in Workers, StoreError(w) PROVE Ownership'
  BY <1>5 DEF StoreError, Goto, Become, Free, Dead
<1>6. ASSUME NEW w \in Workers, Die(w) \/ Restart(w) PROVE Ownership'
  <2>1. CASE Die(w)
    BY <2>1 DEF Die, Become, Dead
  <2>2. CASE Restart(w)
    BY <2>2 DEF Restart, Become, Free
  <2> QED
    BY <1>6, <2>1, <2>2
<1>7. CASE CrashApi
  BY <1>7 DEF CrashApi, Free
<1>8. CASE Quiet \/ UNCHANGED vars
  BY <1>8 DEF Quiet, vars
<1> QED
  BY <1>1, <1>2, <1>3, <1>4, <1>5, <1>6, <1>7, <1>8 DEF Next

(* Every job has one worker at most, and none while it waits or is over. *)
THEOREM QueueOwnership == Spec => []Ownership
<1>1. Init => Ownership
  BY DEF Init, Ownership, Holds, Waiting, Holding, At, Free
<1> QED
  BY <1>1, OwnershipStep, QueueType, PTL DEF Spec

(* The counter of calls grows in Start alone, on a job not called before. *)
LEMMA RunsOnceStep ==
  TypeOK /\ Ownership /\ RunsOnce /\ [Next]_vars => RunsOnce'
<1> SUFFICES ASSUME TypeOK, Ownership, RunsOnce, [Next]_vars PROVE RunsOnce'
  OBVIOUS
<1>1. CASE UNCHANGED started
  BY <1>1 DEF RunsOnce
<1>2. ASSUME NEW w \in Workers, Start(w) PROVE RunsOnce'
  <2>1. wk[w].job \in Jobs /\ Holds(w, wk[w].job)
    BY <1>2 DEF Start, TypeOK, Holds, Holding, At
  <2>2. started[wk[w].job] = 0
    BY <1>2, <2>1 DEF Ownership, Start
  <2> QED
    BY <1>2, <2>2 DEF Start, RunsOnce, TypeOK
<1>3. UNCHANGED started \/ \E w \in Workers : Start(w)
  BY DEF Next, vars, Submit, Insert, Work, Dequeue, Select, Claim, LoseRace,
    LeaveEmpty, Call, MarkDone, MarkFailed, Leave, Stop, StoreError, Die,
    Restart, CrashApi, Quiet
<1> QED
  BY <1>1, <1>2, <1>3

(* The function of a job is called at most once, in every mode and whatever    *)
(* fails.                                                                      *)
THEOREM QueueRunsOnce == Spec => []RunsOnce
<1>1. Init => RunsOnce
  BY DEF Init, RunsOnce
<1> QED
  BY <1>1, RunsOnceStep, QueueOwnership, QueueType, PTL DEF Spec

(* A job that is done or failed stays so: nobody holds it any more. *)
THEOREM QueueEndedStays == Spec => EndedStays
<1> DEFINE Stays ==
      \A j \in Jobs : status[j] \in Ended => status'[j] = status[j]
<1>1. TypeOK /\ Ownership /\ [Next]_vars => [Stays]_vars
  <2> SUFFICES ASSUME TypeOK, Ownership, [Next]_vars PROVE Stays
    OBVIOUS
  <2>1. CASE UNCHANGED status
    BY <2>1
  <2>2. ASSUME NEW j \in Jobs, Insert(j) PROVE Stays
    BY <2>2 DEF Insert, TypeOK, Ended
  <2>3. ASSUME NEW w \in Workers,
               Claim(w) \/ Start(w) \/ MarkDone(w) \/ MarkFailed(w)
        PROVE  Stays
    <3>1. wk[w].job \in Jobs /\ status[wk[w].job] \in {"queued", "running"}
      BY <2>3 DEF Claim, Start, MarkDone, MarkFailed, TypeOK, Ownership, Holds,
        Holding, At
    <3> QED
      BY <2>3, <3>1 DEF Claim, Start, MarkDone, MarkFailed, TypeOK, Ended
  <2>4. \/ UNCHANGED status
        \/ \E j \in Jobs : Insert(j)
        \/ \E w \in Workers :
             Claim(w) \/ Start(w) \/ MarkDone(w) \/ MarkFailed(w)
    BY DEF Next, vars, Submit, Work, Dequeue, Select, LoseRace, LeaveEmpty,
      Call, Leave, Stop, StoreError, Die, Restart, CrashApi, Quiet
  <2> QED
    BY <2>1, <2>2, <2>3, <2>4
<1> QED
  BY <1>1, QueueOwnership, QueueType, PTL DEF Spec, EndedStays
-----------------------------------------------------------------------------
(* What a worker has selected was the oldest row then: rows that are older by  *)
(* created_at and queued now were committed since.                             *)
SelectedInOrder ==
  /\ \A j \in Jobs : created[j] <= clock
  /\ \A j \in Jobs : status[j] # "none" => created[j] > 0
  /\ \A w \in Workers : At(w, "selected") =>
       /\ status[wk[w].job] # "none"
       /\ \A j \in Jobs :
            status[j] = "queued" /\ created[j] < created[wk[w].job]
              => filed[j] > created[wk[w].job]

LEMMA OrderStep ==
  TypeOK /\ Ownership /\ SelectedInOrder /\ [Next]_vars => SelectedInOrder'
<1> SUFFICES ASSUME TypeOK, Ownership, SelectedInOrder, [Next]_vars
             PROVE  SelectedInOrder'
  OBVIOUS
<1> USE DEF TypeOK, SelectedInOrder, At
<1>1. ASSUME NEW j \in Jobs, Submit(j) PROVE SelectedInOrder'
  BY <1>1 DEF Submit
<1>2. ASSUME NEW j \in Jobs, Insert(j) PROVE SelectedInOrder'
  <2>1. /\ clock' = clock + 1 /\ created' = created
        /\ created[j] > 0 /\ status[j] = "none"
        /\ filed' = [filed EXCEPT ![j] = clock + 1]
        /\ status' = [status EXCEPT ![j] = "queued"]
    BY <1>2 DEF Insert
  <2>2. \A w \in Workers : wk'[w].pc = "selected" => wk'[w] = wk[w]
    BY <1>2 DEF Insert, Take
  <2> QED
    BY <2>1, <2>2 DEF Holding
<1>3. ASSUME NEW w \in Workers, Select(w) PROVE SelectedInOrder'
  <2>1. PICK k \in Oldest : wk' = [wk EXCEPT ![w] = [pc |-> "selected", job |-> k]]
    BY <1>3 DEF Select, Take
  <2>2. /\ k \in Jobs /\ status[k] = "queued"
        /\ \A j \in Jobs : status[j] = "queued" => created[k] <= created[j]
    BY DEF Oldest, Queued
  <2>3. UNCHANGED <<clock, created, filed, status>>
    BY <1>3 DEF Select
  <2> QED
    BY <2>1, <2>2, <2>3
<1>4. ASSUME UNCHANGED <<clock, filed>>,
             \A j \in Jobs : \/ created'[j] = created[j]
                             \/ status[j] = "none" /\ created'[j] = 0,
             \A j \in Jobs : \/ status'[j] = status[j]
                             \/ /\ status[j] # "none"
                                /\ status'[j] \notin {"none", "queued"},
             \A w \in Workers : wk'[w].pc = "selected" => wk'[w] = wk[w]
      PROVE  SelectedInOrder'
  BY <1>4 DEF Holding
<1>5. ASSUME NEW w \in Workers, Work(w), ~Select(w)
      PROVE  SelectedInOrder'
  <2>1. CASE Dequeue(w)
    BY <1>4, <2>1 DEF Dequeue, Take
  <2>2. CASE Claim(w)
    BY <1>4, <2>2 DEF Claim, Goto
  <2>3. CASE LoseRace(w) \/ LeaveEmpty(w) \/ Leave(w)
    BY <1>4, <2>3 DEF LoseRace, LeaveEmpty, Leave, Become, Free, Exited
  <2>4. CASE Call(w)
    BY <1>4, <2>4 DEF Call, Goto
  <2>5. ASSUME wk[w].pc \in Holding PROVE status[wk[w].job] # "none"
    BY <2>5 DEF Ownership, Holds
  <2>6. CASE Start(w)
    BY <1>4, <2>5, <2>6 DEF Start, Goto, Holding
  <2>7. CASE MarkDone(w) \/ MarkFailed(w)
    BY <1>4, <2>5, <2>7 DEF MarkDone, MarkFailed, Become, Free, Holding
  <2> QED
    BY <1>5, <2>1, <2>2, <2>3, <2>4, <2>6, <2>7 DEF Work
<1>6. ASSUME NEW w \in Workers,
             Stop(w) \/ StoreError(w) \/ Die(w) \/ Restart(w)
      PROVE  SelectedInOrder'
  BY <1>4, <1>6
     DEF Stop, StoreError, Die, Restart, Goto, Become, Free, Dead
<1>7. CASE CrashApi
  BY <1>4, <1>7 DEF CrashApi, Free
<1>8. CASE Quiet \/ UNCHANGED vars
  BY <1>4, <1>8 DEF Quiet, vars
<1> QED
  BY <1>1, <1>2, <1>3, <1>5, <1>6, <1>7, <1>8 DEF Next

(* A job is passed over only if its row was committed after the other one's   *)
(* created_at was taken, however the workers race for the rows.  Only a claim  *)
(* makes a queued job running: an external worker's job is running already     *)
(* when its function is called.                                                *)
THEOREM QueueClaimsInOrder == Spec => ClaimedInOrder
<1> DEFINE Order(j, k) ==
      ( /\ mode = "external"
        /\ status[k] = "queued" /\ status'[k] = "running"
        /\ status[j] = "queued" /\ j # k
        /\ created[j] < created[k] )
          => filed[j] > created[k]
<1>1. Init => SelectedInOrder
  BY DEF Init, SelectedInOrder, At, Free
<1>2. TypeOK /\ Ownership /\ SelectedInOrder /\ [Next]_vars
        => SelectedInOrder'
  BY OrderStep
<1>3. TypeOK /\ Ownership /\ SelectedInOrder /\ [Next]_vars
        => [\A j, k \in Jobs : Order(j, k)]_vars
  <2> SUFFICES ASSUME TypeOK, Ownership, SelectedInOrder, [Next]_vars,
                      NEW j \in Jobs, NEW k \in Jobs,
                      mode = "external", status[k] = "queued",
                      status'[k] = "running", status[j] = "queued",
                      created[j] < created[k]
               PROVE  filed[j] > created[k]
    OBVIOUS
  <2>1. ASSUME NEW w \in Workers, Claim(w)
        PROVE  filed[j] > created[k]
    <3>1. wk[w].job = k /\ At(w, "selected")
      BY <2>1 DEF Claim, TypeOK, At
    <3> QED
      BY <3>1 DEF SelectedInOrder
  <2>2. ASSUME NEW w \in Workers, Start(w)
        PROVE  FALSE
    <3>1. wk[w].job = k /\ Holds(w, k)
      BY <2>2 DEF Start, TypeOK, At, Holds, Holding
    <3> QED
      BY <3>1 DEF Ownership, Waiting
  <2>3. \E w \in Workers : Claim(w) \/ Start(w)
    BY DEF Next, vars, Submit, Insert, Work, Dequeue, Select, LoseRace,
       LeaveEmpty, Call, MarkDone, MarkFailed, Leave, Stop, StoreError, Die,
       Restart, CrashApi, Quiet, TypeOK
  <2> QED
    BY <2>1, <2>2, <2>3
<1> QED
  BY <1>1, <1>2, <1>3, QueueOwnership, QueueType, PTL DEF Spec, ClaimedInOrder

-----------------------------------------------------------------------------
(* A job is left behind by a worker that fails with it, and by nothing else.  *)
LEMMA StrandedStep ==
  ASSUME TypeOK, Ownership, [Next]_vars
  PROVE  \/ Stranded' \subseteq Stranded /\ faults' >= faults
         \/ /\ faults' = faults + 1
            /\ mode = "external" =>
                 \E k \in Jobs \cup {NoJob} : Stranded' \subseteq Stranded \cup {k}
<1> USE DEF TypeOK, Ownership, Holds, Waiting, Holding, At, Stranded
<1>1. ASSUME NEW j \in Jobs, Submit(j)
      PROVE  Stranded' \subseteq Stranded /\ faults' >= faults
  BY <1>1 DEF Submit
<1>2. ASSUME NEW j \in Jobs, Insert(j)
      PROVE  Stranded' \subseteq Stranded /\ faults' >= faults
  <2>1. CASE mode # "inline"
    BY <1>2, <2>1, QueueAssumption DEF Insert, QueueAssumption
  <2>2. CASE mode = "inline"
    <3>1. PICK w \in Workers : wk[w].pc = "idle" /\ Take(w, "claimed", j)
      BY <1>2, <2>2 DEF Insert
    <3>2. \A v \in Workers, i \in Jobs :
            Holds(v, i)' <=> IF v = w THEN i = j ELSE Holds(v, i)
      BY <3>1 DEF Take
    <3>3. /\ mode' = mode /\ pooled' = pooled /\ faults' = faults
          /\ \A i \in Jobs : i # j => status'[i] = status[i]
      BY <1>2, <2>2 DEF Insert
    <3>4. ASSUME NEW i \in Stranded' PROVE i \in Stranded
      BY <3>1, <3>2, <3>3, <3>4
    <3> QED
      BY <3>3, <3>4
  <2> QED
    BY <2>1, <2>2
<1>3. ASSUME NEW w \in Workers, Work(w)
      PROVE  Stranded' \subseteq Stranded /\ faults' >= faults
  <2>1. CASE Dequeue(w)
    <3>1. PICK j \in pooled : /\ Take(w, "claimed", j)
                              /\ pooled' = pooled \ {j}
      BY <2>1 DEF Dequeue
    <3>2. \A v \in Workers, i \in Jobs :
            Holds(v, i)' <=> IF v = w THEN i = j ELSE Holds(v, i)
      BY <2>1, <3>1 DEF Take, Dequeue
    <3>3. UNCHANGED <<mode, status, faults>>
      BY <2>1 DEF Dequeue
    <3>4. ASSUME NEW i \in Stranded' PROVE i \in Stranded
      BY <2>1, <3>1, <3>2, <3>3, <3>4 DEF Dequeue
    <3> QED
      BY <3>3, <3>4
  <2>2. CASE Select(w)
    BY <2>2 DEF Select, Take
  <2>3. CASE Claim(w)
    <3> DEFINE j == wk[w].job
    <3>1. j \in Jobs /\ \A i \in Jobs : i # j => status'[i] = status[i]
      BY <2>3 DEF Claim
    <3>2. \A v \in Workers, i \in Jobs :
            Holds(v, i)' <=> IF v = w THEN i = j ELSE Holds(v, i)
      BY <2>3 DEF Claim, Goto
    <3>3. UNCHANGED <<mode, pooled, faults>>
      BY <2>3 DEF Claim
    <3>4. ASSUME NEW i \in Stranded' PROVE i \in Stranded
      <4>1. i # j /\ i \in Jobs
        BY <3>2, <3>4
      <4>2. wk[w].pc = "selected"
        BY <2>3 DEF Claim
      <4> QED
        BY <3>1, <3>2, <3>3, <3>4, <4>1, <4>2
    <3> QED
      BY <3>3, <3>4
  <2>4. CASE LoseRace(w) \/ LeaveEmpty(w) \/ Leave(w)
    BY <2>4 DEF LoseRace, LeaveEmpty, Leave, Become, Free, Exited
  <2>5. CASE Start(w) \/ Call(w)
    <3>1. \A v \in Workers, i \in Jobs : Holds(v, i)' <=> Holds(v, i)
      BY <2>5 DEF Start, Call, Goto
    <3>2. /\ UNCHANGED <<mode, pooled, faults>>
          /\ \A i \in Jobs : ~Holds(w, i) => status'[i] = status[i]
      BY <2>5 DEF Start, Call
    <3> QED
      BY <3>1, <3>2
  <2>6. CASE MarkDone(w) \/ MarkFailed(w)
    <3>1. \A v \in Workers, i \in Jobs :
            Holds(v, i)' <=> v # w /\ Holds(v, i)
      BY <2>6 DEF MarkDone, MarkFailed, Become, Free
    <3>2. /\ UNCHANGED <<mode, pooled, faults>>
          /\ status'[wk[w].job] \in {"done", "failed"}
          /\ \A i \in Jobs : ~Holds(w, i) => status'[i] = status[i]
      BY <2>6 DEF MarkDone, MarkFailed
    <3> QED
      BY <3>1, <3>2
  <2> QED
    BY <1>3, <2>1, <2>2, <2>3, <2>4, <2>5, <2>6 DEF Work
<1>4. ASSUME NEW w \in Workers, Stop(w)
      PROVE  Stranded' \subseteq Stranded /\ faults' >= faults
  BY <1>4 DEF Stop
<1>5. ASSUME NEW w \in Workers, StoreError(w) \/ Die(w)
      PROVE  /\ faults' = faults + 1
             /\ Stranded' \subseteq Stranded \cup {wk[w].job}
             /\ wk[w].job \in Jobs \cup {NoJob}
  <2>1. \A v \in Workers, i \in Jobs :
          Holds(v, i) /\ v # w => Holds(v, i)'
    BY <1>5 DEF StoreError, Die, Goto, Become
  <2>2. UNCHANGED <<mode, pooled, status>> /\ faults' = faults + 1
    BY <1>5 DEF StoreError, Die
  <2>3. ASSUME NEW i \in Stranded', i # wk[w].job PROVE i \in Stranded
    BY <2>1, <2>2, <2>3
  <2> QED
    BY <2>2, <2>3
<1>6. ASSUME NEW w \in Workers, Restart(w)
      PROVE  Stranded' \subseteq Stranded /\ faults' >= faults
  BY <1>6 DEF Restart, Become, Free
<1>7. ASSUME CrashApi
      PROVE  /\ faults' = faults + 1
             /\ mode = "external" => Stranded' \subseteq Stranded
  BY <1>7 DEF CrashApi
<1>8. ASSUME Quiet \/ UNCHANGED vars
      PROVE  Stranded' \subseteq Stranded /\ faults' >= faults
  BY <1>8 DEF Quiet, vars
<1> QED
  BY <1>1, <1>2, <1>3, <1>4, <1>5, <1>6, <1>7, <1>8 DEF Next

LEMMA OneMore ==
  ASSUME NEW S, IsFiniteSet(S), NEW x
  PROVE  /\ IsFiniteSet(S \cup {x})
         /\ Cardinality(S \cup {x}) <= Cardinality(S) + 1
<1>1. Cardinality(S) \in Nat
  BY FS_CardinalityType
<1>2. CASE x \in S
  <2>1. S \cup {x} = S
    BY <1>2
  <2>2. IsFiniteSet(S \cup {x}) /\ Cardinality(S \cup {x}) = Cardinality(S)
    BY <2>1, Zenon
  <2> QED
    BY <1>1, <2>2
<1>3. CASE x \notin S
  BY <1>1, <1>3, FS_AddElement
<1> QED
  BY <1>2, <1>3

(* A worker process leaves at most one job behind per fault, and none when it *)
(* is stopped, leaves or loses a race; the threads of the API process leave   *)
(* none behind while there is no fault.                                       *)
THEOREM QueueStrandedByFaults == Spec => []StrandedByFaults
<1> DEFINE Bounded ==
      /\ mode = "external" =>
           IsFiniteSet(Stranded) /\ Cardinality(Stranded) <= faults
      /\ mode # "external" /\ faults = 0 => Stranded = {}
<1>1. Init => Bounded
  <2> SUFFICES ASSUME Init PROVE Bounded
    OBVIOUS
  <2>1. Stranded = {} /\ faults = 0
    BY DEF Init, Stranded
  <2> QED
    BY <2>1, FS_EmptySet
<1>2. TypeOK /\ Ownership /\ Bounded /\ [Next]_vars => Bounded'
  <2> SUFFICES ASSUME TypeOK, Ownership, Bounded, [Next]_vars
               PROVE  Bounded'
    OBVIOUS
  <2>1. mode' = mode /\ faults \in Nat
    BY DEF TypeOK, Next, vars, Submit, Insert, Work, Dequeue, Select, Claim,
       LoseRace, LeaveEmpty, Start, Call, MarkDone, MarkFailed, Leave, Stop,
       StoreError, Die, Restart, CrashApi, Quiet
  <2>2. CASE Stranded' \subseteq Stranded /\ faults' >= faults
    <3>1. mode = "external" =>
            IsFiniteSet(Stranded') /\ Cardinality(Stranded') <= faults'
      BY <2>1, <2>2, TypeStep, FS_Subset, FS_CardinalityType DEF TypeOK
    <3>2. mode # "external" /\ faults' = 0 => Stranded' = {}
      BY <2>1, <2>2, TypeStep DEF TypeOK
    <3> QED
      BY <2>1, <3>1, <3>2
  <2>3. CASE /\ faults' = faults + 1
             /\ mode = "external" =>
                  \E k \in Jobs \cup {NoJob} : Stranded' \subseteq Stranded \cup {k}
    <3>1. ASSUME mode = "external",
                 NEW k \in Jobs \cup {NoJob}, Stranded' \subseteq Stranded \cup {k}
          PROVE  IsFiniteSet(Stranded') /\ Cardinality(Stranded') <= faults + 1
      <4>1. IsFiniteSet(Stranded) /\ Cardinality(Stranded) <= faults
        BY <3>1
      <4>2. /\ IsFiniteSet(Stranded \cup {k})
            /\ Cardinality(Stranded \cup {k}) <= Cardinality(Stranded) + 1
        BY <4>1, OneMore
      <4>3. /\ IsFiniteSet(Stranded')
            /\ Cardinality(Stranded') <= Cardinality(Stranded \cup {k})
        BY <3>1, <4>2, FS_Subset
      <4> QED
        BY <2>1, <4>1, <4>2, <4>3, FS_CardinalityType
    <3> QED
      BY <2>1, <2>3, <3>1
  <2> QED
    BY <2>2, <2>3, StrandedStep
<1>3. Bounded => StrandedByFaults
  BY DEF StrandedByFaults
<1> QED
  BY <1>1, <1>2, <1>3, QueueOwnership, QueueType, PTL DEF Spec

-----------------------------------------------------------------------------
LEMMA LeastOfSet ==
  ASSUME NEW T \in SUBSET Nat, T # {}
  PROVE  \E x \in T : \A y \in T : ~(y < x)
<1> DEFINE R == OpToRel(<, Nat)
<1>1. IsWellFoundedOn(R, Nat)
  BY NatLessThanWellFounded, Zenon
<1>2. R = {ss \in Nat \X Nat : ss[1] < ss[2]}
  BY DEF OpToRel
<1> HIDE DEF R
<1>3. PICK x \in T : \A y \in T : ~(<<y, x>> \in R)
  BY <1>1, WFMin
<1>4. \A y \in T : y < x => <<y, x>> \in R
  BY <1>2
<1> QED
  BY <1>3, <1>4

LEMMA SetInduction ==
  ASSUME NEW T, 0 \in T, \A n \in Nat : n \in T => n + 1 \in T
  PROVE  Nat \subseteq T
<1> SUFFICES ASSUME Nat \ T # {} PROVE FALSE
  OBVIOUS
<1>1. PICK x \in Nat \ T : \A y \in Nat \ T : ~(y < x)
  BY LeastOfSet
<1>2. x # 0 /\ x - 1 \in Nat /\ x - 1 < x /\ (x - 1) + 1 = x
  BY <1>1
<1> QED
  BY <1>1, <1>2

LEMMA LeastNumber ==
  ASSUME NEW T \in SUBSET Nat, T # {}
  PROVE  \E x \in T : \A y \in T : x <= y
<1>1. PICK x \in T : \A y \in T : ~(y < x)
  BY LeastOfSet
<1> QED
  BY <1>1

(***************************************************************************)
(* A function that is computed from its value at the number before.        *)
(***************************************************************************)
IsIterate(h, F, base, n) ==
  /\ h[0] = base
  /\ \A k \in 1 .. n : h[k] = F[k][h[k - 1]]

HasIterate(A, F, base, n) ==
  \E h \in [0 .. n -> A] : IsIterate(h, F, base, n)

LEMMA IterateExists ==
  ASSUME NEW A, NEW base \in A, NEW N \in Nat, NEW F \in [1 .. N -> [A -> A]]
  PROVE  HasIterate(A, F, base, N)
<1> DEFINE T == { n \in Nat : n <= N => HasIterate(A, F, base, n) }
<1>1. 0 \in T
  <2> DEFINE h == [k \in 0 .. 0 |-> base]
  <2>1. h \in [0 .. 0 -> A] /\ h[0] = base /\ 1 .. 0 = {}
    OBVIOUS
  <2> QED
    BY <2>1 DEF IsIterate, HasIterate
<1>2. ASSUME NEW n \in Nat, n \in T PROVE n + 1 \in T
  <2> SUFFICES ASSUME n + 1 <= N PROVE HasIterate(A, F, base, n + 1)
    OBVIOUS
  <2>0. HasIterate(A, F, base, n)
    BY <1>2
  <2>1. PICK g \in [0 .. n -> A] : IsIterate(g, F, base, n)
    BY <2>0 DEF HasIterate
  <2> DEFINE h == [k \in 0 .. n + 1 |-> IF k = n + 1 THEN F[n + 1][g[n]] ELSE g[k]]
  <2>2. F[n + 1] \in [A -> A] /\ g[n] \in A
    OBVIOUS
  <2>3. F[n + 1][g[n]] \in A
    BY <2>2
  <2>4. h \in [0 .. n + 1 -> A]
    BY <2>3
  <2>5. h[0] = base
    BY <2>1 DEF IsIterate
  <2>6. ASSUME NEW k \in 1 .. n + 1 PROVE h[k] = F[k][h[k - 1]]
    <3>1. CASE k = n + 1
      BY <3>1
    <3>2. CASE k # n + 1
      <4>1. k \in 1 .. n /\ k - 1 \in 0 .. n + 1 /\ k - 1 # n + 1 /\ k \in 0 .. n + 1
        BY <3>2
      <4>2. h[k] = g[k] /\ h[k - 1] = g[k - 1]
        BY <3>2, <4>1
      <4>3. g[k] = F[k][g[k - 1]]
        BY <2>1, <4>1 DEF IsIterate
      <4> QED
        BY <4>2, <4>3
    <3> QED
      BY <3>1, <3>2
  <2> HIDE DEF h
  <2> QED
    BY <2>4, <2>5, <2>6 DEF IsIterate, HasIterate
<1> HIDE DEF T
<1>3. Nat \subseteq T
  BY <1>1, <1>2, SetInduction
<1> QED
  BY <1>3 DEF T

-----------------------------------------------------------------------------
(***************************************************************************)
(* FoldSet over a set of numbers adds them in an order that CHOOSE makes:  *)
(* h is such a sum of d, for every subset.  It does not depend on the      *)
(* order.                                                                  *)
(***************************************************************************)
Pick(s) == CHOOSE x \in s : TRUE

IsSum(h, d, S) ==
  /\ h[{}] = 0
  /\ \A s \in SUBSET S : s # {} => h[s] = h[s \ {Pick(s)}] + d[Pick(s)]

HasSum(d, S) == \E h \in [SUBSET S -> Int] : IsSum(h, d, S)

LEMMA PickIn ==
  ASSUME NEW s, s # {}
  PROVE  Pick(s) \in s
BY DEF Pick

LEMMA NoneLeft ==
  ASSUME NEW s, IsFiniteSet(s), Cardinality(s) = 0
  PROVE  s = {}
BY FS_EmptySet

LEMMA OneLess ==
  ASSUME NEW S, IsFiniteSet(S), NEW s \in SUBSET S, NEW x \in s
  PROVE  /\ IsFiniteSet(s) /\ Cardinality(s) \in Nat \ {0}
         /\ s \ {x} \in SUBSET S /\ Cardinality(s \ {x}) = Cardinality(s) - 1
<1>1. IsFiniteSet(s)
  BY FS_Subset
<1>2. Cardinality(s \ {x}) = Cardinality(s) - 1 /\ IsFiniteSet(s \ {x})
  BY <1>1, FS_RemoveElement
<1>3. Cardinality(s) \in Nat /\ Cardinality(s \ {x}) \in Nat
  BY <1>1, <1>2, FS_CardinalityType
<1> QED
  BY <1>1, <1>2, <1>3

LEMMA SumExists ==
  ASSUME NEW S, IsFiniteSet(S), NEW d \in [S -> Int]
  PROVE  HasSum(d, S)
<1> DEFINE Small(n) == { s \in SUBSET S : Cardinality(s) <= n }
           SumTo(h, n) ==
             /\ h[{}] = 0
             /\ \A s \in Small(n) : s # {} => h[s] = h[s \ {Pick(s)}] + d[Pick(s)]
           T == { n \in Nat : \E h \in [Small(n) -> Int] : SumTo(h, n) }
<1>1. Cardinality({}) = 0 /\ \A s \in SUBSET S : Cardinality(s) \in Nat /\ IsFiniteSet(s)
  BY FS_EmptySet, FS_Subset, FS_CardinalityType
<1>2. \A s \in SUBSET S : s # {} => /\ Pick(s) \in s /\ Pick(s) \in S
                                    /\ s \ {Pick(s)} \in SUBSET S
                                    /\ Cardinality(s \ {Pick(s)}) = Cardinality(s) - 1
                                    /\ Cardinality(s) # 0
  BY PickIn, OneLess
<1>3. 0 \in T
  <2> DEFINE h == [s \in Small(0) |-> 0]
  <2>1. ASSUME NEW s \in Small(0) PROVE s = {}
    <3>1. IsFiniteSet(s) /\ Cardinality(s) \in Nat /\ Cardinality(s) <= 0
      BY <1>1
    <3> QED
      BY <3>1, NoneLeft
  <2>2. {} \in Small(0)
    BY <1>1
  <2>3. h \in [Small(0) -> Int] /\ SumTo(h, 0)
    BY <2>1, <2>2
  <2> QED
    BY <2>3
<1>4. ASSUME NEW n \in Nat, n \in T PROVE n + 1 \in T
  <2>1. PICK g \in [Small(n) -> Int] : SumTo(g, n)
    BY <1>4
  <2> DEFINE h == [s \in Small(n + 1) |->
                     IF Cardinality(s) <= n THEN g[s]
                     ELSE g[s \ {Pick(s)}] + d[Pick(s)]]
  <2>2. ASSUME NEW s \in Small(n + 1), s # {}
        PROVE  /\ s \ {Pick(s)} \in Small(n) /\ d[Pick(s)] \in Int
               /\ g[s \ {Pick(s)}] \in Int
               /\ s \ {Pick(s)} \in Small(n + 1)
               /\ h[s \ {Pick(s)}] = g[s \ {Pick(s)}]
    <3>1. /\ s \ {Pick(s)} \in SUBSET S /\ Pick(s) \in S
          /\ Cardinality(s \ {Pick(s)}) = Cardinality(s) - 1
          /\ Cardinality(s) \in Nat /\ Cardinality(s) <= n + 1
      BY <1>1, <1>2, <2>2
    <3>2. Cardinality(s \ {Pick(s)}) <= n /\ Cardinality(s \ {Pick(s)}) <= n + 1
      BY <3>1
    <3>3. s \ {Pick(s)} \in Small(n) /\ s \ {Pick(s)} \in Small(n + 1)
      BY <3>1, <3>2
    <3> QED
      BY <3>1, <3>2, <3>3
  <2>3. ASSUME NEW s \in Small(n + 1)
        PROVE  h[s] \in Int /\ (s # {} => h[s] = h[s \ {Pick(s)}] + d[Pick(s)])
    <3>1. CASE Cardinality(s) <= n
      <4>1. s \in Small(n) /\ h[s] = g[s]
        BY <3>1
      <4>2. s # {} => g[s] = g[s \ {Pick(s)}] + d[Pick(s)]
        BY <2>1, <4>1
      <4> HIDE DEF h, Small
      <4> QED
        BY <2>2, <4>1, <4>2
    <3>2. CASE ~(Cardinality(s) <= n)
      <4>1. s # {}
        <5>1. Cardinality({}) <= n
          BY <1>1
        <5> QED
          BY <3>2, <5>1
      <4>2. h[s] = g[s \ {Pick(s)}] + d[Pick(s)]
        BY <3>2
      <4> HIDE DEF h, Small
      <4>3. /\ d[Pick(s)] \in Int /\ g[s \ {Pick(s)}] \in Int
            /\ h[s \ {Pick(s)}] = g[s \ {Pick(s)}]
        BY <2>2, <4>1, Zenon
      <4> QED
        BY <4>2, <4>3
    <3> QED
      BY <3>1, <3>2
  <2>4. {} \in Small(n + 1) /\ h[{}] = 0
    BY <1>1, <2>1
  <2>5. h \in [Small(n + 1) -> Int]
    <3>1. DOMAIN h = Small(n + 1) /\ h = [s \in DOMAIN h |-> h[s]]
      OBVIOUS
    <3> HIDE DEF h, Small
    <3> QED
      BY <2>3, <3>1
  <2> HIDE DEF h, Small
  <2> QED
    BY <2>3, <2>4, <2>5
<1> HIDE DEF T
<1>5. Nat \subseteq T
  BY <1>3, <1>4, SetInduction
<1>6. Cardinality(S) \in Nat
  BY FS_CardinalityType
<1>7. PICK h \in [Small(Cardinality(S)) -> Int] : SumTo(h, Cardinality(S))
  BY <1>5, <1>6 DEF T
<1>8. Small(Cardinality(S)) = SUBSET S
  BY FS_Subset
<1> QED
  BY <1>7, <1>8 DEF HasSum, IsSum

LEMMA SumOnce ==
  ASSUME NEW S, IsFiniteSet(S), NEW d, NEW h, IsSum(h, d, S),
         NEW U \in SUBSET S, NEW g, IsSum(g, d, U)
  PROVE  \A s \in SUBSET U : g[s] = h[s]
<1> DEFINE T == { n \in Nat : \A s \in SUBSET U : Cardinality(s) = n => g[s] = h[s] }
<1>1. 0 \in T
  <2>1. \A s \in SUBSET U : Cardinality(s) = 0 => s = {}
    <3>1. \A s \in SUBSET U : IsFiniteSet(s)
      BY FS_Subset
    <3> QED
      BY <3>1, NoneLeft
  <2> QED
    BY <2>1 DEF IsSum
<1>2. ASSUME NEW n \in Nat, n \in T PROVE n + 1 \in T
  <2> SUFFICES ASSUME NEW s \in SUBSET U, Cardinality(s) = n + 1 PROVE g[s] = h[s]
    OBVIOUS
  <2>1. s # {}
    BY FS_EmptySet
  <2>2. Pick(s) \in s /\ s \in SUBSET S
    BY <2>1, PickIn
  <2>3. Cardinality(s \ {Pick(s)}) = n /\ s \ {Pick(s)} \in SUBSET U
    BY <2>2, OneLess
  <2>4. g[s \ {Pick(s)}] = h[s \ {Pick(s)}]
    BY <1>2, <2>3
  <2> QED
    BY <2>1, <2>2, <2>4 DEF IsSum
<1> HIDE DEF T
<1>3. Nat \subseteq T
  BY <1>1, <1>2, SetInduction
<1>4. \A s \in SUBSET U : Cardinality(s) \in Nat
  BY FS_Subset, FS_CardinalityType
<1> QED
  BY <1>3, <1>4 DEF T

LEMMA SumIsInt ==
  ASSUME NEW S, IsFiniteSet(S), NEW d \in [S -> Int], NEW h, IsSum(h, d, S)
  PROVE  \A s \in SUBSET S : h[s] \in Int
<1>1. HasSum(d, S)
  BY SumExists
<1>2. PICK g \in [SUBSET S -> Int] : IsSum(g, d, S)
  BY <1>1 DEF HasSum
<1>3. \A s \in SUBSET S : h[s] = g[s]
  BY <1>2, SumOnce
<1> QED
  BY <1>2, <1>3

\* Any element may be added last.
AnyLast(h, d, s) ==
  h[s] \in Int /\ \A x \in s : h[s] = h[s \ {x}] + d[x]

LEMMA SumAny ==
  ASSUME NEW S, IsFiniteSet(S), NEW d \in [S -> Int], NEW h, IsSum(h, d, S)
  PROVE  \A s \in SUBSET S : AnyLast(h, d, s)
<1> DEFINE T == { n \in Nat : \A s \in SUBSET S : Cardinality(s) = n => AnyLast(h, d, s) }
<1>1. 0 \in T
  <2>1. \A s \in SUBSET S : Cardinality(s) = 0 => s = {}
    <3>1. \A s \in SUBSET S : IsFiniteSet(s)
      BY FS_Subset
    <3> QED
      BY <3>1, NoneLeft
  <2>2. AnyLast(h, d, {})
    BY DEF IsSum, AnyLast
  <2> QED
    BY <2>1, <2>2
<1>2. ASSUME NEW n \in Nat, n \in T PROVE n + 1 \in T
  <2> SUFFICES ASSUME NEW s \in SUBSET S, Cardinality(s) = n + 1 PROVE AnyLast(h, d, s)
    OBVIOUS
  <2> DEFINE y == Pick(s)
  <2>1. s # {}
    BY FS_EmptySet
  <2>2. y \in s
    BY <2>1, PickIn
  <2>3. ASSUME NEW x \in s
        PROVE  /\ Cardinality(s \ {x}) = n /\ s \ {x} \in SUBSET S
               /\ AnyLast(h, d, s \ {x}) /\ d[x] \in Int
    <3>1. Cardinality(s \ {x}) = n /\ s \ {x} \in SUBSET S
      BY OneLess
    <3>2. AnyLast(h, d, s \ {x})
      BY <1>2, <3>1
    <3> QED
      BY <3>1, <3>2
  <2>4. h[s] = h[s \ {y}] + d[y]
    BY <2>1 DEF IsSum
  <2> HIDE DEF y, T
  <2>5. h[s] \in Int
    <3>1. h[s \ {y}] \in Int /\ d[y] \in Int
      BY <2>2, <2>3 DEF AnyLast
    <3> QED
      BY <2>4, <3>1
  <2>6. ASSUME NEW x \in s PROVE h[s] = h[s \ {x}] + d[x]
    <3>1. CASE x = y
      BY <2>4, <3>1
    <3>2. CASE x # y
      <4> DEFINE a == h[(s \ {x}) \ {y}]
      <4>1. x \in s \ {y} /\ y \in s \ {x} /\ (s \ {y}) \ {x} = (s \ {x}) \ {y}
        BY <2>2, <3>2
      <4>2. AnyLast(h, d, s \ {y}) /\ AnyLast(h, d, s \ {x}) /\ d[x] \in Int /\ d[y] \in Int
        BY <2>2, <2>3
      <4>3. h[s \ {y}] = h[(s \ {y}) \ {x}] + d[x]
        BY <4>1, <4>2 DEF AnyLast
      <4>4. h[s \ {x}] = a + d[y]
        BY <4>1, <4>2 DEF AnyLast
      <4>5. h[s \ {y}] = a + d[x]
        BY <4>1, <4>3
      <4>6. a \in Int
        <5>1. (s \ {x}) \ {y} \in SUBSET S
          OBVIOUS
        <5> QED
          BY <5>1, SumIsInt
      <4> HIDE DEF a
      <4> QED
        BY <2>4, <4>2, <4>4, <4>5, <4>6
    <3> QED
      BY <3>1, <3>2
  <2> QED
    BY <2>5, <2>6 DEF AnyLast
<1> HIDE DEF T
<1>3. Nat \subseteq T
  BY <1>1, <1>2, SetInduction
<1>4. \A s \in SUBSET S : Cardinality(s) \in Nat
  BY FS_Subset, FS_CardinalityType
<1> QED
  BY <1>3, <1>4 DEF T

-----------------------------------------------------------------------------
(***************************************************************************)
(* Shifts of an allocation.  Step is what a window adds to the sums.       *)
(***************************************************************************)
StepAt(series, spread, sign, u) ==
  sign * 200 * (series[u] - series[1]) - Sel!Reference(series) * spread

\* The sum of the deviations of the windows of a set is what Deviation folds.
SumsSteps(h, series, spread, sign, S) ==
  /\ IsFiniteSet(S)
  /\ \E d \in [S -> Int] : /\ \A u \in S : d[u] = StepAt(series, spread, sign, u)
                           /\ IsSum(h, d, S)

GivesSums(h, series, spread, sign, S) ==
  \A s, t : s .. t \in SUBSET S => Deviation(series, spread, sign, s, t) = h[s .. t]

LEMMA DeviationIs ==
  ASSUME NEW series, NEW spread, NEW sign, NEW S, NEW h, SumsSteps(h, series, spread, sign, S)
  PROVE  GivesSums(h, series, spread, sign, S)
<1> SUFFICES ASSUME NEW s, NEW t, s .. t \in SUBSET S
             PROVE  Deviation(series, spread, sign, s, t) = h[s .. t]
  BY DEF GivesSums
<1> DEFINE U == s .. t
           IsIter(g) == g = [x \in SUBSET U |->
                               IF x = {} THEN 0
                               ELSE g[x \ {CHOOSE y \in x : TRUE}]
                                      + sign * 200 * (series[CHOOSE y \in x : TRUE] - series[1])
                                      - Sel!Reference(series) * spread]
           iter == CHOOSE g : IsIter(g)
<1>0. IsFiniteSet(S)
  BY DEF SumsSteps
<1> PICK d \in [S -> Int] : /\ \A u \in S : d[u] = StepAt(series, spread, sign, u)
                            /\ IsSum(h, d, S)
  BY DEF SumsSteps
<1>1. Deviation(series, spread, sign, s, t) = iter[U]
  BY Zenon DEF Deviation, FoldSet, MapThenFoldSet
<1>2. IsFiniteSet(U) /\ U \subseteq S
  BY <1>0, FS_Subset
<1> HIDE DEF U
<1> DEFINE e == [u \in U |-> d[u]]
<1>3. e \in [U -> Int]
  BY <1>2
<1>4. HasSum(e, U)
  BY <1>2, <1>3, SumExists
<1>5. PICK g \in [SUBSET U -> Int] : IsSum(g, e, U)
  BY <1>4 DEF HasSum
<1>6. IsIter(g)
  <2> DEFINE k == [x \in SUBSET U |->
                               IF x = {} THEN 0
                               ELSE g[x \ {CHOOSE y \in x : TRUE}]
                                      + sign * 200 * (series[CHOOSE y \in x : TRUE] - series[1])
                                      - Sel!Reference(series) * spread]
  <2>1. ASSUME NEW x \in SUBSET U PROVE g[x] = k[x]
    <3>1. CASE x = {}
      BY <1>5, <3>1 DEF IsSum
    <3>2. CASE x # {}
      <4>1. g[x] = g[x \ {Pick(x)}] + e[Pick(x)]
        BY <1>5, <3>2 DEF IsSum
      <4>2. Pick(x) \in U
        BY <3>2 DEF Pick
      <4>3. e[Pick(x)] = StepAt(series, spread, sign, Pick(x))
        BY <1>2, <4>2
      <4>4. k[x] = g[x \ {Pick(x)}] + StepAt(series, spread, sign, Pick(x))
        BY <3>2, Zenon DEF Pick, StepAt
      <4> QED
        BY <4>1, <4>3, <4>4
    <3> QED
      BY <3>1, <3>2
  <2>2. DOMAIN k = SUBSET U /\ k = [x \in DOMAIN k |-> k[x]]
    OBVIOUS
  <2> HIDE DEF k
  <2>3. g = k
    BY <2>1, <2>2
  <2> QED
    BY <2>3 DEF k
<1>7. IsIter(iter)
  <2> HIDE DEF IsIter
  <2> QED
    BY <1>6, Zenon
<1>8. IsSum(iter, d, U)
  <2> HIDE DEF iter
  <2>1. iter[{}] = 0
    BY <1>7
  <2>2. ASSUME NEW x \in SUBSET U, x # {}
        PROVE  iter[x] = iter[x \ {Pick(x)}] + d[Pick(x)]
    <3>1. Pick(x) \in S
      BY <1>2, <2>2 DEF Pick
    <3>2. iter[x] = iter[x \ {Pick(x)}] + StepAt(series, spread, sign, Pick(x))
      BY <1>7, <2>2, Zenon DEF Pick, StepAt
    <3> QED
      BY <3>1, <3>2
  <2> QED
    BY <2>1, <2>2 DEF IsSum
<1>9. iter[U] = h[U]
  <2> HIDE DEF iter
  <2> QED
    BY <1>0, <1>2, <1>8, SumOnce
<1> QED
  BY <1>1, <1>9 DEF U


LEMMA LargerOfTwo ==
  ASSUME NEW a \in Int, NEW b \in Int
  PROVE  /\ Sel!LargestOf({a, b}) \in {a, b}
         /\ a <= Sel!LargestOf({a, b}) /\ b <= Sel!LargestOf({a, b})
<1>1. \E x \in {a, b} : \A y \in {a, b} : y <= x
  <2>1. CASE a <= b
    BY <2>1
  <2>2. CASE ~(a <= b)
    BY <2>2
  <2> QED
    BY <2>1, <2>2
<1> QED
  BY <1>1 DEF Sel!LargestOf

LEMMA ReferenceIs ==
  ASSUME NEW series \in Seq(Nat) \ {<<>>}
  PROVE  Sel!Reference(series) \in Nat
<1>1. series[1] \in Nat /\ series[1] \in Int /\ 2 \in Int
  OBVIOUS
<1>2. Sel!LargestOf({series[1], 2}) \in {series[1], 2}
  BY <1>1, LargerOfTwo, Zenon
<1> QED
  BY <1>1, <1>2 DEF Sel!Reference

LEMMA StepIsInt ==
  ASSUME NEW series \in Seq(Nat) \ {<<>>}, NEW spread \in Nat, NEW sign \in {1, -1},
         NEW u \in DOMAIN series
  PROVE  StepAt(series, spread, sign, u) \in Int
<1>1. series[u] \in Nat /\ series[1] \in Nat /\ Sel!Reference(series) \in Nat
  BY ReferenceIs
<1>2. Sel!Reference(series) * spread \in Int
  BY <1>1
<1>3. sign * 200 * (series[u] - series[1]) \in Int
  BY <1>1
<1> QED
  BY <1>2, <1>3 DEF StepAt

\* The sums of cusum: nothing at first, then what is added, but never less than nothing.
IsDrift(x, series, spread, sign) ==
  /\ x \in [DOMAIN series -> Int] /\ x[1] = 0
  /\ \A t \in 2 .. Len(series) :
       x[t] = Sel!LargestOf({0, x[t - 1] + StepAt(series, spread, sign, t)})

LEMMA DriftIs ==
  ASSUME NEW series \in Seq(Nat) \ {<<>>}, NEW spread \in Nat, NEW sign \in {1, -1}
  PROVE  IsDrift(Sel!Drift(series, spread, sign), series, spread, sign)
<1> DEFINE n == Len(series)
           Up(a, t) == Sel!LargestOf({0, a + StepAt(series, spread, sign, t)})
           Is(x) == x = [t \in DOMAIN series |->
                           IF t = 1 THEN 0
                           ELSE Sel!LargestOf({0, x[t - 1]
                                  + sign * 200 * (series[t] - series[1])
                                  - Sel!Reference(series) * spread})]
           x == CHOOSE y : Is(y)
           F == [k \in 1 .. n - 1 |-> [a \in Int |-> Up(a, k + 1)]]
<1>1. Sel!Drift(series, spread, sign) = x
  BY Zenon DEF Sel!Drift
<1>2. n \in Nat \ {0} /\ DOMAIN series = 1 .. n /\ n - 1 \in Nat
  OBVIOUS
<1> HIDE DEF n, Up
<1>3. \A a \in Int : \A t \in 2 .. n : Up(a, t) \in Int
  <2> SUFFICES ASSUME NEW a \in Int, NEW t \in 2 .. n PROVE Up(a, t) \in Int
    OBVIOUS
  <2> DEFINE b == a + StepAt(series, spread, sign, t)
  <2>1. t \in DOMAIN series
    BY <1>2
  <2>2. StepAt(series, spread, sign, t) \in Int
    BY <2>1, StepIsInt
  <2>3. b \in Int
    BY <2>2
  <2> HIDE DEF b
  <2>4. 0 \in Int
    OBVIOUS
  <2>5. Sel!LargestOf({0, b}) \in {0, b}
    BY <2>3, <2>4, LargerOfTwo, Zenon
  <2>6. Sel!LargestOf({0, b}) \in Int
    BY <2>3, <2>5
  <2> QED
    BY <2>6 DEF Up, b
<1>4. F \in [1 .. n - 1 -> [Int -> Int]]
  <2>1. \A k \in 1 .. n - 1 : k + 1 \in 2 .. n
    BY <1>2
  <2> QED
    BY <1>3, <2>1
<1>5. HasIterate(Int, F, 0, n - 1)
  <2> DEFINE m == n - 1
  <2>1. m \in Nat /\ 0 \in Int
    BY <1>2
  <2> HIDE DEF F
  <2>2. F \in [1 .. m -> [Int -> Int]]
    BY <1>4
  <2> HIDE DEF m
  <2>3. HasIterate(Int, F, 0, m)
    BY <2>1, <2>2, IterateExists
  <2> QED
    BY <2>3 DEF m
<1>6. PICK h \in [0 .. n - 1 -> Int] : IsIterate(h, F, 0, n - 1)
  BY <1>5 DEF HasIterate
<1> DEFINE y == [t \in 1 .. n |-> h[t - 1]]
<1>7. y \in [1 .. n -> Int] /\ y[1] = 0
  <2>1. \A t \in 1 .. n : t - 1 \in 0 .. n - 1
    BY <1>2
  <2>2. h[0] = 0 /\ 1 \in 1 .. n /\ 1 - 1 = 0
    BY <1>2, <1>6 DEF IsIterate
  <2> QED
    BY <2>1, <2>2
<1>8. ASSUME NEW t \in 2 .. n PROVE y[t] = Up(y[t - 1], t)
  <2>1. t - 1 \in 1 .. n - 1 /\ (t - 1) - 1 \in 0 .. n - 1 /\ t \in 1 .. n /\ t - 1 \in 1 .. n
        /\ (t - 1) + 1 = t
    BY <1>2
  <2>2. h[t - 1] = F[t - 1][h[(t - 1) - 1]]
    BY <1>6, <2>1 DEF IsIterate
  <2>3. h[(t - 1) - 1] \in Int
    BY <2>1
  <2>4. F[t - 1][h[(t - 1) - 1]] = Up(h[(t - 1) - 1], t)
    BY <2>1, <2>3
  <2>5. y[t] = h[t - 1] /\ y[t - 1] = h[(t - 1) - 1]
    BY <2>1
  <2> QED
    BY <2>2, <2>4, <2>5
<1> HIDE DEF y, F
<1>9. Is(y)
  <2> DEFINE k == [t \in DOMAIN series |->
                     IF t = 1 THEN 0
                     ELSE Sel!LargestOf({0, y[t - 1]
                            + sign * 200 * (series[t] - series[1])
                            - Sel!Reference(series) * spread})]
  <2>1. ASSUME NEW t \in 1 .. n PROVE y[t] = k[t]
    <3>1. CASE t = 1
      BY <1>2, <1>7, <3>1
    <3>2. CASE t # 1
      <4>1. t \in 2 .. n
        BY <3>2
      <4>2. k[t] = Up(y[t - 1], t)
        BY <1>2, <3>2, Zenon DEF Up, StepAt
      <4> QED
        BY <1>8, <4>1, <4>2
    <3> QED
      BY <3>1, <3>2
  <2>2. DOMAIN k = 1 .. n /\ k = [t \in 1 .. n |-> k[t]]
    BY <1>2, Zenon
  <2> HIDE DEF k
  <2>3. y = k
    BY <1>7, <2>1, <2>2
  <2> QED
    BY <2>3 DEF k
<1>10. Is(x)
  <2> HIDE DEF Is
  <2> QED
    BY <1>9, Zenon
<1> HIDE DEF x
<1>11. DOMAIN x = 1 .. n /\ x = [t \in 1 .. n |-> x[t]]
  <2>1. DOMAIN x = DOMAIN series
    BY <1>10, Zenon
  <2>2. x = [t \in DOMAIN series |-> x[t]]
    BY <1>10
  <2> QED
    BY <1>2, <2>1, <2>2
<1>12. x[1] = 0
  BY <1>2, <1>10
<1>13. ASSUME NEW t \in 2 .. n PROVE x[t] = Up(x[t - 1], t)
  <2>1. t \in 1 .. n /\ t # 1
    BY <1>2
  <2> QED
    BY <1>2, <1>10, <2>1, Zenon DEF Up, StepAt
<1>14. \A t \in 1 .. n : x[t] \in Int
  <2> DEFINE T == { k \in Nat : k + 1 <= n => x[k + 1] \in Int }
  <2>1. 0 \in T
    BY <1>12
  <2>2. ASSUME NEW k \in Nat, k \in T PROVE k + 1 \in T
    <3> SUFFICES ASSUME (k + 1) + 1 <= n PROVE x[(k + 1) + 1] \in Int
      OBVIOUS
    <3>1. (k + 1) + 1 \in 2 .. n /\ ((k + 1) + 1) - 1 = k + 1 /\ x[k + 1] \in Int
      BY <1>2, <2>2
    <3>2. x[(k + 1) + 1] = Up(x[k + 1], (k + 1) + 1)
      BY <1>13, <3>1
    <3> QED
      BY <1>3, <3>1, <3>2
  <2> HIDE DEF T
  <2>3. Nat \subseteq T
    BY <2>1, <2>2, SetInduction
  <2> SUFFICES ASSUME NEW t \in 1 .. n PROVE x[t] \in Int
    OBVIOUS
  <2>4. t - 1 \in T /\ (t - 1) + 1 = t /\ t <= n
    BY <1>2, <2>3
  <2> QED
    BY <2>4 DEF T
<1>15. x \in [1 .. n -> Int]
  BY <1>11, <1>14
<1>16. \A t \in 2 .. n : x[t] = Sel!LargestOf({0, x[t - 1] + StepAt(series, spread, sign, t)})
  BY <1>13 DEF Up
<1> QED
  BY <1>1, <1>2, <1>12, <1>15, <1>16 DEF IsDrift, n


\* At every window the sum of cusum is the largest of the sums that end there, or
\* nothing when none is positive.
DriftBounds(x, h, t) ==
  /\ 0 <= x[t]
  /\ \A s \in 2 .. t : h[s .. t] <= x[t]
  /\ x[t] = 0 \/ \E s \in 2 .. t : h[s .. t] = x[t]

LEMMA DriftIsLargest ==
  ASSUME NEW n \in Nat \ {0}, NEW d \in [2 .. n -> Int], NEW h, IsSum(h, d, 2 .. n),
         NEW x \in [1 .. n -> Int], x[1] = 0,
         \A t \in 2 .. n : x[t] = Sel!LargestOf({0, x[t - 1] + d[t]})
  PROVE  \A t \in 1 .. n : DriftBounds(x, h, t)
<1> DEFINE S == 2 .. n
           T == { k \in Nat : k + 1 <= n => DriftBounds(x, h, k + 1) }
<1>1. IsFiniteSet(S)
  BY FS_Interval
<1>2. \A s \in SUBSET S : AnyLast(h, d, s)
  BY <1>1, SumAny
<1>3. 0 \in T
  <2>1. 0 + 1 = 1 /\ 2 .. 1 = {}
    OBVIOUS
  <2> QED
    BY <2>1 DEF DriftBounds
<1>4. ASSUME NEW k \in Nat, k \in T PROVE k + 1 \in T
  <2> SUFFICES ASSUME (k + 1) + 1 <= n PROVE DriftBounds(x, h, (k + 1) + 1)
    OBVIOUS
  <2> DEFINE t == k + 1
             u == t + 1
             new == x[t] + d[u]
  <2>1. /\ t \in 1 .. n /\ u \in 2 .. n /\ u - 1 = t /\ d[u] \in Int /\ x[t] \in Int
        /\ x[u] \in Int
    OBVIOUS
  <2>2. DriftBounds(x, h, t)
    BY <1>4
  <2>3. x[u] = Sel!LargestOf({0, new})
    BY <2>1
  <2> HIDE DEF t, T
  <2>4. new \in Int /\ 0 \in Int
    BY <2>1
  <2> HIDE DEF new
  <2>5. x[u] \in {0, new} /\ 0 <= x[u] /\ new <= x[u]
    <3>1. /\ Sel!LargestOf({0, new}) \in {0, new}
          /\ 0 <= Sel!LargestOf({0, new}) /\ new <= Sel!LargestOf({0, new})
      BY <2>4, LargerOfTwo, Zenon
    <3> QED
      BY <2>3, <3>1
  <2>6. ASSUME NEW s \in 2 .. u
        PROVE  /\ s \in 2 .. t => h[s .. u] = h[s .. t] + d[u] /\ h[s .. t] \in Int
               /\ s = u => h[s .. u] = d[u]
    <3>1. u \in s .. u /\ s .. u \in SUBSET S /\ s .. t \in SUBSET S
          /\ (s .. u) \ {u} = s .. t
      BY <2>1
    <3>2. AnyLast(h, d, s .. u) /\ AnyLast(h, d, s .. t)
      BY <1>2, <3>1
    <3>3. h[s .. u] = h[s .. t] + d[u] /\ h[s .. t] \in Int
      BY <3>1, <3>2 DEF AnyLast
    <3>4. ASSUME s = u PROVE h[s .. t] = 0
      <4>1. s .. t = {}
        BY <2>1, <3>4
      <4> QED
        BY <4>1 DEF IsSum
    <3> QED
      BY <2>1, <3>3, <3>4
  <2> HIDE DEF u
  <2>7. \A s \in 2 .. u : s \in 2 .. t \/ s = u
    BY <2>1
  <2>8. ASSUME NEW s \in 2 .. u PROVE h[s .. u] <= x[u]
    <3>1. CASE s \in 2 .. t
      <4>1. h[s .. t] <= x[t]
        BY <2>2, <3>1 DEF DriftBounds
      <4>2. h[s .. u] = h[s .. t] + d[u] /\ h[s .. t] \in Int
        BY <2>6, <3>1
      <4> QED
        BY <2>1, <2>4, <2>5, <4>1, <4>2 DEF new
    <3>2. CASE s = u
      <4>1. h[s .. u] = d[u] /\ 0 <= x[t]
        BY <2>2, <2>6, <3>2 DEF DriftBounds
      <4> QED
        BY <2>1, <2>4, <2>5, <4>1 DEF new
    <3> QED
      BY <2>7, <3>1, <3>2
  <2>9. ASSUME x[u] # 0 PROVE \E s \in 2 .. u : h[s .. u] = x[u]
    <3>1. x[u] = x[t] + d[u]
      BY <2>5, <2>9 DEF new
    <3>2. CASE x[t] = 0
      <4>0. u \in 2 .. u
        BY <2>1
      <4>1. h[u .. u] = d[u]
        BY <2>6, <4>0
      <4> QED
        <5>1. h[u .. u] = x[u]
          BY <2>1, <3>1, <3>2, <4>1
        <5> QED
          BY <4>0, <5>1, Zenon
    <3>3. CASE x[t] # 0
      <4>1. PICK s \in 2 .. t : h[s .. t] = x[t]
        BY <2>2, <3>3 DEF DriftBounds
      <4>2. s \in 2 .. u /\ h[s .. u] = h[s .. t] + d[u]
        BY <2>1, <2>6, <4>1
      <4> QED
        BY <3>1, <4>1, <4>2
    <3> QED
      BY <3>2, <3>3
  <2> QED
    BY <2>5, <2>8, <2>9 DEF DriftBounds, t, u
<1> HIDE DEF T
<1>5. Nat \subseteq T
  BY <1>3, <1>4, SetInduction
<1> SUFFICES ASSUME NEW t \in 1 .. n PROVE DriftBounds(x, h, t)
  OBVIOUS
<1>6. t - 1 \in T /\ (t - 1) + 1 = t /\ t <= n
  BY <1>5
<1> QED
  BY <1>6 DEF T

LEMMA HitsAreSums ==
  ASSUME NEW series \in Seq(Nat) \ {<<>>}, NEW spread \in Nat, NEW sign \in {1, -1}
  PROVE  \A t \in DOMAIN series :
           t \in Sel!HitSteps(series, spread, sign) <=> IsHit(series, spread, sign, t)
<1> DEFINE n == Len(series)
           S == 2 .. n
           d == [u \in S |-> StepAt(series, spread, sign, u)]
           x == Sel!Drift(series, spread, sign)
           limit == 4 * Sel!Reference(series) * spread
<1>1. n \in Nat \ {0} /\ DOMAIN series = 1 .. n
  OBVIOUS
<1>2. IsFiniteSet(S)
  BY <1>1, FS_Interval
<1>3. d \in [S -> Int]
  <2>1. ASSUME NEW u \in S PROVE StepAt(series, spread, sign, u) \in Int
    <3>1. u \in DOMAIN series
      BY <1>1
    <3> QED
      BY <3>1, StepIsInt
  <2> QED
    BY <2>1
<1>4. HasSum(d, S)
  <2> HIDE DEF d, S
  <2> QED
    BY <1>2, <1>3, SumExists
<1>5. PICK h \in [SUBSET S -> Int] : IsSum(h, d, S)
  BY <1>4 DEF HasSum
<1>6. IsDrift(x, series, spread, sign)
  BY DriftIs
<1>7. limit \in Nat
  <2> DEFINE r == Sel!Reference(series)
  <2>1. r \in Nat
    BY ReferenceIs
  <2> HIDE DEF r
  <2>2. 4 * r * spread \in Nat
    BY <2>1
  <2> QED
    BY <2>2 DEF r
<1> HIDE DEF limit, x, n
<1>8. /\ x \in [1 .. n -> Int] /\ x[1] = 0
      /\ \A t \in 2 .. n : x[t] = Sel!LargestOf({0, x[t - 1] + d[t]})
  BY <1>1, <1>6 DEF IsDrift, n
<1>9. ASSUME NEW s, NEW t, s .. t \in SUBSET S
      PROVE  Deviation(series, spread, sign, s, t) = h[s .. t]
  <2>1. \A u \in S : d[u] = StepAt(series, spread, sign, u)
    OBVIOUS
  <2> HIDE DEF d, S
  <2>2. SumsSteps(h, series, spread, sign, S)
    BY <1>2, <1>3, <1>5, <2>1, Zenon DEF SumsSteps
  <2>3. GivesSums(h, series, spread, sign, S)
    BY <2>2, DeviationIs, Zenon
  <2> QED
    BY <1>9, <2>3 DEF GivesSums
<1> HIDE DEF d
<1>10. \A t \in 1 .. n : DriftBounds(x, h, t)
  BY <1>1, <1>3, <1>5, <1>8, DriftIsLargest
<1> SUFFICES ASSUME NEW t \in 1 .. n
             PROVE  t \in Sel!HitSteps(series, spread, sign) <=> IsHit(series, spread, sign, t)
  BY <1>1
<1>11. t \in Sel!HitSteps(series, spread, sign) <=> x[t] > limit
  BY <1>1 DEF Sel!HitSteps, x, limit
<1>12. \A s \in 2 .. t : Deviation(series, spread, sign, s, t) = h[s .. t] /\ h[s .. t] \in Int
  <2> SUFFICES ASSUME NEW s \in 2 .. t
               PROVE  Deviation(series, spread, sign, s, t) = h[s .. t] /\ h[s .. t] \in Int
    OBVIOUS
  <2>1. s .. t \in SUBSET S
    BY <1>1
  <2>2. h[s .. t] \in Int
    BY <2>1
  <2> QED
    BY <1>9, <2>1, <2>2
<1>13. IsHit(series, spread, sign, t) <=> \E s \in 2 .. t : h[s .. t] > limit
  BY <1>12 DEF IsHit, limit
<1>14. x[t] \in Int /\ DriftBounds(x, h, t)
  BY <1>8, <1>10
<1>15. x[t] > limit <=> \E s \in 2 .. t : h[s .. t] > limit
  <2>1. ASSUME x[t] > limit PROVE \E s \in 2 .. t : h[s .. t] > limit
    <3>1. x[t] # 0
      BY <1>7, <2>1
    <3>2. PICK s \in 2 .. t : h[s .. t] = x[t]
      BY <1>14, <3>1 DEF DriftBounds
    <3> QED
      BY <2>1, <3>2
  <2>2. ASSUME NEW s \in 2 .. t, h[s .. t] > limit PROVE x[t] > limit
    <3>1. h[s .. t] <= x[t] /\ h[s .. t] \in Int
      BY <1>12, <1>14 DEF DriftBounds
    <3> QED
      BY <1>7, <1>14, <2>2, <3>1
  <2> QED
    BY <2>1, <2>2
<1> QED
  BY <1>11, <1>13, <1>15


\* A sequence has a largest element.
LEMMA LargestExists ==
  ASSUME NEW series \in Seq(Nat) \ {<<>>}
  PROVE  \E t \in DOMAIN series : \A u \in DOMAIN series : series[u] <= series[t]
<1> DEFINE n == Len(series)
           T == { k \in Nat : k + 1 <= n =>
                    \E t \in 1 .. k + 1 : \A u \in 1 .. k + 1 : series[u] <= series[t] }
<1>1. n \in Nat \ {0} /\ DOMAIN series = 1 .. n /\ \A t \in 1 .. n : series[t] \in Nat
  OBVIOUS
<1> HIDE DEF n
<1>2. 0 \in T
  <2>1. 1 \in 1 .. 0 + 1 /\ \A u \in 1 .. 0 + 1 : u = 1
    OBVIOUS
  <2>2. series[1] \in Nat
    BY <1>1
  <2> QED
    BY <2>1, <2>2
<1>3. ASSUME NEW k \in Nat, k \in T PROVE k + 1 \in T
  <2> SUFFICES ASSUME (k + 1) + 1 <= n
               PROVE  \E t \in 1 .. (k + 1) + 1 : \A u \in 1 .. (k + 1) + 1 :
                        series[u] <= series[t]
    OBVIOUS
  <2>1. PICK t \in 1 .. k + 1 : \A u \in 1 .. k + 1 : series[u] <= series[t]
    BY <1>1, <1>3
  <2> DEFINE m == (k + 1) + 1
  <2>2. /\ m \in 1 .. m /\ t \in 1 .. m /\ series[t] \in Nat /\ series[m] \in Nat
        /\ \A u \in 1 .. m : u \in 1 .. k + 1 \/ u = m
        /\ \A u \in 1 .. m : series[u] \in Nat
    BY <1>1
  <2> HIDE DEF m, T
  <2>3. CASE series[m] <= series[t]
    <3>1. \A u \in 1 .. m : series[u] <= series[t]
      BY <2>1, <2>2, <2>3
    <3> QED
      BY <2>2, <3>1, Zenon DEF m
  <2>4. CASE ~(series[m] <= series[t])
    <3>1. \A u \in 1 .. m : series[u] <= series[m]
      BY <2>1, <2>2, <2>4
    <3> QED
      BY <2>2, <3>1, Zenon DEF m
  <2> QED
    BY <2>3, <2>4
<1> HIDE DEF T
<1>4. Nat \subseteq T
  BY <1>2, <1>3, SetInduction
<1>5. n - 1 \in T /\ (n - 1) + 1 = n
  BY <1>1, <1>4
<1> QED
  BY <1>1, <1>5 DEF T

\* A shift that is reported is of a connected pair, hits in its last windows, and is
\* dated by the first hit.
ShiftIs(series, persist, hits, sign, since) ==
  LET n == Len(series)
      ref == Sel!Reference(series)
  IN  /\ n - persist + 1 .. n \subseteq hits
      /\ 4 * sign * (series[n] - ref) >= ref
      /\ since \in hits /\ since <= n - persist + 1
      /\ \E t \in DOMAIN series : series[t] >= 5

LEMMA ShiftsAre ==
  ASSUME NEW series \in Seq(Nat) \ {<<>>}, NEW spread \in Nat, NEW persist \in Nat \ {0},
         NEW sign \in {1, -1}, Sel!Shifts(series, spread, persist, sign)
  PROVE  ShiftIs(series, persist, Sel!HitSteps(series, spread, sign), sign,
                 Sel!SmallestOf(Sel!HitSteps(series, spread, sign)))
<1> DEFINE n == Len(series)
           ref == Sel!Reference(series)
           hits == Sel!HitSteps(series, spread, sign)
           since == Sel!SmallestOf(hits)
<1>1. n \in Nat \ {0} /\ DOMAIN series = 1 .. n /\ series[n] \in Nat
  OBVIOUS
<1>2. ref \in Nat
  BY ReferenceIs
<1>3. hits \in SUBSET (1 .. n)
  BY <1>1 DEF Sel!HitSteps
<1>4. /\ n > persist /\ Sel!Connected(series)
      /\ \A t \in n - persist + 1 .. n : t \in hits
      /\ 100 * sign * (series[n] - ref) >= 25 * ref
  BY Zenon DEF Sel!Shifts
<1> HIDE DEF ref, hits, since, n
<1>5. 4 * sign * (series[n] - ref) >= ref
  BY <1>1, <1>2, <1>4
<1>6. n - persist + 1 \in hits
  <2>1. n - persist + 1 \in n - persist + 1 .. n
    BY <1>1, <1>4
  <2> QED
    BY <1>4, <2>1
<1>7. since \in hits /\ \A t \in hits : since <= t
  <2>1. hits \in SUBSET Nat /\ hits # {}
    BY <1>1, <1>3, <1>6
  <2>2. \E x \in hits : \A y \in hits : x <= y
    BY <2>1, LeastNumber
  <2> QED
    BY <2>2, Zenon DEF since, Sel!SmallestOf
<1>8. \E t \in DOMAIN series : series[t] >= 5
  <2>1. PICK t \in DOMAIN series : \A u \in DOMAIN series : series[u] <= series[t]
    BY LargestExists
  <2> DEFINE R == { series[u] : u \in DOMAIN series }
  <2>2. Sel!LargestOf(R) >= 5
    BY <1>4, Zenon DEF Sel!Connected, Sel!Range
  <2>3. series[t] \in R /\ \A y \in R : y <= series[t]
    BY <2>1
  <2> HIDE DEF R
  <2>4. Sel!LargestOf(R) \in R
    BY <2>3, Zenon DEF Sel!LargestOf
  <2> QED
    BY <2>2, <2>4 DEF R
<1> QED
  BY <1>4, <1>5, <1>6, <1>7, <1>8, Zenon DEF ShiftIs, n, ref, hits, since


-----------------------------------------------------------------------------
(***************************************************************************)
(* Rolling windows.  From one cut to the next they follow each other until *)
(* fewer steps than the minimum are left.                                  *)
(***************************************************************************)
WindowCuts(n, breaks) == {0, n} \cup { b \in breaks : 0 < b /\ b < n }

NextCut(cuts, a) == Sel!SmallestOf({ c \in cuts : c > a })

StartsIn(a, b, length, step, least) ==
  { k \in a .. b : /\ (k - a) % step = 0
                   /\ k + least <= b
                   /\ k = a \/ k - step + length < b }

LEMMA NextCutIs ==
  ASSUME NEW n \in Nat, NEW breaks \in SUBSET Nat, NEW a \in WindowCuts(n, breaks) \ {n}
  PROVE  LET b == NextCut(WindowCuts(n, breaks), a)
         IN  /\ a \in 0 .. n /\ b \in 0 .. n /\ a < b /\ b \in WindowCuts(n, breaks)
             /\ \A c \in WindowCuts(n, breaks) : c > a => b <= c
<1> DEFINE cuts == WindowCuts(n, breaks)
           after == { c \in cuts : c > a }
<1>1. cuts \in SUBSET (0 .. n) /\ n \in cuts /\ a \in 0 .. n /\ a # n
  <2>1. ASSUME NEW c \in cuts PROVE c \in 0 .. n
    <3>1. c = 0 \/ c = n \/ (c \in breaks /\ 0 < c /\ c < n)
      BY Zenon DEF WindowCuts
    <3>2. CASE c = 0
      BY <3>2
    <3>3. CASE c = n
      BY <3>3
    <3>4. CASE c \in breaks /\ 0 < c /\ c < n
      <4>1. c \in Nat
        BY <3>4
      <4> QED
        BY <3>4, <4>1
    <3> QED
      BY <3>1, <3>2, <3>3, <3>4
  <2>2. n \in cuts
    BY Zenon DEF WindowCuts
  <2> QED
    BY <2>1, <2>2
<1> HIDE DEF cuts
<1>2. n \in after /\ after \in SUBSET Nat
  <2>1. n > a
    BY <1>1
  <2>2. n \in after
    BY <1>1, <2>1, Zenon
  <2>3. after \in SUBSET (0 .. n)
    BY <1>1, Zenon
  <2> QED
    BY <2>2, <2>3
<1>3. \E x \in after : \A y \in after : x <= y
  BY <1>2, LeastNumber
<1> DEFINE b == NextCut(cuts, a)
<1>4. b \in after /\ \A y \in after : b <= y
  BY <1>3, Zenon DEF NextCut, Sel!SmallestOf
<1> HIDE DEF b
<1>5. b \in cuts /\ b > a /\ b \in 0 .. n /\ \A c \in cuts : c > a => b <= c
  BY <1>1, <1>4
<1>6. a < b
  BY <1>1, <1>5
<1> QED
  BY <1>1, <1>5, <1>6 DEF b, cuts

LEMMA SmallerOfTwo ==
  ASSUME NEW a \in Int, NEW b \in Int
  PROVE  Sel!SmallestOf({a, b}) = IF a <= b THEN a ELSE b
BY DEF Sel!SmallestOf

\* The multiples of a step go on.
LEMMA MultipleLeaves ==
  ASSUME NEW x \in Int, NEW s \in Nat \ {0}, NEW q \in Int, x = q * s
  PROVE  x % s = 0
OBVIOUS

LEMMA NextMultiple ==
  ASSUME NEW x \in Nat, NEW s \in Nat \ {0}, x % s = 0
  PROVE  (x + s) % s = 0
<1> DEFINE q == x \div s
<1>1. x = s * q + (x % s) /\ q \in Int
  OBVIOUS
<1> HIDE DEF q
<1>2. x + s = (q + 1) * s /\ q + 1 \in Int /\ x + s \in Int
  BY <1>1
<1> QED
  BY <1>2, MultipleLeaves

\* What is not in a window is among the last steps.
LEMMA LastAreLeft ==
  ASSUME NEW a \in Nat, NEW b \in Nat, a < b, NEW length \in Nat, NEW step \in Nat \ {0},
         NEW least \in Nat \ {0}, step <= length,
         NEW t \in a .. b - 1, t <= b - least
  PROVE  \E k \in StartsIn(a, b, length, step, least) :
           k <= t /\ t < Sel!SmallestOf({k + length, b})
<1> DEFINE K == { k \in StartsIn(a, b, length, step, least) : k <= t }
           D == { t - k : k \in K }
<1>1. a \in StartsIn(a, b, length, step, least)
  <2>1. (a - a) % step = 0
    BY DEF StartsIn
  <2>2. a \in a .. b /\ a + least <= b
    OBVIOUS
  <2> QED
    BY <2>1, <2>2 DEF StartsIn
<1>2. K \in SUBSET (a .. t) /\ a \in K
  BY <1>1 DEF StartsIn
<1> HIDE DEF K
<1>3. D \in SUBSET Nat /\ D # {}
  BY <1>2
<1>4. PICK m \in D : \A y \in D : m <= y
  BY <1>3, LeastNumber
<1>5. PICK k \in K : m = t - k
  BY <1>4
<1>6. ASSUME NEW l \in K PROVE l <= k
  <2>1. t - l \in D
    OBVIOUS
  <2>2. t - k <= t - l
    BY <1>4, <1>5, <2>1
  <2> QED
    BY <1>2, <2>2
<1>7. /\ k \in a .. b /\ (k - a) % step = 0 /\ k + least <= b /\ k <= t
      /\ k \in StartsIn(a, b, length, step, least)
  BY <1>5 DEF K, StartsIn
<1>8. t < k + length
  <2> SUFFICES ASSUME k + length <= t PROVE FALSE
    BY <1>7
  <2> DEFINE l == k + step
  <2>1. l \in a .. b /\ l <= t /\ l + least <= b /\ l - step + length < b /\ l > k
    BY <1>7
  <2>2. (l - a) % step = 0
    <3>1. k - a \in Nat /\ l - a = (k - a) + step
      BY <1>7
    <3> QED
      BY <1>7, <3>1, NextMultiple
  <2>3. l \in K
    BY <2>1, <2>2 DEF K, StartsIn
  <2> QED
    BY <1>6, <1>7, <2>1, <2>3
<1>9. t < Sel!SmallestOf({k + length, b})
  <2>1. Sel!SmallestOf({k + length, b}) = IF k + length <= b THEN k + length ELSE b
    BY <1>7, SmallerOfTwo
  <2> QED
    BY <1>7, <1>8, <2>1
<1> QED
  BY <1>7, <1>9


IsWindow(w, n, breaks, length, step, least) ==
  \E a \in WindowCuts(n, breaks) \ {n} :
    \E k \in StartsIn(a, NextCut(WindowCuts(n, breaks), a), length, step, least) :
      w = <<k, Sel!SmallestOf({k + length, NextCut(WindowCuts(n, breaks), a)})>>

LEMMA WindowsAre ==
  ASSUME NEW n, NEW breaks, NEW length, NEW step, NEW least
  PROVE  \A w : w \in Sel!WindowBounds(n, breaks, length, step, least)
                  <=> IsWindow(w, n, breaks, length, step, least)
<1> DEFINE cuts == WindowCuts(n, breaks)
           Of(a) == { <<k, Sel!SmallestOf({k + length, NextCut(cuts, a)})>> :
                        k \in StartsIn(a, NextCut(cuts, a), length, step, least) }
<1>1. \A a : Sel!SegmentWindows(a, NextCut(cuts, a), length, step, least) = Of(a)
  BY Zenon DEF Sel!SegmentWindows, StartsIn
<1>2. Sel!WindowBounds(n, breaks, length, step, least)
        = UNION { Sel!SegmentWindows(a, NextCut(cuts, a), length, step, least) :
                    a \in cuts \ {n} }
  BY Zenon DEF Sel!WindowBounds, WindowCuts, NextCut
<1> SUFFICES ASSUME NEW w
             PROVE  w \in Sel!WindowBounds(n, breaks, length, step, least)
                      <=> IsWindow(w, n, breaks, length, step, least)
  OBVIOUS
<1>3. w \in Sel!WindowBounds(n, breaks, length, step, least)
        <=> \E a \in cuts \ {n} : w \in Of(a)
  BY <1>1, <1>2, Zenon
<1>4. (\E a \in cuts \ {n} : w \in Of(a)) <=> IsWindow(w, n, breaks, length, step, least)
  BY Zenon DEF IsWindow
<1> QED
  BY <1>3, <1>4

\* No window goes over a break or is too short.
WindowKept(w, n, breaks, length, least) ==
  /\ 0 <= w[1] /\ w[2] <= n /\ w[2] - w[1] <= length
  /\ least <= length => w[1] + least <= w[2]
  /\ \A b \in breaks : ~(w[1] < b /\ b < w[2])

LEMMA WindowsKept ==
  ASSUME NEW n \in Nat, NEW breaks \in SUBSET Nat, NEW length \in Nat,
         NEW step \in Nat \ {0}, NEW least \in Nat \ {0},
         NEW w \in Sel!WindowBounds(n, breaks, length, step, least)
  PROVE  WindowKept(w, n, breaks, length, least)
<1> DEFINE cuts == WindowCuts(n, breaks)
<1>0. PICK a \in cuts \ {n} : \E k \in StartsIn(a, NextCut(cuts, a), length, step, least) :
             w = <<k, Sel!SmallestOf({k + length, NextCut(cuts, a)})>>
  <2>1. IsWindow(w, n, breaks, length, step, least)
    BY WindowsAre, Zenon
  <2> QED
    BY <2>1, Zenon DEF IsWindow
<1>1. PICK k \in StartsIn(a, NextCut(cuts, a), length, step, least) :
             w = <<k, Sel!SmallestOf({k + length, NextCut(cuts, a)})>>
  BY <1>0, Zenon
<1> DEFINE b == NextCut(cuts, a)
           e == Sel!SmallestOf({k + length, b})
<1>2. /\ a \in 0 .. n /\ b \in 0 .. n /\ a < b
      /\ \A c \in cuts : c > a => b <= c
  BY NextCutIs
<1>3. k \in a .. b /\ k + least <= b
  BY DEF StartsIn
<1>4. w[1] = k /\ w[2] = e
  BY <1>1
<1> HIDE DEF b
<1>5. e = IF k + length <= b THEN k + length ELSE b
  BY <1>2, <1>3, SmallerOfTwo
<1> HIDE DEF e
<1>6. ASSUME NEW c \in breaks, k < c, c < e PROVE FALSE
  <2>1. c \in Nat /\ c > a /\ c < b /\ c < n /\ 0 < c
    BY <1>2, <1>3, <1>5, <1>6
  <2>2. c \in cuts
    BY <2>1 DEF WindowCuts
  <2> QED
    BY <1>2, <2>1, <2>2
<1>7. 0 <= k /\ e <= n /\ e - k <= length /\ (least <= length => k + least <= e)
  BY <1>2, <1>3, <1>5
<1> QED
  BY <1>4, <1>6, <1>7 DEF WindowKept

\* Between two breaks fewer steps than the minimum are in no window.
FewLeft(windows, n, breaks, least) ==
  \A a, b \in {0, n} \cup (breaks \cap 1 .. n) :
    (a < b /\ \A c \in breaks : ~(a < c /\ c < b)) =>
      Cardinality({ t \in a .. b - 1 : \A w \in windows : ~(w[1] <= t /\ t < w[2]) }) < least

LEMMA FewAreLeft ==
  ASSUME NEW n \in Nat, NEW breaks \in SUBSET Nat, NEW length \in Nat,
         NEW step \in Nat \ {0}, NEW least \in Nat \ {0}, step <= length
  PROVE  FewLeft(Sel!WindowBounds(n, breaks, length, step, least), n, breaks, least)
<1> SUFFICES ASSUME NEW a \in {0, n} \cup (breaks \cap 1 .. n),
                    NEW b \in {0, n} \cup (breaks \cap 1 .. n),
                    a < b, \A c \in breaks : ~(a < c /\ c < b)
             PROVE  Cardinality({ t \in a .. b - 1 :
                         \A w \in Sel!WindowBounds(n, breaks, length, step, least) :
                           ~(w[1] <= t /\ t < w[2]) }) < least
  BY Zenon DEF FewLeft
<1> DEFINE cuts == WindowCuts(n, breaks)
           windows == Sel!WindowBounds(n, breaks, length, step, least)
           left == { t \in a .. b - 1 : \A w \in windows : ~(w[1] <= t /\ t < w[2]) }
<1>1. a \in 0 .. n /\ b \in 0 .. n
  OBVIOUS
<1>2. a \in cuts \ {n} /\ b \in cuts
  <2>1. a # n /\ (a = 0 \/ (a \in breaks /\ 0 < a /\ a < n))
    BY <1>1
  <2>2. b = n \/ (b \in breaks /\ 0 < b /\ b < n)
    BY <1>1
  <2> QED
    BY <2>1, <2>2, Zenon DEF WindowCuts
<1>3. NextCut(cuts, a) = b
  <2> DEFINE c == NextCut(cuts, a)
  <2>1. /\ c \in 0 .. n /\ a < c /\ c \in cuts /\ \A x \in cuts : x > a => c <= x
    BY <1>2, NextCutIs
  <2> HIDE DEF c
  <2>2. c <= b
    BY <1>1, <1>2, <2>1
  <2>3. c = 0 \/ c = n \/ c \in breaks
    BY <2>1 DEF WindowCuts
  <2>4. ~(c < b)
    BY <1>1, <2>1, <2>3
  <2>5. c = b
    BY <1>1, <2>1, <2>2, <2>4
  <2> QED
    BY <2>5 DEF c
<1> HIDE DEF cuts, windows
<1>4. left \subseteq b - least + 1 .. b - 1
  <2> SUFFICES ASSUME NEW t \in left, ~(t > b - least) PROVE FALSE
    BY <1>1
  <2>1. t \in a .. b - 1 /\ t <= b - least
    BY <1>1
  <2>2. PICK k \in StartsIn(a, b, length, step, least) :
               k <= t /\ t < Sel!SmallestOf({k + length, b})
    <3>1. a \in Nat /\ b \in Nat
      BY <1>1
    <3> QED
      BY <2>1, <3>1, LastAreLeft
  <2> DEFINE w == <<k, Sel!SmallestOf({k + length, b})>>
  <2>3. w \in windows
    BY <1>2, <1>3, WindowsAre, Zenon DEF windows, cuts, IsWindow
  <2>4. w[1] <= t /\ t < w[2]
    BY <2>2
  <2> QED
    BY <2>3, <2>4
<1>5. /\ IsFiniteSet(b - least + 1 .. b - 1)
      /\ Cardinality(b - least + 1 .. b - 1) = least - 1
  <2> DEFINE c == b - least + 1
             e == b - 1
  <2>1. c \in Int /\ e \in Int /\ (IF c > e THEN 0 ELSE e - c + 1) = least - 1
    BY <1>1
  <2> HIDE DEF c, e
  <2>2. IsFiniteSet(c .. e) /\ Cardinality(c .. e) = least - 1
    BY <2>1, FS_Interval
  <2> QED
    BY <2>2 DEF c, e
<1>6. Cardinality(left) <= least - 1 /\ Cardinality(left) \in Nat
  <2> HIDE DEF left
  <2> QED
    BY <1>4, <1>5, FS_Subset, FS_CardinalityType
<1>7. Cardinality(left) < least
  BY <1>6
<1> QED
  BY <1>7 DEF windows

-----------------------------------------------------------------------------
(***************************************************************************)
(* Forecasts.  x is a state that a producer evolves through: nothing up to *)
(* a start, and what Forward makes of the state before it from then on.    *)
(***************************************************************************)
Evolves(x, g, j, start, base, rates, open, m) ==
  /\ x[0] = base
  /\ \A n \in 1 .. m :
       x[n] = IF n <= start THEN 0
              ELSE Fc!Forward(g, x[n - 1], rates[n], open[n], j)

HasEvolved(g, j, start, base, rates, open, m) ==
  \E x : DOMAIN x = 0 .. m /\ x = [n \in DOMAIN x |-> x[n]]
         /\ Evolves(x, g, j, start, base, rates, open, m)

LEMMA EvolvesExists ==
  ASSUME NEW g, NEW j, NEW start, NEW base, NEW rates, NEW open, NEW m \in Nat
  PROVE  HasEvolved(g, j, start, base, rates, open, m)
<1> DEFINE T == { n \in Nat : HasEvolved(g, j, start, base, rates, open, n) }
<1>1. 0 \in T
  <2> DEFINE x == [n \in 0 .. 0 |-> base]
  <2>1. DOMAIN x = 0 .. 0 /\ x = [n \in DOMAIN x |-> x[n]] /\ x[0] = base /\ 1 .. 0 = {}
    OBVIOUS
  <2> QED
    BY <2>1 DEF HasEvolved, Evolves
<1>2. ASSUME NEW n \in Nat, n \in T PROVE n + 1 \in T
  <2>0. HasEvolved(g, j, start, base, rates, open, n)
    BY <1>2
  <2>1. PICK y : DOMAIN y = 0 .. n /\ Evolves(y, g, j, start, base, rates, open, n)
    BY <2>0 DEF HasEvolved
  <2> DEFINE last == IF n + 1 <= start THEN 0
                     ELSE Fc!Forward(g, y[n], rates[n + 1], open[n + 1], j)
             x == [k \in 0 .. n + 1 |-> IF k = n + 1 THEN last ELSE y[k]]
  <2>2. DOMAIN x = 0 .. n + 1 /\ x = [k \in DOMAIN x |-> x[k]]
    OBVIOUS
  <2>3. x[0] = base
    BY <2>1 DEF Evolves
  <2>4. ASSUME NEW k \in 1 .. n + 1
        PROVE  x[k] = IF k <= start THEN 0
                      ELSE Fc!Forward(g, x[k - 1], rates[k], open[k], j)
    <3>1. CASE k = n + 1
      <4>1. k - 1 = n /\ n \in 0 .. n + 1 /\ n # n + 1
        BY <3>1
      <4> QED
        BY <3>1, <4>1
    <3>2. CASE k # n + 1
      <4>1. k \in 1 .. n /\ k - 1 \in 0 .. n + 1 /\ k - 1 # n + 1 /\ k \in 0 .. n + 1
        BY <3>2
      <4>2. x[k] = y[k] /\ x[k - 1] = y[k - 1]
        BY <3>2, <4>1
      <4> HIDE DEF x
      <4> QED
        BY <2>1, <4>1, <4>2 DEF Evolves
    <3> QED
      BY <3>1, <3>2
  <2> HIDE DEF x
  <2> QED
    BY <2>2, <2>3, <2>4 DEF HasEvolved, Evolves
<1> HIDE DEF T
<1>3. Nat \subseteq T
  BY <1>1, <1>2, SetInduction
<1> QED
  BY <1>3 DEF T

LEMMA EvolvesOnce ==
  ASSUME NEW g, NEW j, NEW start, NEW base, NEW rates, NEW open, NEW m \in Nat,
         NEW x, NEW y,
         Evolves(x, g, j, start, base, rates, open, m),
         Evolves(y, g, j, start, base, rates, open, m)
  PROVE  \A n \in 0 .. m : x[n] = y[n]
<1> DEFINE T == { n \in Nat : n <= m => x[n] = y[n] }
<1>1. 0 \in T
  BY DEF Evolves
<1>2. ASSUME NEW n \in Nat, n \in T PROVE n + 1 \in T
  <2> SUFFICES ASSUME n + 1 <= m PROVE x[n + 1] = y[n + 1]
    OBVIOUS
  <2>1. n + 1 \in 1 .. m /\ (n + 1) - 1 = n /\ x[n] = y[n]
    BY <1>2
  <2> QED
    BY <2>1 DEF Evolves
<1> HIDE DEF T
<1>3. Nat \subseteq T
  BY <1>1, <1>2, SetInduction
<1> QED
  BY <1>3 DEF T

LEMMA StatesEvolve ==
  ASSUME NEW g, NEW j, Len(g.inj) \in Nat, Fc!StartOf(g, j) \in Nat \ {0}
  PROVE  Evolves(Fc!States(g, j), g, j, Fc!StartOf(g, j), 0, g.inj, g.open, Len(g.inj))
<1> DEFINE m == Len(g.inj)
           start == Fc!StartOf(g, j)
           IsState(x) == x = [n \in 0 .. m |->
                           IF n <= start THEN 0
                           ELSE Fc!Forward(g, x[n - 1], g.inj[n], g.open[n], j)]
<1>1. Fc!States(g, j) = CHOOSE x : IsState(x)
  BY Zenon DEF Fc!States
<1> HIDE DEF m, start
<1>2. m \in Nat /\ start \in Nat \ {0}
  BY DEF m, start
<1>3. PICK y : /\ DOMAIN y = 0 .. m /\ y = [n \in DOMAIN y |-> y[n]]
               /\ Evolves(y, g, j, start, 0, g.inj, g.open, m)
  BY <1>2, EvolvesExists DEF HasEvolved
<1>4. IsState(y)
  <2>1. \A n \in 0 .. m : n \in 1 .. m \/ n = 0
    BY <1>2
  <2>2. \A n \in 0 .. m : y[n] = IF n <= start THEN 0
                           ELSE Fc!Forward(g, y[n - 1], g.inj[n], g.open[n], j)
    BY <1>2, <1>3, <2>1 DEF Evolves
  <2> QED
    BY <1>3, <2>2
<1>5. IsState(Fc!States(g, j))
  <2> HIDE DEF IsState
  <2> QED
    BY <1>1, <1>4
<1> DEFINE x == Fc!States(g, j)
<1>6. \A n \in 0 .. m : x[n] = IF n <= start THEN 0
                         ELSE Fc!Forward(g, x[n - 1], g.inj[n], g.open[n], j)
  BY <1>5
<1> HIDE DEF x
<1>7. x[0] = 0 /\ \A n \in 1 .. m : n \in 0 .. m
  BY <1>2, <1>6
<1>8. Evolves(x, g, j, start, 0, g.inj, g.open, m)
  BY <1>6, <1>7 DEF Evolves
<1> QED
  BY <1>8 DEF x, m, start

\* The history is gone through once, whichever of the two functions does it.
LEMMA HistoryEnds ==
  ASSUME NEW g, NEW j, Len(g.inj) \in Nat, Fc!StartOf(g, j) \in Nat \ {0}
  PROVE  Fc!HistoryState(g, j) = Fc!States(g, j)[Len(g.inj)]
<1> DEFINE m == Len(g.inj)
           start == Fc!StartOf(g, j)
           IsState(x) == x = [n \in 0 .. m |->
                           IF n > start
                           THEN LET new == Fc!Half(x[n - 1] + (Fc!Scale \div 6)
                                                    * Fc!Support(g, g.inj[n], g.open[n], j))
                                IN  IF g.shutIn /\ ~g.open[n][j] THEN x[n - 1] ELSE new
                           ELSE 0]
           h == CHOOSE x : IsState(x)
<1>1. Fc!HistoryState(g, j) = h[m]
  BY Zenon DEF Fc!HistoryState
<1> HIDE DEF m, start
<1>2. m \in Nat /\ start \in Nat \ {0}
  BY DEF m, start
<1>3. PICK y : /\ DOMAIN y = 0 .. m /\ y = [n \in DOMAIN y |-> y[n]]
               /\ Evolves(y, g, j, start, 0, g.inj, g.open, m)
  BY <1>2, EvolvesExists DEF HasEvolved
<1>4. IsState(y)
  <2>1. \A n \in 0 .. m : n \in 1 .. m \/ n = 0
    BY <1>2
  <2>2. \A n \in 0 .. m : n <= start <=> ~(n > start)
    BY <1>2
  <2>3. ASSUME NEW n \in 0 .. m
        PROVE  y[n] = IF n > start
                      THEN LET new == Fc!Half(y[n - 1] + (Fc!Scale \div 6)
                                               * Fc!Support(g, g.inj[n], g.open[n], j))
                           IN  IF g.shutIn /\ ~g.open[n][j] THEN y[n - 1] ELSE new
                      ELSE 0
    <3>1. CASE n > start
      <4>1. n \in 1 .. m /\ ~(n <= start)
        BY <1>2, <2>1, <2>2, <3>1
      <4>2. y[n] = Fc!Forward(g, y[n - 1], g.inj[n], g.open[n], j)
        BY <1>3, <4>1 DEF Evolves
      <4> QED
        BY <3>1, <4>2 DEF Fc!Forward
    <3>2. CASE ~(n > start)
      BY <1>3, <2>1, <2>2, <3>2 DEF Evolves
    <3> QED
      BY <3>1, <3>2
  <2> QED
    BY <1>3, <2>3
<1>5. IsState(h)
  <2> HIDE DEF IsState
  <2> QED
    BY <1>4
<1>6. \A n \in 0 .. m : h[n] = IF n > start
                           THEN LET new == Fc!Half(h[n - 1] + (Fc!Scale \div 6)
                                                    * Fc!Support(g, g.inj[n], g.open[n], j))
                                IN  IF g.shutIn /\ ~g.open[n][j] THEN h[n - 1] ELSE new
                           ELSE 0
  <2> HIDE DEF h
  <2> QED
    BY <1>5
<1> HIDE DEF h
<1>7. Evolves(h, g, j, start, 0, g.inj, g.open, m)
  <2>1. h[0] = 0
    BY <1>2, <1>6
  <2>2. ASSUME NEW n \in 1 .. m
        PROVE  h[n] = IF n <= start THEN 0
                      ELSE Fc!Forward(g, h[n - 1], g.inj[n], g.open[n], j)
    <3>1. n \in 0 .. m /\ (n <= start <=> ~(n > start))
      BY <1>2
    <3> QED
      BY <1>6, <3>1 DEF Fc!Forward
  <2> QED
    BY <2>1, <2>2 DEF Evolves
<1>8. Evolves(Fc!States(g, j), g, j, start, 0, g.inj, g.open, m)
  BY StatesEvolve, <1>2 DEF m, start
<1>9. \A n \in 0 .. m : h[n] = Fc!States(g, j)[n]
  BY <1>2, <1>7, <1>8, EvolvesOnce
<1>10. h[m] = Fc!States(g, j)[m]
  BY <1>2, <1>9
<1> QED
  BY <1>1, <1>10 DEF m


\* A producer that goes on evolves through the plan from where the history ended.
LEMMA ContinueEvolves ==
  ASSUME NEW g, NEW j, NEW plan, Len(plan) \in Nat, NEW active, active[j],
         DOMAIN plan = 1 .. Len(plan)
  PROVE  Evolves(Fc!Continue(g, plan, active, j), g, j, 0, Fc!HistoryState(g, j),
                 plan, [n \in DOMAIN plan |-> active], Len(plan))
<1> DEFINE m == Len(plan)
           base == Fc!HistoryState(g, j)
           open == [n \in DOMAIN plan |-> active]
           Next0(x, n) == Fc!Half(x[n - 1] + (Fc!Scale \div 6)
                                              * Fc!Support(g, plan[n], active, j))
           IsState(x) == x = [n \in 0 .. m |->
                           IF n = 0 THEN base
                           ELSE IF active[j] THEN Next0(x, n) ELSE x[n - 1]]
           h == CHOOSE x : IsState(x)
<1>1. Fc!Continue(g, plan, active, j) = h
  BY Zenon DEF Fc!Continue
<1> HIDE DEF m, base
<1>2. m \in Nat /\ \A n \in 1 .. m : open[n] = active /\ n \in DOMAIN plan
  BY DEF m
<1>3. PICK y : /\ DOMAIN y = 0 .. m /\ y = [n \in DOMAIN y |-> y[n]]
               /\ Evolves(y, g, j, 0, base, plan, open, m)
  <2>1. HasEvolved(g, j, 0, base, plan, open, m)
    <3> HIDE DEF open
    <3> QED
      BY <1>2, EvolvesExists
  <2> QED
    BY <2>1 DEF HasEvolved
<1>4. IsState(y)
  <2>1. ASSUME NEW n \in 1 .. m PROVE y[n] = Next0(y, n) /\ ~(n = 0) /\ n > 0
    <3>1. ~(n <= 0) /\ n > 0 /\ ~(n = 0)
      BY <1>2
    <3>2. y[n] = Fc!Forward(g, y[n - 1], plan[n], open[n], j)
      BY <1>3, <3>1 DEF Evolves
    <3>3. open[n][j]
      BY <1>2
    <3> QED
      BY <1>2, <3>1, <3>2, <3>3 DEF Fc!Forward
  <2>2. y[0] = base /\ ~(0 > 0)
    BY <1>3 DEF Evolves
  <2>3. \A n \in 0 .. m : n = 0 \/ n \in 1 .. m
    BY <1>2
  <2> HIDE DEF Next0
  <2>4. \A n \in 0 .. m : y[n] = IF n = 0 THEN base
                           ELSE IF active[j] THEN Next0(y, n) ELSE y[n - 1]
    BY <2>1, <2>2, <2>3
  <2> QED
    BY <1>3, <2>4
<1>5. IsState(h)
  <2> HIDE DEF IsState
  <2> QED
    BY <1>4
<1> HIDE DEF Next0
<1>6. \A n \in 0 .. m : h[n] = IF n = 0 THEN base
                           ELSE IF active[j] THEN Next0(h, n) ELSE h[n - 1]
  <2> HIDE DEF h
  <2> QED
    BY <1>5
<1> HIDE DEF h, open
<1>7. h[0] = base
  BY <1>2, <1>6
<1>8. ASSUME NEW n \in 1 .. m
      PROVE  h[n] = IF n <= 0 THEN 0 ELSE Fc!Forward(g, h[n - 1], plan[n], open[n], j)
  <2>1. n \in 0 .. m /\ n > 0 /\ n # 0 /\ ~(n <= 0)
    BY <1>2
  <2>2. h[n] = Next0(h, n)
    BY <1>6, <2>1
  <2> QED
    BY <1>2, <2>1, <2>2 DEF Fc!Forward, Next0
<1>9. Evolves(h, g, j, 0, base, plan, open, m)
  BY <1>7, <1>8 DEF Evolves
<1> QED
  BY <1>1, <1>9 DEF m, base, open

-----------------------------------------------------------------------------
\* What reaches a producer depends on the allocations and on how closed ones are treated.
SupportOf(f, shutIn, cap, rates, open, j) ==
  LET producers == { e[2] : e \in DOMAIN f }
      multiplier(i) ==
        LET all == Fc!SumOver(producers, LAMBDA k : f[<<i, k>>])
            there == Fc!SumOver({ k \in producers : open[k] }, LAMBDA k : f[<<i, k>>])
        IN  IF there = 0 THEN 6 ELSE Fc!LowerOf((6 * all) \div there, 6 * cap)
  IN  Fc!SumOver({ e[1] : e \in DOMAIN f },
        LAMBDA i : f[<<i, j>>] * rates[i] * (IF shutIn THEN multiplier(i) ELSE 6))

LEMMA SupportIs ==
  ASSUME NEW g, NEW rates, NEW open, NEW j
  PROVE  Fc!Support(g, rates, open, j)
           = SupportOf(g.f, g.shutIn, g.cap, rates, open, j)
BY Zenon DEF Fc!Support, Fc!Multiplier, Fc!Producers, Fc!Injectors, SupportOf

ModelOK(g) ==
  /\ g = [ f |-> g.f, q0 |-> g.q0, shutIn |-> g.shutIn, cap |-> g.cap,
           inj |-> g.inj, open |-> g.open ]
  /\ g.shutIn \in BOOLEAN
  /\ g.inj \in Seq([Fc!Injectors(g) -> Nat])
  /\ g.open \in Seq([Fc!Producers(g) -> BOOLEAN])
  /\ Len(g.open) = Len(g.inj)

LEMMA Joined ==
  ASSUME NEW S, NEW a \in Seq(S), NEW b \in Seq(S)
  PROVE  /\ Len(a \o b) = Len(a) + Len(b) /\ DOMAIN (a \o b) = 1 .. Len(a) + Len(b)
         /\ \A n \in 1 .. Len(a) : (a \o b)[n] = a[n]
         /\ \A n \in 1 .. Len(b) : (a \o b)[Len(a) + n] = b[n]
OBVIOUS

LEMMA ExtendedIs ==
  ASSUME NEW g, NEW plan, NEW active, ModelOK(g),
         plan \in Seq([Fc!Injectors(g) -> Nat]), active \in [Fc!Producers(g) -> BOOLEAN]
  PROVE  LET e == Fc!Extended(g, plan, active)
             m == Len(g.inj)
         IN  /\ e.f = g.f /\ e.q0 = g.q0 /\ e.shutIn = g.shutIn /\ e.cap = g.cap
             /\ Len(e.inj) = m + Len(plan) /\ DOMAIN e.inj = 1 .. m + Len(plan)
             /\ Len(e.open) = m + Len(plan) /\ DOMAIN e.open = 1 .. m + Len(plan)
             /\ \A n \in 1 .. m : e.inj[n] = g.inj[n] /\ e.open[n] = g.open[n]
             /\ \A n \in 1 .. Len(plan) : e.inj[m + n] = plan[n] /\ e.open[m + n] = active
<1> DEFINE on == [n \in DOMAIN plan |-> active]
           e == Fc!Extended(g, plan, active)
<1>1. g = [ f |-> g.f, q0 |-> g.q0, shutIn |-> g.shutIn, cap |-> g.cap,
            inj |-> g.inj, open |-> g.open ]
  BY DEF ModelOK
<1>2. e = [g EXCEPT !.inj = g.inj \o plan, !.open = g.open \o on]
  BY DEF Fc!Extended
<1>3. /\ e.f = g.f /\ e.q0 = g.q0 /\ e.shutIn = g.shutIn /\ e.cap = g.cap
      /\ e.inj = g.inj \o plan /\ e.open = g.open \o on
  <2> HIDE DEF e
  <2>1. DOMAIN g = {"f", "q0", "shutIn", "cap", "inj", "open"}
    BY <1>1
  <2> QED
    BY <1>2, <2>1
<1> DEFINE R == [Fc!Injectors(g) -> Nat]
           O == [Fc!Producers(g) -> BOOLEAN]
<1>4. g.inj \in Seq(R) /\ plan \in Seq(R) /\ g.open \in Seq(O) /\ active \in O
      /\ Len(g.open) = Len(g.inj)
  BY DEF ModelOK
<1> HIDE DEF R, O, e
<1>5. on \in Seq(O) /\ Len(on) = Len(plan) /\ \A n \in 1 .. Len(plan) : on[n] = active
  BY <1>4
<1> HIDE DEF on
<1>6. /\ Len(e.inj) = Len(g.inj) + Len(plan) /\ DOMAIN e.inj = 1 .. Len(g.inj) + Len(plan)
      /\ \A n \in 1 .. Len(g.inj) : e.inj[n] = g.inj[n]
      /\ \A n \in 1 .. Len(plan) : e.inj[Len(g.inj) + n] = plan[n]
  <2>1. e.inj = g.inj \o plan
    BY <1>3
  <2>2. g.inj \in Seq(R) /\ plan \in Seq(R)
    BY <1>4
  <2>3. /\ Len(g.inj \o plan) = Len(g.inj) + Len(plan)
        /\ DOMAIN (g.inj \o plan) = 1 .. Len(g.inj) + Len(plan)
        /\ \A n \in 1 .. Len(g.inj) : (g.inj \o plan)[n] = g.inj[n]
        /\ \A n \in 1 .. Len(plan) : (g.inj \o plan)[Len(g.inj) + n] = plan[n]
    BY <2>2, Joined
  <2> QED
    BY <2>1, <2>3
<1>7. /\ Len(e.open) = Len(g.inj) + Len(plan) /\ DOMAIN e.open = 1 .. Len(g.inj) + Len(plan)
      /\ \A n \in 1 .. Len(g.inj) : e.open[n] = g.open[n]
      /\ \A n \in 1 .. Len(plan) : e.open[Len(g.inj) + n] = active
  <2>1. /\ Len(e.open) = Len(g.open) + Len(on) /\ DOMAIN e.open = 1 .. Len(g.open) + Len(on)
        /\ \A n \in 1 .. Len(g.open) : e.open[n] = g.open[n]
        /\ \A n \in 1 .. Len(on) : e.open[Len(g.open) + n] = on[n]
    <3>1. e.open = g.open \o on
      BY <1>3
    <3>2. g.open \in Seq(O) /\ on \in Seq(O)
      BY <1>4, <1>5
    <3>3. /\ Len(g.open \o on) = Len(g.open) + Len(on)
          /\ DOMAIN (g.open \o on) = 1 .. Len(g.open) + Len(on)
          /\ \A n \in 1 .. Len(g.open) : (g.open \o on)[n] = g.open[n]
          /\ \A n \in 1 .. Len(on) : (g.open \o on)[Len(g.open) + n] = on[n]
      BY <3>2, Joined
    <3> QED
      BY <3>1, <3>3
  <2> QED
    BY <1>4, <1>5, <2>1
<1> QED
  BY <1>3, <1>6, <1>7 DEF e


\* A producer that produced in the history starts at the same step in what goes on.
LEMMA StartStays ==
  ASSUME NEW g, NEW plan, NEW active, ModelOK(g), plan \in Seq([Fc!Injectors(g) -> Nat]),
         active \in [Fc!Producers(g) -> BOOLEAN], NEW j \in Fc!Producers(g),
         \E n \in DOMAIN g.open : g.open[n][j]
  PROVE  /\ Fc!StartOf(g, j) \in 1 .. Len(g.inj)
         /\ Fc!StartOf(Fc!Extended(g, plan, active), j) = Fc!StartOf(g, j)
<1> DEFINE e == Fc!Extended(g, plan, active)
           m == Len(g.inj)
           on(h) == { n \in DOMAIN h.open : h.open[n][j] }
<1>1. /\ m \in Nat /\ Len(plan) \in Nat /\ DOMAIN g.open = 1 .. m
      /\ DOMAIN e.open = 1 .. m + Len(plan)
      /\ \A n \in 1 .. m : e.open[n] = g.open[n]
  <2>1. /\ DOMAIN e.open = 1 .. m + Len(plan)
        /\ \A n \in 1 .. m : e.open[n] = g.open[n]
    BY ExtendedIs
  <2>2. m \in Nat /\ DOMAIN g.open = 1 .. m
    BY DEF ModelOK
  <2>3. Len(plan) \in Nat
    OBVIOUS
  <2> QED
    BY <2>1, <2>2, <2>3
<1> HIDE DEF m, e
<1>2. on(g) # {} /\ on(g) \in SUBSET Nat /\ on(g) \subseteq on(e) /\ on(g) \subseteq 1 .. m
  BY <1>1
<1>3. PICK s \in on(g) : \A k \in on(g) : s <= k
  BY <1>2, LeastNumber
<1>4. ASSUME NEW k \in on(e) PROVE k \in Nat /\ s <= k
  <2>1. k \in 1 .. m + Len(plan) /\ e.open[k][j] /\ s \in 1 .. m
    BY <1>1, <1>2
  <2>2. CASE k <= m
    <3>1. k \in 1 .. m
      BY <1>1, <2>1, <2>2
    <3>2. k \in on(g)
      BY <1>1, <2>1, <3>1
    <3> QED
      BY <1>3, <2>1, <3>2
  <2>3. CASE ~(k <= m)
    BY <1>1, <2>1, <2>3
  <2> QED
    BY <2>2, <2>3
<1>5. s \in on(e) /\ s \in Nat /\ s \in 1 .. m
  BY <1>2
<1>6. \A h : (s \in on(h) /\ \A k \in on(h) : k \in Nat /\ s <= k)
               => Fc!StartOf(h, j) = s
  <2> SUFFICES ASSUME NEW h, s \in on(h), \A k \in on(h) : k \in Nat /\ s <= k
               PROVE  Fc!StartOf(h, j) = s
    OBVIOUS
  <2> DEFINE first == CHOOSE n \in on(h) : \A k \in on(h) : n <= k
  <2>1. Fc!StartOf(h, j) = IF on(h) = {} THEN Len(h.open) + 1 ELSE first
    BY Zenon DEF Fc!StartOf
  <2> HIDE DEF on
  <2>2. first \in on(h) /\ \A k \in on(h) : first <= k
    OBVIOUS
  <2>3. first <= s /\ s <= first /\ first \in Nat
    BY <2>2
  <2> HIDE DEF first
  <2> QED
    BY <1>5, <2>1, <2>3
<1> HIDE DEF on
<1>7. Fc!StartOf(g, j) = s
  BY <1>2, <1>3, <1>6
<1>8. Fc!StartOf(e, j) = s
  BY <1>4, <1>5, <1>6
<1> QED
  BY <1>5, <1>7, <1>8 DEF e, m

LEMMA ForecastIsLived ==
  ASSUME NEW g, NEW plan, NEW active, ModelOK(g), plan \in Seq([Fc!Injectors(g) -> Nat]),
         active \in [Fc!Producers(g) -> BOOLEAN], NEW j \in Fc!Producers(g),
         \E n \in DOMAIN g.open : g.open[n][j], active[j],
         NEW k \in DOMAIN plan
  PROVE  Fc!ForecastLiquid(g, plan, active, j)[k]
           = Fc!Predicted(Fc!Extended(g, plan, active), j)[Len(g.inj) + k]
<1> DEFINE e == Fc!Extended(g, plan, active)
           h == Len(g.inj)
           m == Len(plan)
           start == Fc!StartOf(g, j)
           past == Fc!States(g, j)
           future == Fc!Continue(g, plan, active, j)
           all == Fc!States(e, j)
<1>1. /\ e.f = g.f /\ e.q0 = g.q0 /\ e.shutIn = g.shutIn /\ e.cap = g.cap
      /\ Len(e.inj) = h + m /\ DOMAIN e.inj = 1 .. h + m
      /\ \A n \in 1 .. h : e.inj[n] = g.inj[n] /\ e.open[n] = g.open[n]
      /\ \A n \in 1 .. m : e.inj[h + n] = plan[n] /\ e.open[h + n] = active
  BY ExtendedIs
<1>2. h \in Nat /\ m \in Nat /\ DOMAIN plan = 1 .. m
  BY DEF ModelOK
<1>3. start \in 1 .. h /\ Fc!StartOf(e, j) = start
  BY StartStays
<1>4. Evolves(past, g, j, start, 0, g.inj, g.open, h)
  BY <1>2, <1>3, StatesEvolve
<1>5. Fc!HistoryState(g, j) = past[h]
  BY <1>2, <1>3, HistoryEnds
<1>6. Evolves(future, g, j, 0, past[h], plan, [n \in DOMAIN plan |-> active], m)
  BY <1>2, <1>5, ContinueEvolves
<1>7. Evolves(all, e, j, start, 0, e.inj, e.open, h + m)
  <2>1. Len(e.inj) \in Nat /\ Fc!StartOf(e, j) \in Nat \ {0}
    BY <1>1, <1>2, <1>3
  <2>2. Evolves(all, e, j, Fc!StartOf(e, j), 0, e.inj, e.open, Len(e.inj))
    BY <2>1, StatesEvolve
  <2> QED
    BY <1>1, <1>3, <2>2
<1>8. \A x, rates, open : Fc!Forward(e, x, rates, open, j) = Fc!Forward(g, x, rates, open, j)
  <2> SUFFICES ASSUME NEW x, NEW rates, NEW open
               PROVE  Fc!Forward(e, x, rates, open, j) = Fc!Forward(g, x, rates, open, j)
    OBVIOUS
  <2>1. Fc!Support(e, rates, open, j) = SupportOf(e.f, e.shutIn, e.cap, rates, open, j)
    BY SupportIs
  <2>2. Fc!Support(g, rates, open, j) = SupportOf(g.f, g.shutIn, g.cap, rates, open, j)
    BY SupportIs
  <2>3. Fc!Support(e, rates, open, j) = Fc!Support(g, rates, open, j)
    BY <1>1, <2>1, <2>2
  <2> QED
    BY <1>1, <2>3 DEF Fc!Forward
<1>9. Fc!Primary(e, j, (h + k) - start) = Fc!Primary(g, j, (h + k) - start)
  BY <1>1 DEF Fc!Primary
<1>10. Fc!ForecastLiquid(g, plan, active, j)[k]
         = Fc!Primary(g, j, (h + k) - start) + future[k]
  <2> DEFINE x == Fc!ForecastLiquid(g, plan, active, j)
  <2>1. x = [n \in DOMAIN plan |->
               IF active[j] THEN Fc!Primary(g, j, h + (n - start)) + future[n] ELSE 0]
    BY Zenon DEF Fc!ForecastLiquid
  <2>2. h + (k - start) = (h + k) - start
    BY <1>2, <1>3
  <2> HIDE DEF future, x, start, h
  <2>3. x[k] = IF active[j] THEN Fc!Primary(g, j, h + (k - start)) + future[k] ELSE 0
    BY <2>1, Zenon
  <2> QED
    BY <2>2, <2>3, Zenon DEF x
<1>11. Fc!Predicted(e, j)[h + k] = Fc!Primary(e, j, (h + k) - start) + all[h + k]
  <2> DEFINE x == Fc!Predicted(e, j)
  <2>1. h + k \in DOMAIN e.inj /\ ~(h + k < start) /\ e.open[h + k] = active
    BY <1>1, <1>2, <1>3
  <2>2. x = [n \in DOMAIN e.inj |->
     IF n < Fc!StartOf(e, j) \/ (e.shutIn /\ ~e.open[n][j]) THEN 0
     ELSE Fc!Primary(e, j, n - Fc!StartOf(e, j)) + all[n]]
    BY DEF Fc!Predicted
  <2> HIDE DEF e, all, x, start, h
  <2>3. x[h + k] = IF h + k < Fc!StartOf(e, j) \/ (e.shutIn /\ ~e.open[h + k][j]) THEN 0
     ELSE Fc!Primary(e, j, (h + k) - Fc!StartOf(e, j)) + all[h + k]
    BY <2>1, <2>2
  <2>4. x[h + k] = IF h + k < start \/ (e.shutIn /\ ~active[j]) THEN 0
     ELSE Fc!Primary(e, j, (h + k) - start) + all[h + k]
    BY <1>3, <2>1, <2>3
  <2>5. ~(h + k < start \/ (e.shutIn /\ ~active[j]))
    BY <2>1
  <2>6. x[h + k] = Fc!Primary(e, j, (h + k) - start) + all[h + k]
    BY <2>4, <2>5
  <2> QED
    BY <2>6, Zenon DEF x
<1> HIDE DEF e, h, m, start, past, future, all
<1>12. \A n \in 0 .. h : all[n] = past[n]
  <2> DEFINE T == { n \in Nat : n <= h => all[n] = past[n] }
  <2>1. 0 \in T
    BY <1>4, <1>7 DEF Evolves
  <2>2. ASSUME NEW n \in Nat, n \in T PROVE n + 1 \in T
    <3> SUFFICES ASSUME n + 1 <= h PROVE all[n + 1] = past[n + 1]
      OBVIOUS
    <3>1. n + 1 \in 1 .. h /\ n + 1 \in 1 .. h + m /\ (n + 1) - 1 = n /\ all[n] = past[n]
      BY <1>2, <2>2
    <3>2. past[n + 1] = IF n + 1 <= start THEN 0
                        ELSE Fc!Forward(g, past[n], g.inj[n + 1], g.open[n + 1], j)
      BY <1>4, <3>1 DEF Evolves
    <3>3. all[n + 1] = IF n + 1 <= start THEN 0
                       ELSE Fc!Forward(e, all[n], e.inj[n + 1], e.open[n + 1], j)
      BY <1>7, <3>1 DEF Evolves
    <3> QED
      BY <1>1, <1>8, <3>1, <3>2, <3>3
  <2> HIDE DEF T
  <2>3. Nat \subseteq T
    BY <2>1, <2>2, SetInduction
  <2> QED
    BY <1>2, <2>3 DEF T
<1>13. \A n \in 0 .. m : all[h + n] = future[n]
  <2> DEFINE T == { n \in Nat : n <= m => all[h + n] = future[n] }
  <2>1. 0 \in T
    <3>1. h + 0 = h /\ h \in 0 .. h
      BY <1>2
    <3>2. future[0] = past[h]
      BY <1>6 DEF Evolves
    <3> QED
      BY <1>12, <3>1, <3>2
  <2>2. ASSUME NEW n \in Nat, n \in T PROVE n + 1 \in T
    <3> SUFFICES ASSUME n + 1 <= m PROVE all[h + (n + 1)] = future[n + 1]
      OBVIOUS
    <3>1. /\ n + 1 \in 1 .. m /\ h + (n + 1) \in 1 .. h + m /\ (n + 1) - 1 = n
          /\ (h + (n + 1)) - 1 = h + n /\ ~(h + (n + 1) <= start) /\ ~(n + 1 <= 0)
          /\ all[h + n] = future[n]
      BY <1>2, <1>3, <2>2
    <3>2. future[n + 1] = Fc!Forward(g, future[n], plan[n + 1], active, j)
      <4> DEFINE open == [l \in DOMAIN plan |-> active]
      <4>1. open[n + 1] = active
        BY <1>2, <3>1
      <4> HIDE DEF open
      <4>2. Evolves(future, g, j, 0, past[h], plan, open, m)
        BY <1>6 DEF open
      <4> QED
        BY <3>1, <4>1, <4>2 DEF Evolves
    <3>3. all[h + (n + 1)] = Fc!Forward(e, all[h + n], e.inj[h + (n + 1)],
                                        e.open[h + (n + 1)], j)
      BY <1>7, <3>1 DEF Evolves
    <3> QED
      BY <1>1, <1>8, <3>1, <3>2, <3>3
  <2> HIDE DEF T
  <2>3. Nat \subseteq T
    BY <2>1, <2>2, SetInduction
  <2> QED
    BY <1>2, <2>3 DEF T
<1>14. all[h + k] = future[k]
  <2>1. k \in 0 .. m
    BY <1>2
  <2> QED
    BY <1>13, <2>1
<1>15. Fc!Primary(e, j, (h + k) - start) + all[h + k]
         = Fc!Primary(g, j, (h + k) - start) + future[k]
  BY <1>9, <1>14
<1>16. Fc!ForecastLiquid(g, plan, active, j)[k] = Fc!Predicted(e, j)[h + k]
  BY <1>10, <1>11, <1>15
<1> QED
  BY <1>16 DEF e, h

-----------------------------------------------------------------------------
(***************************************************************************)
(* A rule that is asked keeps its question, and answers it in one step.    *)
(***************************************************************************)
ForecastAnswer ==
  LET active == Fc!ActiveAtEnd(input.model, input.lookback)
  IN  [ active |-> active,
        idle |-> Fc!IdleAtEnd(input.model, input.lookback),
        liquid |-> [j \in Fc!Producers(input.model) |->
                      Fc!ForecastLiquid(input.model, input.plan, active, j)] ]

RollingAnswer ==
  LET windows == Sel!WindowBounds(input.n, input.breaks, input.length, input.step, input.least)
  IN  IF Sel!RollsWinner(input.mode, input.winner, input.wells, input.maxWells,
                         Cardinality(windows))
      THEN windows ELSE {}

ShiftAnswer ==
  [ shift |-> Sel!Shift(input.series, input.spread, input.persist),
    up |-> Sel!HitSteps(input.series, input.spread, 1),
    down |-> Sel!HitSteps(input.series, input.spread, -1) ]

ModelAsked ==
  /\ kind = "rolling" => input \in Refits /\ (done => result = RollingAnswer)
  /\ kind = "shift" => input \in Allocations /\ (done => result = ShiftAnswer)
  /\ kind = "forecast" => input \in Plans /\ (done => result = ForecastAnswer)

LEMMA AskedModel == ModelInit => ModelAsked
  BY Zenon DEF ModelInit, ModelAsked, Asked

LEMMA AnsweredModel == ModelAsked /\ [ModelNext]_questionVars => ModelAsked'
<1> SUFFICES ASSUME ModelAsked, [ModelNext]_questionVars PROVE ModelAsked'
  OBVIOUS
<1>1. CASE ForecastPlan
  <2>1. kind = "forecast" /\ kind' = kind /\ input' = input /\ result' = ForecastAnswer
    BY <1>1, Zenon DEF ForecastPlan, Open, Answer, ForecastAnswer
  <2>2. ForecastAnswer' = ForecastAnswer
    BY <2>1, Zenon DEF ForecastAnswer
  <2> QED
    BY <2>1, <2>2, Zenon DEF ModelAsked
<1>2. CASE RefitWindows
  <2>1. kind = "rolling" /\ kind' = kind /\ input' = input /\ result' = RollingAnswer
    BY <1>2, Zenon DEF RefitWindows, Open, Answer, RollingAnswer
  <2>2. RollingAnswer' = RollingAnswer
    BY <2>1, Zenon DEF RollingAnswer
  <2> QED
    BY <2>1, <2>2, Zenon DEF ModelAsked
<1>3. CASE DetectShift
  <2>1. kind = "shift" /\ kind' = kind /\ input' = input /\ result' = ShiftAnswer
    BY <1>3, Zenon DEF DetectShift, Open, Answer, ShiftAnswer
  <2>2. ShiftAnswer' = ShiftAnswer
    BY <2>1, Zenon DEF ShiftAnswer
  <2> QED
    BY <2>1, <2>2, Zenon DEF ModelAsked
<1>4. ASSUME \/ FitModels \/ ProfileData \/ VerifyFit \/ MeasureSpread \/ RunTournament
             \/ CompareScenarios \/ MakeTornado
      PROVE  ModelAsked'
  <2>1. kind' = kind /\ kind \notin {"rolling", "shift", "forecast"}
    BY <1>4, Zenon DEF FitModels, ProfileData, VerifyFit, MeasureSpread, RunTournament,
         CompareScenarios, MakeTornado, Open, Answer
  <2> QED
    BY <2>1, Zenon DEF ModelAsked
<1>5. CASE UNCHANGED questionVars
  BY <1>5, Zenon DEF questionVars, ModelAsked, RollingAnswer, ShiftAnswer, ForecastAnswer
<1> QED
  BY <1>1, <1>2, <1>3, <1>4, <1>5, Zenon DEF ModelNext

LEMMA AlwaysAskedModel == ModelSpec => []ModelAsked
  BY AskedModel, AnsweredModel, PTL DEF ModelSpec

\* A producer that goes on has produced.
LEMMA ActiveHasOpen ==
  ASSUME NEW g, NEW lookback
  PROVE  LET active == Fc!ActiveAtEnd(g, lookback)
         IN  /\ active \in [Fc!Producers(g) -> BOOLEAN]
             /\ \A j \in Fc!Producers(g) :
                  active[j] => \E n \in DOMAIN g.open : g.open[n][j]
BY Zenon DEF Fc!ActiveAtEnd

\* The goal of a forecast, and when the lemma above applies, under names.
AsLived(g, plan, active, j, k) ==
  Fc!ForecastLiquid(g, plan, active, j)[k] =
    IF active[j] THEN Fc!Predicted(Fc!Extended(g, plan, active), j)[Len(g.inj) + k] ELSE 0

CanGoOn(g, plan, active, j, k) ==
  /\ ModelOK(g) /\ plan \in Seq([Fc!Injectors(g) -> Nat])
  /\ active \in [Fc!Producers(g) -> BOOLEAN] /\ j \in Fc!Producers(g)
  /\ active[j] => \E n \in DOMAIN g.open : g.open[n][j]
  /\ k \in DOMAIN plan

LEMMA EveryPlanIsLived ==
  ASSUME NEW g, NEW plan, NEW active, NEW j, NEW k, CanGoOn(g, plan, active, j, k)
  PROVE  AsLived(g, plan, active, j, k)
<1>1. CASE active[j]
  <2>1. /\ ModelOK(g) /\ plan \in Seq([Fc!Injectors(g) -> Nat])
        /\ active \in [Fc!Producers(g) -> BOOLEAN] /\ j \in Fc!Producers(g)
        /\ \E n \in DOMAIN g.open : g.open[n][j]
        /\ k \in DOMAIN plan
    BY <1>1, Zenon DEF CanGoOn
  <2>2. Fc!ForecastLiquid(g, plan, active, j)[k]
          = Fc!Predicted(Fc!Extended(g, plan, active), j)[Len(g.inj) + k]
    BY <1>1, <2>1, ForecastIsLived, SMT
  <2> QED
    BY <1>1, <2>2 DEF AsLived
<1>2. CASE ~active[j]
  <2>1. k \in DOMAIN plan
    BY Zenon DEF CanGoOn
  <2>2. Fc!ForecastLiquid(g, plan, active, j)[k] = 0
    BY <1>2, <2>1, Zenon DEF Fc!ForecastLiquid
  <2> QED
    BY <1>2, <2>2 DEF AsLived
<1> QED
  BY <1>1, <1>2

LEMMA PlanIsLived ==
  ASSUME NEW in \in Plans, NEW j \in Fc!Producers(in.model), NEW k \in DOMAIN in.plan
  PROVE  AsLived(in.model, in.plan, Fc!ActiveAtEnd(in.model, in.lookback), j, k)
<1>1. ModelOK(in.model) /\ in.plan \in Seq([Fc!Injectors(in.model) -> Nat])
  BY PlansAssumption, Zenon DEF ModelOK
<1>2. CanGoOn(in.model, in.plan, Fc!ActiveAtEnd(in.model, in.lookback), j, k)
  BY <1>1, ActiveHasOpen, Zenon DEF CanGoOn
<1> QED
  BY <1>2, EveryPlanIsLived, Zenon

\* A forecast is what the model gives for the history with the plan lived after it,
\* for models, histories and plans of any size (forecast.py, 112-261).
THEOREM ForecastsContinue == ModelSpec => []ForecastContinues
<1>1. ASSUME ModelAsked PROVE ForecastContinues
  <2> SUFFICES ASSUME Answered("forecast"), NEW j \in Fc!Producers(input.model),
                      NEW n \in DOMAIN input.plan
               PROVE  result.liquid[j][n] =
                        IF result.active[j]
                        THEN Fc!Predicted(Fc!Extended(input.model, input.plan, result.active),
                                          j)[Len(input.model.inj) + n]
                        ELSE 0
    BY Zenon DEF ForecastContinues
  <2>1. input \in Plans /\ result = ForecastAnswer
    BY <1>1, Zenon DEF ModelAsked, Answered
  <2>2. /\ result.active = Fc!ActiveAtEnd(input.model, input.lookback)
        /\ result.liquid[j] = Fc!ForecastLiquid(input.model, input.plan, result.active, j)
    BY <2>1, Zenon DEF ForecastAnswer
  <2>3. AsLived(input.model, input.plan, result.active, j, n)
    BY <2>1, <2>2, PlanIsLived, Zenon
  <2> QED
    BY <2>2, <2>3, Zenon DEF AsLived
<1> QED
  BY <1>1, AlwaysAskedModel, PTL


\* What a refit must keep, and what a shift must be, for one question.
RefitKept(in, windows) ==
  /\ \A w \in windows : WindowKept(w, in.n, in.breaks, in.length, in.least)
  /\ in.step <= in.length => FewLeft(windows, in.n, in.breaks, in.least)

LEMMA RefitsAreKept ==
  ASSUME NEW in \in Refits
  PROVE  RefitKept(in, Sel!WindowBounds(in.n, in.breaks, in.length, in.step, in.least))
<1> DEFINE windows == Sel!WindowBounds(in.n, in.breaks, in.length, in.step, in.least)
<1>1. /\ in.n \in Nat /\ in.breaks \in SUBSET Nat /\ in.length \in Nat
      /\ in.step \in Nat \ {0} /\ in.least \in Nat \ {0}
  BY RefitsAssumption, Zenon
<1>2. ASSUME NEW w \in windows PROVE WindowKept(w, in.n, in.breaks, in.length, in.least)
  BY <1>1, WindowsKept, Zenon
<1>3. in.step <= in.length => FewLeft(windows, in.n, in.breaks, in.least)
  BY <1>1, FewAreLeft, Zenon
<1> HIDE DEF windows
<1>4. RefitKept(in, windows)
  BY <1>2, <1>3, Zenon DEF RefitKept
<1> QED
  BY <1>4 DEF windows

ShiftKept(in, up, down, shift) ==
  /\ \A t \in DOMAIN in.series :
       /\ t \in up <=> IsHit(in.series, in.spread, 1, t)
       /\ t \in down <=> IsHit(in.series, in.spread, -1, t)
  /\ shift.sign # 0 =>
       ShiftIs(in.series, in.persist, IF shift.sign = 1 THEN up ELSE down,
               shift.sign, shift.since)

LEMMA ShiftsAreKept ==
  ASSUME NEW in \in Allocations
  PROVE  ShiftKept(in, Sel!HitSteps(in.series, in.spread, 1),
                   Sel!HitSteps(in.series, in.spread, -1),
                   Sel!Shift(in.series, in.spread, in.persist))
<1> DEFINE up == Sel!HitSteps(in.series, in.spread, 1)
           down == Sel!HitSteps(in.series, in.spread, -1)
           shift == Sel!Shift(in.series, in.spread, in.persist)
           Is(sign, hits, since) == ShiftIs(in.series, in.persist, hits, sign, since)
<1>1. /\ in.series \in Seq(Nat) \ {<<>>} /\ in.spread \in Nat /\ in.persist \in Nat \ {0}
      /\ 1 \in {1, -1} /\ -1 \in {1, -1}
  BY AllocationsAssumption
<1>2. \A t \in DOMAIN in.series :
        /\ t \in up <=> IsHit(in.series, in.spread, 1, t)
        /\ t \in down <=> IsHit(in.series, in.spread, -1, t)
  BY <1>1, HitsAreSums, Zenon
<1>3. Sel!Shifts(in.series, in.spread, in.persist, 1) => Is(1, up, Sel!SmallestOf(up))
  BY <1>1, ShiftsAre, Zenon
<1>4. Sel!Shifts(in.series, in.spread, in.persist, -1) => Is(-1, down, Sel!SmallestOf(down))
  BY <1>1, ShiftsAre, Zenon
<1>5. \/ /\ Sel!Shifts(in.series, in.spread, in.persist, 1)
         /\ shift = [sign |-> 1, since |-> Sel!SmallestOf(up)]
      \/ /\ Sel!Shifts(in.series, in.spread, in.persist, -1)
         /\ shift = [sign |-> -1, since |-> Sel!SmallestOf(down)]
      \/ shift = [sign |-> 0, since |-> 0]
  BY DEF Sel!Shift, Sel!NoShift
<1> HIDE DEF up, down, shift
<1>6. shift.sign # 0 =>
        Is(shift.sign, IF shift.sign = 1 THEN up ELSE down, shift.since)
  <2> HIDE DEF Is
  <2> QED
    BY <1>3, <1>4, <1>5
<1>7. ShiftKept(in, up, down, shift)
  BY <1>2, <1>6, Zenon DEF ShiftKept
<1> QED
  BY <1>7 DEF up, down, shift

\* Windows keep to the breaks and leave few steps out; a window is a hit when the
\* deviations of some windows up to it add up above the limit; a shift is of a connected
\* pair whose last windows are hits, on its side, and dated by the first - for any number
\* of steps, breaks and windows (rolling.py, 84-98; change_detect.py, 53-98).
THEOREM ShiftsAreSound == ModelSpec => []ShiftSound
<1>1. ASSUME ModelAsked, Answered("rolling"), result # {}
      PROVE  RefitKept(input, result)
  <2>1. input \in Refits /\ result = RollingAnswer
    BY <1>1, Zenon DEF ModelAsked, Answered
  <2>2. result = Sel!WindowBounds(input.n, input.breaks, input.length, input.step, input.least)
    BY <1>1, <2>1, Zenon DEF RollingAnswer
  <2> QED
    BY <2>1, <2>2, RefitsAreKept, Zenon
<1>2. ASSUME ModelAsked, Answered("shift")
      PROVE  ShiftKept(input, result.up, result.down, result.shift)
  <2>1. input \in Allocations /\ result = ShiftAnswer
    BY <1>2, Zenon DEF ModelAsked, Answered
  <2>2. /\ result.up = Sel!HitSteps(input.series, input.spread, 1)
        /\ result.down = Sel!HitSteps(input.series, input.spread, -1)
        /\ result.shift = Sel!Shift(input.series, input.spread, input.persist)
    BY <2>1, Zenon DEF ShiftAnswer
  <2> QED
    BY <2>1, <2>2, ShiftsAreKept, Zenon
<1>3. ASSUME ModelAsked PROVE ShiftSound
  BY <1>1, <1>2, <1>3, Zenon DEF ShiftSound, RefitKept, FewLeft, WindowKept, ShiftKept, ShiftIs
<1> QED
  BY <1>3, AlwaysAskedModel, PTL
=============================================================================
