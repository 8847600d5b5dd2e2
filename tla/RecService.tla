----------------------------- MODULE RecService -----------------------------
(***************************************************************************)
(* The recommendation handlers of api/service.py over the project store.   *)
(* FastAPI runs them on a pool of threads that share nothing but the       *)
(* store, and every store call opens and commits a transaction of its own, *)
(* so a handler is interrupted between any two of them: it loads the row,  *)
(* reads the policy, applies the method of states.py to its private copy,  *)
(* writes the whole row back, inserts the audit entry and starts the       *)
(* webhook threads.                                                        *)
(***************************************************************************)
EXTENDS Recommendation

CONSTANTS
  Recs,         \* identifiers of recommendations
  NoRow,        \* no row of that identifier in the table
  NoRec,        \* what a settings request is about
  Threads,      \* threads of the server's pool; one: requests one at a time
  Principals,   \* the authenticated identities: user and acting role
  Scoped,       \* users who see the asset the recommendations belong to
  Workload,     \* bound: the kinds the n-th request of a behaviour may be of
  MaxRequests,  \* bound: requests accepted in a behaviour
  MaxFaults     \* bound: store errors and process crashes in a behaviour

ASSUME ServiceAssumption ==
  /\ Principals \subseteq Identity
  /\ Scoped \subseteq Users
  /\ NoRow \notin RecommendationType
  /\ NoRec \notin Recs
  /\ MaxRequests \in Nat
  /\ MaxFaults \in Nat

VARIABLES
  row,          \* table recommendations: id -> payload
  policy,       \* setting separation_policy
  audit,        \* table audit
  validation,   \* table validation: the tier-3 evaluations
  targets,      \* rows in the surveillance system's target table (external)
  writebacks,   \* table writebacks
  notified,     \* requests whose webhook was dispatched
  thr,          \* what each server thread is doing
  requests,     \* requests accepted so far; the next one's timestamp
  faults        \* store errors and crashes so far

store == <<row, policy, audit, validation, targets, writebacks, notified>>
vars == <<store, thr, requests, faults>>

Idle == [pc |-> "idle"]

TransitionKinds == {"review", "approve", "reject", "implement"}
Kinds == TransitionKinds \cup {"evaluate", "create", "writeback", "policy"}

\* "decided": the method was applied to the copy; "saved": the first write of the
\* handler is committed; "counted": the validation or writebacks row is inserted.
Steps == {"loaded", "decided", "saved", "counted", "audited"}

\* given: the optional field that approve (override_reason) and implement
\* (actual_rates) may insist on is in the body.
Request ==
  [ pc : Steps, kind : Kinds, p : Identity, rid : Recs \cup {NoRec},
    given : BOOLEAN, at : Nat \ {0}, rec : RecommendationType \cup {NoRow} ]

\* All but a policy change are about a recommendation; what was loaded is one.
WellFormed(q) ==
  /\ q.kind # "policy" => q.rid \in Recs
  /\ q.pc \in {"loaded", "decided"} =>
       q.kind # "policy" /\ q.rec \in RecommendationType

AuditEntry ==
  [ at : Nat, action : Kinds, user : Users, role : Roles,
    rid : Recs \cup {NoRec} ]

NoApprover == ""     \* approved_by of a target when no approve event is found

Target == [at : Nat, rid : Recs, approvedBy : Users \cup {NoApprover}]

TypeOK ==
  /\ row \in [Recs -> RecommendationType \cup {NoRow}]
  /\ policy \in {"log", "enforce"}
  /\ audit \subseteq AuditEntry
  /\ validation \subseteq Recs \X Nat
  /\ targets \subseteq Target
  /\ writebacks \subseteq Nat
  /\ notified \subseteq Nat
  /\ thr \in [Threads -> Request \cup {Idle}]
  /\ \A t \in Threads : thr[t] # Idle => WellFormed(thr[t])
  /\ requests \in Nat
  /\ faults \in Nat

Init ==
  /\ row = [r \in Recs |-> NoRow]
  /\ policy \in {"log", "enforce"}
  /\ audit = {} /\ validation = {}
  /\ targets = {} /\ writebacks = {} /\ notified = {}
  /\ thr = [t \in Threads |-> Idle]
  /\ requests = 0
  /\ faults = 0

-----------------------------------------------------------------------------
\* auth.require: the acting role is one of those named, or admin.
Require(p, roles) == p.role \in roles \cup {"admin"}

\* The gate each handler opens with; transition leaves it to states.py.
Gate(kind, p) ==
  CASE kind = "create"    -> Require(p, {"engineer", "reviewer"})
    [] kind = "evaluate"  -> Require(p, {"engineer", "reviewer", "operations"})
    [] kind = "writeback" -> Require(p, {"approver"})
    [] kind = "policy"    -> Require(p, {})
    [] OTHER              -> TRUE

At(t, pc) == thr[t].pc = pc

Goto(t, pc) == thr' = [thr EXCEPT ![t].pc = pc]

Finish(t) == thr' = [thr EXCEPT ![t] = Idle]

\* Thread t takes up a request and has made its first store call.
Accept(t, pc, kind, p, rid, given, rec) ==
  /\ At(t, "idle")
  /\ requests < MaxRequests
  /\ kind \in Workload[requests + 1]
  /\ Gate(kind, p)
  /\ requests' = requests + 1
  /\ thr' = [thr EXCEPT ![t] =
       [ pc |-> pc, kind |-> kind, p |-> p, rid |-> rid, given |-> given,
         at |-> requests + 1, rec |-> rec ]]

\* create_recommendation: the row is written under a fresh identifier.
Create(t) ==
  \E p \in Principals, r \in Recs, badge \in Badges :
    /\ p.user \in Scoped
    /\ row[r] = NoRow
    /\ Accept(t, "saved", "create", p, r, FALSE, NoRow)
    /\ row' = [row EXCEPT ![r] = Draft(p, badge)]
    /\ UNCHANGED <<policy, audit, validation, targets, writebacks, notified,
                   faults>>

\* set_separation_policy.
SetPolicy(t) ==
  \E p \in Principals, new \in {"log", "enforce"} :
    /\ Accept(t, "saved", "policy", p, NoRec, FALSE, NoRow)
    /\ policy' = new
    /\ UNCHANGED <<row, audit, validation, targets, writebacks, notified,
                   faults>>

\* _load_rec and _project: transition, add_evaluation and writeback work on the
\* copy of the row read here.
Load(t) ==
  \E p \in Principals, r \in Recs, given \in BOOLEAN,
     kind \in TransitionKinds \cup {"evaluate", "writeback"} :
    /\ row[r] # NoRow
    /\ p.user \in Scoped
    /\ given => kind \in {"approve", "implement"}
    /\ Accept(t, "loaded", kind, p, r, given, row[r])
    /\ UNCHANGED <<store, faults>>

\* What the in-memory call makes of the copy under the policy just read; {} when
\* it raises.
Outcomes(q, separation) ==
  CASE q.kind = "review"    -> Review(q.rec, q.at, q.p)
    [] q.kind = "approve"   -> Approve(q.rec, q.at, q.p, separation, q.given)
    [] q.kind = "reject"    -> Reject(q.rec, q.at, q.p)
    [] q.kind = "implement" -> IF q.given THEN Implement(q.rec, q.at, q.p)
                                          ELSE {}
    [] q.kind = "evaluate"  ->
         CASE q.rec.state = "IMPLEMENTED" -> Evaluate(q.rec, q.at, q.p)
           [] q.rec.state = "EVALUATED"   ->
                { [q.rec EXCEPT !.evaluations = @ \cup {q.at}] }
           [] OTHER -> {}
    [] OTHER -> {}

\* Mutant: the configured default is used and the setting ignored.
DecideByDefault(t) ==
  /\ At(t, "loaded")
  /\ \E new \in Outcomes(thr[t], "log") :
       thr' = [thr EXCEPT ![t].pc = "decided", ![t].rec = new]
  /\ UNCHANGED <<store, requests, faults>>

\* transition and add_evaluation, up to the save.
Decide(t) ==
  /\ At(t, "loaded")
  /\ \E new \in Outcomes(thr[t], policy) :
       thr' = [thr EXCEPT ![t].pc = "decided", ![t].rec = new]
  /\ UNCHANGED <<store, requests, faults>>

\* WorkflowError, ConflictError, or the surveillance system refuses the write:
\* nothing was changed.
Refuse(t) ==
  /\ At(t, "loaded")
  /\ Outcomes(thr[t], policy) = {}
  /\ Finish(t)
  /\ UNCHANGED <<store, requests, faults>>

\* _save_rec: INSERT OR REPLACE of the whole row, whatever it holds by now.
Save(t) ==
  /\ At(t, "decided")
  /\ row' = [row EXCEPT ![thr[t].rid] = thr[t].rec]
  /\ Goto(t, "saved")
  /\ UNCHANGED <<policy, audit, validation, targets, writebacks, notified,
                 requests, faults>>

\* Mutant: only the first evaluation of a recommendation is counted.
CountFirstEvaluation(t) ==
  /\ At(t, "saved")
  /\ thr[t].kind = "evaluate"
  /\ validation' = IF thr[t].rec.evaluations = {thr[t].at}
                     THEN validation \cup {<<thr[t].rid, thr[t].at>>}
                     ELSE validation
  /\ Goto(t, "counted")
  /\ UNCHANGED <<row, policy, audit, targets, writebacks, notified,
                 requests, faults>>

\* validation.add_evaluation.
CountEvaluation(t) ==
  /\ At(t, "saved")
  /\ thr[t].kind = "evaluate"
  /\ validation' = validation \cup {<<thr[t].rid, thr[t].at>>}
  /\ Goto(t, "counted")
  /\ UNCHANGED <<row, policy, audit, targets, writebacks, notified,
                 requests, faults>>

\* Mutant: the last event is taken for the approval.
LastActor(rec) == { rec.history[i].actor : i \in {Len(rec.history)} \ {0} }

LastApprover(rec) ==
  { rec.history[i].actor :
      i \in { j \in 1..Len(rec.history) :
                /\ rec.history[j].action = "approve"
                /\ \A k \in (j + 1)..Len(rec.history) :
                     rec.history[k].action # "approve" } }

\* build_rows: approved_by is the actor of the last approve event, or "".
ApprovedBy(rec) ==
  IF LastApprover(rec) = {} THEN {NoApprover} ELSE LastApprover(rec)

\* Mutant: the state is not checked.
WriteTargetsAnyState(t) ==
  LET q == thr[t] IN
  /\ At(t, "loaded")
  /\ q.kind = "writeback"
  /\ \E who \in ApprovedBy(q.rec) :
       targets' = targets \cup
         { [at |-> q.at, rid |-> q.rid, approvedBy |-> who] }
  /\ Goto(t, "saved")
  /\ UNCHANGED <<row, policy, audit, validation, writebacks, notified,
                 requests, faults>>

\* writeback: the state was read with the row; the rows go to the surveillance
\* system in one transaction (or one append) of that system.
WriteTargets(t) ==
  LET q == thr[t] IN
  /\ At(t, "loaded")
  /\ q.kind = "writeback"
  /\ q.rec.state \in ApprovedStates
  /\ \E who \in ApprovedBy(q.rec) :
       targets' = targets \cup
         { [at |-> q.at, rid |-> q.rid, approvedBy |-> who] }
  /\ Goto(t, "saved")
  /\ UNCHANGED <<row, policy, audit, validation, writebacks, notified,
                 requests, faults>>

RecordWriteback(t) ==
  /\ At(t, "saved")
  /\ thr[t].kind = "writeback"
  /\ writebacks' = writebacks \cup {thr[t].at}
  /\ Goto(t, "counted")
  /\ UNCHANGED <<row, policy, audit, validation, targets, notified,
                 requests, faults>>

\* Mutant: a rejection is not logged.
AuditNoReject(t) ==
  LET q == thr[t] IN
  /\ ~At(t, "idle")
  /\ At(t, IF q.kind \in {"evaluate", "writeback"} THEN "counted" ELSE "saved")
  /\ audit' = IF q.kind = "reject" THEN audit
              ELSE audit \cup
                { [ at |-> q.at, action |-> q.kind, user |-> q.p.user,
                    role |-> q.p.role, rid |-> q.rid ] }
  /\ IF q.kind \in {"create", "policy"} THEN Finish(t) ELSE Goto(t, "audited")
  /\ UNCHANGED <<row, policy, validation, targets, writebacks, notified,
                 requests, faults>>

\* Every handler logs after its last write to the store.
Audit(t) ==
  LET q == thr[t] IN
  /\ ~At(t, "idle")
  /\ At(t, IF q.kind \in {"evaluate", "writeback"} THEN "counted" ELSE "saved")
  /\ audit' = audit \cup
       { [ at |-> q.at, action |-> q.kind, user |-> q.p.user,
           role |-> q.p.role, rid |-> q.rid ] }
  /\ IF q.kind \in {"create", "policy"} THEN Finish(t) ELSE Goto(t, "audited")
  /\ UNCHANGED <<row, policy, validation, targets, writebacks, notified,
                 requests, faults>>

\* Mutant: the webhook goes out before the audit entry is written.
DispatchEarly(t) ==
  /\ thr[t].pc \in {"saved", "audited"}
  /\ notified' = notified \cup {thr[t].at}
  /\ IF At(t, "audited") THEN Finish(t) ELSE UNCHANGED thr
  /\ UNCHANGED <<row, policy, audit, validation, targets, writebacks,
                 requests, faults>>

\* dispatch_webhook, then the answer.
Dispatch(t) ==
  /\ At(t, "audited")
  /\ notified' = notified \cup {thr[t].at}
  /\ Finish(t)
  /\ UNCHANGED <<row, policy, audit, validation, targets, writebacks,
                 requests, faults>>

\* A store call raises (locked file, lost connection): the handler ends there
\* and what it committed stays.
Fail(t) ==
  /\ ~At(t, "idle")
  /\ faults < MaxFaults
  /\ faults' = faults + 1
  /\ Finish(t)
  /\ UNCHANGED <<store, requests>>

\* The API process dies and is restarted.
Crash ==
  /\ \E t \in Threads : ~At(t, "idle")
  /\ faults < MaxFaults
  /\ faults' = faults + 1
  /\ thr' = [t \in Threads |-> Idle]
  /\ UNCHANGED <<store, requests>>

\* No request arrives any more.
Quiet ==
  /\ requests = MaxRequests
  /\ \A t \in Threads : At(t, "idle")
  /\ UNCHANGED vars

Handle(t) ==
  \/ Create(t) \/ SetPolicy(t) \/ Load(t)
  \/ Decide(t) \/ Refuse(t) \/ Save(t)
  \/ CountEvaluation(t) \/ WriteTargets(t) \/ RecordWriteback(t)
  \/ Audit(t) \/ Dispatch(t) \/ Fail(t)

Next == (\E t \in Threads : Handle(t)) \/ Crash \/ Quiet

Spec == Init /\ [][Next]_vars

-----------------------------------------------------------------------------
Exists(r) == row[r] # NoRow

\* A request that has committed something and not reached its audit entry yet.
Unaudited(at) ==
  \E t \in Threads : /\ thr[t].pc \in {"saved", "counted"}
                     /\ thr[t].at = at

\* However the handlers interleave, and wherever they fail, the table holds only
\* recommendations the lifecycle can produce: a stale save replaces one
\* consistent row by another (service.py, lines 980-1000).
RowConsistent == \A r \in Recs : Exists(r) => Consistent(row[r])

\* The copies the handlers work on are consistent too: with RowConsistent, what
\* every step relies on.
CopiesConsistent ==
  \A t \in Threads :
    thr[t].pc \in {"loaded", "decided"} => Consistent(thr[t].rec)

\* Without store errors every event in a recommendation's history is in the audit
\* log with the same user, role and action, or its handler is about to log it
\* (service.py, lines 1000-1001).
AuditComplete ==
  faults = 0 =>
    \A r \in Recs : Exists(r) =>
      \A i \in 1..Len(row[r].history) :
        LET e == row[r].history[i] IN
        \/ [ at |-> e.at, action |-> e.action, user |-> e.actor,
             role |-> e.role, rid |-> r ] \in audit
        \/ Unaudited(e.at)

\* Without store errors no stored evaluation is missing from the calibration
\* table, except while its handler is between the two writes (lines 1059-1060).
EvaluationsCounted ==
  faults = 0 =>
    \A r \in Recs : Exists(r) =>
      \A n \in row[r].evaluations : <<r, n>> \in validation \/ Unaudited(n)

\* Every row in the surveillance system names a user whose approval of that very
\* recommendation is logged, or just committed: also when the row it was built
\* from has been overwritten meanwhile (lines 702-712, writeback.py line 56).
TargetsNameApprover ==
  \A w \in targets :
    /\ w.approvedBy # NoApprover
    /\ faults = 0 =>
         \/ \E a \in audit : /\ a.action = "approve"
                             /\ a.rid = w.rid
                             /\ a.user = w.approvedBy
         \/ \E t \in Threads : /\ thr[t].pc = "saved"
                               /\ thr[t].kind = "approve"
                               /\ thr[t].rid = w.rid
                               /\ thr[t].p.user = w.approvedBy

\* A subscriber hears only of what is committed in full: the audit entry and,
\* for an evaluation or a writeback, every other row the handler writes.
NotifiedIsCommitted ==
  \A n \in notified :
    \E a \in audit :
      /\ a.at = n
      /\ a.action = "evaluate" => <<a.rid, n>> \in validation
      /\ a.action = "writeback" =>
           n \in writebacks /\ \E w \in targets : w.at = n /\ w.rid = a.rid

-----------------------------------------------------------------------------
\* With one thread the service implements the lifecycle of states.py: the save of
\* a handler is the action of the lifecycle, every other step a stutter.
Lifecycle == INSTANCE RecLifecycle WITH Times <- 1..MaxRequests

\* Served one at a time, requests act on the recommendations as the methods of
\* states.py do, atomically and under the policy in force.
ImplementsLifecycle == Lifecycle!Spec

\* With one thread every row in the surveillance system belongs to a
\* recommendation that is approved and snapshotted now, by the user it names
\* (writeback.py, lines 4-6).
TargetsTraceable ==
  \A w \in targets :
    /\ Exists(w.rid)
    /\ row[w.rid].state \in ApprovedStates
    /\ row[w.rid].snapshot # NoSnapshot
    /\ w.approvedBy \in LastApprover(row[w.rid])

\* With one thread the calibration table counts only evaluations that are still
\* on their recommendation (lines 1056-1060).
CalibrationHonest ==
  \A v \in validation : Exists(v[1]) /\ v[2] \in row[v[1]].evaluations

\* With one thread what the handlers write to the other tables goes with the rows.
TablesTraceable == TargetsTraceable /\ CalibrationHonest

\* With one thread an approval by the originator is stored only while the policy
\* is "log" (states.py, lines 156-159; the policy is read at line 983).
SeparationEnforced ==
  [][ \A r \in Recs :
        (Exists(r) /\ ~row[r].byOriginator /\ row'[r].byOriginator)
          => policy = "log" ]_vars

\* An approval that has been logged is never undone: "approving freezes ...
\* (immutable snapshot)" (states.py, lines 8-9).
ApprovalNotUndone ==
  \A a \in audit : a.action = "approve" => row[a.rid].state \in ApprovedStates

\* "Every load, run, override, approval and implementation entry is logged"
\* (audit.py, lines 1-2).
ApprovalLogged ==
  \A r \in Recs : Exists(r) =>
    \A i \in 1..Len(row[r].history) :
      LET e == row[r].history[i] IN
      e.action \in {"approve", "implement"} =>
        (\E a \in audit : a.at = e.at) \/ Unaudited(e.at)
=============================================================================
