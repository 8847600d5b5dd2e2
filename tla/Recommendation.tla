--------------------------- MODULE Recommendation ---------------------------
(***************************************************************************)
(* The recommendation object of workflow/states.py: its transition table,  *)
(* the roles each action requires, and what each method does to the object.*)
(* A method that raises WorkflowError leaves the object alone, so a method *)
(* is a set of outcomes: empty when it refuses, one record when it accepts.*)
(*                                                                         *)
(* The hashes, the model version and the recommended rates are written     *)
(* once, by the constructor, and are left out.  The timestamp of an event, *)
(* of an implementation entry and of an evaluation record is the number of *)
(* the request that made it.                                               *)
(***************************************************************************)
EXTENDS Naturals, Sequences

CONSTANTS Users

Roles == {"viewer", "engineer", "reviewer", "approver", "operations", "admin"}

Badges == {"LOW", "HIGH"}       \* "HIGH" stands for every badge but LOW
NoSnapshot == "none"

States ==
  {"DRAFT", "REVIEWED", "APPROVED", "IMPLEMENTED", "EVALUATED", "REJECTED"}

\* Mutant: an approved recommendation can still be rejected.
TransitionsRejectLate ==
  { <<"DRAFT",       "review",    "REVIEWED">>,
    <<"REVIEWED",    "approve",   "APPROVED">>,
    <<"APPROVED",    "reject",    "REJECTED">>,
    <<"APPROVED",    "implement", "IMPLEMENTED">>,
    <<"IMPLEMENTED", "evaluate",  "EVALUATED">> }

Transitions ==
  { <<"DRAFT",       "review",    "REVIEWED">>,
    <<"REVIEWED",    "approve",   "APPROVED">>,
    <<"REVIEWED",    "reject",    "REJECTED">>,
    <<"DRAFT",       "reject",    "REJECTED">>,
    <<"APPROVED",    "implement", "IMPLEMENTED">>,
    <<"IMPLEMENTED", "evaluate",  "EVALUATED">> }

RequiredRole ==
  [ review    |-> {"reviewer", "admin"},
    approve   |-> {"approver", "admin"},
    reject    |-> {"reviewer", "approver", "admin"},
    implement |-> {"operations", "admin"},
    evaluate  |-> {"engineer", "reviewer", "admin"} ]

Actions == {"review", "approve", "reject", "implement", "evaluate"}

\* A user of the API and the role the request acts in.
Identity == [user : Users, role : Roles]

Event ==
  [ at : Nat, action : Actions, actor : Users, role : Roles,
    from : States, to : States ]

RecommendationType ==
  [ originator   : Users,
    confidence   : Badges,
    state        : States,
    history      : Seq(Event),
    snapshot     : Badges \cup {NoSnapshot},
    overridden   : BOOLEAN,
    byOriginator : BOOLEAN,
    implemented  : Nat,                \* 0: no rates entered yet
    evaluations  : SUBSET Nat ]

Draft(p, badge) ==
  [ originator   |-> p.user,
    confidence   |-> badge,
    state        |-> "DRAFT",
    history      |-> << >>,
    snapshot     |-> NoSnapshot,
    overridden   |-> FALSE,
    byOriginator |-> FALSE,
    implemented  |-> 0,
    evaluations  |-> {} ]

-----------------------------------------------------------------------------
\* The states _check lets the acting role reach: none when it raises.
Allowed(rec, action, p) ==
  { to \in States : /\ <<rec.state, action, to>> \in Transitions
                    /\ p.role \in RequiredRole[action] }

Logged(rec, at, action, p, to) ==
  [ rec EXCEPT
      !.history = Append(@, [ at |-> at, action |-> action, actor |-> p.user,
                              role |-> p.role, from |-> rec.state, to |-> to ]),
      !.state   = to ]

Review(rec, at, p) ==
  { Logged(rec, at, "review", p, to) : to \in Allowed(rec, "review", p) }

Reject(rec, at, p) ==
  { Logged(rec, at, "reject", p, to) : to \in Allowed(rec, "reject", p) }

\* Mutant: the separation policy is not looked at.
MayApproveOwn(rec, p, policy, reason) == rec.confidence = "LOW" => reason

\* Under the "enforce" policy the originator cannot approve; a LOW badge needs
\* a stated reason.
MayApprove(rec, p, policy, reason) ==
  /\ ~(p.user = rec.originator /\ policy = "enforce")
  /\ rec.confidence = "LOW" => reason

\* Mutant: the approval is logged and nothing is frozen.
ApproveUnfrozen(rec, at, p, policy, reason) ==
  { [ Logged(rec, at, "approve", p, to) EXCEPT
        !.byOriginator = @ \/ p.user = rec.originator,
        !.overridden   = @ \/ rec.confidence = "LOW" ] :
      to \in { s \in Allowed(rec, "approve", p) :
                 MayApprove(rec, p, policy, reason) } }

Approve(rec, at, p, policy, reason) ==
  { [ Logged(rec, at, "approve", p, to) EXCEPT
        !.byOriginator = @ \/ p.user = rec.originator,
        !.overridden   = @ \/ rec.confidence = "LOW",
        !.snapshot     = rec.confidence ] :
      to \in { s \in Allowed(rec, "approve", p) :
                 MayApprove(rec, p, policy, reason) } }

Implement(rec, at, p) ==
  { [Logged(rec, at, "implement", p, to) EXCEPT !.implemented = at] :
      to \in Allowed(rec, "implement", p) }

Evaluate(rec, at, p) ==
  { [Logged(rec, at, "evaluate", p, to) EXCEPT !.evaluations = @ \cup {at}] :
      to \in Allowed(rec, "evaluate", p) }

-----------------------------------------------------------------------------
\* What the states mean: approval has happened, operations has entered rates.
ApprovedStates    == {"APPROVED", "IMPLEMENTED", "EVALUATED"}
ImplementedStates == {"IMPLEMENTED", "EVALUATED"}

\* The history is a chain of legal transitions from DRAFT to the present
\* state, each made in a role that may make it.
LegalHistory(rec) ==
  LET h == rec.history IN
  /\ \A i \in 1..Len(h) :
       /\ <<h[i].from, h[i].action, h[i].to>> \in Transitions
       /\ h[i].role \in RequiredRole[h[i].action]
       /\ h[i].from = IF i = 1 THEN "DRAFT" ELSE h[i - 1].to
  /\ rec.state = IF h = << >> THEN "DRAFT" ELSE h[Len(h)].to

\* Approval, and only approval, freezes a snapshot, of the badge it was given.
SnapshotFrozen(rec) ==
  /\ rec.state \in ApprovedStates => rec.snapshot = rec.confidence
  /\ rec.state \notin ApprovedStates => rec.snapshot = NoSnapshot
  /\ rec.state \in ApprovedStates <=>
       \E i \in 1..Len(rec.history) : rec.history[i].action = "approve"

\* A self-approval is flagged and nothing else is; a LOW badge is approved with
\* an override reason only.
ApprovalGated(rec) ==
  /\ rec.byOriginator <=>
       \E i \in 1..Len(rec.history) :
         /\ rec.history[i].action = "approve"
         /\ rec.history[i].actor = rec.originator
  /\ rec.overridden <=> rec.state \in ApprovedStates /\ rec.confidence = "LOW"

\* Rates and evaluations are there exactly in the states that announce them.
EntriesMatchState(rec) ==
  /\ rec.implemented # 0 <=> rec.state \in ImplementedStates
  /\ rec.evaluations # {} <=> rec.state = "EVALUATED"

Consistent(rec) ==
  /\ LegalHistory(rec)
  /\ SnapshotFrozen(rec)
  /\ ApprovalGated(rec)
  /\ EntriesMatchState(rec)
=============================================================================
