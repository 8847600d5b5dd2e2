---------------------------- MODULE RecLifecycle ----------------------------
(***************************************************************************)
(* What workflow/states.py promises of the recommendations a store keeps:  *)
(* each is created as a draft and then only moves along the transition     *)
(* table, one action at a time, under the separation policy in force at    *)
(* that moment.  There are no requests here and nothing is in flight: the  *)
(* service implements this specification when it serves one request at a   *)
(* time (RecService).                                                      *)
(***************************************************************************)
EXTENDS Recommendation

CONSTANTS Recs, NoRow, Principals, Times

VARIABLES row,      \* the recommendations table
          policy    \* the separation_policy setting

vars == <<row, policy>>

ASSUME LifecycleAssumption ==
  /\ Principals \subseteq Identity
  /\ NoRow \notin RecommendationType
  /\ Times \subseteq Nat \ {0}

Exists(r) == row[r] # NoRow

TypeOK ==
  /\ row \in [Recs -> RecommendationType \cup {NoRow}]
  /\ policy \in {"log", "enforce"}

Init ==
  /\ row = [r \in Recs |-> NoRow]
  /\ policy \in {"log", "enforce"}

-----------------------------------------------------------------------------
Create(r) ==
  /\ ~Exists(r)
  /\ \E p \in Principals, badge \in Badges :
       /\ p.role \in {"engineer", "reviewer", "admin"}
       /\ row' = [row EXCEPT ![r] = Draft(p, badge)]
  /\ UNCHANGED policy

\* The outcomes of one method call on recommendation r.
Outcomes(rec, at, p) ==
  Review(rec, at, p)
    \cup (UNION { Approve(rec, at, p, policy, reason) : reason \in BOOLEAN })
    \cup Reject(rec, at, p)
    \cup Implement(rec, at, p)
    \cup Evaluate(rec, at, p)

Advance(r) ==
  /\ Exists(r)
  /\ \E p \in Principals, at \in Times :
       \E new \in Outcomes(row[r], at, p) : row' = [row EXCEPT ![r] = new]
  /\ UNCHANGED policy

\* Later evaluations (the six-month one, a correction) are appended.
EvaluateAgain(r) ==
  /\ Exists(r)
  /\ row[r].state = "EVALUATED"
  /\ \E at \in Times : row' = [row EXCEPT ![r].evaluations = @ \cup {at}]
  /\ UNCHANGED policy

SetPolicy ==
  /\ policy' \in {"log", "enforce"}
  /\ UNCHANGED row

Next ==
  \/ \E r \in Recs : Create(r) \/ Advance(r) \/ EvaluateAgain(r)
  \/ SetPolicy

Spec == Init /\ [][Next]_vars

-----------------------------------------------------------------------------
\* Every stored recommendation is one the lifecycle can produce: a legal
\* history that ends in its state, with the snapshot, flags and entries that
\* belong to that state (the rules of states.py, lines 6-12).
RowConsistent == \A r \in Recs : Exists(r) => Consistent(row[r])

\* The event log of r only grows at its end; its originator and badge are fixed.
HistoryKept(r) ==
  Exists(r) =>
    LET old == row[r]
        new == row'[r]
    IN  /\ new # NoRow
        /\ new.originator = old.originator
        /\ new.confidence = old.confidence
        /\ Len(old.history) <= Len(new.history)
        /\ \A i \in 1..Len(old.history) : new.history[i] = old.history[i]

\* "Approving freezes ... (immutable snapshot)": an approved recommendation keeps
\* its snapshot, its override and its self-approval flag for ever, and the rates
\* operations entered are never replaced.
ApprovalKept(r) ==
  (Exists(r) /\ row[r].state \in ApprovedStates) =>
    LET old == row[r]
        new == row'[r]
    IN  /\ new # NoRow
        /\ new.state \in ApprovedStates
        /\ new.snapshot = old.snapshot
        /\ new.overridden = old.overridden
        /\ new.byOriginator = old.byOriginator
        /\ old.implemented # 0 => new.implemented = old.implemented
        /\ old.evaluations \subseteq new.evaluations

\* "Every action logs actor and acting_role" (states.py, line 11): no action
\* drops or rewrites what an earlier one logged.
HistoryAppendOnly == [][\A r \in Recs : HistoryKept(r)]_vars

\* No later action undoes an approval, loses an implementation entry or loses an
\* evaluation (states.py, lines 8-10).
SnapshotImmutable == [][\A r \in Recs : ApprovalKept(r)]_vars
=============================================================================
