-------------------------- MODULE RecServiceProofs --------------------------
(***************************************************************************)
(* Theorems about the handlers: however many threads interleave, wherever  *)
(* they fail, the store is well typed and holds consistent recommendations *)
(* only; with one thread the handlers implement the lifecycle.             *)
(***************************************************************************)
EXTENDS RecService, RecommendationProofs

\* A request in progress, as far as the proofs look at it.
LEMMA BusyThread ==
  ASSUME TypeOK, NEW t \in Threads, thr[t].pc # "idle"
  PROVE  thr[t] \in Request /\ WellFormed(thr[t])
<1>1. thr[t] # Idle
  BY DEF Idle
<1> QED
  BY <1>1 DEF TypeOK

\* Moving one thread on, or letting it go, keeps all threads well formed.
LEMMA ThreadMoves ==
  ASSUME TypeOK, NEW t \in Threads, NEW q \in Request \cup {Idle},
         q # Idle => WellFormed(q),
         thr' = [thr EXCEPT ![t] = q]
  PROVE  /\ thr' \in [Threads -> Request \cup {Idle}]
         /\ \A u \in Threads : thr'[u] # Idle => WellFormed(thr'[u])
BY DEF TypeOK

\* A request that moves past its save keeps its form.
LEMMA GotoMoves ==
  ASSUME TypeOK, NEW t \in Threads, thr[t].pc # "idle",
         NEW pc \in {"saved", "counted", "audited"}, Goto(t, pc)
  PROVE  /\ thr' \in [Threads -> Request \cup {Idle}]
         /\ \A u \in Threads : thr'[u] # Idle => WellFormed(thr'[u])
<1> DEFINE q == [thr[t] EXCEPT !.pc = pc]
<1>1. thr[t] \in Request /\ WellFormed(thr[t])
  BY BusyThread
<1>2. q \in Request
  BY <1>1 DEF Request, Steps
<1>3. WellFormed(q)
  BY <1>1 DEF Request, WellFormed
<1>4. thr' = [thr EXCEPT ![t] = q]
  BY DEF Goto
<1> HIDE DEF q
<1> QED
  BY <1>2, <1>3, <1>4, ThreadMoves

\* Accepting a request makes a well-formed one.
LEMMA AcceptMoves ==
  ASSUME TypeOK, NEW t \in Threads,
         NEW pc \in {"loaded", "saved"}, NEW kind \in Kinds,
         NEW p \in Principals, NEW rid \in Recs \cup {NoRec},
         NEW given \in BOOLEAN, NEW rec \in RecommendationType \cup {NoRow},
         kind # "policy" => rid \in Recs,
         pc = "loaded" => kind # "policy" /\ rec \in RecommendationType,
         Accept(t, pc, kind, p, rid, given, rec)
  PROVE  /\ thr' \in [Threads -> Request \cup {Idle}]
         /\ \A u \in Threads : thr'[u] # Idle => WellFormed(thr'[u])
         /\ requests' \in Nat
<1> DEFINE q == [ pc |-> pc, kind |-> kind, p |-> p, rid |-> rid,
                  given |-> given, at |-> requests + 1, rec |-> rec ]
<1>1. requests + 1 \in Nat \ {0}
  BY DEF TypeOK
<1>2. q \in Request
  BY <1>1, ServiceAssumption DEF Request, Steps
<1>3. WellFormed(q)
  BY DEF WellFormed
<1>4. thr' = [thr EXCEPT ![t] = q] /\ requests' = requests + 1
  BY DEF Accept
<1> HIDE DEF q
<1> QED
  BY <1>1, <1>2, <1>3, <1>4, ThreadMoves

\* What a handler computes in memory is a recommendation, and a consistent one
\* when its copy was.
LEMMA DecisionConsistent ==
  ASSUME NEW q \in Request, q.rec \in RecommendationType, NEW separation,
         NEW new \in Outcomes(q, separation)
  PROVE  /\ new \in RecommendationType
         /\ Consistent(q.rec) => Consistent(new)
<1>1. /\ q.at \in Nat \ {0} /\ q.p \in Identity /\ q.given \in BOOLEAN
      /\ q.kind \in Kinds
  BY DEF Request
<1>2. CASE new \in Review(q.rec, q.at, q.p)
                     \cup Approve(q.rec, q.at, q.p, separation, q.given)
                     \cup Reject(q.rec, q.at, q.p)
                     \cup Implement(q.rec, q.at, q.p)
                     \cup Evaluate(q.rec, q.at, q.p)
  <2>1. StepOf(new, q.rec, q.at, q.p)
    BY <1>1, <1>2, OutcomeStep
  <2> QED
    BY <1>1, <2>1, StepConsistent DEF StepOf, StepBy
<1>3. CASE /\ q.rec.state = "EVALUATED"
           /\ new = [q.rec EXCEPT !.evaluations = @ \cup {q.at}]
  <2>1. new \in RecommendationType
    BY <1>1, <1>3 DEF RecommendationType
  <2> QED
    BY <1>1, <1>3, <2>1, EvaluateAgainConsistent
<1> QED
  BY <1>1, <1>2, <1>3 DEF Outcomes, Kinds, TransitionKinds

-----------------------------------------------------------------------------
\* The store and the threads are well typed, whatever interleaves and fails.
THEOREM ServiceType == Spec => []TypeOK
<1>1. Init => TypeOK
  BY DEF Init, TypeOK
<1>2. TypeOK /\ [Next]_vars => TypeOK'
  <2> SUFFICES ASSUME TypeOK, [Next]_vars
               PROVE  TypeOK'
    OBVIOUS
  <2>1. ASSUME NEW t \in Threads, Create(t)
        PROVE  TypeOK'
    <3>1. PICK p \in Principals, r \in Recs, badge \in Badges :
            /\ Accept(t, "saved", "create", p, r, FALSE, NoRow)
            /\ row' = [row EXCEPT ![r] = Draft(p, badge)]
            /\ UNCHANGED <<policy, audit, validation, targets, writebacks,
                           notified, faults>>
      BY <2>1 DEF Create
    <3>2. Draft(p, badge) \in RecommendationType
      BY DraftConsistent, ServiceAssumption
    <3>3. row' \in [Recs -> RecommendationType \cup {NoRow}]
      BY <3>1, <3>2 DEF TypeOK
    <3>4. /\ thr' \in [Threads -> Request \cup {Idle}]
          /\ \A u \in Threads : thr'[u] # Idle => WellFormed(thr'[u])
          /\ requests' \in Nat
      BY <3>1, AcceptMoves DEF Kinds
    <3> QED
      BY <3>1, <3>3, <3>4 DEF TypeOK, WellFormed
  <2>2. ASSUME NEW t \in Threads, SetPolicy(t)
        PROVE  TypeOK'
    <3>1. PICK p \in Principals, new \in {"log", "enforce"} :
            /\ Accept(t, "saved", "policy", p, NoRec, FALSE, NoRow)
            /\ policy' = new
            /\ UNCHANGED <<row, audit, validation, targets, writebacks,
                           notified, faults>>
      BY <2>2 DEF SetPolicy
    <3>2. /\ thr' \in [Threads -> Request \cup {Idle}]
          /\ \A u \in Threads : thr'[u] # Idle => WellFormed(thr'[u])
          /\ requests' \in Nat
      BY <3>1, AcceptMoves DEF Kinds
    <3> QED
      BY <3>1, <3>2 DEF TypeOK, WellFormed
  <2>3. ASSUME NEW t \in Threads, Load(t)
        PROVE  TypeOK'
    <3>1. PICK p \in Principals, r \in Recs, given \in BOOLEAN,
               kind \in TransitionKinds \cup {"evaluate", "writeback"} :
            /\ row[r] # NoRow
            /\ Accept(t, "loaded", kind, p, r, given, row[r])
      BY <2>3 DEF Load
    <3>2. row[r] \in RecommendationType
      BY <3>1 DEF TypeOK
    <3>3. kind \in Kinds /\ kind # "policy"
      BY DEF Kinds, TransitionKinds
    <3>4. /\ thr' \in [Threads -> Request \cup {Idle}]
          /\ \A u \in Threads : thr'[u] # Idle => WellFormed(thr'[u])
          /\ requests' \in Nat
      BY <3>1, <3>2, <3>3, AcceptMoves
    <3> QED
      BY <2>3, <3>4 DEF TypeOK, WellFormed, Load, store
  <2>4. ASSUME NEW t \in Threads, Decide(t)
        PROVE  TypeOK'
    <3>1. PICK new \in Outcomes(thr[t], policy) :
            thr' = [thr EXCEPT ![t].pc = "decided", ![t].rec = new]
      BY <2>4 DEF Decide
    <3>2. thr[t] \in Request /\ WellFormed(thr[t]) /\ thr[t].pc = "loaded"
      BY <2>4, BusyThread DEF Decide, At
    <3>3. new \in RecommendationType
      BY <3>2, DecisionConsistent DEF WellFormed
    <3> DEFINE q == [thr[t] EXCEPT !.pc = "decided", !.rec = new]
    <3>4. q \in Request /\ WellFormed(q)
      BY <3>2, <3>3 DEF Request, Steps, WellFormed
    <3>5. thr' = [thr EXCEPT ![t] = q]
      BY <3>1
    <3> HIDE DEF q
    <3>6. /\ thr' \in [Threads -> Request \cup {Idle}]
          /\ \A u \in Threads : thr'[u] # Idle => WellFormed(thr'[u])
      BY <3>4, <3>5, ThreadMoves
    <3> QED
      BY <2>4, <3>6 DEF TypeOK, WellFormed, Decide, store
  <2>5. ASSUME NEW t \in Threads, Finish(t)
        PROVE  /\ thr' \in [Threads -> Request \cup {Idle}]
               /\ \A u \in Threads : thr'[u] # Idle => WellFormed(thr'[u])
    BY <2>5, ThreadMoves DEF Finish
  <2>6. ASSUME NEW t \in Threads, Refuse(t)
        PROVE  TypeOK'
    BY <2>5, <2>6 DEF TypeOK, WellFormed, Refuse, store
  <2>7. ASSUME NEW t \in Threads, Save(t)
        PROVE  TypeOK'
    <3>1. /\ thr[t] \in Request /\ WellFormed(thr[t])
          /\ thr[t].pc = "decided"
      BY <2>7, BusyThread DEF Save, At
    <3>2. row' \in [Recs -> RecommendationType \cup {NoRow}]
      BY <2>7, <3>1 DEF TypeOK, Save, WellFormed
    <3>3. /\ thr' \in [Threads -> Request \cup {Idle}]
          /\ \A u \in Threads : thr'[u] # Idle => WellFormed(thr'[u])
      BY <2>7, <3>1, GotoMoves DEF Save
    <3> QED
      BY <2>7, <3>2, <3>3 DEF TypeOK, WellFormed, Save
  <2>8. ASSUME NEW t \in Threads, CountEvaluation(t)
        PROVE  TypeOK'
    <3>1. /\ thr[t] \in Request /\ WellFormed(thr[t])
          /\ thr[t].pc = "saved" /\ thr[t].kind = "evaluate"
      BY <2>8, BusyThread DEF CountEvaluation, At
    <3>2. <<thr[t].rid, thr[t].at>> \in Recs \X Nat
      BY <3>1 DEF WellFormed, Request
    <3>3. /\ thr' \in [Threads -> Request \cup {Idle}]
          /\ \A u \in Threads : thr'[u] # Idle => WellFormed(thr'[u])
      BY <2>8, <3>1, GotoMoves DEF CountEvaluation
    <3> QED
      BY <2>8, <3>2, <3>3 DEF TypeOK, WellFormed, CountEvaluation
  <2>9. ASSUME NEW t \in Threads, WriteTargets(t)
        PROVE  TypeOK'
    <3>1. /\ thr[t] \in Request /\ WellFormed(thr[t])
          /\ thr[t].pc = "loaded"
      BY <2>9, BusyThread DEF WriteTargets, At
    <3>2. thr[t].rec.history \in Seq(Event)
      BY <3>1 DEF WellFormed, RecommendationType
    <3>3. LastApprover(thr[t].rec) \subseteq Users
      <4>1. \A i \in 1..Len(thr[t].rec.history) :
              thr[t].rec.history[i] \in Event
        BY <3>2
      <4>2. \A e \in Event : e.actor \in Users
        BY DEF Event
      <4> QED
        BY <4>1, <4>2 DEF LastApprover
    <3>4. PICK who \in ApprovedBy(thr[t].rec) :
            targets' = targets \cup
              { [at |-> thr[t].at, rid |-> thr[t].rid, approvedBy |-> who] }
      BY <2>9 DEF WriteTargets
    <3>5. [at |-> thr[t].at, rid |-> thr[t].rid, approvedBy |-> who] \in Target
      BY <3>1, <3>3, <3>4 DEF Target, ApprovedBy, WellFormed, Request
    <3>6. /\ thr' \in [Threads -> Request \cup {Idle}]
          /\ \A u \in Threads : thr'[u] # Idle => WellFormed(thr'[u])
      BY <2>9, <3>1, GotoMoves DEF WriteTargets
    <3> QED
      BY <2>9, <3>4, <3>5, <3>6 DEF TypeOK, WellFormed, WriteTargets
  <2>10. ASSUME NEW t \in Threads, RecordWriteback(t)
         PROVE  TypeOK'
    <3>1. thr[t] \in Request /\ thr[t].pc = "saved"
      BY <2>10, BusyThread DEF RecordWriteback, At
    <3>2. /\ thr' \in [Threads -> Request \cup {Idle}]
          /\ \A u \in Threads : thr'[u] # Idle => WellFormed(thr'[u])
      BY <2>10, <3>1, GotoMoves DEF RecordWriteback
    <3> QED
      BY <2>10, <3>1, <3>2 DEF TypeOK, WellFormed, RecordWriteback, Request
  <2>11. ASSUME NEW t \in Threads, Audit(t)
         PROVE  TypeOK'
    <3>1. thr[t] \in Request /\ thr[t].pc # "idle"
      BY <2>11, BusyThread DEF Audit, At
    <3>2. audit' \subseteq AuditEntry
      BY <2>11, <3>1 DEF TypeOK, Audit, AuditEntry, Request, Identity
    <3>3. /\ thr' \in [Threads -> Request \cup {Idle}]
          /\ \A u \in Threads : thr'[u] # Idle => WellFormed(thr'[u])
      BY <2>5, <2>11, <3>1, GotoMoves DEF Audit
    <3> QED
      BY <2>11, <3>2, <3>3 DEF TypeOK, WellFormed, Audit
  <2>12. ASSUME NEW t \in Threads, Dispatch(t)
         PROVE  TypeOK'
    <3>1. thr[t] \in Request
      BY <2>12, BusyThread DEF Dispatch, At
    <3> QED
      BY <2>5, <2>12, <3>1 DEF TypeOK, WellFormed, Dispatch, Request
  <2>13. ASSUME NEW t \in Threads, Fail(t)
         PROVE  TypeOK'
    BY <2>5, <2>13 DEF TypeOK, WellFormed, Fail, store
  <2>14. CASE Crash
    BY <2>14 DEF TypeOK, WellFormed, Crash, store
  <2>15. CASE UNCHANGED vars
    BY <2>15 DEF TypeOK, WellFormed, vars, store
  <2> QED
    BY <2>1, <2>2, <2>3, <2>4, <2>6, <2>7, <2>8, <2>9, <2>10, <2>11, <2>12,
       <2>13, <2>14, <2>15 DEF Next, Handle, Quiet
<1> QED
  BY <1>1, <1>2, PTL DEF Spec

\* The two ways a method changes the copy: one transition under the request's own
\* name, or one more evaluation of what is evaluated already.
LEMMA DecisionStep ==
  ASSUME NEW q \in Request, q.rec \in RecommendationType, NEW separation,
         NEW new \in Outcomes(q, separation)
  PROVE  \/ StepBy(new, q.rec, q.at, q.kind, q.p)
         \/ /\ q.kind = "evaluate" /\ q.rec.state = "EVALUATED"
            /\ new = [q.rec EXCEPT !.evaluations = @ \cup {q.at}]
<1>1. /\ q.at \in Nat /\ q.p \in Identity /\ q.given \in BOOLEAN
      /\ q.kind \in Kinds
  BY DEF Request
<1>2. /\ new \in Review(q.rec, q.at, q.p)
           => StepBy(new, q.rec, q.at, "review", q.p)
      /\ new \in Approve(q.rec, q.at, q.p, separation, q.given)
           => StepBy(new, q.rec, q.at, "approve", q.p)
      /\ new \in Reject(q.rec, q.at, q.p)
           => StepBy(new, q.rec, q.at, "reject", q.p)
      /\ new \in Implement(q.rec, q.at, q.p)
           => StepBy(new, q.rec, q.at, "implement", q.p)
      /\ new \in Evaluate(q.rec, q.at, q.p)
           => StepBy(new, q.rec, q.at, "evaluate", q.p)
  BY <1>1, OutcomeStepBy
<1> QED
  BY <1>1, <1>2 DEF Outcomes, Kinds, TransitionKinds

\* Who approved an approved recommendation can be read off its history.
ApproverKnown(rec) == rec.state \in ApprovedStates => LastApprover(rec) # {}

Sound(rec) == Consistent(rec) /\ ApproverKnown(rec)

\* An approval makes its actor the last approver; no other action does anything
\* to who that is, or to whether the recommendation is approved.
LEMMA ApproverStep ==
  ASSUME NEW rec \in RecommendationType, NEW new, NEW at, NEW action, NEW p,
         StepBy(new, rec, at, action, p)
  PROVE  /\ LastApprover(new) = IF action = "approve" THEN {p.user}
                                                      ELSE LastApprover(rec)
         /\ new.state \in ApprovedStates
              <=> action = "approve" \/ rec.state \in ApprovedStates
<1>1. PICK to \in Allowed(rec, action, p) :
        Extends(new, rec, at, action, p, to)
  BY DEF StepBy
<1> DEFINE n == Len(rec.history)
           h == new.history
<1>2. /\ n \in Nat /\ Len(h) = n + 1
      /\ \A i \in 1..n : h[i] = rec.history[i]
      /\ h[n + 1] = [ at |-> at, action |-> action, actor |-> p.user,
                      role |-> p.role, from |-> rec.state, to |-> to ]
  BY <1>1, ExtendsHistory
<1>3. h[n + 1].action = action /\ h[n + 1].actor = p.user
  BY <1>2
<1> HIDE DEF h
<1>4. ASSUME action = "approve"
      PROVE  LastApprover(new) = IF action = "approve" THEN {p.user}
                                               ELSE LastApprover(rec)
  <2>1. ASSUME NEW j \in 1..Len(h)
        PROVE  (\A k \in (j + 1)..Len(h) : h[k].action # "approve")
                 => j = n + 1
    BY <1>2, <1>3, <1>4
  <2>2. \A k : k \notin (n + 2)..Len(h)
    BY <1>2
  <2>3. \A a : a \in LastApprover(new) <=> a = p.user
    BY <1>2, <1>3, <1>4, <2>1, <2>2 DEF LastApprover, h
  <2>4. LastApprover(new) = {p.user}
    BY <2>3
  <2> QED
    BY <1>4, <2>4
<1>5. ASSUME action # "approve"
      PROVE  LastApprover(new) = IF action = "approve" THEN {p.user}
                                               ELSE LastApprover(rec)
  <2>1. ASSUME NEW j \in Nat
        PROVE  /\ j \in 1..Len(h)
               /\ h[j].action = "approve"
               /\ \A k \in (j + 1)..Len(h) : h[k].action # "approve"
               <=>
               /\ j \in 1..n
               /\ rec.history[j].action = "approve"
               /\ \A k \in (j + 1)..n : rec.history[k].action # "approve"
    BY <1>2, <1>3, <1>5
  <2>2. \A a : a \in LastApprover(new) <=> a \in LastApprover(rec)
    BY <1>2, <2>1 DEF LastApprover, h
  <2>3. LastApprover(new) = LastApprover(rec)
    BY <2>2 DEF LastApprover
  <2> QED
    BY <1>5, <2>3
<1>6. <<rec.state, action, to>> \in Transitions /\ new.state = to
  BY <1>1 DEF Allowed, Extends
<1>7. new.state \in ApprovedStates
        <=> action = "approve" \/ rec.state \in ApprovedStates
  BY <1>6 DEF Transitions, ApprovedStates
<1> QED
  BY <1>4, <1>5, <1>7 DEF h

\* A fresh draft is sound, and so is what a handler makes of a sound copy.
LEMMA DraftSound ==
  ASSUME NEW p \in Identity, NEW badge \in Badges
  PROVE  Draft(p, badge) \in RecommendationType /\ Sound(Draft(p, badge))
BY DraftConsistent DEF Sound, ApproverKnown, Draft, ApprovedStates

LEMMA DecisionSound ==
  ASSUME NEW q \in Request, q.rec \in RecommendationType, Sound(q.rec),
         NEW separation, NEW new \in Outcomes(q, separation)
  PROVE  Sound(new)
<1>1. Consistent(new)
  BY DecisionConsistent DEF Sound
<1>2. CASE StepBy(new, q.rec, q.at, q.kind, q.p)
  <2>1. /\ LastApprover(new) = IF q.kind = "approve"
                                 THEN {q.p.user} ELSE LastApprover(q.rec)
        /\ new.state \in ApprovedStates
             <=> q.kind = "approve" \/ q.rec.state \in ApprovedStates
    BY <1>2, ApproverStep
  <2> QED
    BY <1>1, <2>1 DEF Sound, ApproverKnown
<1>3. CASE new = [q.rec EXCEPT !.evaluations = @ \cup {q.at}]
  <2>1. new.state = q.rec.state /\ new.history = q.rec.history
    BY <1>3 DEF RecommendationType
  <2>2. LastApprover(new) = LastApprover(q.rec)
    BY <2>1 DEF LastApprover
  <2> QED
    BY <1>1, <2>1, <2>2 DEF Sound, ApproverKnown
<1> QED
  BY <1>2, <1>3, DecisionStep

RowsSound == \A r \in Recs : Exists(r) => Sound(row[r])

CopiesSound ==
  \A t \in Threads : thr[t].pc \in {"loaded", "decided"} => Sound(thr[t].rec)

\* Rows and copies stay sound.  For the rows alone this is not inductive: a save
\* writes a private copy back, so the copies must be sound as well.
LEMMA ServiceSound == Spec => [](RowsSound /\ CopiesSound)
<1> DEFINE Inv == RowsSound /\ CopiesSound
<1>1. Init => Inv
  BY DEF Init, RowsSound, CopiesSound, Exists, Idle
<1>2. TypeOK /\ Inv /\ [Next]_vars => Inv'
  <2> SUFFICES ASSUME TypeOK, RowsSound, CopiesSound, [Next]_vars
               PROVE  RowsSound' /\ CopiesSound'
    OBVIOUS
  <2>1. ASSUME row' = row PROVE RowsSound'
    BY <2>1 DEF RowsSound, Exists, Sound
  <2>2. ASSUME NEW t \in Threads, NEW q, thr' = [thr EXCEPT ![t] = q],
               q.pc \in {"loaded", "decided"} => Sound(q.rec)
        PROVE  CopiesSound'
    <3> SUFFICES ASSUME NEW u \in Threads,
                        thr'[u].pc \in {"loaded", "decided"}
                 PROVE  Sound(thr'[u].rec)
      BY DEF CopiesSound, Sound
    <3>1. thr'[u] = IF u = t THEN q ELSE thr[u]
      BY <2>2 DEF TypeOK
    <3> QED
      BY <2>2, <3>1 DEF CopiesSound
  <2>3. ASSUME NEW t \in Threads, NEW pc \in {"saved", "counted", "audited"},
               thr[t].pc # "idle", Goto(t, pc)
        PROVE  CopiesSound'
    <3> DEFINE q == [thr[t] EXCEPT !.pc = pc]
    <3>1. thr[t] \in Request
      BY <2>3, BusyThread
    <3>2. q.pc = pc /\ pc \notin {"loaded", "decided"}
      BY <2>3, <3>1 DEF Request
    <3>3. thr' = [thr EXCEPT ![t] = q]
      BY <2>3 DEF Goto
    <3> HIDE DEF q
    <3> QED
      BY <2>2, <3>2, <3>3
  <2>4. ASSUME NEW t \in Threads, Finish(t)
        PROVE  CopiesSound'
    BY <2>2, <2>4 DEF Finish, Idle
  <2>5. ASSUME NEW t \in Threads, Create(t)
        PROVE  RowsSound' /\ CopiesSound'
    <3>1. PICK p \in Principals, r \in Recs, badge \in Badges :
            /\ Accept(t, "saved", "create", p, r, FALSE, NoRow)
            /\ row' = [row EXCEPT ![r] = Draft(p, badge)]
      BY <2>5 DEF Create
    <3>2. Sound(Draft(p, badge))
      BY DraftSound, ServiceAssumption
    <3>3. \A s \in Recs : row'[s] = IF s = r THEN Draft(p, badge) ELSE row[s]
      BY <3>1 DEF TypeOK
    <3>4. RowsSound'
      <4> SUFFICES ASSUME NEW s \in Recs, row'[s] # NoRow
                   PROVE  Sound(row'[s])
        BY DEF RowsSound, Exists, Sound
      <4> QED
        BY <3>2, <3>3 DEF RowsSound, Exists
    <3>5. CopiesSound'
      BY <2>2, <3>1 DEF Accept
    <3> QED
      BY <3>4, <3>5
  <2>6. ASSUME NEW t \in Threads, SetPolicy(t)
        PROVE  RowsSound' /\ CopiesSound'
    <3>1. PICK p \in Principals :
            Accept(t, "saved", "policy", p, NoRec, FALSE, NoRow)
      BY <2>6 DEF SetPolicy
    <3>2. CopiesSound'
      BY <2>2, <3>1 DEF Accept
    <3> QED
      BY <2>1, <2>6, <3>2 DEF SetPolicy
  <2>7. ASSUME NEW t \in Threads, Load(t)
        PROVE  RowsSound' /\ CopiesSound'
    <3>1. PICK p \in Principals, r \in Recs, given \in BOOLEAN,
               kind \in TransitionKinds \cup {"evaluate", "writeback"} :
            /\ row[r] # NoRow
            /\ Accept(t, "loaded", kind, p, r, given, row[r])
      BY <2>7 DEF Load
    <3>2. Sound(row[r])
      BY <3>1 DEF RowsSound, Exists
    <3>3. CopiesSound'
      BY <2>2, <3>1, <3>2 DEF Accept
    <3> QED
      BY <2>1, <2>7, <3>3 DEF Load, store
  <2>8. ASSUME NEW t \in Threads, Decide(t)
        PROVE  RowsSound' /\ CopiesSound'
    <3>1. PICK new \in Outcomes(thr[t], policy) :
            thr' = [thr EXCEPT ![t].pc = "decided", ![t].rec = new]
      BY <2>8 DEF Decide
    <3>2. thr[t] \in Request /\ WellFormed(thr[t]) /\ thr[t].pc = "loaded"
      BY <2>8, BusyThread DEF Decide, At
    <3>3. Sound(new)
      BY <3>2, DecisionSound DEF WellFormed, CopiesSound
    <3> DEFINE q == [thr[t] EXCEPT !.pc = "decided", !.rec = new]
    <3>4. thr' = [thr EXCEPT ![t] = q] /\ q.rec = new
      BY <3>1, <3>2 DEF Request
    <3> HIDE DEF q
    <3>5. CopiesSound'
      BY <2>2, <3>3, <3>4
    <3> QED
      BY <2>1, <2>8, <3>5 DEF Decide, store
  <2>9. ASSUME NEW t \in Threads, Save(t)
        PROVE  RowsSound' /\ CopiesSound'
    <3>1. thr[t].pc = "decided" /\ Sound(thr[t].rec)
      BY <2>9 DEF Save, At, CopiesSound
    <3>2. \A s \in Recs : row'[s] = thr[t].rec \/ row'[s] = row[s]
      BY <2>9 DEF Save, TypeOK
    <3>3. RowsSound'
      <4> SUFFICES ASSUME NEW s \in Recs, row'[s] # NoRow
                   PROVE  Sound(row'[s])
        BY DEF RowsSound, Exists, Sound
      <4> QED
        BY <3>1, <3>2 DEF RowsSound, Exists
    <3> QED
      BY <2>3, <2>9, <3>1, <3>3 DEF Save
  <2>10. ASSUME NEW t \in Threads,
                \/ Refuse(t) \/ CountEvaluation(t) \/ WriteTargets(t)
                \/ RecordWriteback(t) \/ Audit(t) \/ Dispatch(t) \/ Fail(t)
         PROVE  RowsSound' /\ CopiesSound'
    <3>1. row' = row
      BY <2>10 DEF Refuse, CountEvaluation, WriteTargets, RecordWriteback,
                   Audit, Dispatch, Fail, store
    <3>2. \/ Finish(t)
          \/ /\ thr[t].pc # "idle"
             /\ \E pc \in {"saved", "counted", "audited"} : Goto(t, pc)
      BY <2>10 DEF Refuse, CountEvaluation, WriteTargets, RecordWriteback,
                   Audit, Dispatch, Fail, At
    <3> QED
      BY <2>1, <2>3, <2>4, <3>1, <3>2
  <2>11. CASE Crash
    BY <2>1, <2>11 DEF Crash, store, CopiesSound, Idle
  <2>12. CASE UNCHANGED vars
    BY <2>1, <2>12 DEF vars, store, CopiesSound, Sound
  <2> QED
    BY <2>5, <2>6, <2>7, <2>8, <2>9, <2>10, <2>11, <2>12
       DEF Next, Handle, Quiet
<1> QED
  BY <1>1, <1>2, ServiceType, PTL DEF Spec

\* Every stored recommendation is consistent, under every interleaving of the
\* handlers and wherever they fail, and so is every copy a handler works on.
THEOREM ServiceConsistent == Spec => [](RowConsistent /\ CopiesConsistent)
<1>1. RowsSound /\ CopiesSound => RowConsistent /\ CopiesConsistent
  BY DEF RowsSound, CopiesSound, RowConsistent, CopiesConsistent, Sound
<1> QED
  BY <1>1, ServiceSound, PTL

-----------------------------------------------------------------------------
\* A step moves at most the thread that takes it, unless the process dies.
LEMMA OneMoves ==
  ASSUME TypeOK, [Next]_vars, NEW u \in Threads
  PROVE  thr'[u] = thr[u] \/ Handle(u) \/ Crash
<1>1. ASSUME NEW t \in Threads, Handle(t), t # u
      PROVE  thr'[u] = thr[u]
  <2>1. \E q : thr' = [thr EXCEPT ![t] = q]
    BY <1>1 DEF Handle, Create, SetPolicy, Load, Decide, Refuse, Save,
         CountEvaluation, WriteTargets, RecordWriteback, Audit, Dispatch, Fail,
         Accept, Goto, Finish
  <2> QED
    BY <1>1, <2>1 DEF TypeOK
<1>2. CASE UNCHANGED vars
  BY <1>2 DEF vars
<1> QED
  BY <1>1, <1>2 DEF Next, Quiet

\* A thread that moves on keeps its request.
LEMMA GotoFields ==
  ASSUME TypeOK, NEW t \in Threads, thr[t].pc # "idle", NEW pc, Goto(t, pc)
  PROVE  /\ thr'[t].pc = pc
         /\ thr'[t].kind = thr[t].kind /\ thr'[t].rid = thr[t].rid
         /\ thr'[t].at = thr[t].at /\ thr'[t].p = thr[t].p
         /\ thr'[t].rec = thr[t].rec
<1>1. thr[t] \in Request
  BY BusyThread
<1>2. thr'[t] = [thr[t] EXCEPT !.pc = pc]
  BY DEF TypeOK, Goto
<1> QED
  BY <1>1, <1>2 DEF Request

\* What a request that is accepted looks like.
LEMMA AcceptFields ==
  ASSUME TypeOK, NEW t \in Threads, NEW pc, NEW kind, NEW p, NEW rid,
         NEW given, NEW rec, Accept(t, pc, kind, p, rid, given, rec)
  PROVE  /\ thr'[t].pc = pc /\ thr'[t].kind = kind /\ thr'[t].rid = rid
         /\ thr'[t].p = p /\ thr'[t].rec = rec
         /\ thr'[t].at = requests + 1
BY DEF Accept, TypeOK

\* Nothing the handlers report is ever taken back, and a fault is never forgotten.
LEMMA TablesGrow ==
  ASSUME TypeOK, [Next]_vars
  PROVE  /\ audit \subseteq audit' /\ validation \subseteq validation'
         /\ targets \subseteq targets' /\ writebacks \subseteq writebacks'
         /\ faults' = 0 => faults = 0
<1>1. ASSUME NEW t \in Threads, Handle(t)
      PROVE  /\ audit \subseteq audit' /\ validation \subseteq validation'
             /\ targets \subseteq targets' /\ writebacks \subseteq writebacks'
             /\ faults' = 0 => faults = 0
  BY <1>1 DEF Handle, Create, SetPolicy, Load, Decide, Refuse, Save,
       CountEvaluation, WriteTargets, RecordWriteback, Audit, Dispatch, Fail,
       Accept, store, TypeOK
<1>2. CASE Crash \/ UNCHANGED vars
  BY <1>2 DEF Crash, vars, store, TypeOK
<1> QED
  BY <1>1, <1>2 DEF Next, Quiet

-----------------------------------------------------------------------------
\* The audit entry of a request.
Entry(q) ==
  [ at |-> q.at, action |-> q.kind, user |-> q.p.user, role |-> q.p.role,
    rid |-> q.rid ]

\* What a request that has come this far has certainly committed.
Progress(q, log, evals, sent, done) ==
  /\ q.pc = "decided" => q.kind \in TransitionKinds \cup {"evaluate"}
  /\ q.pc = "counted" => q.kind \in {"evaluate", "writeback"}
  /\ q.pc \in {"saved", "counted", "audited"} /\ q.kind = "writeback" =>
       \E w \in sent : w.at = q.at /\ w.rid = q.rid
  /\ q.pc \in {"counted", "audited"} =>
       /\ q.kind = "evaluate"  => <<q.rid, q.at>> \in evals
       /\ q.kind = "writeback" => q.at \in done
  /\ q.pc = "audited" => Entry(q) \in log

ThreadsProgress ==
  \A t \in Threads : Progress(thr[t], audit, validation, targets, writebacks)

\* No step undoes what a request has committed.
LEMMA ProgressKept ==
  TypeOK /\ ThreadsProgress /\ [Next]_vars => ThreadsProgress'
<1> SUFFICES ASSUME TypeOK, ThreadsProgress, [Next]_vars, NEW u \in Threads
             PROVE  Progress(thr'[u], audit', validation', targets', writebacks')
  BY DEF ThreadsProgress
<1>1. /\ audit \subseteq audit' /\ validation \subseteq validation'
      /\ targets \subseteq targets' /\ writebacks \subseteq writebacks'
  BY TablesGrow
<1>2. Progress(thr[u], audit, validation, targets, writebacks)
  BY DEF ThreadsProgress
<1>3. CASE thr'[u] = thr[u]
  BY <1>1, <1>2, <1>3 DEF Progress
<1>4. CASE thr'[u] = Idle
  BY <1>4 DEF Progress, Idle
<1>5. CASE Create(u) \/ SetPolicy(u) \/ Load(u)
  <2>1. \/ thr'[u].pc = "loaded"
        \/ thr'[u].pc = "saved" /\ thr'[u].kind \in {"create", "policy"}
    BY <1>5, AcceptFields DEF Create, SetPolicy, Load
  <2> QED
    BY <2>1 DEF Progress
<1>6. CASE Decide(u)
  <2>1. PICK new \in Outcomes(thr[u], policy) :
          thr' = [thr EXCEPT ![u].pc = "decided", ![u].rec = new]
    BY <1>6 DEF Decide
  <2>2. thr[u] \in Request
    BY <1>6, BusyThread DEF Decide, At
  <2>3. thr'[u].pc = "decided" /\ thr'[u].kind = thr[u].kind
    BY <2>1, <2>2 DEF TypeOK, Request
  <2>4. thr[u].kind \in TransitionKinds \cup {"evaluate"}
    BY <2>1 DEF Outcomes, TransitionKinds
  <2> QED
    BY <2>3, <2>4 DEF Progress
<1>7. CASE Save(u)
  <2>1. /\ thr[u].pc = "decided" /\ thr'[u].pc = "saved"
        /\ thr'[u].kind = thr[u].kind
    BY <1>7, GotoFields DEF Save, At
  <2> QED
    BY <1>2, <2>1 DEF Progress, TransitionKinds
<1>8. CASE CountEvaluation(u)
  <2>1. /\ thr'[u].pc = "counted" /\ thr'[u].kind = "evaluate"
        /\ thr'[u].rid = thr[u].rid /\ thr'[u].at = thr[u].at
    BY <1>8, GotoFields DEF CountEvaluation, At
  <2>2. <<thr[u].rid, thr[u].at>> \in validation'
    BY <1>8 DEF CountEvaluation
  <2> QED
    BY <2>1, <2>2 DEF Progress
<1>9. CASE WriteTargets(u)
  <2>1. /\ thr'[u].pc = "saved" /\ thr'[u].kind = "writeback"
        /\ thr'[u].rid = thr[u].rid /\ thr'[u].at = thr[u].at
    BY <1>9, GotoFields DEF WriteTargets, At
  <2>2. \E w \in targets' : w.at = thr[u].at /\ w.rid = thr[u].rid
    <3>1. PICK who \in ApprovedBy(thr[u].rec) :
            [at |-> thr[u].at, rid |-> thr[u].rid, approvedBy |-> who]
              \in targets'
      BY <1>9 DEF WriteTargets
    <3> QED
      BY <3>1
  <2> QED
    BY <2>1, <2>2 DEF Progress
<1>10. CASE RecordWriteback(u)
  <2>1. /\ thr[u].pc = "saved"
        /\ thr'[u].pc = "counted" /\ thr'[u].kind = "writeback"
        /\ thr[u].kind = "writeback"
        /\ thr'[u].rid = thr[u].rid /\ thr'[u].at = thr[u].at
    BY <1>10, GotoFields DEF RecordWriteback, At
  <2>2. thr[u].at \in writebacks'
    BY <1>10 DEF RecordWriteback
  <2> QED
    BY <1>1, <1>2, <2>1, <2>2 DEF Progress
<1>11. ASSUME Audit(u), Goto(u, "audited")
       PROVE  Progress(thr'[u], audit', validation', targets', writebacks')
  <2>1. /\ thr'[u].pc = "audited" /\ thr'[u].kind = thr[u].kind
        /\ thr'[u].rid = thr[u].rid /\ thr'[u].at = thr[u].at
        /\ thr'[u].p = thr[u].p
    BY <1>11, GotoFields DEF Audit, At
  <2>2. /\ thr[u].pc \in {"saved", "counted"}
        /\ thr[u].kind \in {"evaluate", "writeback"} => thr[u].pc = "counted"
    BY <1>11 DEF Audit, At
  <2>3. Entry(thr'[u]) \in audit'
    BY <1>11, <2>1 DEF Audit, Entry
  <2> QED
    BY <1>1, <1>2, <2>1, <2>2, <2>3 DEF Progress
<1>12. CASE Refuse(u) \/ Dispatch(u) \/ Fail(u) \/ Crash
  BY <1>4, <1>12 DEF Refuse, Dispatch, Fail, Crash, Finish, TypeOK
<1>13. CASE Audit(u)
  BY <1>4, <1>11, <1>13 DEF Audit, Finish, TypeOK
<1> QED
  BY <1>3, <1>5, <1>6, <1>7, <1>8, <1>9, <1>10, <1>12, <1>13, OneMoves
     DEF Handle

\* A webhook is sent only for what is committed in full: the audit entry and every
\* other row of the handler, whatever interleaves and wherever handlers fail.
\* What makes it inductive is what each request in progress has committed so far.
THEOREM ServiceNotifies == Spec => []NotifiedIsCommitted
<1>1. Init => ThreadsProgress /\ NotifiedIsCommitted
  BY DEF Init, ThreadsProgress, NotifiedIsCommitted, Progress, Idle
<1>2. TypeOK /\ ThreadsProgress /\ [Next]_vars => ThreadsProgress'
  BY ProgressKept
<1>3. TypeOK /\ ThreadsProgress /\ NotifiedIsCommitted /\ [Next]_vars
        => NotifiedIsCommitted'
  <2> SUFFICES ASSUME TypeOK, ThreadsProgress, NotifiedIsCommitted, [Next]_vars,
                      NEW n \in notified'
               PROVE  \E a \in audit' :
                        /\ a.at = n
                        /\ a.action = "evaluate" => <<a.rid, n>> \in validation'
                        /\ a.action = "writeback" =>
                             /\ n \in writebacks'
                             /\ \E w \in targets' : w.at = n /\ w.rid = a.rid
    BY DEF NotifiedIsCommitted
  <2>1. /\ audit \subseteq audit' /\ validation \subseteq validation'
        /\ targets \subseteq targets' /\ writebacks \subseteq writebacks'
    BY TablesGrow
  <2>2. CASE n \in notified
    BY <2>1, <2>2 DEF NotifiedIsCommitted
  <2>3. ASSUME NEW t \in Threads, Dispatch(t), n = thr[t].at
        PROVE  \E a \in audit' :
                 /\ a.at = n
                 /\ a.action = "evaluate" => <<a.rid, n>> \in validation'
                 /\ a.action = "writeback" =>
                      /\ n \in writebacks'
                      /\ \E w \in targets' : w.at = n /\ w.rid = a.rid
    <3>1. thr[t].pc = "audited"
      BY <2>3 DEF Dispatch, At
    <3>2. Progress(thr[t], audit, validation, targets, writebacks)
      BY DEF ThreadsProgress
    <3>3. /\ Entry(thr[t]) \in audit' /\ Entry(thr[t]).at = n
          /\ Entry(thr[t]).action = thr[t].kind
          /\ Entry(thr[t]).rid = thr[t].rid
      BY <2>1, <2>3, <3>1, <3>2 DEF Progress, Entry
    <3>4. /\ thr[t].kind = "evaluate" => <<thr[t].rid, n>> \in validation'
          /\ thr[t].kind = "writeback" =>
               /\ n \in writebacks'
               /\ \E w \in targets' : w.at = n /\ w.rid = thr[t].rid
      BY <2>1, <2>3, <3>1, <3>2 DEF Progress
    <3> QED
      BY <3>3, <3>4
  <2>4. \/ notified' = notified
        \/ \E t \in Threads : Dispatch(t) /\ notified' = notified \cup {thr[t].at}
    BY DEF Next, Handle, Create, SetPolicy, Load, Decide, Refuse, Save,
       CountEvaluation, WriteTargets, RecordWriteback, Audit, Dispatch, Fail,
       Crash, Quiet, vars, store
  <2> QED
    BY <2>2, <2>3, <2>4
<1> QED
  BY <1>1, <1>2, <1>3, ServiceType, PTL DEF Spec

-----------------------------------------------------------------------------
\* The event a request adds to a history is the one its audit entry will report.
OwnEvent(q, e) ==
  /\ e.at = q.at /\ e.action = q.kind
  /\ e.actor = q.p.user /\ e.role = q.p.role

\* A method leaves the events and the evaluations that were there and adds none
\* but the request's own.
LEMMA DecisionAdds ==
  ASSUME NEW q \in Request, q.rec \in RecommendationType, NEW separation,
         NEW new \in Outcomes(q, separation)
  PROVE  /\ \A i \in 1..Len(new.history) :
              \/ OwnEvent(q, new.history[i])
              \/ /\ i \in 1..Len(q.rec.history)
                 /\ new.history[i] = q.rec.history[i]
         /\ \A n \in new.evaluations :
              n \in q.rec.evaluations \/ (q.kind = "evaluate" /\ n = q.at)
<1>1. CASE StepBy(new, q.rec, q.at, q.kind, q.p)
  <2>1. PICK to \in Allowed(q.rec, q.kind, q.p) :
          /\ Extends(new, q.rec, q.at, q.kind, q.p, to)
          /\ Effect(new, q.rec, q.at, q.kind, q.p)
    BY <1>1 DEF StepBy
  <2>2. /\ Len(q.rec.history) \in Nat
        /\ Len(new.history) = Len(q.rec.history) + 1
        /\ \A i \in 1..Len(q.rec.history) :
             new.history[i] = q.rec.history[i]
        /\ new.history[Len(q.rec.history) + 1] =
             [ at |-> q.at, action |-> q.kind, actor |-> q.p.user,
               role |-> q.p.role, from |-> q.rec.state, to |-> to ]
    BY <2>1, ExtendsHistory
  <2>3. OwnEvent(q, new.history[Len(q.rec.history) + 1])
    BY <2>2 DEF OwnEvent
  <2>4. \A i \in 1..Len(new.history) :
          i \in 1..Len(q.rec.history) \/ i = Len(q.rec.history) + 1
    BY <2>2
  <2>5. \A n \in new.evaluations :
          n \in q.rec.evaluations \/ (q.kind = "evaluate" /\ n = q.at)
    BY <2>1 DEF Effect
  <2> QED
    BY <2>2, <2>3, <2>4, <2>5
<1>2. CASE /\ q.kind = "evaluate"
           /\ new = [q.rec EXCEPT !.evaluations = @ \cup {q.at}]
  <2>1. /\ new.history = q.rec.history
        /\ new.evaluations = q.rec.evaluations \cup {q.at}
    BY <1>2 DEF RecommendationType
  <2> QED
    BY <1>2, <2>1
<1> QED
  BY <1>1, <1>2, DecisionStep

-----------------------------------------------------------------------------
\* The event is in the log, or its handler is on the way there.
EventKnown(e, r, log, threads) ==
  \/ [ at |-> e.at, action |-> e.action, user |-> e.actor,
       role |-> e.role, rid |-> r ] \in log
  \/ \E t \in Threads : /\ threads[t].pc \in {"saved", "counted"}
                        /\ threads[t].rid = r
                        /\ OwnEvent(threads[t], e)

\* The evaluation is in the calibration table, or its handler is about to put it
\* there.
EvaluationKnown(n, r, evals, threads) ==
  \/ <<r, n>> \in evals
  \/ \E t \in Threads : /\ threads[t].pc = "saved"
                        /\ threads[t].kind = "evaluate"
                        /\ threads[t].rid = r
                        /\ threads[t].at = n

\* Everything on a recommendation is known, but what its own request has added and
\* not saved yet.
RowKnown(rec, r, log, evals, threads) ==
  /\ \A i \in 1..Len(rec.history) : EventKnown(rec.history[i], r, log, threads)
  /\ \A n \in rec.evaluations : EvaluationKnown(n, r, evals, threads)

CopyKnown(q, log, evals, threads) ==
  /\ \A i \in 1..Len(q.rec.history) :
       \/ EventKnown(q.rec.history[i], q.rid, log, threads)
       \/ q.pc = "decided" /\ OwnEvent(q, q.rec.history[i])
  /\ \A n \in q.rec.evaluations :
       \/ EvaluationKnown(n, q.rid, evals, threads)
       \/ q.pc = "decided" /\ q.kind = "evaluate" /\ n = q.at

RowsKnown ==
  \A r \in Recs : Exists(r) => RowKnown(row[r], r, audit, validation, thr)

CopiesKnown ==
  \A t \in Threads :
    thr[t].pc \in {"loaded", "decided"} =>
      CopyKnown(thr[t], audit, validation, thr)

\* Without a fault a handler that has saved goes on until its entry is in the log.
LEMMA SavedGoesOn ==
  ASSUME TypeOK, [Next]_vars, faults' = 0, NEW u \in Threads,
         thr[u].pc \in {"saved", "counted"}
  PROVE  \/ thr'[u] = thr[u]
         \/ /\ thr'[u].pc = "counted"
            /\ thr'[u].kind = thr[u].kind /\ thr'[u].rid = thr[u].rid
            /\ thr'[u].at = thr[u].at /\ thr'[u].p = thr[u].p
            /\ thr[u].kind = "evaluate"
                 => <<thr[u].rid, thr[u].at>> \in validation'
         \/ /\ Entry(thr[u]) \in audit'
            /\ thr[u].kind = "evaluate" => thr[u].pc = "counted"
<1>2. ~Fail(u) /\ ~Crash
  BY DEF Fail, Crash, TypeOK
<1>3. /\ ~Create(u) /\ ~SetPolicy(u) /\ ~Load(u) /\ ~Decide(u) /\ ~Refuse(u)
      /\ ~Save(u) /\ ~WriteTargets(u) /\ ~Dispatch(u)
  BY DEF Create, SetPolicy, Load, Accept, Decide, Refuse, Save, WriteTargets,
         Dispatch, At
<1>4. CASE CountEvaluation(u) \/ RecordWriteback(u)
  <2>1. /\ thr'[u].pc = "counted"
        /\ thr'[u].kind = thr[u].kind /\ thr'[u].rid = thr[u].rid
        /\ thr'[u].at = thr[u].at /\ thr'[u].p = thr[u].p
    BY <1>4, GotoFields DEF CountEvaluation, RecordWriteback, At
  <2>2. thr[u].kind = "evaluate" => <<thr[u].rid, thr[u].at>> \in validation'
    BY <1>4 DEF CountEvaluation, RecordWriteback
  <2> QED
    BY <2>1, <2>2
<1>5. CASE Audit(u)
  BY <1>5 DEF Audit, At, Entry
<1> QED
  BY <1>2, <1>3, <1>4, <1>5, OneMoves DEF Handle

\* So what is known stays known.
LEMMA KnownKept ==
  ASSUME TypeOK, [Next]_vars, faults' = 0, NEW e, NEW n, NEW r
  PROVE  /\ EventKnown(e, r, audit, thr) => EventKnown(e, r, audit', thr')
         /\ EvaluationKnown(n, r, validation, thr)
              => EvaluationKnown(n, r, validation', thr')
<1>1. audit \subseteq audit' /\ validation \subseteq validation'
  BY TablesGrow
<1>2. ASSUME NEW t \in Threads, thr[t].pc \in {"saved", "counted"},
             thr[t].rid = r, OwnEvent(thr[t], e)
      PROVE  EventKnown(e, r, audit', thr')
  <2>1. CASE Entry(thr[t]) \in audit'
    <3>1. Entry(thr[t]) = [ at |-> e.at, action |-> e.action,
                            user |-> e.actor, role |-> e.role, rid |-> r ]
      BY <1>2 DEF OwnEvent, Entry
    <3> QED
      BY <2>1, <3>1 DEF EventKnown
  <2>2. CASE /\ thr'[t].pc \in {"saved", "counted"}
             /\ thr'[t].kind = thr[t].kind /\ thr'[t].rid = thr[t].rid
             /\ thr'[t].at = thr[t].at /\ thr'[t].p = thr[t].p
    <3>1. OwnEvent(thr'[t], e)
      BY <1>2, <2>2 DEF OwnEvent
    <3> QED
      BY <1>2, <2>2, <3>1 DEF EventKnown
  <2> QED
    BY <1>2, <2>1, <2>2, SavedGoesOn
<1>3. ASSUME NEW t \in Threads, thr[t].pc = "saved", thr[t].kind = "evaluate",
             thr[t].rid = r, thr[t].at = n
      PROVE  EvaluationKnown(n, r, validation', thr')
  BY <1>3, SavedGoesOn DEF EvaluationKnown
<1> QED
  BY <1>1, <1>2, <1>3 DEF EventKnown, EvaluationKnown

\* No step leaves a stored event or evaluation behind unknown.
LEMMA TablesKnownKept ==
  ASSUME TypeOK, RowsKnown, CopiesKnown, [Next]_vars, faults' = 0
  PROVE  RowsKnown' /\ CopiesKnown'
<1>1. ASSUME NEW rec, NEW r, RowKnown(rec, r, audit, validation, thr)
      PROVE  RowKnown(rec, r, audit', validation', thr')
  BY <1>1, KnownKept DEF RowKnown
<1>2. ASSUME NEW q, CopyKnown(q, audit, validation, thr)
      PROVE  CopyKnown(q, audit', validation', thr')
  BY <1>2, KnownKept DEF CopyKnown
<1>3. ASSUME NEW r \in Recs, row'[r] # NoRow
      PROVE  RowKnown(row'[r], r, audit', validation', thr')
  <2>1. CASE row'[r] = row[r]
    BY <1>1, <1>3, <2>1 DEF RowsKnown, Exists
  <2>2. ASSUME NEW t \in Threads, Create(t), row'[r] # row[r]
        PROVE  RowKnown(row'[r], r, audit', validation', thr')
    <3>1. PICK p, badge : row'[r] = Draft(p, badge)
      BY <2>2 DEF Create, TypeOK
    <3>2. /\ \A i : i \notin 1..Len(Draft(p, badge).history)
          /\ Draft(p, badge).evaluations = {}
      BY DEF Draft
    <3> QED
      BY <3>1, <3>2 DEF RowKnown
  <2>3. ASSUME NEW t \in Threads, Save(t), row'[r] # row[r]
        PROVE  RowKnown(row'[r], r, audit', validation', thr')
    <3>1. /\ r = thr[t].rid /\ row'[r] = thr[t].rec
          /\ thr[t].pc = "decided"
      BY <2>3 DEF Save, TypeOK, At
    <3>2. CopyKnown(thr[t], audit', validation', thr')
      BY <1>2, <3>1 DEF CopiesKnown
    <3>3. /\ thr'[t].pc = "saved" /\ thr'[t].kind = thr[t].kind
          /\ thr'[t].rid = r /\ thr'[t].at = thr[t].at
          /\ thr'[t].p = thr[t].p
      BY <2>3, <3>1, GotoFields DEF Save
    <3>4. \A e : OwnEvent(thr[t], e) => EventKnown(e, r, audit', thr')
      BY <3>3 DEF EventKnown, OwnEvent
    <3>5. thr[t].kind = "evaluate"
            => EvaluationKnown(thr[t].at, r, validation', thr')
      BY <3>3 DEF EvaluationKnown
    <3> QED
      BY <3>1, <3>2, <3>4, <3>5 DEF CopyKnown, RowKnown
  <2>4. row' = row \/ \E t \in Threads : Create(t) \/ Save(t)
    BY DEF Next, Handle, SetPolicy, Load, Decide, Refuse, CountEvaluation,
       WriteTargets, RecordWriteback, Audit, Dispatch, Fail, Crash, Quiet, vars,
       store
  <2> QED
    BY <2>1, <2>2, <2>3, <2>4
<1>4. ASSUME NEW u \in Threads, thr'[u].pc \in {"loaded", "decided"}
      PROVE  CopyKnown(thr'[u], audit', validation', thr')
  <2>1. CASE thr'[u] = thr[u]
    BY <1>2, <1>4, <2>1 DEF CopiesKnown
  <2>2. CASE Load(u)
    <3>1. PICK r \in Recs : /\ row[r] # NoRow
                            /\ thr'[u].rid = r /\ thr'[u].rec = row[r]
      BY <2>2, AcceptFields DEF Load
    <3>2. RowKnown(row[r], r, audit', validation', thr')
      BY <1>1, <3>1 DEF RowsKnown, Exists
    <3> QED
      BY <3>1, <3>2 DEF RowKnown, CopyKnown
  <2>3. CASE Decide(u)
    <3>1. PICK new \in Outcomes(thr[u], policy) :
            thr' = [thr EXCEPT ![u].pc = "decided", ![u].rec = new]
      BY <2>3 DEF Decide
    <3>2. /\ thr[u] \in Request /\ WellFormed(thr[u])
          /\ thr[u].pc = "loaded"
      BY <2>3, BusyThread DEF Decide, At
    <3>3. /\ thr'[u].pc = "decided" /\ thr'[u].rec = new
          /\ thr'[u].kind = thr[u].kind /\ thr'[u].rid = thr[u].rid
          /\ thr'[u].at = thr[u].at /\ thr'[u].p = thr[u].p
      BY <3>1, <3>2 DEF TypeOK, Request
    <3>4. CopyKnown(thr[u], audit', validation', thr')
      BY <1>2, <3>2 DEF CopiesKnown
    <3>5. /\ \A i \in 1..Len(new.history) :
               \/ OwnEvent(thr[u], new.history[i])
               \/ /\ i \in 1..Len(thr[u].rec.history)
                  /\ new.history[i] = thr[u].rec.history[i]
          /\ \A n \in new.evaluations :
               \/ n \in thr[u].rec.evaluations
               \/ thr[u].kind = "evaluate" /\ n = thr[u].at
      BY <3>2, DecisionAdds DEF WellFormed
    <3>6. \A e : OwnEvent(thr[u], e) => OwnEvent(thr'[u], e)
      BY <3>3 DEF OwnEvent
    <3> QED
      BY <3>2, <3>3, <3>4, <3>5, <3>6 DEF CopyKnown
  <2>4. \/ thr'[u] = thr[u] \/ Load(u) \/ Decide(u)
    <3>1. ASSUME NEW pc, thr[u].pc # "idle", Goto(u, pc)
          PROVE  thr'[u].pc = pc
      BY <3>1, GotoFields
    <3>2. ASSUME NEW kind, NEW p, NEW rid, NEW given, NEW rec,
                 Accept(u, "saved", kind, p, rid, given, rec)
          PROVE  FALSE
      <4>1. thr'[u].pc = "saved"
        BY <3>2, AcceptFields
      <4> QED
        BY <1>4, <4>1
    <3>3. ~Finish(u) /\ ~Crash
      BY <1>4 DEF Finish, Crash, Idle, TypeOK
    <3> QED
      BY <1>4, <3>1, <3>2, <3>3, OneMoves
         DEF Handle, Create, SetPolicy, Refuse, Save, CountEvaluation,
             WriteTargets, RecordWriteback, Audit, Dispatch, Fail, At
  <2> QED
    BY <2>1, <2>2, <2>3, <2>4
<1> QED
  BY <1>3, <1>4 DEF RowsKnown, CopiesKnown, Exists

\* While no store call has failed, nothing is on a row or on a private copy that
\* the other tables do not have or will not have: the invariant under AuditComplete
\* and EvaluationsCounted.
LEMMA ServiceKnown == Spec => [](faults = 0 => RowsKnown /\ CopiesKnown)
<1> DEFINE Inv == faults = 0 => RowsKnown /\ CopiesKnown
<1>1. Init => Inv
  BY DEF Init, RowsKnown, CopiesKnown, Exists, Idle
<1>2. TypeOK /\ Inv /\ [Next]_vars => Inv'
  BY TablesGrow, TablesKnownKept
<1> QED
  BY <1>1, <1>2, ServiceType, PTL DEF Spec

\* Every event on a stored recommendation is in the audit log as it happened, or
\* its handler is about to log it, under every interleaving of any number of
\* threads: a stale save cannot bring in an event nobody logged.
THEOREM ServiceAudits == Spec => []AuditComplete
<1>1. (faults = 0 => RowsKnown /\ CopiesKnown) => AuditComplete
  <2> SUFFICES ASSUME faults = 0, RowsKnown, NEW r \in Recs, Exists(r),
                      NEW i \in 1..Len(row[r].history)
               PROVE  LET e == row[r].history[i] IN
                      \/ [ at |-> e.at, action |-> e.action, user |-> e.actor,
                           role |-> e.role, rid |-> r ] \in audit
                      \/ Unaudited(e.at)
    BY DEF AuditComplete
  <2>1. EventKnown(row[r].history[i], r, audit, thr)
    BY DEF RowsKnown, RowKnown
  <2> QED
    BY <2>1 DEF EventKnown, OwnEvent, Unaudited
<1> QED
  BY <1>1, ServiceKnown, PTL

\* Every stored evaluation is in the calibration table, or its handler is between
\* the two writes.
THEOREM ServiceCounts == Spec => []EvaluationsCounted
<1>1. (faults = 0 => RowsKnown /\ CopiesKnown) => EvaluationsCounted
  BY DEF EvaluationsCounted, RowsKnown, RowKnown, EvaluationKnown, Unaudited
<1> QED
  BY <1>1, ServiceKnown, PTL

-----------------------------------------------------------------------------
\* Each row in the surveillance system has an approval behind it that is known.
TargetKnown(w, log, threads) ==
  \E e \in Event : /\ e.action = "approve"
                   /\ e.actor = w.approvedBy
                   /\ EventKnown(e, w.rid, log, threads)

TargetsKnown ==
  \A w \in targets :
    /\ w.approvedBy # NoApprover
    /\ faults = 0 => TargetKnown(w, audit, thr)

\* Whom a writeback names: its copy is approved, so the history has an approval,
\* and that one is known.
LEMMA WritebackNames ==
  ASSUME NoApprover \notin Users, TypeOK, CopiesSound, NEW t \in Threads,
         WriteTargets(t), NEW w \in targets', w \notin targets
  PROVE  /\ w.approvedBy # NoApprover
         /\ CopiesKnown => TargetKnown(w, audit, thr)
<1> DEFINE h == thr[t].rec.history
<1>1. /\ thr[t] \in Request /\ WellFormed(thr[t]) /\ thr[t].pc = "loaded"
      /\ thr[t].rec.state \in ApprovedStates
  BY BusyThread DEF WriteTargets, At
<1>2. PICK who \in ApprovedBy(thr[t].rec) :
        w = [at |-> thr[t].at, rid |-> thr[t].rid, approvedBy |-> who]
  BY DEF WriteTargets
<1>3. LastApprover(thr[t].rec) # {}
  BY <1>1 DEF CopiesSound, Sound, ApproverKnown
<1>4. who \in LastApprover(thr[t].rec)
  BY <1>2, <1>3 DEF ApprovedBy
<1>5. PICK i \in 1..Len(h) : h[i].action = "approve" /\ h[i].actor = who
  BY <1>4 DEF LastApprover
<1>6. h[i] \in Event
  BY <1>1, <1>5 DEF WellFormed, RecommendationType
<1>7. who # NoApprover
  BY <1>5, <1>6 DEF Event
<1>8. ASSUME CopiesKnown
      PROVE  EventKnown(h[i], thr[t].rid, audit, thr)
  BY <1>1, <1>5, <1>8 DEF CopiesKnown, CopyKnown
<1> QED
  BY <1>2, <1>5, <1>6, <1>7, <1>8 DEF TargetKnown

\* Every row in the surveillance system names a user whose approval of that very
\* recommendation is logged or was just saved, also when the row it was built from
\* has been overwritten meanwhile.  The hypothesis: nobody goes by the empty name,
\* which is what the field holds when no approval is found.
THEOREM ServiceTargets ==
  ASSUME NoApprover \notin Users
  PROVE  Spec => []TargetsNameApprover
<1>1. Init => ThreadsProgress /\ TargetsKnown
  BY DEF Init, ThreadsProgress, TargetsKnown, Progress, Idle
<1>2. TypeOK /\ ThreadsProgress /\ [Next]_vars => ThreadsProgress'
  BY ProgressKept
<1>3. (/\ TypeOK /\ RowsSound /\ CopiesSound
       /\ faults = 0 => RowsKnown /\ CopiesKnown
       /\ TargetsKnown /\ [Next]_vars)
      => TargetsKnown'
  <2> SUFFICES ASSUME TypeOK, CopiesSound, faults = 0 => CopiesKnown,
                      TargetsKnown, [Next]_vars, NEW w \in targets'
               PROVE  /\ w.approvedBy # NoApprover
                      /\ faults' = 0 => TargetKnown(w, audit', thr')
    BY DEF TargetsKnown
  <2>1. ASSUME faults' = 0, TargetKnown(w, audit, thr)
        PROVE  TargetKnown(w, audit', thr')
    BY <2>1, KnownKept DEF TargetKnown
  <2>2. faults' = 0 => faults = 0
    BY TablesGrow
  <2>3. CASE w \in targets
    BY <2>1, <2>2, <2>3 DEF TargetsKnown
  <2>4. CASE w \notin targets
    <3>1. PICK t \in Threads : WriteTargets(t)
      BY <2>4 DEF Next, Handle, Create, SetPolicy, Load, Decide, Refuse, Save,
         CountEvaluation, RecordWriteback, Audit, Dispatch, Fail, Crash, Quiet,
         vars, store
    <3> QED
      BY <2>1, <2>2, <2>4, <3>1, WritebackNames
  <2> QED
    BY <2>3, <2>4
<1>4. ThreadsProgress /\ TargetsKnown => TargetsNameApprover
  <2> SUFFICES ASSUME ThreadsProgress, TargetsKnown, NEW w \in targets
               PROVE  /\ w.approvedBy # NoApprover
                      /\ faults = 0 =>
                           \/ \E a \in audit : /\ a.action = "approve"
                                               /\ a.rid = w.rid
                                               /\ a.user = w.approvedBy
                           \/ \E t \in Threads : /\ thr[t].pc = "saved"
                                                 /\ thr[t].kind = "approve"
                                                 /\ thr[t].rid = w.rid
                                                 /\ thr[t].p.user = w.approvedBy
    BY DEF TargetsNameApprover
  <2>1. w.approvedBy # NoApprover
    BY DEF TargetsKnown
  <2>2. ASSUME faults = 0
        PROVE  \/ \E a \in audit : /\ a.action = "approve"
                                   /\ a.rid = w.rid
                                   /\ a.user = w.approvedBy
               \/ \E t \in Threads : /\ thr[t].pc = "saved"
                                     /\ thr[t].kind = "approve"
                                     /\ thr[t].rid = w.rid
                                     /\ thr[t].p.user = w.approvedBy
    <3>1. PICK e \in Event : /\ e.action = "approve"
                             /\ e.actor = w.approvedBy
                             /\ EventKnown(e, w.rid, audit, thr)
      BY <2>2 DEF TargetsKnown, TargetKnown
    <3>2. ASSUME NEW t \in Threads, thr[t].pc \in {"saved", "counted"},
                 OwnEvent(thr[t], e)
          PROVE  /\ thr[t].pc = "saved" /\ thr[t].kind = "approve"
                 /\ thr[t].p.user = w.approvedBy
      <4>1. thr[t].kind = "approve" /\ thr[t].p.user = w.approvedBy
        BY <3>1, <3>2 DEF OwnEvent
      <4>2. thr[t].pc # "counted"
        BY <4>1 DEF ThreadsProgress, Progress
      <4> QED
        BY <3>2, <4>1, <4>2
    <3>3. CASE \E t \in Threads : /\ thr[t].pc \in {"saved", "counted"}
                                  /\ thr[t].rid = w.rid
                                  /\ OwnEvent(thr[t], e)
      BY <3>2, <3>3
    <3>4. CASE [ at |-> e.at, action |-> e.action, user |-> e.actor,
                 role |-> e.role, rid |-> w.rid ] \in audit
      BY <3>1, <3>4
    <3> QED
      BY <3>1, <3>3, <3>4 DEF EventKnown
  <2> QED
    BY <2>1, <2>2
<1> QED
  BY <1>1, <1>2, <1>3, <1>4, ServiceType, ServiceSound, ServiceKnown, PTL
     DEF Spec

-----------------------------------------------------------------------------
\* What a lone thread can rely on: nothing moved since it loaded the row and read
\* the policy, so its decision is still one the lifecycle allows.
Fresh(q, table, separation) ==
  /\ q.p \in Principals
  /\ q.at \in 1..MaxRequests
  /\ q.pc = "loaded" => q.rec = table[q.rid] /\ q.rec # NoRow
  /\ q.pc = "decided" =>
       /\ table[q.rid] # NoRow
       /\ q.rec \in Outcomes([q EXCEPT !.rec = table[q.rid]], separation)

ThreadsFresh ==
  \A t \in Threads : thr[t].pc # "idle" => Fresh(thr[t], row, policy)

\* One thread's request keeps this through every step.
LEMMA FreshKept ==
  ASSUME \A a, b \in Threads : a = b
  PROVE  TypeOK /\ ThreadsFresh /\ [Next]_vars => ThreadsFresh'
<1> SUFFICES ASSUME TypeOK, ThreadsFresh, [Next]_vars
             PROVE  ThreadsFresh'
  OBVIOUS
<1>1. ASSUME NEW t \in Threads, NEW q, thr' = [thr EXCEPT ![t] = q],
             q.pc # "idle" => Fresh(q, row', policy')
      PROVE  ThreadsFresh'
  <2>1. \A u \in Threads : thr'[u] = q
    BY <1>1 DEF TypeOK
  <2> QED
    BY <1>1, <2>1 DEF ThreadsFresh
<1>2. ASSUME NEW t \in Threads, Finish(t)
      PROVE  ThreadsFresh'
  BY <1>1, <1>2 DEF Finish, Idle
<1>3. ASSUME NEW t \in Threads, NEW pc \in {"saved", "counted", "audited"},
             thr[t].pc # "idle", Goto(t, pc)
      PROVE  ThreadsFresh'
  <2> DEFINE q == [thr[t] EXCEPT !.pc = pc]
  <2>1. thr[t] \in Request /\ Fresh(thr[t], row, policy)
    BY <1>3, BusyThread DEF ThreadsFresh
  <2>2. /\ q.pc = pc /\ pc \notin {"loaded", "decided"}
        /\ q.p = thr[t].p /\ q.at = thr[t].at
    BY <1>3, <2>1 DEF Request
  <2>3. thr' = [thr EXCEPT ![t] = q]
    BY <1>3 DEF Goto
  <2> HIDE DEF q
  <2>4. Fresh(q, row', policy')
    BY <2>1, <2>2 DEF Fresh
  <2> QED
    BY <1>1, <2>3, <2>4
<1>4. ASSUME NEW t \in Threads, NEW kind, NEW p \in Principals, NEW rid,
             NEW given, NEW rec, Accept(t, "saved", kind, p, rid, given, rec)
      PROVE  ThreadsFresh'
  <2> DEFINE q == [ pc |-> "saved", kind |-> kind, p |-> p, rid |-> rid,
                    given |-> given, at |-> requests + 1, rec |-> rec ]
  <2>1. requests + 1 \in 1..MaxRequests
    BY <1>4, ServiceAssumption DEF Accept, TypeOK
  <2>2. Fresh(q, row', policy')
    BY <2>1 DEF Fresh
  <2>3. thr' = [thr EXCEPT ![t] = q]
    BY <1>4 DEF Accept
  <2> QED
    BY <1>1, <2>2, <2>3
<1>5. ASSUME NEW t \in Threads, Create(t) \/ SetPolicy(t)
      PROVE  ThreadsFresh'
  BY <1>4, <1>5 DEF Create, SetPolicy
<1>6. ASSUME NEW t \in Threads, Load(t)
      PROVE  ThreadsFresh'
  <2>1. PICK p \in Principals, r \in Recs, given \in BOOLEAN,
             kind \in TransitionKinds \cup {"evaluate", "writeback"} :
          /\ row[r] # NoRow
          /\ Accept(t, "loaded", kind, p, r, given, row[r])
    BY <1>6 DEF Load
  <2> DEFINE q == [ pc |-> "loaded", kind |-> kind, p |-> p, rid |-> r,
                    given |-> given, at |-> requests + 1, rec |-> row[r] ]
  <2>2. requests + 1 \in 1..MaxRequests
    BY <2>1, ServiceAssumption DEF Accept, TypeOK
  <2>3. row' = row
    BY <1>6 DEF Load, store
  <2>4. Fresh(q, row', policy')
    BY <2>1, <2>2, <2>3 DEF Fresh
  <2>5. thr' = [thr EXCEPT ![t] = q]
    BY <2>1 DEF Accept
  <2> QED
    BY <1>1, <2>4, <2>5
<1>7. ASSUME NEW t \in Threads, Decide(t)
      PROVE  ThreadsFresh'
  <2>1. PICK new \in Outcomes(thr[t], policy) :
          thr' = [thr EXCEPT ![t].pc = "decided", ![t].rec = new]
    BY <1>7 DEF Decide
  <2>2. /\ thr[t] \in Request /\ WellFormed(thr[t]) /\ thr[t].pc = "loaded"
        /\ Fresh(thr[t], row, policy)
    BY <1>7, BusyThread DEF Decide, At, ThreadsFresh
  <2>3. row' = row /\ policy' = policy
    BY <1>7 DEF Decide, store
  <2> DEFINE q == [thr[t] EXCEPT !.pc = "decided", !.rec = new]
  <2>4. /\ q.pc = "decided" /\ q.rec = new /\ q.kind = thr[t].kind
        /\ q.p = thr[t].p /\ q.at = thr[t].at /\ q.given = thr[t].given
        /\ q.rid = thr[t].rid
    BY <2>2 DEF Request
  <2>5. thr' = [thr EXCEPT ![t] = q]
    BY <2>1
  <2> DEFINE o == [q EXCEPT !.rec = row[q.rid]]
  <2>6. /\ o.kind = thr[t].kind /\ o.rec = thr[t].rec /\ o.at = thr[t].at
        /\ o.p = thr[t].p /\ o.given = thr[t].given
    BY <2>2, <2>4 DEF Request, Fresh
  <2> HIDE DEF q
  <2>7. new \in Outcomes(o, policy)
    <3> HIDE DEF o
    <3> QED
      BY <2>1, <2>6 DEF Outcomes
  <2>8. Fresh(q, row', policy')
    BY <2>2, <2>3, <2>4, <2>7 DEF Fresh
  <2> QED
    BY <1>1, <2>5, <2>8
<1>8. ASSUME NEW t \in Threads,
             \/ Save(t) \/ Refuse(t) \/ CountEvaluation(t) \/ WriteTargets(t)
             \/ RecordWriteback(t) \/ Audit(t) \/ Dispatch(t) \/ Fail(t)
      PROVE  ThreadsFresh'
  <2>1. \/ Finish(t)
        \/ /\ thr[t].pc # "idle"
           /\ \E pc \in {"saved", "counted", "audited"} : Goto(t, pc)
    BY <1>8 DEF Save, Refuse, CountEvaluation, WriteTargets, RecordWriteback,
                Audit, Dispatch, Fail, At
  <2> QED
    BY <1>2, <1>3, <2>1
<1>9. CASE Crash
  BY <1>9 DEF Crash, ThreadsFresh, Idle
<1>10. CASE UNCHANGED vars
  BY <1>10 DEF vars, store, ThreadsFresh
<1> QED
  BY <1>5, <1>6, <1>7, <1>8, <1>9, <1>10 DEF Next, Handle, Quiet

\* The instance speaks of the same methods as the service.
LEMMA SameMethods ==
  ASSUME NEW rec, NEW at, NEW p, NEW separation, NEW reason, NEW badge
  PROVE  /\ Lifecycle!Draft(p, badge) = Draft(p, badge)
         /\ Lifecycle!Review(rec, at, p) = Review(rec, at, p)
         /\ Lifecycle!Approve(rec, at, p, separation, reason)
              = Approve(rec, at, p, separation, reason)
         /\ Lifecycle!Reject(rec, at, p) = Reject(rec, at, p)
         /\ Lifecycle!Implement(rec, at, p) = Implement(rec, at, p)
         /\ Lifecycle!Evaluate(rec, at, p) = Evaluate(rec, at, p)
<1>1. Lifecycle!Draft(p, badge) = Draft(p, badge)
  BY DEF Draft, Lifecycle!Draft, NoSnapshot, Lifecycle!NoSnapshot
<1> USE DEF Logged, Lifecycle!Logged, Allowed, Lifecycle!Allowed,
            States, Lifecycle!States, Transitions, Lifecycle!Transitions,
            RequiredRole, Lifecycle!RequiredRole
<1>2. Lifecycle!Review(rec, at, p) = Review(rec, at, p)
  BY DEF Review, Lifecycle!Review
<1>3. Lifecycle!Approve(rec, at, p, separation, reason)
        = Approve(rec, at, p, separation, reason)
  BY DEF Approve, Lifecycle!Approve, MayApprove, Lifecycle!MayApprove
<1>4. Lifecycle!Reject(rec, at, p) = Reject(rec, at, p)
  BY DEF Reject, Lifecycle!Reject
<1>5. Lifecycle!Implement(rec, at, p) = Implement(rec, at, p)
  BY DEF Implement, Lifecycle!Implement
<1>6. Lifecycle!Evaluate(rec, at, p) = Evaluate(rec, at, p)
  BY DEF Evaluate, Lifecycle!Evaluate
<1> QED
  BY <1>1, <1>2, <1>3, <1>4, <1>5, <1>6

\* A save, made by the only thread, is one action of the lifecycle.
LEMMA SaveRefines ==
  ASSUME TypeOK, ThreadsFresh, NEW t \in Threads, Save(t)
  PROVE  Lifecycle!Next
<1> DEFINE r == thr[t].rid
           o == [thr[t] EXCEPT !.rec = row[r]]
<1>1. /\ thr[t] \in Request /\ WellFormed(thr[t]) /\ thr[t].pc = "decided"
      /\ Fresh(thr[t], row, policy)
  BY BusyThread DEF Save, At, ThreadsFresh
<1>2. /\ r \in Recs /\ row[r] # NoRow /\ thr[t].p \in Principals
      /\ thr[t].at \in 1..MaxRequests /\ thr[t].given \in BOOLEAN
      /\ thr[t].rec \in Outcomes(o, policy)
  BY <1>1 DEF WellFormed, Fresh, Request
<1>3. /\ o.kind = thr[t].kind /\ o.rec = row[r] /\ o.at = thr[t].at
      /\ o.p = thr[t].p /\ o.given = thr[t].given
  BY <1>1 DEF Request
<1>4. row' = [row EXCEPT ![r] = thr[t].rec] /\ policy' = policy
  BY DEF Save
<1> HIDE DEF o
<1>5. \/ thr[t].rec \in Review(row[r], thr[t].at, thr[t].p)
           \cup Approve(row[r], thr[t].at, thr[t].p, policy, thr[t].given)
           \cup Reject(row[r], thr[t].at, thr[t].p)
           \cup Implement(row[r], thr[t].at, thr[t].p)
           \cup Evaluate(row[r], thr[t].at, thr[t].p)
      \/ /\ row[r].state = "EVALUATED"
         /\ thr[t].rec = [row[r] EXCEPT !.evaluations = @ \cup {thr[t].at}]
  BY <1>2, <1>3 DEF Outcomes
<1>6. CASE thr[t].rec \in Review(row[r], thr[t].at, thr[t].p)
             \cup Approve(row[r], thr[t].at, thr[t].p, policy, thr[t].given)
             \cup Reject(row[r], thr[t].at, thr[t].p)
             \cup Implement(row[r], thr[t].at, thr[t].p)
             \cup Evaluate(row[r], thr[t].at, thr[t].p)
  <2>1. thr[t].rec \in Lifecycle!Outcomes(row[r], thr[t].at, thr[t].p)
    BY <1>2, <1>6, SameMethods DEF Lifecycle!Outcomes
  <2>2. Lifecycle!Advance(r)
    BY <1>2, <1>4, <2>1 DEF Lifecycle!Advance, Lifecycle!Exists
  <2> QED
    BY <1>2, <2>2 DEF Lifecycle!Next
<1>7. CASE /\ row[r].state = "EVALUATED"
           /\ thr[t].rec = [row[r] EXCEPT !.evaluations = @ \cup {thr[t].at}]
  <2>1. row' = [row EXCEPT ![r].evaluations = @ \cup {thr[t].at}]
    BY <1>4, <1>7
  <2>2. Lifecycle!EvaluateAgain(r)
    BY <1>2, <1>4, <1>7, <2>1 DEF Lifecycle!EvaluateAgain, Lifecycle!Exists
  <2> QED
    BY <1>2, <2>2 DEF Lifecycle!Next
<1> QED
  BY <1>5, <1>6, <1>7

\* With one thread the service implements the lifecycle of states.py, so all that
\* RecLifecycleProofs shows of the lifecycle holds of the stored recommendations.
THEOREM ServiceImplementsLifecycle ==
  ASSUME \A a, b \in Threads : a = b
  PROVE  Spec => ImplementsLifecycle
<1>1. Init => Lifecycle!Init
  BY DEF Init, Lifecycle!Init
<1>2. Init => ThreadsFresh
  BY DEF Init, ThreadsFresh, Idle
<1>3. TypeOK /\ ThreadsFresh /\ [Next]_vars => ThreadsFresh'
  BY FreshKept
<1>4. TypeOK /\ ThreadsFresh /\ [Next]_vars
        => [Lifecycle!Next]_(Lifecycle!vars)
  <2> SUFFICES ASSUME TypeOK, ThreadsFresh, [Next]_vars
               PROVE  [Lifecycle!Next]_(Lifecycle!vars)
    OBVIOUS
  <2>1. ASSUME NEW t \in Threads, Create(t)
        PROVE  Lifecycle!Next
    <3>1. PICK p \in Principals, r \in Recs, badge \in Badges :
            /\ row[r] = NoRow
            /\ Accept(t, "saved", "create", p, r, FALSE, NoRow)
            /\ row' = [row EXCEPT ![r] = Draft(p, badge)]
            /\ policy' = policy
      BY <2>1 DEF Create
    <3>2. p.role \in {"engineer", "reviewer", "admin"}
      BY <3>1 DEF Accept, Gate, Require
    <3>3. Lifecycle!Create(r)
      <4>1. badge \in Lifecycle!Badges
        BY DEF Badges, Lifecycle!Badges
      <4> QED
        BY <3>1, <3>2, <4>1, SameMethods DEF Lifecycle!Create, Lifecycle!Exists
    <3> QED
      BY <3>3 DEF Lifecycle!Next
  <2>2. ASSUME NEW t \in Threads, SetPolicy(t)
        PROVE  Lifecycle!Next
    BY <2>2 DEF SetPolicy, Lifecycle!SetPolicy, Lifecycle!Next
  <2>3. ASSUME NEW t \in Threads, Save(t)
        PROVE  Lifecycle!Next
    BY <2>3, SaveRefines
  <2>4. ASSUME NEW t \in Threads,
               \/ Load(t) \/ Decide(t) \/ Refuse(t) \/ CountEvaluation(t)
               \/ WriteTargets(t) \/ RecordWriteback(t) \/ Audit(t)
               \/ Dispatch(t) \/ Fail(t)
        PROVE  UNCHANGED Lifecycle!vars
    BY <2>4 DEF Load, Decide, Refuse, CountEvaluation, WriteTargets,
                RecordWriteback, Audit, Dispatch, Fail, store, Lifecycle!vars
  <2>5. CASE Crash \/ UNCHANGED vars
    BY <2>5 DEF Crash, vars, store, Lifecycle!vars
  <2> QED
    BY <2>1, <2>2, <2>3, <2>4, <2>5 DEF Next, Handle, Quiet
<1> QED
  BY <1>1, <1>2, <1>3, <1>4, ServiceType, PTL
     DEF Spec, ImplementsLifecycle, Lifecycle!Spec
-----------------------------------------------------------------------------
\* What a lone thread saves is its decision on the row as it is now, under the
\* policy as it is now.
LEMMA SaveDecides ==
  ASSUME TypeOK, ThreadsFresh, NEW t \in Threads, Save(t)
  PROVE  \E q \in Request :
           /\ q.rid \in Recs /\ q.rid = thr[t].rid
           /\ q.rec = row[q.rid] /\ q.rec \in RecommendationType
           /\ q.kind = thr[t].kind /\ q.at = thr[t].at
           /\ thr[t].rec \in Outcomes(q, policy)
           /\ row' = [row EXCEPT ![q.rid] = thr[t].rec]
           /\ policy' = policy
<1> DEFINE o == [thr[t] EXCEPT !.rec = row[thr[t].rid]]
<1>1. /\ thr[t] \in Request /\ WellFormed(thr[t]) /\ thr[t].pc = "decided"
      /\ Fresh(thr[t], row, policy)
  BY BusyThread DEF Save, At, ThreadsFresh
<1>2. /\ thr[t].rid \in Recs
      /\ row[thr[t].rid] \in RecommendationType
      /\ thr[t].rec \in Outcomes(o, policy)
  BY <1>1 DEF WellFormed, Fresh, TypeOK
<1>3. /\ o \in Request /\ o.rid = thr[t].rid /\ o.rec = row[thr[t].rid]
      /\ o.kind = thr[t].kind /\ o.at = thr[t].at
  BY <1>1, <1>2 DEF Request
<1>4. row' = [row EXCEPT ![thr[t].rid] = thr[t].rec] /\ policy' = policy
  BY DEF Save
<1> HIDE DEF o
<1> QED
  BY <1>2, <1>3, <1>4

\* No method marks an approval by the originator under the "enforce" policy.
LEMMA OwnApprovalUnderLog ==
  ASSUME NEW q \in Request, q.rec \in RecommendationType,
         NEW separation \in {"log", "enforce"},
         NEW new \in Outcomes(q, separation),
         ~q.rec.byOriginator, new.byOriginator
  PROVE  separation = "log"
<1>1. CASE new = [q.rec EXCEPT !.evaluations = @ \cup {q.at}]
  <2>1. new.byOriginator = q.rec.byOriginator
    BY <1>1 DEF RecommendationType
  <2> QED
    BY <2>1
<1>2. CASE StepBy(new, q.rec, q.at, q.kind, q.p)
  <2>1. q.kind = "approve" /\ q.p.user = q.rec.originator
    BY <1>2 DEF StepBy, Effect
  <2>2. new \in Approve(q.rec, q.at, q.p, separation, q.given)
    BY <2>1 DEF Outcomes
  <2>3. MayApprove(q.rec, q.p, separation, q.given)
    BY <2>2 DEF Approve
  <2> QED
    BY <2>1, <2>3 DEF MayApprove
<1> QED
  BY <1>1, <1>2, DecisionStep

\* Served one at a time, an approval by the originator is stored only while the
\* policy is "log": the policy that was read is still the one in force.
THEOREM ServiceSeparates ==
  ASSUME \A a, b \in Threads : a = b
  PROVE  Spec => SeparationEnforced
<1>1. Init => ThreadsFresh
  BY DEF Init, ThreadsFresh, Idle
<1>2. TypeOK /\ ThreadsFresh /\ [Next]_vars => ThreadsFresh'
  BY FreshKept
<1>3. TypeOK /\ ThreadsFresh /\ [Next]_vars
        => [ \A r \in Recs :
               (Exists(r) /\ ~row[r].byOriginator /\ row'[r].byOriginator)
                 => policy = "log" ]_vars
  <2> SUFFICES ASSUME TypeOK, ThreadsFresh, [Next]_vars, NEW r \in Recs,
                      Exists(r), ~row[r].byOriginator, row'[r].byOriginator
               PROVE  policy = "log"
    OBVIOUS
  <2>1. row'[r] # row[r]
    OBVIOUS
  <2>2. ASSUME NEW t \in Threads, Create(t)
        PROVE  FALSE
    BY <2>1, <2>2 DEF Create, Exists, TypeOK
  <2>3. ASSUME NEW t \in Threads, Save(t)
        PROVE  policy = "log"
    <3>1. PICK q \in Request :
            /\ q.rid \in Recs /\ q.rid = thr[t].rid
            /\ q.rec = row[q.rid] /\ q.rec \in RecommendationType
            /\ thr[t].rec \in Outcomes(q, policy)
            /\ row' = [row EXCEPT ![q.rid] = thr[t].rec]
      BY <2>3, SaveDecides
    <3>2. r = q.rid /\ row'[r] = thr[t].rec
      BY <2>1, <3>1 DEF TypeOK
    <3> QED
      BY <3>1, <3>2, OwnApprovalUnderLog DEF TypeOK
  <2> QED
    BY <2>1, <2>2, <2>3 DEF Next, Handle, SetPolicy, Load, Decide, Refuse,
       CountEvaluation, WriteTargets, RecordWriteback, Audit, Dispatch, Fail,
       Crash, Quiet, vars, store
<1> QED
  BY <1>1, <1>2, <1>3, ServiceType, PTL DEF Spec, SeparationEnforced

-----------------------------------------------------------------------------
\* What the handlers put into the other tables stays true of a recommendation
\* whatever method is applied to it.
LEMMA DecisionKeeps ==
  ASSUME NEW q \in Request, q.rec \in RecommendationType, NEW separation,
         NEW new \in Outcomes(q, separation)
  PROVE  /\ q.rec.state \in ApprovedStates =>
              /\ new.state \in ApprovedStates
              /\ new.snapshot = q.rec.snapshot
              /\ LastApprover(new) = LastApprover(q.rec)
         /\ q.rec.evaluations \subseteq new.evaluations
         /\ q.kind = "evaluate" => q.at \in new.evaluations
<1>1. CASE new = [q.rec EXCEPT !.evaluations = @ \cup {q.at}]
  <2>1. /\ new.state = q.rec.state /\ new.snapshot = q.rec.snapshot
        /\ new.history = q.rec.history
        /\ new.evaluations = q.rec.evaluations \cup {q.at}
    BY <1>1 DEF RecommendationType
  <2>2. LastApprover(new) = LastApprover(q.rec)
    BY <2>1 DEF LastApprover
  <2> QED
    BY <2>1, <2>2
<1>2. CASE StepBy(new, q.rec, q.at, q.kind, q.p)
  <2>1. /\ LastApprover(new) = IF q.kind = "approve"
                                 THEN {q.p.user} ELSE LastApprover(q.rec)
        /\ new.state \in ApprovedStates
             <=> q.kind = "approve" \/ q.rec.state \in ApprovedStates
    BY <1>2, ApproverStep
  <2>2. PICK to \in Allowed(q.rec, q.kind, q.p) :
          Effect(new, q.rec, q.at, q.kind, q.p)
    BY <1>2 DEF StepBy
  <2>3. q.rec.state \in ApprovedStates => q.kind # "approve"
    BY <2>2 DEF Allowed, Transitions, ApprovedStates
  <2> QED
    BY <2>1, <2>2, <2>3 DEF Effect
<1> QED
  BY <1>1, <1>2, DecisionStep

\* The row that belongs to a target, or to a counted evaluation.
TargetTraced(w, table) ==
  /\ w.rid \in Recs
  /\ table[w.rid] # NoRow
  /\ table[w.rid].state \in ApprovedStates
  /\ table[w.rid].snapshot # NoSnapshot
  /\ w.approvedBy \in LastApprover(table[w.rid])

EvaluationTraced(r, n, table) ==
  table[r] # NoRow /\ n \in table[r].evaluations

\* An evaluation that is saved and not counted yet is on its row.
Traced ==
  /\ \A w \in targets : TargetTraced(w, row)
  /\ \A v \in validation : EvaluationTraced(v[1], v[2], row)
  /\ \A t \in Threads :
       thr[t].pc = "saved" /\ thr[t].kind = "evaluate" =>
         EvaluationTraced(thr[t].rid, thr[t].at, row)

\* What is traced stays traced when the rows change.
LEMMA TracedKept ==
  ASSUME TypeOK, ThreadsFresh, [Next]_vars, NEW w, NEW r \in Recs, NEW n
  PROVE  /\ TargetTraced(w, row) => TargetTraced(w, row')
         /\ EvaluationTraced(r, n, row) => EvaluationTraced(r, n, row')
<1>1. ASSUME NEW s \in Recs
      PROVE  \/ row'[s] = row[s]
             \/ row[s] = NoRow
             \/ /\ row[s].state \in ApprovedStates =>
                     /\ row'[s].state \in ApprovedStates
                     /\ row'[s].snapshot = row[s].snapshot
                     /\ LastApprover(row'[s]) = LastApprover(row[s])
                /\ row[s].evaluations \subseteq row'[s].evaluations
                /\ row'[s] # NoRow
  <2>1. ASSUME NEW t \in Threads, Create(t)
        PROVE  row'[s] = row[s] \/ row[s] = NoRow
    BY <2>1 DEF Create, TypeOK
  <2>2. ASSUME NEW t \in Threads, Save(t), row'[s] # row[s]
        PROVE  /\ row[s].state \in ApprovedStates =>
                    /\ row'[s].state \in ApprovedStates
                    /\ row'[s].snapshot = row[s].snapshot
                    /\ LastApprover(row'[s]) = LastApprover(row[s])
               /\ row[s].evaluations \subseteq row'[s].evaluations
               /\ row'[s] # NoRow
    <3>1. PICK q \in Request :
            /\ q.rid \in Recs
            /\ q.rec = row[q.rid] /\ q.rec \in RecommendationType
            /\ thr[t].rec \in Outcomes(q, policy)
            /\ row' = [row EXCEPT ![q.rid] = thr[t].rec]
      BY <2>2, SaveDecides
    <3>2. s = q.rid /\ row'[s] = thr[t].rec
      BY <2>2, <3>1 DEF TypeOK
    <3>3. row'[s] # NoRow
      BY <3>1, <3>2, DecisionConsistent, ServiceAssumption
    <3> QED
      BY <3>1, <3>2, <3>3, DecisionKeeps
  <2> QED
    BY <2>1, <2>2 DEF Next, Handle, SetPolicy, Load, Decide, Refuse,
       CountEvaluation, WriteTargets, RecordWriteback, Audit, Dispatch, Fail,
       Crash, Quiet, vars, store
<1> QED
  BY <1>1 DEF TargetTraced, EvaluationTraced

\* A lone thread's step keeps every target and every counted evaluation traced.
LEMMA TracedStep ==
  ASSUME TypeOK, ThreadsFresh, RowsSound, Traced, [Next]_vars
  PROVE  Traced'
<1>1. ASSUME NEW w \in targets', w \notin targets
      PROVE  TargetTraced(w, row')
  <2>1. PICK t \in Threads : WriteTargets(t)
    BY <1>1 DEF Next, Handle, Create, SetPolicy, Load, Decide, Refuse, Save,
       CountEvaluation, RecordWriteback, Audit, Dispatch, Fail, Crash, Quiet,
       vars, store
  <2>2. PICK who \in ApprovedBy(thr[t].rec) :
          w = [at |-> thr[t].at, rid |-> thr[t].rid, approvedBy |-> who]
    BY <1>1, <2>1 DEF WriteTargets
  <2>3. /\ thr[t] \in Request /\ WellFormed(thr[t])
        /\ thr[t].pc = "loaded" /\ thr[t].rec.state \in ApprovedStates
        /\ row' = row
    BY <2>1, BusyThread DEF WriteTargets, At
  <2>4. /\ thr[t].rid \in Recs /\ row[thr[t].rid] = thr[t].rec
        /\ thr[t].rec # NoRow /\ thr[t].rec \in RecommendationType
    BY <2>1, <2>3 DEF ThreadsFresh, Fresh, WellFormed, WriteTargets
  <2>5. Sound(thr[t].rec)
    BY <2>4 DEF RowsSound, Exists
  <2>6. who \in LastApprover(thr[t].rec)
    BY <2>2, <2>3, <2>5 DEF ApprovedBy, Sound, ApproverKnown
  <2>7. thr[t].rec.snapshot # NoSnapshot
    BY <2>3, <2>4, <2>5 DEF Sound, Consistent, SnapshotFrozen,
       RecommendationType, Badges, NoSnapshot
  <2> QED
    BY <2>2, <2>3, <2>4, <2>6, <2>7 DEF TargetTraced
<1>2. ASSUME NEW v \in validation', v \notin validation
      PROVE  EvaluationTraced(v[1], v[2], row')
  <2>1. PICK t \in Threads : CountEvaluation(t)
    BY <1>2 DEF Next, Handle, Create, SetPolicy, Load, Decide, Refuse, Save,
       WriteTargets, RecordWriteback, Audit, Dispatch, Fail, Crash, Quiet, vars,
       store
  <2>2. /\ thr[t].pc = "saved" /\ thr[t].kind = "evaluate"
        /\ v = <<thr[t].rid, thr[t].at>> /\ row' = row
    BY <1>2, <2>1 DEF CountEvaluation, At
  <2> QED
    BY <2>2 DEF Traced
<1>3. ASSUME NEW u \in Threads, thr'[u].pc = "saved", thr'[u].kind = "evaluate"
      PROVE  EvaluationTraced(thr'[u].rid, thr'[u].at, row')
  <2>1. CASE thr'[u] = thr[u]
    <3>1. /\ thr[u].rid \in Recs
          /\ EvaluationTraced(thr[u].rid, thr[u].at, row)
      BY <1>3, <2>1, BusyThread DEF Traced, WellFormed
    <3> QED
      BY <2>1, <3>1, TracedKept
  <2>2. CASE Save(u)
    <3>1. PICK q \in Request :
            /\ q.rid \in Recs /\ q.rid = thr[u].rid
            /\ q.rec = row[q.rid] /\ q.rec \in RecommendationType
            /\ q.kind = thr[u].kind /\ q.at = thr[u].at
            /\ thr[u].rec \in Outcomes(q, policy)
            /\ row' = [row EXCEPT ![q.rid] = thr[u].rec]
      BY <2>2, SaveDecides
    <3>2. /\ thr'[u].kind = thr[u].kind /\ thr'[u].rid = thr[u].rid
          /\ thr'[u].at = thr[u].at
      BY <2>2, GotoFields DEF Save, At
    <3>3. row'[q.rid] = thr[u].rec
      BY <3>1 DEF TypeOK
    <3>4. thr[u].rec # NoRow
      BY <3>1, DecisionConsistent, ServiceAssumption
    <3>5. q.at \in thr[u].rec.evaluations
      BY <1>3, <3>1, <3>2, DecisionKeeps
    <3> QED
      BY <3>1, <3>2, <3>3, <3>4, <3>5 DEF EvaluationTraced
  <2>3. thr'[u] = thr[u] \/ Save(u)
    <3>1. ASSUME NEW pc, NEW kind, NEW p, NEW rid, NEW given, NEW rec,
                 Accept(u, pc, kind, p, rid, given, rec),
                 pc # "saved" \/ kind # "evaluate"
          PROVE  FALSE
      BY <1>3, <3>1, AcceptFields
    <3>2. ~Create(u) /\ ~SetPolicy(u) /\ ~Load(u)
      <4>1. ~Create(u)
        BY <3>1 DEF Create
      <4>2. ~SetPolicy(u)
        BY <3>1 DEF SetPolicy
      <4>3. ~Load(u)
        BY <3>1 DEF Load
      <4> QED
        BY <4>1, <4>2, <4>3
    <3>3. ~Finish(u) /\ ~Crash
      BY <1>3 DEF Finish, Crash, Idle, TypeOK
    <3>4. ~Decide(u)
      <4> SUFFICES ASSUME Decide(u) PROVE FALSE
        OBVIOUS
      <4>1. PICK new :
              thr' = [thr EXCEPT ![u].pc = "decided", ![u].rec = new]
        BY DEF Decide
      <4>2. thr[u] \in Request
        BY BusyThread DEF Decide, At
      <4>3. thr'[u].pc = "decided"
        BY <4>1, <4>2 DEF TypeOK, Request
      <4> QED
        BY <1>3, <4>3
    <3>5. ASSUME NEW pc, thr[u].pc # "idle", Goto(u, pc)
          PROVE  pc = "saved" /\ thr[u].kind = "evaluate"
      BY <1>3, <3>5, GotoFields
    <3> QED
      BY <3>2, <3>3, <3>4, <3>5, OneMoves
         DEF Handle, Refuse, CountEvaluation, WriteTargets, RecordWriteback,
             Audit, Dispatch, Fail, At
  <2> QED
    BY <2>1, <2>2, <2>3
<1>4. ASSUME NEW w \in targets
      PROVE  TargetTraced(w, row')
  BY TracedKept DEF Traced, TargetTraced
<1>5. ASSUME NEW v \in validation
      PROVE  EvaluationTraced(v[1], v[2], row')
  <2>1. v[1] \in Recs /\ EvaluationTraced(v[1], v[2], row)
    BY DEF Traced, TypeOK
  <2> QED
    BY <2>1, TracedKept
<1> QED
  BY <1>1, <1>2, <1>3, <1>4, <1>5 DEF Traced

\* Served one at a time, every row in the surveillance system belongs to a
\* recommendation that is approved and snapshotted now by the user it names, and
\* every counted evaluation is still on its recommendation.
THEOREM ServiceTraceable ==
  ASSUME \A a, b \in Threads : a = b
  PROVE  Spec => []TablesTraceable
<1>1. Init => ThreadsFresh /\ Traced
  BY DEF Init, ThreadsFresh, Traced, Idle
<1>2. TypeOK /\ ThreadsFresh /\ [Next]_vars => ThreadsFresh'
  BY FreshKept
<1>3. TypeOK /\ ThreadsFresh /\ RowsSound /\ Traced /\ [Next]_vars => Traced'
  BY TracedStep
<1>4. Traced => TablesTraceable
  BY DEF Traced, TargetTraced, EvaluationTraced, TablesTraceable,
         TargetsTraceable, CalibrationHonest, Exists
<1> QED
  BY <1>1, <1>2, <1>3, <1>4, ServiceType, ServiceSound, PTL DEF Spec
=============================================================================
