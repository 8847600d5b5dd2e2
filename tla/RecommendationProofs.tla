------------------------ MODULE RecommendationProofs ------------------------
(***************************************************************************)
(* Lemmas about the methods of Recommendation: each returns a well-formed  *)
(* recommendation, and a consistent one when it was given one.             *)
(***************************************************************************)
EXTENDS Recommendation, TLAPS

\* What a method adds to the history: one event, at the end.
Extends(new, rec, at, action, p, to) ==
  /\ new.history = Append(rec.history,
       [ at |-> at, action |-> action, actor |-> p.user,
         role |-> p.role, from |-> rec.state, to |-> to ])
  /\ new.state = to
  /\ new.originator = rec.originator
  /\ new.confidence = rec.confidence

\* A logged transition is again a well-formed recommendation.
LEMMA LoggedType ==
  ASSUME NEW rec \in RecommendationType, NEW at \in Nat, NEW p \in Identity,
         NEW action \in Actions, NEW to \in States
  PROVE  /\ Logged(rec, at, action, p, to) \in RecommendationType
         /\ Extends(Logged(rec, at, action, p, to), rec, at, action, p, to)
<1> DEFINE e == [ at |-> at, action |-> action, actor |-> p.user,
                  role |-> p.role, from |-> rec.state, to |-> to ]
<1>1. e \in Event
  BY DEF Event, Identity, RecommendationType
<1>2. Append(rec.history, e) \in Seq(Event)
  BY <1>1 DEF RecommendationType
<1> QED
  BY <1>2 DEF Logged, RecommendationType, Extends

\* Every method is made of allowed transitions and returns a well-formed
\* recommendation.
LEMMA OutcomeType ==
  ASSUME NEW rec \in RecommendationType, NEW at \in Nat, NEW p \in Identity,
         NEW policy, NEW reason \in BOOLEAN
  PROVE  /\ Review(rec, at, p) \subseteq RecommendationType
         /\ Approve(rec, at, p, policy, reason) \subseteq RecommendationType
         /\ Reject(rec, at, p) \subseteq RecommendationType
         /\ Implement(rec, at, p) \subseteq RecommendationType
         /\ Evaluate(rec, at, p) \subseteq RecommendationType
<1>1. \A action \in Actions : \A to \in Allowed(rec, action, p) :
        Logged(rec, at, action, p, to) \in RecommendationType
  BY LoggedType DEF Allowed
<1>2. {"review", "approve", "reject", "implement", "evaluate"} \subseteq Actions
  BY DEF Actions
<1>3. Review(rec, at, p) \subseteq RecommendationType
  BY <1>1, <1>2 DEF Review
<1>4. Reject(rec, at, p) \subseteq RecommendationType
  BY <1>1, <1>2 DEF Reject
<1>5. Approve(rec, at, p, policy, reason) \subseteq RecommendationType
  <2> SUFFICES ASSUME NEW to \in Allowed(rec, "approve", p)
               PROVE  [ Logged(rec, at, "approve", p, to) EXCEPT
                          !.byOriginator = @ \/ p.user = rec.originator,
                          !.overridden   = @ \/ rec.confidence = "LOW",
                          !.snapshot     = rec.confidence ]
                        \in RecommendationType
    BY DEF Approve
  <2> DEFINE l == Logged(rec, at, "approve", p, to)
  <2>1. l \in RecommendationType
    BY <1>1, <1>2
  <2>2. (l.byOriginator \/ p.user = rec.originator) \in BOOLEAN
    OBVIOUS
  <2>3. (l.overridden \/ rec.confidence = "LOW") \in BOOLEAN
    OBVIOUS
  <2>4. rec.confidence \in Badges \cup {NoSnapshot}
    BY DEF RecommendationType
  <2> HIDE DEF l
  <2> QED
    BY <2>1, <2>2, <2>3, <2>4 DEF RecommendationType, l
<1>6. Implement(rec, at, p) \subseteq RecommendationType
  BY <1>1, <1>2 DEF Implement, RecommendationType
<1>7. Evaluate(rec, at, p) \subseteq RecommendationType
  BY <1>1, <1>2 DEF Evaluate, RecommendationType
<1> QED
  BY <1>3, <1>4, <1>5, <1>6, <1>7

-----------------------------------------------------------------------------
\* The events of a history that grew by one: the old ones, and the new one last.
LEMMA ExtendsHistory ==
  ASSUME NEW rec \in RecommendationType, NEW new, NEW at, NEW action, NEW p,
         NEW to, Extends(new, rec, at, action, p, to)
  PROVE  /\ Len(rec.history) \in Nat
         /\ Len(new.history) = Len(rec.history) + 1
         /\ \A i \in 1..Len(rec.history) : new.history[i] = rec.history[i]
         /\ new.history[Len(rec.history) + 1] =
              [ at |-> at, action |-> action, actor |-> p.user,
                role |-> p.role, from |-> rec.state, to |-> to ]
<1>1. rec.history \in Seq(Event)
  BY DEF RecommendationType
<1> QED
  BY <1>1 DEF Extends

\* The longer history has an approval, or one by the originator, when the old one
\* had or the new event is one.
LEMMA ExtendsApprovals ==
  ASSUME NEW rec \in RecommendationType, NEW new, NEW at, NEW action, NEW p,
         NEW to, Extends(new, rec, at, action, p, to)
  PROVE  /\ (\E i \in 1..Len(new.history) : new.history[i].action = "approve")
              <=> \/ action = "approve"
                  \/ \E i \in 1..Len(rec.history) :
                       rec.history[i].action = "approve"
         /\ (\E i \in 1..Len(new.history) :
               /\ new.history[i].action = "approve"
               /\ new.history[i].actor = rec.originator)
              <=> \/ action = "approve" /\ p.user = rec.originator
                  \/ \E i \in 1..Len(rec.history) :
                       /\ rec.history[i].action = "approve"
                       /\ rec.history[i].actor = rec.originator
<1> DEFINE n == Len(rec.history)
           h == new.history
<1>1. /\ n \in Nat
      /\ Len(h) = n + 1
      /\ \A i \in 1..n : h[i] = rec.history[i]
      /\ h[n + 1] = [ at |-> at, action |-> action, actor |-> p.user,
                      role |-> p.role, from |-> rec.state, to |-> to ]
  BY ExtendsHistory
<1>2. /\ h[n + 1].action = action
      /\ h[n + 1].actor = p.user
      /\ n + 1 \in 1..Len(h)
      /\ \A i : i \in 1..Len(h) <=> i \in 1..n \/ i = n + 1
  BY <1>1
<1>3. (\E i \in 1..Len(h) : /\ h[i].action = "approve"
                           /\ h[i].actor = rec.originator)
         <=> \/ action = "approve" /\ p.user = rec.originator
             \/ \E i \in 1..n : /\ rec.history[i].action = "approve"
                                /\ rec.history[i].actor = rec.originator
  BY <1>1, <1>2
<1>4. (\E i \in 1..Len(h) : h[i].action = "approve")
         <=> \/ action = "approve"
             \/ \E i \in 1..n : rec.history[i].action = "approve"
  BY <1>1, <1>2
<1> QED
  BY <1>3, <1>4

\* A legal history followed by an allowed transition is legal.
LEMMA ExtendsLegal ==
  ASSUME NEW rec \in RecommendationType, LegalHistory(rec),
         NEW new, NEW at, NEW action, NEW p,
         NEW to \in Allowed(rec, action, p),
         Extends(new, rec, at, action, p, to)
  PROVE  LegalHistory(new)
<1> DEFINE n == Len(rec.history)
           h == new.history
<1>1. /\ n \in Nat
      /\ Len(h) = n + 1
      /\ \A i \in 1..n : h[i] = rec.history[i]
      /\ h[n + 1] = [ at |-> at, action |-> action, actor |-> p.user,
                      role |-> p.role, from |-> rec.state, to |-> to ]
  BY ExtendsHistory
<1>2. new.state = h[Len(h)].to /\ h # << >>
  <2>1. new.state = to /\ h[Len(h)].to = to
    BY <1>1 DEF Extends
  <2>2. Len(h) # Len(<< >>)
    BY <1>1
  <2> QED
    BY <2>1, <2>2
<1>3. /\ <<rec.state, action, to>> \in Transitions
      /\ p.role \in RequiredRole[action]
  BY DEF Allowed
<1>4. rec.history \in Seq(Event)
  BY DEF RecommendationType
<1>5. rec.state = IF n = 0 THEN "DRAFT" ELSE rec.history[n].to
  BY <1>4 DEF LegalHistory
<1>6. ASSUME NEW i \in 1..Len(h)
      PROVE  /\ <<h[i].from, h[i].action, h[i].to>> \in Transitions
             /\ h[i].role \in RequiredRole[h[i].action]
             /\ h[i].from = IF i = 1 THEN "DRAFT" ELSE h[i - 1].to
  <2>1. CASE i = n + 1
    <3>1. h[i].from = IF i = 1 THEN "DRAFT" ELSE h[i - 1].to
      BY <2>1, <1>1, <1>5
    <3> QED
      BY <2>1, <1>1, <1>3, <3>1
  <2>2. CASE i \in 1..n
    <3>1. h[i] = rec.history[i] /\ (i # 1 => h[i - 1] = rec.history[i - 1])
      BY <2>2, <1>1
    <3>2. /\ <<rec.history[i].from, rec.history[i].action, rec.history[i].to>>
               \in Transitions
          /\ rec.history[i].role \in RequiredRole[rec.history[i].action]
          /\ rec.history[i].from =
               IF i = 1 THEN "DRAFT" ELSE rec.history[i - 1].to
      BY <2>2 DEF LegalHistory
    <3> QED
      BY <3>1, <3>2
  <2> QED
    BY <1>1, <2>1, <2>2
<1> QED
  BY <1>2, <1>6 DEF LegalHistory

-----------------------------------------------------------------------------
\* What a method does to the fields beside state and history.
Effect(new, rec, at, action, p) ==
  /\ new.byOriginator <=>
       rec.byOriginator \/ (action = "approve" /\ p.user = rec.originator)
  /\ new.overridden <=>
       rec.overridden \/ (action = "approve" /\ rec.confidence = "LOW")
  /\ new.snapshot = IF action = "approve" THEN rec.confidence
                                          ELSE rec.snapshot
  /\ new.implemented = IF action = "implement" THEN at ELSE rec.implemented
  /\ new.evaluations = IF action = "evaluate" THEN rec.evaluations \cup {at}
                                              ELSE rec.evaluations

\* new is rec after one allowed transition, made by this action.
StepBy(new, rec, at, action, p) ==
  /\ new \in RecommendationType
  /\ action \in Actions
  /\ \E to \in Allowed(rec, action, p) :
       /\ Extends(new, rec, at, action, p, to)
       /\ Effect(new, rec, at, action, p)

\* Whatever method made it, new is rec after one allowed transition.
StepOf(new, rec, at, p) == \E action \in Actions : StepBy(new, rec, at, action, p)

\* Every outcome of a method is a step by the action of that name.
LEMMA OutcomeStepBy ==
  ASSUME NEW rec \in RecommendationType, NEW at \in Nat, NEW p \in Identity,
         NEW policy, NEW reason \in BOOLEAN, NEW new
  PROVE  /\ new \in Review(rec, at, p) => StepBy(new, rec, at, "review", p)
         /\ new \in Approve(rec, at, p, policy, reason)
              => StepBy(new, rec, at, "approve", p)
         /\ new \in Reject(rec, at, p) => StepBy(new, rec, at, "reject", p)
         /\ new \in Implement(rec, at, p) => StepBy(new, rec, at, "implement", p)
         /\ new \in Evaluate(rec, at, p) => StepBy(new, rec, at, "evaluate", p)
<1>1. {"review", "approve", "reject", "implement", "evaluate"} \subseteq Actions
  BY DEF Actions
<1>2. ASSUME NEW action \in Actions, NEW to \in Allowed(rec, action, p)
      PROVE  /\ Logged(rec, at, action, p, to) \in RecommendationType
             /\ Extends(Logged(rec, at, action, p, to), rec, at, action, p, to)
  BY LoggedType DEF Allowed
<1>3. ASSUME NEW action \in {"review", "reject"},
             NEW to \in Allowed(rec, action, p),
             new = Logged(rec, at, action, p, to)
      PROVE  StepBy(new, rec, at, action, p)
  <2>1. Effect(new, rec, at, action, p)
    BY <1>3 DEF Effect, Logged, RecommendationType
  <2> QED
    BY <1>1, <1>2, <1>3, <2>1 DEF StepBy
<1>4. ASSUME NEW to \in Allowed(rec, "approve", p),
             new \in RecommendationType,
             new = [ Logged(rec, at, "approve", p, to) EXCEPT
                       !.byOriginator = @ \/ p.user = rec.originator,
                       !.overridden   = @ \/ rec.confidence = "LOW",
                       !.snapshot     = rec.confidence ]
      PROVE  StepBy(new, rec, at, "approve", p)
  <2>1. Extends(new, rec, at, "approve", p, to)
    BY <1>4 DEF Extends, Logged, RecommendationType
  <2>2. Effect(new, rec, at, "approve", p)
    BY <1>4 DEF Effect, Logged, RecommendationType
  <2> QED
    BY <1>1, <1>4, <2>1, <2>2 DEF StepBy
<1>5. ASSUME NEW to \in Allowed(rec, "implement", p),
             new \in RecommendationType,
             new = [Logged(rec, at, "implement", p, to)
                      EXCEPT !.implemented = at]
      PROVE  StepBy(new, rec, at, "implement", p)
  <2>1. Extends(new, rec, at, "implement", p, to)
    BY <1>5 DEF Extends, Logged, RecommendationType
  <2>2. Effect(new, rec, at, "implement", p)
    BY <1>5 DEF Effect, Logged, RecommendationType
  <2> QED
    BY <1>1, <1>5, <2>1, <2>2 DEF StepBy
<1>6. ASSUME NEW to \in Allowed(rec, "evaluate", p),
             new \in RecommendationType,
             new = [Logged(rec, at, "evaluate", p, to)
                      EXCEPT !.evaluations = @ \cup {at}]
      PROVE  StepBy(new, rec, at, "evaluate", p)
  <2>1. Extends(new, rec, at, "evaluate", p, to)
    BY <1>6 DEF Extends, Logged, RecommendationType
  <2>2. Effect(new, rec, at, "evaluate", p)
    BY <1>6 DEF Effect, Logged, RecommendationType
  <2> QED
    BY <1>1, <1>6, <2>1, <2>2 DEF StepBy
<1>7. new \in Review(rec, at, p) => StepBy(new, rec, at, "review", p)
  BY <1>3 DEF Review
<1>8. ASSUME new \in Approve(rec, at, p, policy, reason)
      PROVE  StepBy(new, rec, at, "approve", p)
  <2>1. new \in RecommendationType
    BY <1>8, OutcomeType
  <2>2. PICK to \in Allowed(rec, "approve", p) :
          new = [ Logged(rec, at, "approve", p, to) EXCEPT
                    !.byOriginator = @ \/ p.user = rec.originator,
                    !.overridden   = @ \/ rec.confidence = "LOW",
                    !.snapshot     = rec.confidence ]
    BY <1>8 DEF Approve
  <2> QED
    BY <1>4, <2>1, <2>2
<1>9. new \in Reject(rec, at, p) => StepBy(new, rec, at, "reject", p)
  BY <1>3 DEF Reject
<1>10. new \in Implement(rec, at, p) => StepBy(new, rec, at, "implement", p)
  BY <1>5, OutcomeType DEF Implement
<1>11. new \in Evaluate(rec, at, p) => StepBy(new, rec, at, "evaluate", p)
  BY <1>6, OutcomeType DEF Evaluate
<1> QED
  BY <1>7, <1>8, <1>9, <1>10, <1>11

\* Every outcome of every method is a step.
LEMMA OutcomeStep ==
  ASSUME NEW rec \in RecommendationType, NEW at \in Nat, NEW p \in Identity,
         NEW policy, NEW reason \in BOOLEAN,
         NEW new \in Review(rec, at, p)
                       \cup Approve(rec, at, p, policy, reason)
                       \cup Reject(rec, at, p)
                       \cup Implement(rec, at, p)
                       \cup Evaluate(rec, at, p)
  PROVE  StepOf(new, rec, at, p)
<1>1. \E action \in {"review", "approve", "reject", "implement", "evaluate"} :
        StepBy(new, rec, at, action, p)
  BY OutcomeStepBy
<1> QED
  BY <1>1 DEF StepOf, Actions

\* A step from a consistent recommendation leads to a consistent one.
LEMMA StepConsistent ==
  ASSUME NEW rec \in RecommendationType, NEW at \in Nat \ {0},
         NEW p \in Identity, NEW new, StepOf(new, rec, at, p), Consistent(rec)
  PROVE  Consistent(new)
<1>1. PICK action \in Actions : \E to \in Allowed(rec, action, p) :
        Extends(new, rec, at, action, p, to) /\ Effect(new, rec, at, action, p)
  BY DEF StepOf, StepBy
<1>2. PICK to \in Allowed(rec, action, p) :
        Extends(new, rec, at, action, p, to) /\ Effect(new, rec, at, action, p)
  BY <1>1
<1>3. LegalHistory(new)
  BY <1>2, ExtendsLegal DEF Consistent
<1>4. <<rec.state, action, to>> \in Transitions /\ new.state = to
  BY <1>2 DEF Allowed, Extends
<1>5. /\ action = "approve" <=>
           rec.state \notin ApprovedStates /\ to \in ApprovedStates
      /\ rec.state \in ApprovedStates => to \in ApprovedStates
      /\ action = "implement" <=>
           rec.state \notin ImplementedStates /\ to \in ImplementedStates
      /\ rec.state \in ImplementedStates => to \in ImplementedStates
      /\ action = "evaluate" <=> to = "EVALUATED"
      /\ rec.state # "EVALUATED"
  BY <1>4 DEF Transitions, ApprovedStates, ImplementedStates
<1>6. new.confidence = rec.confidence /\ new.originator = rec.originator
  BY <1>2 DEF Extends
<1>7. SnapshotFrozen(new)
  <2>1. (\E i \in 1..Len(new.history) : new.history[i].action = "approve")
          <=> action = "approve" \/ rec.state \in ApprovedStates
    BY <1>2, ExtendsApprovals DEF Consistent, SnapshotFrozen
  <2>2. new.snapshot = IF action = "approve" THEN rec.confidence
                                             ELSE rec.snapshot
    BY <1>2 DEF Effect
  <2> QED
    BY <1>4, <1>5, <1>6, <2>1, <2>2 DEF Consistent, SnapshotFrozen
<1>8. ApprovalGated(new)
  <2>1. (\E i \in 1..Len(new.history) :
           /\ new.history[i].action = "approve"
           /\ new.history[i].actor = rec.originator)
          <=> (action = "approve" /\ p.user = rec.originator)
                \/ rec.byOriginator
    <3>1. (\E i \in 1..Len(new.history) :
             /\ new.history[i].action = "approve"
             /\ new.history[i].actor = rec.originator)
            <=> \/ action = "approve" /\ p.user = rec.originator
                \/ \E i \in 1..Len(rec.history) :
                     /\ rec.history[i].action = "approve"
                     /\ rec.history[i].actor = rec.originator
      BY <1>2, ExtendsApprovals
    <3>2. rec.byOriginator <=>
            \E i \in 1..Len(rec.history) :
              /\ rec.history[i].action = "approve"
              /\ rec.history[i].actor = rec.originator
      BY DEF Consistent, ApprovalGated
    <3> QED
      BY <3>1, <3>2
  <2>2. new.byOriginator <=>
          rec.byOriginator \/ (action = "approve" /\ p.user = rec.originator)
    BY <1>2 DEF Effect
  <2>3. new.overridden <=>
          rec.overridden \/ (action = "approve" /\ rec.confidence = "LOW")
    BY <1>2 DEF Effect
  <2>4. new.overridden <=> to \in ApprovedStates /\ rec.confidence = "LOW"
    BY <1>5, <2>3 DEF Consistent, ApprovalGated
  <2> QED
    BY <1>4, <1>6, <2>1, <2>2, <2>4 DEF ApprovalGated
<1>9. EntriesMatchState(new)
  BY <1>2, <1>4, <1>5 DEF Consistent, EntriesMatchState, Effect
<1> QED
  BY <1>3, <1>7, <1>8, <1>9 DEF Consistent

\* A fresh draft is well formed and consistent.
LEMMA DraftConsistent ==
  ASSUME NEW p \in Identity, NEW badge \in Badges
  PROVE  Draft(p, badge) \in RecommendationType /\ Consistent(Draft(p, badge))
<1>1. Draft(p, badge) \in RecommendationType
  BY DEF Draft, RecommendationType, Identity, States
<1>2. LegalHistory(Draft(p, badge))
  BY DEF LegalHistory, Draft
<1>3. \A i : i \notin 1..Len(Draft(p, badge).history)
  BY DEF Draft
<1>4. /\ SnapshotFrozen(Draft(p, badge))
      /\ ApprovalGated(Draft(p, badge))
      /\ EntriesMatchState(Draft(p, badge))
  BY <1>3 DEF SnapshotFrozen, ApprovalGated, EntriesMatchState, Draft,
              ApprovedStates, ImplementedStates
<1> QED
  BY <1>1, <1>2, <1>4 DEF Consistent

\* One more evaluation of an evaluated recommendation keeps it consistent.
LEMMA EvaluateAgainConsistent ==
  ASSUME NEW rec \in RecommendationType, rec.state = "EVALUATED",
         Consistent(rec), NEW at \in Nat,
         NEW new, new = [rec EXCEPT !.evaluations = @ \cup {at}]
  PROVE  new \in RecommendationType /\ Consistent(new)
<1>1. new \in RecommendationType
  BY DEF RecommendationType
<1>2. /\ new.state = rec.state /\ new.history = rec.history
      /\ new.originator = rec.originator /\ new.confidence = rec.confidence
      /\ new.snapshot = rec.snapshot /\ new.overridden = rec.overridden
      /\ new.byOriginator = rec.byOriginator
      /\ new.implemented = rec.implemented
      /\ new.evaluations = rec.evaluations \cup {at}
  BY DEF RecommendationType
<1>3. LegalHistory(new) /\ SnapshotFrozen(new) /\ ApprovalGated(new)
  BY <1>2 DEF Consistent, LegalHistory, SnapshotFrozen, ApprovalGated
<1>4. EntriesMatchState(new)
  BY <1>2 DEF Consistent, EntriesMatchState
<1> QED
  BY <1>1, <1>3, <1>4 DEF Consistent
=============================================================================
