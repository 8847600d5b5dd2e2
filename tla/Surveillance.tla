------------------------------ MODULE Surveillance ------------------------------
(***************************************************************************)
(* What is done with a month of new data: the rules of                     *)
(* workflow/scheduler.py, the evaluations that are due and the calibration *)
(* of confidence (workflow/evaluation.py), and the alerts made of them     *)
(* (workflow/alerts.py).  These are functions of their inputs: nothing in  *)
(* the service calls the rules yet, only the tests do.                     *)
(*                                                                         *)
(* A date is a record [y, m, d].                                           *)
(***************************************************************************)
EXTENDS Integers, Sequences, FiniteSets, SequencesExt

Never == [y |-> 0, m |-> 0, d |-> 0]
Lower(a, b) == IF a < b THEN a ELSE b

-----------------------------------------------------------------------------
\* The calendar of Python's datetime.date.
IsLeap(y) == y % 4 = 0 /\ (y % 100 # 0 \/ y % 400 = 0)

DaysIn(y, m) ==
  CASE m = 2 -> IF IsLeap(y) THEN 29 ELSE 28
    [] m \in {4, 6, 9, 11} -> 30
    [] OTHER -> 31

IsDate(d) == d.m \in 1 .. 12 /\ d.d \in 1 .. DaysIn(d.y, d.m)

NotBefore(a, b) ==
  \/ a.y > b.y
  \/ a.y = b.y /\ a.m > b.m
  \/ a.y = b.y /\ a.m = b.m /\ a.d >= b.d

\* date.toordinal.
Ordinal(d) ==
  LET y == d.y - 1
  IN  365 * y + y \div 4 - y \div 100 + y \div 400
        + FoldSet(LAMBDA m, days : days + DaysIn(d.y, m), 0, 1 .. d.m - 1) + d.d

-----------------------------------------------------------------------------
\* Mutant: the day of the month is kept in every month.
DueDateSameDay(at, months) ==
  LET m == at.m + months - 1
  IN  [y |-> at.y + m \div 12, m |-> (m % 12) + 1, d |-> at.d]

\* When the evaluation of a plan that was implemented on a day is due: so many
\* months later, on the 28th at the latest.
DueDate(at, months) ==
  LET m == at.m + months - 1
  IN  [ y |-> at.y + m \div 12,
        m |-> (m % 12) + 1,
        d |-> IF at.d > 28 THEN 28 ELSE at.d ]

EvaluationMonths == {3, 6}

DueEvaluations(at, today, done) ==
  { m \in EvaluationMonths \ done : NotBefore(today, DueDate(at, m)) }

(***************************************************************************)
(* rules, for one month.  in: [band, changed, shifted, events, at, today,  *)
(* done, last]: band says of every producer whether its rate is inside its *)
(* forecast band, outside it, or not known (it then is outside of neither  *)
(* end); changed are the producers whose data-quality report changed.      *)
(***************************************************************************)
Outside(in) == { w \in DOMAIN in.band : in.band[w] = "outside" }
Within(in) == DOMAIN in.band \ Outside(in)

SuspectData(in) == Outside(in) \cap in.changed
SuspectReservoir(in) == Outside(in) \ in.changed

Quarterly(in) ==
  in.last = Never \/ Ordinal(in.today) - Ordinal(in.last) >= 90

Action(trigger, wells, months) ==
  [trigger |-> trigger, wells |-> wells, months |-> months]

\* What there is an action for only when it names wells.
WellActions(in) ==
  { Action("in band", IF Outside(in) = {} THEN Within(in) ELSE {}, 0),
    Action("data", SuspectData(in), 0),
    Action("reservoir", SuspectReservoir(in), 0),
    Action("event", in.events, 0) }

\* The actions of the month, each with its wells and the months it is for.
Rules(in) ==
  {Action("new data", {}, 0)}
    \cup { a \in WellActions(in) : a.wells # {} }
    \cup (IF Quarterly(in) THEN {Action("quarterly", {}, 0)} ELSE {})
    \cup (IF in.at = Never THEN {}
          ELSE { Action("evaluation", {}, m) :
                   m \in DueEvaluations(in.at, in.today, in.done) })

\* The re-fit that follows a suspicion of the reservoir opens a new draft when the
\* parameters shifted.
OpensDraft(in) == SuspectReservoir(in) # {} /\ in.shifted

\* from_actions: a suspicion of the reservoir has no alert of its own.
AlertKind ==
  [data |-> "data_quality", evaluation |-> "evaluation", event |-> "condition"]

FromActions(actions) ==
  { [kind |-> AlertKind[a.trigger], wells |-> a.wells, months |-> a.months] :
      a \in { b \in actions : b.trigger \in DOMAIN AlertKind } }

\* revert_alerts: a producer without a water cut counts as dry.  items: change ->
\* its connected producers; cuts are partial functions of the producers.
CutOf(cut, w) == IF w \in DOMAIN cut THEN cut[w] ELSE 0

Reverts(items, now, atApproval, jump) ==
  { i \in DOMAIN items :
      \E w \in items[i] : CutOf(now, w) - CutOf(atApproval, w) > jump }

-----------------------------------------------------------------------------
\* outcome_class of a record [badge, realised, p10, p90].
OutcomeClass(r) ==
  CASE r.realised > r.p90 -> "better"
    [] r.realised <= r.p90 /\ r.realised < r.p10 -> "worse"
    [] OTHER -> "within band"

(***************************************************************************)
(* hit_rate_by_badge and recalibrated_threshold: of the evaluations of     *)
(* HIGH recommendations, those in the band or above it must be 80 % of at  *)
(* least five, or the floor of the blind r2 is raised by 2, up to 99.  The *)
(* two shares are floating-point numbers: where they come to exactly 80 %  *)
(* and neither is zero their sum may fall short (0.7 + 0.1 does), and      *)
(* short says whether it does.                                             *)
(***************************************************************************)
OfBadge(records, b) == { r \in DOMAIN records : records[r].badge = b }

Share(records, b, outcome) ==
  Cardinality({ r \in OfBadge(records, b) : OutcomeClass(records[r]) = outcome })

HitRate(records) ==
  [b \in { x \in {"HIGH", "MEDIUM", "LOW"} : OfBadge(records, x) # {} } |->
     [ n |-> Cardinality(OfBadge(records, b)),
       within |-> Share(records, b, "within band"),
       better |-> Share(records, b, "better"),
       worse |-> Cardinality(OfBadge(records, b))
                   - Share(records, b, "within band")
                   - Share(records, b, "better") ]]

Hits(high) == high.within + high.better

FallsShort(high, short) ==
  \/ 100 * Hits(high) < 80 * high.n
  \/ /\ 100 * Hits(high) = 80 * high.n
     /\ high.within > 0 /\ high.better > 0 /\ short

Recalibrated(records, floor, short) ==
  LET t == HitRate(records)
  IN  IF /\ "HIGH" \in DOMAIN t
         /\ t["HIGH"].n >= 5
         /\ FallsShort(t["HIGH"], short)
      THEN Lower(floor + 2, 99)
      ELSE floor
=============================================================================
