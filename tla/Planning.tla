-------------------------------- MODULE Planning --------------------------------
(***************************************************************************)
(* From a fitted sector to the list of changes (optimize/): the posture,   *)
(* the bounds of a plan, the choice optimize_plan makes among what the     *)
(* solver returns, the field-tank rule of optimize_sector, the weekly ramp *)
(* and the action list, and the scenarios that reuse them.                 *)
(*                                                                         *)
(* A plan is the rate of every injector, a sequence of whole numbers.  The *)
(* forecast is external: member m of the ensemble gives own[m] of oil, and *)
(* gain[m][k] per unit of injector k, and likewise of produced water; what *)
(* a discount rate makes of them is in these numbers.  A plan's statistic  *)
(* is in twentieths.                                                       *)
(***************************************************************************)
EXTENDS Integers, Sequences, FiniteSets, SequencesExt

Bigger(a, b) == IF a < b THEN b ELSE a
Lesser(a, b) == IF a < b THEN a ELSE b
AbsOf(n) == IF n < 0 THEN -n ELSE n
Total(x) == FoldLeft(LAMBDA sum, r : sum + r, 0, x)

-----------------------------------------------------------------------------
\* effective_posture: low confidence forces robust.
Posture(requested, confidence) ==
  IF confidence = "LOW" THEN "robust" ELSE requested

\* What every member of the ensemble gives at the rates x, of the oil (the problem
\* itself has its own and gain) or of the water.
Made(phase, x) ==
  [m \in DOMAIN phase.gain |->
     phase.own[m] + Total([k \in DOMAIN x |-> phase.gain[m][k] * x[k]])]

Oils(q, x) == Made(q, x)

\* The objective's value for every member: the oil, what is earned, or the less
\* water injected the better.
Values(q, x) ==
  CASE q.objective = "oil" -> Oils(q, x)
    [] q.objective = "npv" ->
         [m \in DOMAIN q.gain |->
            q.economics.price * Oils(q, x)[m]
              - (q.economics.handling * Made(q.produced, x)[m]
                   + q.economics.injection * Total(x))]
    [] q.objective = "min_water" -> [m \in DOMAIN q.gain |-> -Total(x)]

\* aggregate over an ensemble of two: the mean, the mean less half the standard
\* deviation, the tenth percentile.  The members' weights do not enter.
Statistic(v, posture) ==
  CASE posture = "aggressive" -> 10 * (v[1] + v[2])
    [] posture = "balanced" -> 10 * (v[1] + v[2]) - 5 * AbsOf(v[1] - v[2])
    [] posture = "robust" -> 20 * Lesser(v[1], v[2]) + 2 * AbsOf(v[1] - v[2])

RejectsLoss(posture) == posture = "robust"

\* PlanConstraints.from_config: an idle injector is held at zero, another one
\* below multiple times the mean of those in use; of halves the lower counts.
UpperBound(current, idle, multiple) ==
  LET inUse == { k \in DOMAIN current : ~idle[k] }
      all == IF inUse = {} THEN DOMAIN current ELSE inUse
      mean == Total([k \in DOMAIN current |->
                       IF k \in all THEN multiple * current[k] ELSE 0])
                \div Cardinality(all)
  IN  [k \in DOMAIN current |-> IF idle[k] THEN 0 ELSE mean]

InBounds(x, upper) == \A k \in DOMAIN x : 0 <= x[k] /\ x[k] <= upper[k]

\* What is left of the forecast constraint: a limit on the weighted rates.
Slack(x, limit) ==
  limit.most - Total([k \in DOMAIN x |-> limit.weight[k] * x[k]])

(***************************************************************************)
(* A problem q has current, idle, multiple, own, gain, produced,           *)
(* economics, objective, posture, water (to be injected), sameWater, limit *)
(* and target, the least oil of the first member, the one of the highest   *)
(* weight, which only the objective "min_water" asks for.                  *)
(***************************************************************************)

\* Relaxed to what hold-current already violates; the target is not.
MeetsForecast(q, x) ==
  /\ Slack(x, q.limit) >= Lesser(Slack(q.current, q.limit), 0)
  /\ q.objective = "min_water" => Oils(q, x)[1] >= q.target

MeetsWater(q, x) ==
  IF q.sameWater THEN Total(x) = q.water ELSE Total(x) <= q.water

\* What the robust posture rejects: a member's value of the objective goes down.
LosesValue(q, x) ==
  \E m \in DOMAIN q.gain : Values(q, x)[m] < Values(q, q.current)[m]

\* What it is said to reject: a member's oil does.
LosesOil(q, x) ==
  \E m \in DOMAIN q.gain : Oils(q, x)[m] < Oils(q, q.current)[m]

\* Mutant: the water is not checked again after the solver.
FeasibleDry(q, x) ==
  /\ MeetsForecast(q, x)
  /\ RejectsLoss(q.posture) => ~LosesValue(q, x)

\* What a solver's point is checked for, after it is clipped to the bounds.
Feasible(q, x) ==
  /\ MeetsWater(q, x)
  /\ MeetsForecast(q, x)
  /\ RejectsLoss(q.posture) => ~LosesValue(q, x)

Clipped(q, x) ==
  LET upper == UpperBound(q.current, q.idle, q.multiple)
  IN  [k \in DOMAIN x |-> Bigger(0, Lesser(x[k], upper[k]))]

Value(q, x) == Statistic(Values(q, x), q.posture)

\* One start after the other: hold-current until a feasible point is better.
Improve(q, best, x) ==
  IF Feasible(q, Clipped(q, x)) /\ Value(q, Clipped(q, x)) > Value(q, best)
  THEN Clipped(q, x) ELSE best

\* optimize_plan; found: what the solver returns for each start and the polish.
BestPlan(q, found) ==
  LET best == FoldLeft(LAMBDA b, x : Improve(q, b, x), q.current, found)
  IN  IF RejectsLoss(q.posture) /\ LosesValue(q, best) THEN q.current ELSE best

\* optimize_sector: a field tank cannot tell injectors apart, and holds.
SectorPlan(q, winner, found) ==
  IF winner = "crmt" THEN q.current ELSE BestPlan(q, found)

\* water_budget_sweep: the problem at another total.
AtBudget(q, percent) ==
  [q EXCEPT !.water = (Total(q.current) * percent) \div 100]

-----------------------------------------------------------------------------
(***************************************************************************)
(* ramp.  r: [step, least (percent), meter].  Rates are in thousandths of  *)
(* the unit, and below one thousandth a rate is taken to be there.         *)
(***************************************************************************)
Small(r, cur, tgt) ==
  \/ 100 * AbsOf(tgt - cur) < r.least * cur
  \/ AbsOf(tgt - cur) < r.meter

\* The target that is left when small changes are suppressed.
RampTarget(r, cur, tgt) == IF Small(r, cur, tgt) THEN cur ELSE tgt

\* Mutant: a well that is started is not held back.
CapFree(r, x, tgt) == IF x = 0 THEN tgt ELSE (r.step * x) \div 100 + 1

\* What a rate may change in a week; from zero, a part of the target's share.
Cap(r, x, tgt) ==
  (r.step * Bigger(x, (r.least * tgt) \div 100)) \div 100 + 1

NextWeek(r, x, tgt) ==
  x + Bigger(-Cap(r, x, tgt), Lesser(tgt - x, Cap(r, x, tgt)))

MaxWeeks == 520

\* The rate now and after every week, until the target that is left is reached or
\* the weeks are over.  after: the rates so far and those of n weeks more, which are
\* taken half by half.
Weekly(r, cur, tgt) ==
  LET left == RampTarget(r, cur, tgt)
      after[p \in Seq(Int) \X (0 .. MaxWeeks)] ==
        LET so == p[1]
            n == p[2]
        IN  IF n = 0 \/ Last(so) = left THEN so
            ELSE IF n = 1 THEN Append(so, NextWeek(r, Last(so), left))
            ELSE after[<<after[<<so, n \div 2>>], n - (n \div 2)>>]
  IN  after[<<<<cur>>, MaxWeeks>>]

WeeksToTarget(r, cur, tgt) == Len(Weekly(r, cur, tgt)) - 1

-----------------------------------------------------------------------------
(***************************************************************************)
(* build_action_list.  marginal: the value of water at every injector;     *)
(* gain: the oil that the plan gives more than hold-current does, the mean *)
(* of the members; facility: the same for all where none are known.        *)
(***************************************************************************)
Change(r, cur, tgt, k) == RampTarget(r, cur[k], tgt[k]) - cur[k]

Listed(r, cur, tgt) == { k \in DOMAIN cur : Change(r, cur, tgt, k) # 0 }

\* What an injector's share of the gain is proportional to.
Share(r, cur, tgt, marginal, k) ==
  LET valued(j) == AbsOf(Change(r, cur, tgt, j)) * Bigger(marginal[j], 0)
  IN  IF \A j \in DOMAIN cur : valued(j) = 0
      THEN AbsOf(Change(r, cur, tgt, k)) ELSE valued(k)

\* The oil that is expected of a change, up to a factor that all changes have; a
\* plan that gives no more oil expects none of any.
ExpectedGain(r, cur, tgt, marginal, gain, k) ==
  Bigger(gain, 0) * Share(r, cur, tgt, marginal, k)

\* The list by expected gain, highest first; equal ones keep their order.
ByGain(r, cur, tgt, marginal, gain) ==
  SetToSortSeq(Listed(r, cur, tgt),
    LAMBDA j, k : LET a == ExpectedGain(r, cur, tgt, marginal, gain, j)
                      b == ExpectedGain(r, cur, tgt, marginal, gain, k)
                  IN  a > b \/ (a = b /\ j < k))

FirstAt(s, facility, f) ==
  CHOOSE n \in DOMAIN s :
    /\ facility[s[n]] = f
    /\ \A k \in 1 .. n - 1 : facility[s[k]] # f

\* Wells of a facility together, the facilities in the order of their first.
Grouped(s, facility) ==
  SetToSortSeq(DOMAIN s,
    LAMBDA m, n : LET a == FirstAt(s, facility, facility[s[m]])
                      b == FirstAt(s, facility, facility[s[n]])
                  IN  a < b \/ (a = b /\ m < n))

ActionList(r, cur, tgt, marginal, gain, facility) ==
  LET s == ByGain(r, cur, tgt, marginal, gain)
      order == Grouped(s, facility)
  IN  [n \in DOMAIN order |-> s[order[n]]]
=============================================================================
