-------------------------------- MODULE PlanRules --------------------------------
(***************************************************************************)
(* The rules from the plan of a sector to what the field is told and how   *)
(* it is followed up, asked one at a time: the plan, the ramp and the      *)
(* action list, the evaluations and the monthly rules.  The operators are  *)
(* those of the modules named below; here are the questions, and what must *)
(* hold of every answer.                                                   *)
(***************************************************************************)
EXTENDS Questions, Integers, Sequences, FiniteSets, SequencesExt

Pl == INSTANCE Planning
Sv == INSTANCE Surveillance

CONSTANTS
  Problems,       \* optimization problems, with what the solver finds
  Ramps,          \* rates and targets, with marginal values, gain and facilities
  Implemented,    \* implementation dates, with months
  Months,         \* a month of new data
  Cuts,           \* changes that were made, and water cuts of their producers
  Records         \* evaluations, with the floor of the blind r2

(***************************************************************************)
(* What the code gives the rules that theorems are about: problems of one  *)
(* size with rates and factors that are not negative, and whatever a       *)
(* solver may find; days of the calendar and months; water cuts and a      *)
(* limit that are not negative; evaluations with a band.                   *)
(***************************************************************************)
Problem(n) ==
  LET gains == [1 .. 2 -> [1 .. n -> Int]]
  IN  [ current : [1 .. n -> Nat], idle : [1 .. n -> BOOLEAN],
        multiple : Nat, own : [1 .. 2 -> Int], gain : gains,
        produced : [own : [1 .. 2 -> Int], gain : gains],
        economics : [price : Int, handling : Int, injection : Int],
        objective : {"oil", "npv", "min_water"}, target : Int,
        posture : {"aggressive", "balanced", "robust"},
        water : Int, sameWater : BOOLEAN,
        limit : [most : Int, weight : [1 .. n -> Int]] ]

ASSUME ProblemsAssumption ==
  \A in \in Problems :
    LET n == Len(in.problem.current)
    IN  /\ n \in Nat
        /\ in.problem \in Problem(n)
        /\ in.found \in Seq([1 .. n -> Int])

ASSUME DatesAssumption ==
  LET days == [y : Nat, m : 1 .. 12, d : 1 .. 31]
  IN  /\ \A in \in Implemented : in.at \in days /\ in.months \in Nat
      /\ \A in \in Months :
           in.today \in days /\ in.at \in days \cup {Sv!Never}

ASSUME EvaluationsAssumption ==
  /\ \A in \in Cuts :
       /\ in.jump \in Nat
       /\ \A w \in DOMAIN in.now : in.now[w] \in Nat
       /\ \A w \in DOMAIN in.atApproval : in.atApproval[w] \in Nat
  /\ \A in \in Records :
       /\ Len(in.records) \in Nat
       /\ in.floor \in Int
       /\ DOMAIN in.records = 1 .. Len(in.records)
       /\ \A n \in DOMAIN in.records :
            /\ {in.records[n].realised, in.records[n].p10,
                in.records[n].p90} \subseteq Int
            /\ in.records[n].p10 <= in.records[n].p90

PlanInit ==
  \/ Asked("plan", Problems)
  \/ Asked("ramp", Ramps)
  \/ Asked("due", Implemented)
  \/ Asked("month", Months)
  \/ Asked("revert", Cuts)
  \/ Asked("calibrate", Records)

-----------------------------------------------------------------------------
OptimizeSector ==
  /\ Open("plan")
  /\ LET q == [Pl!AtBudget(input.problem, input.budget) EXCEPT !.posture =
                 Pl!Posture(@, input.confidence)]
     IN  Answer([ problem |-> q,
                  plan |-> Pl!SectorPlan(q, input.winner, input.found) ])

MakeActionList ==
  /\ Open("ramp")
  /\ Answer([ weekly |-> [k \in DOMAIN input.cur |->
                            Pl!Weekly(input.r, input.cur[k], input.tgt[k])],
              list |-> Pl!ActionList(input.r, input.cur, input.tgt,
                                     input.marginal, input.gain, input.facility) ])

PlanEvaluation ==
  /\ Open("due")
  /\ Answer(Sv!DueDate(input.at, input.months))

ApplyRules ==
  /\ Open("month")
  /\ Answer([ actions |-> Sv!Rules(input),
              alerts |-> Sv!FromActions(Sv!Rules(input)),
              draft |-> Sv!OpensDraft(input) ])

RaiseReverts ==
  /\ Open("revert")
  /\ Answer(Sv!Reverts(input.items, input.now, input.atApproval, input.jump))

Recalibrate ==
  /\ Open("calibrate")
  /\ \E short \in BOOLEAN :
       Answer(Sv!Recalibrated(input.records, input.floor, short))

PlanNext ==
  \/ OptimizeSector
  \/ MakeActionList
  \/ PlanEvaluation
  \/ ApplyRules
  \/ RaiseReverts
  \/ Recalibrate

PlanSpec == PlanInit /\ [][PlanNext]_questionVars

-----------------------------------------------------------------------------
(***************************************************************************)
(* A plan is hold-current, or it is within the bounds, injects the water   *)
(* there is, keeps the limits as far as hold-current does, gives the oil   *)
(* that is asked for, and is better; none of the points the solver found   *)
(* that do so is better still.  Under the robust posture, to which low     *)
(* confidence leads, no member's value of the objective goes down, and     *)
(* where the objective is the oil, no member's oil: with another objective *)
(* it may, whatever posture.py says in line 7 (solvers.py, 133-285;        *)
(* objectives.py, 29-63; posture.py; run.py).                              *)
(***************************************************************************)
PlanSound ==
  Answered("plan") =>
    LET q == result.problem
        x == result.plan
        upper == Pl!UpperBound(q.current, q.idle, q.multiple)
        weighted(y) ==
          Pl!Total([k \in DOMAIN y |-> q.limit.weight[k] * y[k]])
        allowed(y) ==
          /\ IF q.sameWater THEN Pl!Total(y) = q.water
                            ELSE Pl!Total(y) <= q.water
          /\ weighted(y) <= Pl!Bigger(q.limit.most, weighted(q.current))
          /\ q.objective = "min_water" => Pl!Oils(q, y)[1] >= q.target
          /\ q.posture = "robust" => ~Pl!LosesValue(q, y)
    IN  /\ input.confidence = "LOW" => q.posture = "robust"
        /\ q.posture = "robust" =>
             /\ ~Pl!LosesValue(q, x)
             /\ q.objective = "oil" => ~Pl!LosesOil(q, x)
        /\ x # q.current =>
             /\ input.winner # "crmt"
             /\ Pl!InBounds(x, upper)
             /\ allowed(x)
             /\ Pl!Value(q, x) > Pl!Value(q, q.current)
        /\ input.winner # "crmt" =>
             \A k \in DOMAIN input.found :
               LET y == Pl!Clipped(q, input.found[k])
               IN  allowed(y) => Pl!Value(q, y) <= Pl!Value(q, x)

Between(a, x, b) == (a <= x /\ x <= b) \/ (b <= x /\ x <= a)

(***************************************************************************)
(* No week changes a rate by more than its share, to the unit, and every   *)
(* week ends between the last one and the target, which is reached unless  *)
(* the 520 weeks are over first; with the steps that are shipped they      *)
(* never are.  A rate stays exactly if the change is small (ramping.py,    *)
(* 37-68).  The list names the wells that change, all of a facility        *)
(* together and the largest expected gain first, equal ones in the order   *)
(* of the wells: all of them, when the plan gives no more oil than         *)
(* hold-current (action_list.py, 57-136).                                  *)
(***************************************************************************)
RampSafe ==
  Answered("ramp") =>
    LET r == input.r
        list == result.list
        rates(k) == result.weekly[k]
        still == { k \in DOMAIN input.cur : Len(rates(k)) = 1 }
        gain(k) == Pl!ExpectedGain(r, input.cur, input.tgt, input.marginal,
                                   input.gain, k)
        before(k, j) == gain(k) > gain(j) \/ (gain(k) = gain(j) /\ k < j)
    IN  /\ \A k \in DOMAIN input.cur :
             \A n \in 1 .. Len(rates(k)) - 1 :
               LET now == rates(k)[n]
                   next == rates(k)[n + 1]
                   base == Pl!Bigger(now, (r.least * input.tgt[k]) \div 100)
               IN  /\ 100 * Pl!AbsOf(next - now) <= r.step * base + 100
                   /\ Between(now, next, input.tgt[k])
                   /\ next # now
        /\ \A k \in DOMAIN input.cur \ still :
             \/ Last(rates(k)) = input.tgt[k]
             \/ Len(rates(k)) = Pl!MaxWeeks + 1 /\ r.step < 8
        /\ \A k \in DOMAIN input.cur :
             LET change == Pl!AbsOf(input.tgt[k] - input.cur[k])
             IN  k \in still <=> \/ change < r.meter
                                \/ 100 * change < r.least * input.cur[k]
        /\ Range(list) = DOMAIN input.cur \ still
        /\ \A m, n \in DOMAIN list : m < n =>
             /\ input.facility[list[m]] = input.facility[list[n]] =>
                  /\ before(list[m], list[n])
                  /\ \A o \in m .. n :
                       input.facility[list[o]] = input.facility[list[m]]
             /\ m = 1 => before(list[m], list[n])
        /\ input.gain <= 0 /\ Cardinality(Range(input.facility)) = 1 =>
             \A m, n \in DOMAIN list : m < n => list[m] < list[n]

MonthsOf(d) == 12 * d.y + d.m

(***************************************************************************)
(* An evaluation is due on a day of the calendar, exactly so many months   *)
(* later, never after the day of the month of the implementation           *)
(* (evaluation.py, 74-86), and has an alert of its own from then on until  *)
(* it is done.  A producer outside its band is suspected of bad data or of *)
(* a changed reservoir, never of both, and only the second opens a draft   *)
(* (scheduler.py, 58-113).  A change is to be reverted if the water cut of *)
(* a connected producer jumped, one that was not known at the approval     *)
(* counting from zero (alerts.py, 111-130).  The floor of the blind r2     *)
(* goes up by 2 if less than 80 % of at least five evaluations of HIGH     *)
(* recommendations came out as forecast or better, and not if more did; at *)
(* exactly 80 % of which some were better, rounding decides.  The code     *)
(* counts the better ones as hits, which its docstrings in lines 5 and 110 *)
(* do not (evaluation.py, 89-117).                                         *)
(***************************************************************************)
EvaluationsOnTime ==
  /\ Answered("due") =>
       /\ Sv!IsDate(result)
       /\ MonthsOf(result) = MonthsOf(input.at) + input.months
       /\ result.d <= input.at.d
       /\ result.d = input.at.d \/ input.at.d > 28
  /\ Answered("month") =>
       LET wells(t) == UNION { a.wells : a \in { b \in result.actions :
                                                  b.trigger = t } }
       IN  /\ wells("data") \cup wells("reservoir") = Sv!Outside(input)
           /\ wells("data") \cap wells("reservoir") = {}
           /\ wells("in band") # {} => Sv!Outside(input) = {}
           /\ result.draft => wells("reservoir") # {} /\ input.shifted
           /\ \A a \in result.alerts : a.kind = "data_quality" =>
                a.wells \subseteq input.changed
           /\ input.at # Sv!Never =>
                \A m \in Sv!EvaluationMonths :
                  (\E a \in result.alerts : a.kind = "evaluation" /\ a.months = m)
                    <=> /\ m \notin input.done
                        /\ LET past == MonthsOf(input.today) - MonthsOf(input.at)
                           IN  \/ past > m
                               \/ past = m /\ input.today.d
                                                >= Sv!Lower(input.at.d, 28)
  /\ Answered("revert") =>
       \A i \in DOMAIN input.items :
         i \in result <=>
           \E w \in input.items[i] \cap DOMAIN input.now :
             input.now[w] > input.jump
               + (IF w \in DOMAIN input.atApproval
                  THEN input.atApproval[w] ELSE 0)
  /\ Answered("calibrate") =>
       LET high == { n \in DOMAIN input.records :
                       input.records[n].badge = "HIGH" }
           good == { n \in high :
                       input.records[n].realised >= input.records[n].p10 }
           better == { n \in high :
                         input.records[n].realised > input.records[n].p90 }
           raised == Sv!Lower(input.floor + 2, 99)
       IN  /\ result \in {input.floor, raised}
           /\ Cardinality(high) < 5 => result = input.floor
           /\ Cardinality(high) >= 5 =>
                /\ 5 * Cardinality(good) < 4 * Cardinality(high) => result = raised
                /\ \/ 5 * Cardinality(good) > 4 * Cardinality(high)
                   \/ /\ 5 * Cardinality(good) = 4 * Cardinality(high)
                      /\ better = {} \/ better = good
                     => result = input.floor
=============================================================================
