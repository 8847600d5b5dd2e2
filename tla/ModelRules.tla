-------------------------------- MODULE ModelRules --------------------------------
(***************************************************************************)
(* The rules about the models of a sector, asked one at a time: the fit    *)
(* and the choice of a model, shifts of its parameters, the forecast and   *)
(* the scenarios.  The operators are those of the modules named below;     *)
(* here are the questions, and what must hold of every answer.             *)
(***************************************************************************)
EXTENDS Questions, Integers, Sequences, FiniteSets, SequencesExt

Sel == INSTANCE Selection
Fc == INSTANCE Forecast
Sc == INSTANCE Scenarios
Ca == INSTANCE Calibration
Pf == INSTANCE Profiles
Vf == INSTANCE Verification
LOCAL Pl == INSTANCE Planning

CONSTANTS
  Fits,           \* what the minimizers return, with the last rolling window
  Sites,          \* the data of a sector, the events of the field, a quick fit
  Trials,         \* what a fit predicts of what was observed, its parameters
  Ensembles,      \* the allocations of the members of an ensemble
  Contests,       \* profiles, requested variants and fits
  Refits,         \* steps, breaks and lengths of the rolling windows, the winner
  Allocations,    \* a pair's allocation in the windows, its spread
  Plans,          \* models with a plan to forecast
  Inquiries,      \* scenario managers, with what they are asked
  Economics       \* economics, with the forecasts of a plan and of hold-current

\* Windows are of whole steps and are moved on by one at least (a step of 0 would not
\* end); there is a window to begin with, of allocations in hundredths.
ASSUME RefitsAssumption ==
  \A in \in Refits :
    /\ in.n \in Nat /\ in.breaks \in SUBSET Nat /\ in.length \in Nat
    /\ in.step \in Nat \ {0} /\ in.least \in Nat \ {0}

ASSUME AllocationsAssumption ==
  \A in \in Allocations :
    /\ in.series \in Seq(Nat) \ {<<>>}
    /\ in.spread \in Nat /\ in.persist \in Nat \ {0}

\* A model covers the producers and the injectors of its sector at every step of the
\* history, and a plan the injectors.
ASSUME PlansAssumption ==
  \A in \in Plans :
    LET g == in.model
    IN  /\ g = [ f |-> g.f, q0 |-> g.q0, shutIn |-> g.shutIn, cap |-> g.cap,
                 inj |-> g.inj, open |-> g.open ]
        /\ g.shutIn \in BOOLEAN
        /\ g.inj \in Seq([Fc!Injectors(g) -> Nat])
        /\ g.open \in Seq([Fc!Producers(g) -> BOOLEAN])
        /\ Len(g.open) = Len(g.inj)
        /\ in.plan \in Seq([Fc!Injectors(g) -> Nat])

ModelInit ==
  \/ Asked("fit", Fits)
  \/ Asked("profile", Sites)
  \/ Asked("verify", Trials)
  \/ Asked("spread", Ensembles)
  \/ Asked("tournament", Contests)
  \/ Asked("rolling", Refits)
  \/ Asked("shift", Allocations)
  \/ Asked("forecast", Plans)
  \/ Asked("scenario", Inquiries)
  \/ Asked("tornado", Economics)

-----------------------------------------------------------------------------
FitModels ==
  /\ Open("fit")
  /\ LET fit == Ca!FitField([j \in DOMAIN input.jobs |->
                              Ca!FitProducer(input.jobs[j])], input.refined)
     IN  Answer([ fit |-> fit,
                  plausible |-> Ca!Plausible(fit, input.negative),
                  models |-> Ca!ForecastMembers(fit, input.percent, input.roll) ])

ProfileData ==
  /\ Open("profile")
  /\ LET rate == Pf!EventRate(input.events, input.producers, input.wells)
         p == Pf!Profile(input.grid, input.train, rate, input.tau, input.maxInj, FALSE)
     IN  Answer([ profile |-> p,
                  gates |-> Sel!Gates(p),
                  flank |-> Pf!FlankSignature(input.sums) ])

\* The second answer is to the question without what was predicted of the training
\* steps and of the steps that are off.
VerifyFit ==
  /\ Open("verify")
  /\ LET kept(j, t) == input.on[j][t] /\ t > input.train
         other == [j \in DOMAIN input.pred |->
                     [t \in DOMAIN input.pred[j] |->
                        IF kept(j, t) THEN input.pred[j][t] ELSE 0]]
     IN  Answer([ report |-> Vf!Verify(input),
                  other |-> Vf!Verify([input EXCEPT !.pred = other]) ])

MeasureSpread ==
  /\ Open("spread")
  /\ Answer([ spread |-> Vf!Spread(input),
              doubt |-> [p \in DOMAIN input[1] |-> Vf!PairDoubt(input, p)] ])

RunTournament ==
  /\ Open("tournament")
  /\ Answer(Sel!Tournament(input.profile, input.requested, input.fit))

RefitWindows ==
  /\ Open("rolling")
  /\ LET windows == Sel!WindowBounds(input.n, input.breaks, input.length,
                                    input.step, input.least)
     IN  Answer(IF Sel!RollsWinner(input.mode, input.winner, input.wells,
                                   input.maxWells, Cardinality(windows))
                THEN windows ELSE {})

DetectShift ==
  /\ Open("shift")
  /\ Answer([ shift |-> Sel!Shift(input.series, input.spread, input.persist),
              up |-> Sel!HitSteps(input.series, input.spread, 1),
              down |-> Sel!HitSteps(input.series, input.spread, -1) ])

\* The producers that are open at the end of the history go on, and the injectors
\* that are idle there stay so in a plan (engine.py).
ForecastPlan ==
  /\ Open("forecast")
  /\ LET active == Fc!ActiveAtEnd(input.model, input.lookback)
     IN  Answer([ active |-> active,
                  idle |-> Fc!IdleAtEnd(input.model, input.lookback),
                  liquid |-> [j \in Fc!Producers(input.model) |->
                                Fc!ForecastLiquid(input.model, input.plan,
                                                  active, j)] ])

CompareScenarios ==
  /\ Open("scenario")
  /\ Answer(Sc!Manage(input.manager, input.requests))

MakeTornado ==
  /\ Open("tornado")
  /\ Answer(Sc!EconomicTornado(input.e, input.low, input.high, input.plan,
                               input.base, input.posture))

ModelNext ==
  \/ FitModels
  \/ ProfileData
  \/ VerifyFit
  \/ MeasureSpread
  \/ RunTournament
  \/ RefitWindows
  \/ DetectShift
  \/ ForecastPlan
  \/ CompareScenarios
  \/ MakeTornado

ModelSpec == ModelInit /\ [][ModelNext]_questionVars

-----------------------------------------------------------------------------
(***************************************************************************)
(* When the winner was refined because it allocated an injector's water    *)
(* more than once, no model that forecasts does, if the refinement and the *)
(* last window succeeded (solver.py, 707-728; run.py, 68-84).  A winner    *)
(* that did not need it is of the least error and plausible, and is among  *)
(* those that forecast; but the others are not asked, and may allocate     *)
(* water that is not there.  A refined winner whose error is too far from  *)
(* that of the bounded members is left out, though it was the one that was *)
(* verified.                                                               *)
(***************************************************************************)
MembersBounded ==
  Answered("fit") =>
    LET fit == result.fit
        models == result.models
        roll == input.roll
        within(m) == \A i \in DOMAIN m.f : Ca!Sum(m.f[i]) <= m.unit
        rolledWithin == roll.done =>
                          \A i \in DOMAIN roll.f : Ca!Sum(roll.f[i]) <= Ca!Whole
        nearest == Ca!LeastOf({ m.sse : m \in Range(fit.members) })
        leads == 100 * fit.params.sse <= nearest * (100 + input.percent)
    IN  /\ models # <<>> /\ Len(models) <= Ca!MaxMembers
        /\ rolledWithin =>
             IF fit.refined
             THEN Ca!Bounded(input.refined) => \A n \in DOMAIN models : within(models[n])
             ELSE within(models[1])
        /\ ~fit.refined =>
             /\ leads /\ models[1].sse = fit.params.sse
             /\ ~input.negative => result.plausible
             /\ \A m \in Range(fit.members) : fit.params.sse <= m.sse
        /\ leads => \E n \in DOMAIN models : models[n].sse = fit.params.sse
        /\ ~leads => fit.refined
        /\ \A n \in DOMAIN models :
             100 * models[n].sse <= nearest * (100 + input.percent)

(***************************************************************************)
(* The winner may compete, was fitted, and is beaten by none; without a    *)
(* winner the badge is LOW.  The sector's prediction is that of models as  *)
(* good as the winner, up to 3 hundredths of a score, of which all are     *)
(* plausible or which is the winner alone - an implausible winner may be   *)
(* left out of its own ensemble -, and HIGH is no sector with a warning or *)
(* an implausible winner (tournament.py, 404-441, 462-552).                *)
(*                                                                         *)
(* The gates are open to what can be fitted: no more is asked of the data  *)
(* than the steps the producers were on can give, an injector that always  *)
(* injects the same when it injects closes its gate, and of three          *)
(* producers or more at most half, rounded up, are flank wells (gates.py,  *)
(* 55-142).  How well the blind steps are predicted has nothing to do with *)
(* the others; the r2 of all producers together is no worse than the worst *)
(* of theirs; a producer is called poor only for what was measured         *)
(* (verify.py, 90-178).  The spread behind the badge lies between the      *)
(* doubts drawn at the pairs (uq.py, 49-75; bundle.py, 59-71).             *)
(***************************************************************************)
EnsembleSound ==
  /\ Answered("profile") =>
       LET g == input.grid
           ni == Cardinality(DOMAIN g.inj)
           np == Cardinality(DOMAIN g.liq)
       IN  /\ result.gates.points =>
                /\ Cardinality(Pf!ProdMask(g)) >= 4 * np * (ni + 3)
                /\ Len(g.dt) >= 4 * (ni + 3)
           /\ result.gates.cv => \A i \in DOMAIN g.inj :
                \E t, u \in DOMAIN g.dt :
                  g.injOn[i][t] /\ g.injOn[i][u] /\ g.inj[i][t] # g.inj[i][u]
           /\ result.gates.heavy => Len(input.events) >= 4 * Cardinality(input.producers)
           /\ 2 * Cardinality(result.flank) <= Cardinality(DOMAIN input.sums) + 1
           /\ Cardinality(DOMAIN input.sums) < 3 => result.flank = {}
  /\ Answered("verify") =>
       LET report == result.report
           per == report.per
           blindOn(j) == { t \in DOMAIN input.obs[j] : input.on[j][t] /\ t > input.train }
           off(j, t) == 100 * Vf!Size(input.pred[j][t] - input.obs[j][t])
       IN  /\ \A j \in DOMAIN per :
                /\ per[j].blind = result.other.per[j].blind
                /\ per[j].mape = result.other.per[j].mape
           /\ report.poor = result.other.poor /\ report.field = result.other.field
           /\ \A j \in report.poor :
                /\ Cardinality(blindOn(j)) >= 2
                /\ \E t \in blindOn(j) :
                     input.obs[j][t] > 0 /\ off(j, t) > 15 * input.obs[j][t]
           /\ (\A j \in DOMAIN per : per[j].blind # Vf!NaN) =>
                \E j \in DOMAIN per :
                  report.field[1] * per[j].blind[2] <= per[j].blind[1] * report.field[2]
  /\ Answered("spread") =>
       /\ \E p \in DOMAIN result.doubt :
            result.doubt[p][1] * result.spread[2] <= result.spread[1] * result.doubt[p][2]
       /\ \E p \in DOMAIN result.doubt :
            result.doubt[p][1] * result.spread[2] >= result.spread[1] * result.doubt[p][2]
  /\ Answered("tournament") =>
    LET entries == Sel!Entries(input.profile, input.requested, input.fit)
        score(v) == Sel!Score(v, entries, input.fit)
        members == Range(result.ensemble)
        w == result.winner
    IN  IF w = Sel!NoWinner
        THEN entries = <<>> /\ members = {} /\ result.badge = "LOW"
        ELSE /\ w \in Range(entries) \cap input.requested
             /\ Sel!Eligible(input.profile, w)
             /\ \A v \in Range(entries) : score(v) <= score(w)
             /\ \A v \in members : score(w) - score(v) <= 300
             /\ \/ members = {w}
                \/ \A v \in members : input.fit[v].plausible
             /\ w \in members \/ ~input.fit[w].plausible
             /\ result.badge = "HIGH" =>
                  /\ input.fit[w].plausible
                  /\ input.fit[w].warnings = 0
                  /\ Sel!GateWarnings(input.profile) = {}

\* The largest of the sums of the deviations, less the allowance, that end at a
\* window and begin after the first one.
Deviation(series, spread, sign, s, t) ==
  FoldSet(LAMBDA u, sum : sum + sign * 200 * (series[u] - series[1])
                            - Sel!Reference(series) * spread,
          0, s .. t)

IsHit(series, spread, sign, t) ==
  \E s \in 2 .. t :
    Deviation(series, spread, sign, s, t) > 4 * Sel!Reference(series) * spread

(***************************************************************************)
(* No rolling window goes over a break or is too short, and between two    *)
(* breaks fewer steps than the minimum are in no window, where windows     *)
(* overlap (rolling.py, 84-98).  A window is a hit where the deviations of *)
(* some windows that end with it add up above the limit.  A shift that is  *)
(* reported is one of a connected pair whose last windows all are hits and *)
(* whose last value is a quarter away on that side; it is dated by the     *)
(* first hit there ever was (change_detect.py, 53-98).                     *)
(***************************************************************************)
ShiftSound ==
  /\ Answered("rolling") /\ result # {} =>
       /\ \A w \in result :
            /\ 0 <= w[1] /\ w[2] <= input.n /\ w[2] - w[1] <= input.length
            /\ input.least <= input.length => w[1] + input.least <= w[2]
            /\ \A b \in input.breaks : ~(w[1] < b /\ b < w[2])
       /\ input.step <= input.length =>
            \A a, b \in {0, input.n} \cup (input.breaks \cap 1 .. input.n) :
              (a < b /\ \A c \in input.breaks : ~(a < c /\ c < b)) =>
                Cardinality({ t \in a .. b - 1 :
                                \A w \in result : ~(w[1] <= t /\ t < w[2]) })
                  < input.least
  /\ Answered("shift") =>
    LET series == input.series
        n == Len(series)
        ref == Sel!Reference(series)
        shift == result.shift
        hits == IF shift.sign = 1 THEN result.up ELSE result.down
    IN  /\ \A t \in DOMAIN series :
             /\ t \in result.up <=> IsHit(series, input.spread, 1, t)
             /\ t \in result.down <=> IsHit(series, input.spread, -1, t)
        /\ shift.sign # 0 =>
             /\ n - input.persist + 1 .. n \subseteq hits
             /\ 4 * shift.sign * (series[n] - ref) >= ref
             /\ shift.since \in hits /\ shift.since <= n - input.persist + 1
             /\ \E t \in DOMAIN series : series[t] >= 5

(***************************************************************************)
(* A forecast goes on where the history ends: it is what the model gives   *)
(* for the history with the plan as lived after it, for producers that go  *)
(* on producing; the others give nothing (forecast.py, 112-261).           *)
(***************************************************************************)
ForecastContinues ==
  Answered("forecast") =>
    LET g == input.model
        lived == Fc!Extended(g, input.plan, result.active)
        h == Len(g.inj)
    IN  \A j \in Fc!Producers(g) : \A n \in DOMAIN input.plan :
          result.liquid[j][n] =
            IF result.active[j] THEN Fc!Predicted(lived, j)[h + n] ELSE 0

(***************************************************************************)
(* Hold-current is recorded once and before everything else, and the other *)
(* scenarios differ from it in what they are about: water moved is neither *)
(* gained nor lost; a closed injector takes away what it gave; a new one   *)
(* gives as much as the fitted ones do in the median, and a producer that  *)
(* is converted no longer what it had - in members without level anchors,  *)
(* which these two scenarios drop although hold-current keeps them, so     *)
(* that there they are not compared on the same ensemble as scenarios.py,  *)
(* 5 promises.  With less water than today a sweep still answers with      *)
(* hold-current where no plan is better (scenarios.py, 152-186).  Balanced *)
(* patterns have the voidage replacement asked for, to the unit, as far as *)
(* no later one took an injector of theirs (299-324).  The bars of price   *)
(* and costs lie around the gain, unless there is a price deck, which the  *)
(* first of them drops (economics.py, 49; sensitivity.py, 39-70).          *)
(***************************************************************************)
ScenariosComparable ==
  /\ Answered("scenario") =>
       LET s == input.manager
           base == result[1]
           wanted(k) == { n \in DOMAIN result : result[n].kind = k }
           held == Sc!ScenarioValue(s, base)
           anchored(m) == \E j \in DOMAIN m.level : m.level[j] # 1
           change(n, m) == result[n].oil[m] - base.oil[m]
           today == Pl!Total(s.current)
       IN  /\ wanted("base") = {1}
           /\ \A n \in wanted("reallocation") :
                Pl!Total(result[n].rates) = today
           /\ \A n \in wanted("reallocation") \cup wanted("water_budget") :
                /\ Sc!ScenarioValue(s, result[n]) >= held
                /\ Sc!ScenarioValue(s, result[n]) = held
                     => result[n].rates = s.current
           /\ \A n \in wanted("shut_in") :
                \E k \in DOMAIN s.current :
                  /\ Pl!Total(result[n].rates) = today - s.current[k]
                  /\ \A m \in DOMAIN s.members :
                       change(n, m) <= 0 /\ (change(n, m) < 0 => s.current[k] > 0)
           /\ \A n \in wanted("new_well") \cup wanted("conversion") : s.located
           /\ \A n \in wanted("new_well") : \A m \in DOMAIN s.members :
                LET x == s.members[m]
                    rows == [k \in DOMAIN x.f |-> Sc!Row(x, k)]
                    added == result[n].rates[Len(result[n].rates)]
                IN  ~anchored(x) =>
                      \E a, b \in Range(rows) :
                        2 * change(n, m) = Sc!Unit * added * (a + b)
           /\ \A n \in wanted("pattern_balancing") : \A p \in DOMAIN s.patterns :
                LET q == s.patterns[p]
                    later == UNION { s.patterns[r].injectors :
                                       r \in p + 1 .. Len(s.patterns) }
                    sum == Sc!InjectedBy(result[n].rates, q)
                    goal == s.vrr * FoldSet(LAMBDA j, all : all + s.liquid[j], 0, q.producers)
                IN  q.producers # {} /\ q.injectors \cap later = {} /\ sum # 0 =>
                      goal - Cardinality(q.injectors) < sum /\ sum <= goal
  /\ Answered("tornado") =>
       LET e == input.e
           around(bar) == bar[1] + bar[2] = 2 * result.base
       IN  input.posture = "aggressive" =>
             /\ around(result.items.water) /\ around(result.items.injection)
             /\ e.deck = <<>> => around(result.items.price)
=============================================================================
