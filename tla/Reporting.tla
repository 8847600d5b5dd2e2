------------------------------- MODULE Reporting -------------------------------
(***************************************************************************)
(* What the user is shown of a run: the conditions (messaging/conditions), *)
(* the recommendation of every sector (optimize/run.py), the result bundle *)
(* (api/bundle.py), the recommendation that is kept and shown and its      *)
(* evaluation (api/service.py).                                            *)
(*                                                                         *)
(* Volumes and rates are whole in the internal units; a statistic over the *)
(* members of an ensemble is their sum.                                    *)
(***************************************************************************)
EXTENDS Integers, Sequences, FiniteSets, SequencesExt

U == INSTANCE Volumes
P == INSTANCE Preparation

None == <<>>

SumOf(s) == FoldSeq(LAMBDA x, sum : x + sum, 0, s)

-----------------------------------------------------------------------------
(***************************************************************************)
(* ConditionLog.  A condition is [code, level, scope, context].            *)
(***************************************************************************)
Emit(log, c) == IF c \in Range(log) THEN log ELSE Append(log, c)

Extend(log, other) == FoldLeft(Emit, log, other)

Warnings(log) == SelectSeq(log, LAMBDA c : c.level \in {"warning", "error"})

Has(log, code) == \E c \in Range(log) : c.code = code

\* _fit_sector: a sector whose history is too short says so and has no result.
IsTooShort(s) == s.steps < 8

SectorLog(s) ==
  IF IsTooShort(s)
  THEN << [code |-> "HISTORY_TOO_SHORT", level |-> "error",
           scope |-> s.id, context |-> s.steps] >>
  ELSE s.log

Fitted(r) == SelectSeq(r.sectors, LAMBDA s : ~IsTooShort(s))

\* run_engine: what loading and preparation logged, and then every sector, in the
\* order of the windows.
RunLog(r) ==
  FoldLeft(LAMBDA log, s : Extend(log, SectorLog(s)), Extend(<<>>, r.log), r.sectors)

\* RunResult.latest.
LatestIndex(r) ==
  CHOOSE w \in { s.window : s \in Range(Fitted(r)) } :
    \A s \in Range(Fitted(r)) : s.window <= w

Latest(r) == SelectSeq(Fitted(r), LAMBDA s : s.window = LatestIndex(r))

\* _dq_report, its light.
TrafficLight(log) ==
  CASE \/ \E c \in Range(log) : c.level = "error"
       \/ Has(log, "HISTORY_TOO_SHORT") -> "red"
    [] /\ \A c \in Range(log) : c.level # "error" /\ c.code # "HISTORY_TOO_SHORT"
       /\ Warnings(log) # <<>> -> "amber"
    [] OTHER -> "green"

-----------------------------------------------------------------------------
(***************************************************************************)
(* optimize_sector and optimize_sectors.  A sector has the plan that was   *)
(* found, the current rates, and the oil each member forecasts for both.   *)
(***************************************************************************)
\* Objective.value: oil, money or the water that is saved.
ObjectiveValue(objective, price, rates, oil) ==
  CASE objective = "oil" -> oil
    [] objective = "npv" -> price * oil - SumOf(rates)
    [] objective = "min_water" -> -SumOf(rates)

\* The tank model of the field tells no injector apart: it holds the current rates.
Recommendation(s, objective, price) ==
  LET holds == s.winner = "crmt"
      rates == IF holds THEN s.current ELSE s.found
      oil == IF holds THEN s.oilBase ELSE s.oilPlan
      value(x, o) == [m \in DOMAIN o |-> ObjectiveValue(objective, price, x, o[m])]
      members == value(rates, oil)
      base == value(s.current, s.oilBase)
      gain(o) == SumOf(value(rates, oil)) - SumOf(value(s.current, s.oilBase))
      more == SumOf(oil) - SumOf(s.oilBase)
  IN  [ sector |-> s.id, objective |-> objective,
        rates |-> rates, baseRates |-> s.current,
        members |-> members, membersBase |-> base,
        valuePlan |-> SumOf(members), valueBase |-> SumOf(base),
        tornado |-> [ unit |-> IF objective = "npv" THEN "currency" ELSE "volume",
                      base |-> IF objective = "npv" THEN gain(oil) ELSE more ],
        moved |-> { k \in DOMAIN rates : rates[k] # s.current[k] },
        expected |-> IF more < 0 THEN 0 ELSE more,
        producers |-> s.producers ]

\* The sectors of the latest window by their id; one that fails is in the errors.
Recommendations(r) ==
  LET ok == { s \in Range(Latest(r)) : ~s.fails }
  IN  [id \in { s.id : s \in ok } |->
         Recommendation(CHOOSE s \in ok : s.id = id, r.objective, r.price)]

-----------------------------------------------------------------------------
\* Display: the factors of a unit system.
Display(system) ==
  LET factor(from, to) == LET c == U!Convert(from, to) IN c[1] \div c[2]
  IN  IF system = "metric"
      THEN [rate |-> factor("m3/d", "m3/d"), volume |-> factor("m3", "m3")]
      ELSE [rate |-> factor("m3/d", "bbl/d"), volume |-> factor("m3", "bbl")]

Multiplied(s, n) == [k \in DOMAIN s |-> s[k] * n]

\* Mutant: the rates the recommendation holds are converted twice.
DisplayTwice(rec, d) ==
  [ rec EXCEPT !.rates = Multiplied(Multiplied(@, d.rate), d.rate),
               !.baseRates = Multiplied(@, d.rate) ]

\* display_recommendation: the values are taken for volumes whatever the objective;
\* the bars of the tornado only when they are.
DisplayRecommendation(rec, d) ==
  [ rec EXCEPT !.rates = Multiplied(@, d.rate),
               !.baseRates = Multiplied(@, d.rate),
               !.valuePlan = @ * d.volume,
               !.valueBase = @ * d.volume,
               !.expected = @ * d.volume,
               !.tornado = IF @.unit = "volume"
                           THEN [@ EXCEPT !.base = @ * d.volume] ELSE @ ]

\* The step the blind steps are drawn from: a share of them, rounded.
BlindStart(s, r) == P!Rounded(s.steps * (100 - r.percent))

\* sector_bundle: the plan's rates are in the recommendation and in the forecast.
SectorBundle(r, s, d) ==
  LET recs == Recommendations(r)
      shown == s.window = LatestIndex(r) /\ s.id \in DOMAIN recs
  IN  [ id |-> s.id,
        window |-> s.window,
        blindStart |-> BlindStart(s, r),
        conditions |-> SectorLog(s),
        recommendation |-> IF shown THEN DisplayRecommendation(recs[s.id], d)
                           ELSE None,
        planRates |-> IF shown THEN Multiplied(recs[s.id].rates, d.rate) ELSE None ]

\* build_bundle.
Bundle(r, system) ==
  LET log == RunLog(r)
      fitted == Fitted(r)
  IN  [ conditions |-> log,
        light |-> TrafficLight(log),
        warnings |-> Len(Warnings(log)),
        sectors |-> [k \in DOMAIN fitted |->
                       SectorBundle(r, fitted[k], Display(system))],
        latest |-> IF fitted = <<>> THEN 0 ELSE LatestIndex(r) ]

-----------------------------------------------------------------------------
(***************************************************************************)
(* create_recommendation: what is kept of the recommendation of a sector,  *)
(* in internal units.  The water cuts are those of the first sector of the *)
(* latest window, taken one by one for the producers of this one.          *)
(***************************************************************************)
Payload(r, id) ==
  LET rec == Recommendations(r)[id]
      first == Latest(r)[1]
      n == P!Smaller(Len(rec.producers), Len(first.cuts))
  IN  [ recommended |-> rec.rates,
        recommendation |-> rec,
        membersPlan |-> rec.members,
        membersBase |-> rec.membersBase,
        cuts |-> [k \in 1 .. n |-> <<rec.producers[k], first.cuts[k]>>] ]

\* get_recommendation, with the units of the project.
GetRecommendation(payload, d) ==
  [ recommended |-> Multiplied(payload.recommended, d.rate),
    recommendation |-> DisplayRecommendation(payload.recommendation, d) ]

\* add_evaluation: the realised oil, as it was entered, against the members over the
\* months that passed; P10 and P90 of two members, in tenths and in parts of the
\* horizon.
Evaluation(payload, d, months, horizon, entered) ==
  LET part == P!Smaller(months, horizon)
      m == payload.membersPlan
      low == P!Smaller(m[1], m[Len(m)])
      high == P!Larger(m[1], m[Len(m)])
      p10 == part * (9 * low + high)
      p90 == part * (low + 9 * high)
      realised == 10 * horizon * (entered \div d.volume)
  IN  CASE realised > p90 -> "better"
        [] realised < p10 -> "worse"
        [] OTHER -> "within band"
=============================================================================
