------------------------------- MODULE Selection -------------------------------
(***************************************************************************)
(* The choice of a model for one sector and window: the gates on the data  *)
(* (prep/gates.py), the variants that may compete, the score, the ranking, *)
(* the ensemble and the confidence badge (models/tournament.py), and after *)
(* it the rolling windows (models/rolling.py) and the shifts found in      *)
(* their parameters (models/change_detect.py).                             *)
(*                                                                         *)
(* Ratios are in hundredths, a score in units of 1 / 10000.  What a fit    *)
(* gives is input; the thresholds are those of config/thresholds.yaml.     *)
(***************************************************************************)
EXTENDS Integers, Sequences, FiniteSets, SequencesExt

NotKnown == -1000

SmallestOf(S) == CHOOSE x \in S : \A y \in S : x <= y
LargestOf(S) == CHOOSE x \in S : \A y \in S : y <= x
Clip(n) == IF n < 0 THEN 0 ELSE IF n > 100 THEN 100 ELSE n

-----------------------------------------------------------------------------
(***************************************************************************)
(* run_gates.  p: the profile - steps, od, crmp and crmip (points per      *)
(* parameter), cv, tau (over the step, or not known), support (of the      *)
(* field), maxInj, events (per well), cut, xy, bhp, relperm.               *)
(***************************************************************************)
Gates(p) ==
  [ historyMin |-> p.steps >= 8,
    od |-> p.od > 600,
    points |-> p.crmp >= 400,
    cv |-> p.cv >= 15,
    tau |-> p.tau = NotKnown \/ p.tau >= 300,
    influx |-> p.support > 115 \/ p.maxInj > 115,
    heavy |-> p.events >= 400,
    mature |-> p.cut >= 50,
    long |-> p.steps >= 120 ]

\* The gates that warn; CRMIP_DATA_LOW and SUM_F_HIGH are information.
GateWarnings(p) ==
  LET g == Gates(p)
  IN  { w \in { <<"HISTORY_SHORT", g.historyMin /\ p.steps < 36>>,
                <<"OD_LOW", ~g.od>>,
                <<"POINTS_PER_PARAM_LOW", ~g.points>>,
                <<"INJ_CV_LOW", ~g.cv>>,
                <<"TAU_DT_LOW", ~g.tau>>,
                <<"NO_BHP_EVENTS_HIGH", g.heavy /\ ~p.bhp>> } : w[2] }

-----------------------------------------------------------------------------
Variants ==
  << "mpi", "mlr", "crmt", "crmp", "crmip", "aquifer", "twophase",
     "crossflow", "pinn", "rnn" >>

Available == { "crmt", "crmp", "crmip", "aquifer", "twophase", "crossflow" }

\* eligibility.
Eligible(p, v) ==
  LET g == Gates(p)
  IN  CASE v = "mpi" -> p.xy
        [] v = "mlr" -> p.od >= 300
        [] v = "crmt" -> g.historyMin
        [] v = "crmp" -> p.crmp >= 100
        [] v = "crmip" -> p.crmip >= 200
        [] v = "aquifer" -> g.influx /\ p.crmp >= 200
        [] v = "twophase" -> ~g.mature /\ p.relperm
        [] v = "crossflow" -> g.heavy /\ p.bhp
        [] v = "pinn" -> g.long /\ p.od >= 600
        [] v = "rnn" -> FALSE

\* What run_tournament fits: requested is the reviewer's list, or everything.
ToFit(p, requested) ==
  SelectSeq(Variants, LAMBDA v : /\ Eligible(p, v)
                                 /\ v \in Available
                                 /\ v \in requested)

\* A variant that raises, or has no model, is left out.
Entries(p, requested, fit) ==
  SelectSeq(ToFit(p, requested), LAMBDA v : fit[v].ok)

-----------------------------------------------------------------------------
(***************************************************************************)
(* _score.  A fit has r2 and mape of the blind steps (or not known), aicc, *)
(* spread, plausible, runtime (its logarithm), params, and the warnings of *)
(* its verification.                                                       *)
(***************************************************************************)
\* 0 for the worst and 100 for the best of the entries, lower being better.
Unit(x, all) ==
  LET lo == SmallestOf(all)
      hi == LargestOf(all)
  IN  IF hi = lo THEN 100 ELSE 100 - (100 * (x - lo)) \div (hi - lo)

Components(v, entries, fit) ==
  LET f == fit[v]
      of(field) == { fit[u][field] : u \in Range(entries) }
  IN  [ r2 |-> Clip(f.r2),
        mape |-> IF f.mape = NotKnown THEN 0 ELSE Clip(100 - 2 * f.mape),
        aicc |-> Unit(f.aicc, of("aicc")),
        stability |-> Clip(100 - 2 * f.spread),
        plausibility |-> IF f.plausible THEN 100 ELSE 0,
        runtime |-> Unit(f.runtime, of("runtime")) ]

Score(v, entries, fit) ==
  LET c == Components(v, entries, fit)
  IN  35 * c.r2 + 15 * c.mape + 20 * c.aicc + 15 * c.stability
        + 10 * c.plausibility + 5 * c.runtime

\* Best first, of two with one score the one with fewer parameters, else the one
\* that was fitted first.
Better(u, v, entries, fit) ==
  LET su == Score(u, entries, fit)
      sv == Score(v, entries, fit)
      at(w) == CHOOSE k \in DOMAIN entries : entries[k] = w
  IN  \/ su > sv
      \/ su = sv /\ fit[u].params < fit[v].params
      \/ su = sv /\ fit[u].params = fit[v].params /\ at(u) < at(v)

Ranked(entries, fit) ==
  [k \in DOMAIN entries |->
     CHOOSE v \in Range(entries) :
       Cardinality({ u \in Range(entries) : Better(u, v, entries, fit) }) = k - 1]

\* Mutant: the models close to the winner are taken as they are.
CloseAny(ranked, entries, fit) ==
  SelectSeq(SubSeq(ranked, 1, IF Len(ranked) < 3 THEN Len(ranked) ELSE 3),
            LAMBDA v : Score(ranked[1], entries, fit)
                         - Score(v, entries, fit) <= 300)

\* Of the first three, the plausible ones close to the winner.
Close(ranked, entries, fit) ==
  SelectSeq(SubSeq(ranked, 1, IF Len(ranked) < 3 THEN Len(ranked) ELSE 3),
            LAMBDA v : /\ Score(ranked[1], entries, fit)
                            - Score(v, entries, fit) <= 300
                       /\ fit[v].plausible)

\* The models whose weighted prediction is the sector's.
Ensemble(ranked, entries, fit) ==
  LET close == Close(ranked, entries, fit)
  IN  IF Len(close) > 1 THEN close ELSE <<ranked[1]>>

\* Warnings in the sector's log when the badge is given: gates, the winner's
\* verification, its spread.
WarningCount(p, f) ==
  Cardinality(GateWarnings(p)) + f.warnings + (IF f.spread > 30 THEN 1 ELSE 0)

\* confidence_badge of a winner; r2 is not known is less than any bound.
Badge(p, f) ==
  LET n == WarningCount(p, f)
      high == f.r2 >= 85 /\ f.spread < 15 /\ n = 0 /\ f.plausible
      medium == \/ f.r2 >= 70 /\ n <= 1 /\ f.plausible
                \/ f.r2 >= 85 /\ n <= 1
  IN  CASE high -> "HIGH"
        [] ~high /\ medium -> "MEDIUM"
        [] OTHER -> "LOW"

NoWinner == "none"

\* run_tournament.
Tournament(p, requested, fit) ==
  LET entries == Entries(p, requested, fit)
      ranked == Ranked(entries, fit)
  IN  IF entries = <<>>
      THEN [winner |-> NoWinner, ensemble |-> <<>>, badge |-> "LOW"]
      ELSE [ winner |-> ranked[1],
             ensemble |-> Ensemble(ranked, entries, fit),
             badge |-> Badge(p, fit[ranked[1]]) ]

-----------------------------------------------------------------------------
(***************************************************************************)
(* window_bounds, over the segments between event breaks: a window every   *)
(* step, until one reaches the end or what is left is too short.           *)
(***************************************************************************)
SegmentWindows(a, b, length, step, atLeast) ==
  { <<s, SmallestOf({s + length, b})>> :
      s \in { k \in a .. b : /\ (k - a) % step = 0
                             /\ k + atLeast <= b
                             /\ k = a \/ k - step + length < b } }

WindowBounds(n, breaks, length, step, atLeast) ==
  LET cuts == {0, n} \cup { b \in breaks : 0 < b /\ b < n }
      next(a) == SmallestOf({ c \in cuts : c > a })
  IN  UNION { SegmentWindows(a, next(a), length, step, atLeast) :
                a \in cuts \ {n} }

\* _rolling_refit: whether the winner is refitted in windows.
RollsWinner(mode, winner, wells, maxWells, windows) ==
  /\ mode # "never"
  /\ winner \in {"crmt", "crmp", "crmip"}
  /\ mode = "auto" => wells <= maxWells
  /\ windows >= 2

(***************************************************************************)
(* detect_shifts, for one pair.  series: the allocation in the windows, in *)
(* hundredths; spread: the scale, in hundredths.  The sums of cusum are    *)
(* multiplied by 200 * reference * spread / 100.                           *)
(***************************************************************************)
Reference(series) == LargestOf({series[1], 2})

Drift(series, spread, sign) ==
  LET sum[t \in DOMAIN series] ==
        IF t = 1 THEN 0
        ELSE LargestOf({0, sum[t - 1] + sign * 200 * (series[t] - series[1])
                              - Reference(series) * spread})
  IN  sum

HitSteps(series, spread, sign) ==
  { t \in DOMAIN series :
      Drift(series, spread, sign)[t] > 4 * Reference(series) * spread }

\* The pair counts: it is connected in half of the windows.
Connected(series) ==
  /\ LargestOf(Range(series)) >= 5
  /\ 2 * Cardinality({ t \in DOMAIN series : series[t] > 2 }) >= Len(series)

\* Mutant: the direction of the last value is not looked at.
ShiftsAnyway(series, spread, persist, sign) ==
  /\ Len(series) > persist
  /\ Connected(series)
  /\ \A t \in Len(series) - persist + 1 .. Len(series) :
       t \in HitSteps(series, spread, sign)

Shifts(series, spread, persist, sign) ==
  /\ Len(series) > persist
  /\ Connected(series)
  /\ \A t \in Len(series) - persist + 1 .. Len(series) :
       t \in HitSteps(series, spread, sign)
  /\ 100 * sign * (series[Len(series)] - Reference(series))
       >= 25 * Reference(series)

NoShift == [sign |-> 0, since |-> 0]

\* The shift that is reported, dated by the first hit: strengthened is tried first.
Shift(series, spread, persist) ==
  LET shift(sign) ==
        [ sign |-> sign,
          since |-> SmallestOf(HitSteps(series, spread, sign)) ]
  IN  CASE Shifts(series, spread, persist, 1) -> shift(1)
        [] ~Shifts(series, spread, persist, 1)
             /\ Shifts(series, spread, persist, -1) -> shift(-1)
        [] OTHER -> NoShift
=============================================================================
