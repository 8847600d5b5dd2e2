------------------------------ MODULE Preparation ------------------------------
(***************************************************************************)
(* From rates to the grid the models are fitted on (prep/): the pivot of   *)
(* the rows of an entity, the coordinates, the cleaning of rates, flowing  *)
(* pressure, history windows, the entities active in a window, and the     *)
(* split into training and blind steps.                                    *)
(*                                                                         *)
(* Steps are numbered from 1; a window <<a, b>> is the steps a + 1 .. b, as *)
(* the half-open ranges of the code that count from 0.  Volumes are whole, *)
(* with formation volume factors of 1.                                     *)
(***************************************************************************)
EXTENDS Integers, Sequences, FiniteSets, SequencesExt

Missing == -1000        \* a measurement that is not there (NaN)

Least(S) == CHOOSE x \in S : \A y \in S : x <= y
Greatest(S) == CHOOSE x \in S : \A y \in S : y <= x
Abs(n) == IF n < 0 THEN -n ELSE n
Larger(a, b) == IF a < b THEN b ELSE a
Smaller(a, b) == IF a < b THEN a ELSE b

-----------------------------------------------------------------------------
(***************************************************************************)
(* build_grid.  rows: the rows of one entity, in the order of the table;   *)
(* dates: the dates of the whole table, sorted.                            *)
(***************************************************************************)
\* _time_axis: the length of every step, the first as long as the second.
StepLength(dates, t) ==
  CASE Len(dates) = 1 -> 30
    [] Len(dates) > 1 /\ t = 1 -> dates[2] - dates[1]
    [] OTHER -> dates[t] - dates[t - 1]

\* pivot, of one column: of two rows with a value and one date the later is kept;
\* a value that is not there counts as zero.
Pivot(values, on, date) ==
  LET at == { k \in DOMAIN values : on[k] = date /\ values[k] # Missing }
  IN  IF at = {} THEN 0 ELSE values[Greatest(at)]

\* Days on are a full step where they are not given and there is a rate.
DaysOn(rate, days, length) == IF days <= 0 /\ rate > 0 THEN length ELSE days

\* The steps of one entity.
EntitySteps(rows, dates) ==
  LET column(C(_)) == [k \in DOMAIN rows |-> C(rows[k])]
      on == column(LAMBDA r : r.date)
  IN  [t \in DOMAIN dates |->
         LET rate == Pivot(column(LAMBDA r : r.rate), on, dates[t])
             days == Pivot(column(LAMBDA r : r.days), on, dates[t])
         IN  [rate |-> rate, days |-> DaysOn(rate, days, StepLength(dates, t))]]

\* Every entity has a place, or none has; woe: entity -> the well it is of.
Coordinates(entities, woe, located) ==
  IF \A e \in entities : woe[e] \in located THEN entities ELSE {}

\* subset, of one side of the grid: an empty list selects everything.
Subset(all, wanted) == IF wanted = {} THEN all ELSE wanted

\* active_entities; steps: entity -> steps on which it is active.
ActiveEntities(all, steps, atLeast) ==
  Subset(all, { e \in all : steps[e] >= atLeast })

-----------------------------------------------------------------------------
(***************************************************************************)
(* hampel, over a series in twice its unit so that medians are whole.      *)
(* k is in units of 1 / 10000 of the median deviation.                     *)
(***************************************************************************)
Ascending(s) == SortSeq(s, <)

\* Twice the median.
Median2(s) ==
  LET a == Ascending(s)
      n == Len(s)
  IN  a[(n + 1) \div 2] + a[n \div 2 + 1]

Usable(x, on) == { t \in DOMAIN x : on[t] /\ x[t] > 0 }

Around(x, on, half, t) ==
  LET near == { u \in Usable(x, on) : Abs(u - t) <= half }
  IN  [k \in 1 .. Cardinality(near) |->
         x[CHOOSE u \in near : Cardinality({ v \in near : v < u }) = k - 1]]

\* Mutant: one neighbour that differs is enough.
IsSpikeAny(x, on, half, k, rel, t) ==
  LET seg == Around(x, on, half, t)
      med2 == Median2(seg)
      mad4 == Median2([i \in DOMAIN seg |-> Abs(2 * seg[i] - med2)])
      beside == { u \in Usable(x, on) : Abs(u - t) = 1 }
  IN  /\ t \in Usable(x, on)
      /\ Len(seg) >= 3
      /\ mad4 > 0
      /\ 20000 * Abs(2 * x[t] - med2) > k * mad4
      /\ 100 * Abs(2 * x[t] - med2) >= rel * med2
      /\ \E u \in beside : 40000 * Abs(x[t] - x[u]) > k * mad4

\* A usable step, far from the median around it and from each usable neighbour.
IsSpike(x, on, half, k, rel, t) ==
  LET seg == Around(x, on, half, t)
      med2 == Median2(seg)
      mad4 == Median2([i \in DOMAIN seg |-> Abs(2 * seg[i] - med2)])
      beside == { u \in Usable(x, on) : Abs(u - t) = 1 }
  IN  /\ t \in Usable(x, on)
      /\ Len(seg) >= 3
      /\ mad4 > 0
      /\ 20000 * Abs(2 * x[t] - med2) > k * mad4
      /\ 100 * Abs(2 * x[t] - med2) >= rel * med2
      /\ beside # {}
      /\ \A u \in beside : 40000 * Abs(x[t] - x[u]) > k * mad4

\* Twice the cleaned series.
Hampel2(x, on, half, k, rel) ==
  [t \in DOMAIN x |->
     IF IsSpike(x, on, half, k, rel, t)
     THEN Median2(Around(x, on, half, t)) ELSE 2 * x[t]]

(***************************************************************************)
(* clean_grid, one producer: oil and water are capped at zero and scaled   *)
(* as the liquid was cleaned; the liquid is that of the raw rates.  Twice  *)
(* the volumes; oil and water are in units of 1 / Scale.                   *)
(***************************************************************************)
Liquid(oil, water) == [t \in DOMAIN oil |-> oil[t] + water[t]]

CleanProducer(oil, water, on, half, k, rel) ==
  LET liq == Liquid(oil, water)
      clean2 == Hampel2(liq, on, half, k, rel)
      Scaled(q, t) ==
        IF liq[t] > 0 THEN Larger(q[t], 0) * clean2[t]
        ELSE 2 * Larger(q[t], 0)
  IN  [ liq2 |-> clean2,
        scale |-> [t \in DOMAIN oil |-> IF liq[t] > 0 THEN liq[t] ELSE 1],
        oil2 |-> [t \in DOMAIN oil |-> Scaled(oil, t)],
        water2 |-> [t \in DOMAIN oil |-> Scaled(water, t)] ]

-----------------------------------------------------------------------------
(***************************************************************************)
(* Windows.  breaks: the steps at which a window starts, each greater than *)
(* 0 and less than n.                                                      *)
(***************************************************************************)
\* _step_of: the number of steps before date d; a break is taken inside only.
StepOf(dates, d) == Cardinality({ t \in DOMAIN dates : dates[t] < d })

Breaks(dates, eventDates) ==
  { StepOf(dates, d) : d \in eventDates } \cap (1 .. Len(dates) - 1)

Bounds(n, breaks) ==
  LET all == {0, n} \cup breaks
  IN  [k \in 1 .. Cardinality(all) |->
         CHOOSE b \in all : Cardinality({ c \in all : c < b }) = k - 1]

Pieces(n, breaks) ==
  LET b == Bounds(n, breaks)
  IN  [k \in 1 .. Len(b) - 1 |-> <<b[k], b[k + 1]>>]

Length(w) == w[2] - w[1]

\* Mutant: a short first window is not absorbed by the next.
MergeBackOnly(merged, w, atLeast) ==
  IF merged # <<>> /\ Length(w) < atLeast
  THEN Append(Front(merged), <<Last(merged)[1], w[2]>>)
  ELSE Append(merged, w)

\* A short window joins the one before; the first, when it is short, takes in
\* the next.
Merge(merged, w, atLeast) ==
  IF merged # <<>> /\ (Length(w) < atLeast \/ Length(Last(merged)) < atLeast)
  THEN Append(Front(merged), <<Last(merged)[1], w[2]>>)
  ELSE Append(merged, w)

BuildWindows(n, breaks, atLeast) ==
  FoldLeft(LAMBDA merged, w : Merge(merged, w, atLeast), <<>>,
           Pieces(n, breaks))

\* long_shutins, of one producer: the stretches of steps off that are long enough,
\* if the producer was on before and after.
LongShutIns(on, atLeast) ==
  { w \in (1 .. Len(on) - 1) \X (1 .. Len(on) - 1) :
      /\ Length(w) >= atLeast
      /\ on[w[1]] /\ on[w[2] + 1]
      /\ \A t \in w[1] + 1 .. w[2] : ~on[t] }

\* round, of n hundredths: to the nearest, of two to the even one.
Rounded(n) ==
  LET low == n \div 100
      up == n % 100 > 50 \/ (n % 100 = 50 /\ low % 2 = 1)
  IN  IF up THEN low + 1 ELSE low

\* train_blind_split: the share of the steps that is held out, rounded, no fewer
\* than the minimum, and never all but one step.
BlindSteps(n, percent, atLeast) ==
  Smaller(Larger(atLeast, Rounded(n * percent)), Larger(0, n - 2))

TrainSteps(n, percent, atLeast) == n - BlindSteps(n, percent, atLeast)

-----------------------------------------------------------------------------
(***************************************************************************)
(* Flowing pressure.  A well has kind (what its source column says, if     *)
(* anything), bhp and whp (measurements [month, value], one for a month),  *)
(* and the depths intake and tvd (mid-perforation); q has the wells, the   *)
(* dates of the grid, cut (the water cut of every step, in percent), the   *)
(* depth datum, the gradients water, oil and toDatum, varies (percent),    *)
(* half and k.  What is used is in units of 1 / PressureScale.             *)
(***************************************************************************)
NoDepth == -1
PressureScale == 200

\* classify_source.
ClassifySource(kind, hasBhp, hasWhp) ==
  CASE kind \in {"static", "esp", "gauge", "whp"} -> kind
    [] kind = "none" /\ hasBhp -> "gauge"
    [] kind = "none" /\ ~hasBhp /\ hasWhp -> "whp"
    [] OTHER -> "none"

SourceOf(w) == ClassifySource(w.kind, w.bhp # {}, w.whp # {})

\* _to_grid: the mean of a month goes to the step dated the first of it.
OnGrid(measured, dates) ==
  [t \in DOMAIN dates |->
     LET at == { m \in measured :
                   dates[t] = [month |-> m.month, day |-> 1] }
     IN  IF at = {} THEN Missing ELSE (CHOOSE m \in at : TRUE).value]

Present(s) == { t \in DOMAIN s : s[t] # Missing }

\* What is read of a well: wellhead pressure only where that is its source.
Read(q, w) == OnGrid(IF SourceOf(w) = "whp" THEN w.whp ELSE w.bhp, q.dates)

\* More than three values, whose standard deviation is a share of their mean.
Varies(s, percent) ==
  LET n == Cardinality(Present(s))
      sum == FoldSet(LAMBDA t, a : a + s[t], 0, Present(s))
      squares == FoldSet(LAMBDA t, a : a + s[t] * s[t], 0, Present(s))
  IN  /\ n > 3
      /\ sum > 0
      /\ 10000 * (n * squares - sum * sum) >= percent * percent * sum * sum

\* Whether a producer's pressure is used as its flowing pressure.
Dynamic(q, w) ==
  \/ SourceOf(w) \in {"gauge", "esp"} /\ Present(Read(q, w)) # {}
  \/ SourceOf(w) = "whp" /\ Varies(Read(q, w), q.varies)

IntakeKnown(w) == w.intake # NoDepth /\ w.tvd # NoDepth
DatumKnown(q, w) == q.datum # NoDepth /\ w.tvd # NoDepth

\* Mutant: the column from the intake down is taken off, not added.
ToPerforationUp(q, w, t) ==
  IF SourceOf(w) = "esp" /\ IntakeKnown(w)
  THEN (q.cut[t] * q.water + (100 - q.cut[t]) * q.oil) * (w.intake - w.tvd)
  ELSE 0

\* From the intake of a pump to mid-perforation, by the mixture in the well.
ToPerforation(q, w, t) ==
  IF SourceOf(w) = "esp" /\ IntakeKnown(w)
  THEN (q.cut[t] * q.water + (100 - q.cut[t]) * q.oil) * (w.tvd - w.intake)
  ELSE 0

\* From mid-perforation to the datum of the field.
ToDatum(q, w) ==
  IF SourceOf(w) # "whp" /\ DatumKnown(q, w)
  THEN q.toDatum * (q.datum - w.tvd) ELSE 0

\* Without the spikes of a pump and at the common depth; wellhead pressure as it is.
Corrected(q, w) ==
  LET s == Read(q, w)
      on == [t \in DOMAIN s |-> t \in Present(s)]
      clean2 == IF SourceOf(w) = "esp" THEN Hampel2(s, on, q.half, q.k, 0)
                ELSE [t \in DOMAIN s |-> 2 * s[t]]
  IN  [t \in DOMAIN s |->
         IF s[t] = Missing THEN Missing
         ELSE 100 * clean2[t] + 2 * ToPerforation(q, w, t)
                + PressureScale * ToDatum(q, w)]

\* _fill: the last value before, at the start the first one.
Fill(s) ==
  [t \in DOMAIN s |->
     LET before == { u \in Present(s) : u <= t }
     IN  CASE before # {} -> s[Greatest(before)]
           [] before = {} /\ Present(s) # {} -> s[Least(Present(s))]
           [] OTHER -> Missing]

\* prepare_pressure: nothing (constant pressure), or a value for every producer
\* and step, zero for a producer without pressure.
PreparePressure(q) ==
  LET wells == q.wells
      dynamic == { j \in DOMAIN wells : Dynamic(q, wells[j]) }
  IN  IF dynamic = {} THEN <<>>
      ELSE [j \in DOMAIN wells |->
              IF j \in dynamic THEN Fill(Corrected(q, wells[j]))
              ELSE [t \in DOMAIN q.dates |-> 0]]

\* The conditions that are logged, with the well they are about (0: the field).
PressureConditions(q) ==
  LET wells == q.wells
      about(code, Is(_)) ==
        { [code |-> code, well |-> j] : j \in { i \in DOMAIN wells : Is(wells[i]) } }
      undated(w) == /\ SourceOf(w) = "esp"
                    /\ Present(Read(q, w)) # {}
                    /\ ~IntakeKnown(w)
                    /\ w.intake # NoDepth \/ q.datum # NoDepth
  IN  IF \A j \in DOMAIN wells : SourceOf(wells[j]) = "none"
      THEN { [code |-> "NO_PRESSURE", well |-> 0] }
      ELSE about("PRESSURE_STATIC_ONLY", LAMBDA w : SourceOf(w) = "static")
             \cup about("PRESSURE_WHP_ONLY", LAMBDA w : SourceOf(w) = "whp")
             \cup about("DATUM_DEPTH_MISSING", undated)

\* _dominant: the best source any producer has.
Dominant(source) ==
  LET has == { source[j] : j \in DOMAIN source }
      rank == <<"gauge", "esp", "whp", "static", "none">>
  IN  IF has = {} THEN "none"
      ELSE rank[Least({ k \in 1 .. 5 : rank[k] \in has })]
=============================================================================
