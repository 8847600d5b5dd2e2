-------------------------------- MODULE DataRules --------------------------------
(***************************************************************************)
(* The rules from a source to what the models are fitted on, asked one at  *)
(* a time: loading, well types, preparation, sectors and the windows of a  *)
(* run.  The operators are those of the modules named below; here are the  *)
(* questions, and what must hold of every answer.                          *)
(***************************************************************************)
EXTENDS Questions, Integers, Sequences, FiniteSets, SequencesExt

L == INSTANCE Loading
WT == INSTANCE WellTypes
Prep == INSTANCE Preparation
Sec == INSTANCE Sectors
Eng == INSTANCE Engine
Vol == INSTANCE Volumes

CONSTANTS
  Histories,      \* histories of a well
  ReservoirRows,  \* rows of a commingled well
  Forms,          \* fields with hints, and the columns of a table
  Sources,        \* saved mappings and the tables of a source
  TableRows,      \* rows of a mapped table
  Timelines,      \* steps, breaks and the least length of a window
  Flows,          \* oil, water and gas of a producer, with the properties of the fluids
  Stretches,      \* the steps a producer is on
  Tabulated,      \* rows of an entity, the dates of the table, entities and wells
  RateSeries,     \* oil and water of a producer, and the steps it is on
  Gauges,         \* dates of the grid, pressure sources and measurements of producers
  Fields,         \* injectors and producers with distances and blocks
  Runs            \* histories, the events table and the limits of a run

(***************************************************************************)
(* What the code gives the rules that theorems are about.  A window is     *)
(* split into sectors when it has wells of both kinds (engine.py, 185-188).*)
(***************************************************************************)
ASSUME FieldsAssumption ==
  \A f \in Fields :
    /\ f.ni \in Nat \ {0} /\ f.np \in Nat \ {0}
    /\ f.dist \in [(1 .. f.ni) \X (1 .. f.np) -> Nat]
    /\ f.located \in BOOLEAN

\* A history has a step, events fall inside it, and limits are not negative.
ASSUME TimelinesAssumption ==
  /\ \A in \in Timelines :
       /\ in.n \in Nat \ {0} /\ in.breaks \in SUBSET (1 .. in.n - 1)
       /\ in.least \in Nat /\ in.percent \in Nat
  /\ \A s \in Stretches : s \in Seq(BOOLEAN)

\* The wells of a run have histories of one length; each of its windows has a badge.
ASSUME RunsAssumption ==
  \A f \in Runs :
    LET n == Eng!Steps(f)
    IN  /\ n \in Nat \ {0}
        /\ \A w \in DOMAIN f.history : DOMAIN f.history[w] = 1 .. n
        /\ f.table \in {"none", "complete", "no note"}
        /\ f.breaks \in SUBSET Nat
        /\ f.minWindow \in Nat /\ f.minSteps \in Nat
        /\ f.badge \in [1 .. n -> {"HIGH", "MEDIUM", "LOW"}]

DataInit ==
  \/ Asked("well", Histories)
  \/ Asked("reservoirs", ReservoirRows)
  \/ Asked("mapping", Forms)
  \/ Asked("project", Sources)
  \/ Asked("rows", TableRows)
  \/ Asked("windows", Timelines)
  \/ Asked("grid", Tabulated)
  \/ Asked("units", Vol!Tags \X Vol!Tags)
  \/ Asked("volumes", Flows)
  \/ Asked("shut in", Stretches)
  \/ Asked("clean", RateSeries)
  \/ Asked("pressure", Gauges)
  \/ Asked("sectors", Fields)
  \/ Asked("run", Runs)

-----------------------------------------------------------------------------
TypeWell ==
  /\ Open("well")
  /\ Answer([ type |-> WT!TypeOf(input),
              first |-> WT!FirstRole(input),
              conversions |-> WT!Conversions(input),
              split |-> WT!SplitRoles(input) ])

SplitReservoirs ==
  /\ Open("reservoirs")
  /\ Answer([ volume |-> WT!SplitVolume(input),
              whole |-> WT!Denominator(input) ])

MapColumns ==
  /\ Open("mapping")
  /\ Answer(L!SuggestMapping(input.fields, input.columns))

LoadProject ==
  /\ Open("project")
  /\ LET tables == L!ReadSource(input.override, input.tables)
     IN  Answer([ load |-> L!LoadProject(input.saved, input.hints, input.own,
                                         tables),
                  snapshot |-> L!SnapshotTables(input.saved, tables),
                  tables |-> Range(tables) ])

ApplyMapping ==
  /\ Open("rows")
  /\ Answer([ rows |-> L!LoadedRows(input.rows, input.canonical,
                                    input.aliases, input.factor),
              unreadable |-> L!UnreadableDates(input.rows) ])

CutWindows ==
  /\ Open("windows")
  /\ Answer([ windows |-> Prep!BuildWindows(input.n, input.breaks, input.least),
              train |-> Prep!TrainSteps(input.n, input.percent, input.least) ])

BuildGrid ==
  /\ Open("grid")
  /\ Answer([ steps |-> Prep!EntitySteps(input.rows, input.dates),
              placed |-> Prep!Coordinates(DOMAIN input.woe, input.woe,
                                          input.located) ])

ConvertUnits ==
  /\ Open("units")
  /\ Answer([ there |-> Vol!Convert(input[1], input[2]),
              back |-> Vol!Convert(input[2], input[1]) ])

ReservoirVolumes ==
  /\ Open("volumes")
  /\ LET out == Vol!ReservoirProduction(input.oil, input.water, input.gas, input.pvt)
     IN  Answer([ free |-> out.free, volume |-> out.volume,
                  log |-> Vol!VolumeConditions(input.pvt, out.free) ])

FindShutIns ==
  /\ Open("shut in")
  /\ Answer(Prep!LongShutIns(input, 2))

CleanRates ==
  /\ Open("clean")
  /\ Answer(Prep!CleanProducer(input.oil, input.water, input.on, input.half,
                               input.k, input.rel))

FillPressure ==
  /\ Open("pressure")
  /\ LET source == [j \in DOMAIN input.wells |-> Prep!SourceOf(input.wells[j])]
     IN  Answer([ source |-> source,
                  field |-> Prep!Dominant(source),
                  log |-> Prep!PressureConditions(input),
                  series |-> Prep!PreparePressure(input) ])

SplitSectors ==
  /\ Open("sectors")
  /\ Answer(Sec!Sectorize(input))

RunEngine ==
  /\ Open("run")
  /\ Answer([ windows |-> Eng!Windows(input),
              runs |-> Eng!SectorRuns(input),
              latest |-> Eng!LatestRuns(input),
              confidence |-> Eng!Confidence(
                { input.badge[k] : k \in Eng!LatestRuns(input) }) ])

DataNext ==
  \/ TypeWell
  \/ SplitReservoirs
  \/ MapColumns
  \/ LoadProject
  \/ ApplyMapping
  \/ CutWindows
  \/ BuildGrid
  \/ ConvertUnits
  \/ ReservoirVolumes
  \/ FindShutIns
  \/ CleanRates
  \/ FillPressure
  \/ SplitSectors
  \/ RunEngine

DataSpec == DataInit /\ [][DataNext]_questionVars

-----------------------------------------------------------------------------
\* Steps that only produce or only inject, and those that do the other thing than
\* the one before.
Turns(h) ==
  { t \in WT!Pure(h) :
      LET earlier == WT!Before(WT!Pure(h), t)
      IN  earlier # {} /\ WT!Mode(h[WT!Latest(earlier)]) # WT!Mode(h[t]) }

Produced(rows) == FoldSet(LAMBDA r, sum : sum + r.prod, 0, rows)
Injected(rows) == FoldSet(LAMBDA r, sum : sum + r.inj, 0, rows)

(***************************************************************************)
(* A well is converted as often as its steps turn from producing to        *)
(* injecting or back, and at no step that does both other than the first   *)
(* of the new role; the entities it is split into carry all its volumes    *)
(* (welltype.py, 91-179).  The reservoirs of a commingled well carry all   *)
(* of it, unless one is listed twice or the shares are zero (205-250).     *)
(***************************************************************************)
RolesExplained ==
  /\ Answered("well") =>
       /\ Cardinality(result.conversions) = Cardinality(Turns(input))
       /\ \A c \in result.conversions :
            \E t \in Turns(input) :
              /\ c <= t
              /\ WT!Pure(input) \cap (c .. t - 1) = {}
       /\ result.conversions # {} => result.type = "MIXED"
       /\ Produced(result.split.P) = Produced(WT!AllRows(input))
       /\ Injected(result.split.I) = Injected(WT!AllRows(input))
  /\ Answered("reservoirs") =>
       /\ result.volume <= result.whole
       /\ (/\ Cardinality(WT!Reservoirs(input)) = Len(input)
           /\ WT!SharesGiven(input) => WT!TotalShare(input) # 0)
            => result.volume = result.whole

MappedBefore(k) == { result[j] : j \in 1 .. k - 1 }

(***************************************************************************)
(* No column is suggested for two fields; a field is left without one only *)
(* where no free column has one of its hints, and one whose hint is the    *)
(* name of a column gets such a column unless an earlier field took it     *)
(* (mapping.py, 48-71).  A dataset whose mapping was saved is loaded from  *)
(* that table or not at all, and what is loaded without being in the       *)
(* snapshot was never mapped (connectors.py, 78-128; service.py, 362-392). *)
(* Rows that are dropped without a report are those without a date.        *)
(***************************************************************************)
LoadSound ==
  /\ Answered("mapping") =>
       \A k \in DOMAIN result :
         LET hints == Range(input.fields[k])
             columns == Range(input.columns)
         IN  /\ result[k] # L!Nothing => result[k] \notin MappedBefore(k)
             /\ result[k] = L!Nothing =>
                  \A c \in columns \ Range(result) :
                    \A h \in hints : ~ (h \subseteq c)
             /\ (hints \cap columns) \ MappedBefore(k) # {} => result[k] \in hints
  /\ Answered("project") =>
       LET datasets == result.load.datasets
           loaded == { d \in DOMAIN datasets : datasets[d] # L!Nothing }
       IN  /\ result.load.ok <=> "rates" \in loaded
           /\ \A d \in loaded : datasets[d] \in result.tables
           /\ \A d \in loaded : input.saved[d] # L!Nothing =>
                datasets[d] = input.saved[d]
           /\ \A d \in loaded :
                datasets[d] \notin result.snapshot => input.saved[d] = L!Nothing
  /\ Answered("rows") =>
       /\ Len(result.rows) + result.unreadable
            + Cardinality({ k \in DOMAIN input.rows : input.rows[k].date = "null" })
              = Len(input.rows)
       /\ \A r \in Range(result.rows) : L!Reads(r.date)
       /\ \A k \in DOMAIN result.rows :
            \/ result.rows[k].well \in Range(input.canonical)
            \/ \E a \in input.aliases : result.rows[k].well = a.value

ShortPieceAt(b, n, breaks, least) ==
  \E p \in Range(Prep!Pieces(n, breaks)) :
    b \in {p[1], p[2]} /\ Prep!Length(p) < least

(***************************************************************************)
(* The windows follow one another from the first step to the last, none is *)
(* shorter than the minimum unless it is the only one, and an event is not *)
(* cut at only where a piece beside it is too short (events.py, 50-81).    *)
(* Two steps are always left to train on, and as many are held out as the  *)
(* minimum asks for where there are enough (split.py, 25-33).  A producer  *)
(* that is off for long is reported for every step of it, unless it was    *)
(* never on before or is not on again (events.py, 84-108).                 *)
(***************************************************************************)
WindowsUsable ==
  /\ Answered("shut in") =>
       LET off(a, b) == \A t \in a .. b : ~input[t]
           ends(t) == off(1, t) \/ off(t, Len(input))
       IN  \A t \in DOMAIN input :
             (\E w \in result : w[1] < t /\ t <= w[2])
               <=> /\ ~ends(t)
                   /\ \E s \in {t - 1, t} : s \in 1 .. Len(input) - 1 /\ off(s, s + 1)
  /\ Answered("windows") =>
    LET w == result.windows
        blind == input.n - result.train
    IN  /\ w[1][1] = 0 /\ w[Len(w)][2] = input.n
        /\ \A k \in 1 .. Len(w) - 1 : w[k][2] = w[k + 1][1]
        /\ Len(w) > 1 => \A k \in DOMAIN w : Prep!Length(w[k]) >= input.least
        /\ \A b \in input.breaks :
             \/ \E k \in DOMAIN w : w[k][1] = b
             \/ ShortPieceAt(b, input.n, input.breaks, input.least)
        /\ result.train >= Prep!Smaller(2, input.n)
        /\ input.n >= input.least + 2 => blind >= input.least
        /\ 100 * blind > input.n * input.percent + 50 => blind <= input.least

(***************************************************************************)
(* A pressure that is used is there at every step; on a grid dated the     *)
(* first of the month it has the changes that were measured, at every      *)
(* measured step that cannot be a spike of a pump, unless the mixture      *)
(* between intake and perforation changes, and then the heavier mixture    *)
(* adds more below the pump.  Without depths it stays between the values   *)
(* measured in the window around, and wellhead pressure is never shifted.  *)
(* A pressure that is not used is zero, and one that was measured on the   *)
(* grid by the well's source is then reported.  On a grid dated otherwise  *)
(* measurements are lost without a report (pressure_prep.py, 63-213).      *)
(***************************************************************************)
PressureSound(q, out, j) ==
  LET w == q.wells[j]
      source == out.source[j]
      own == Prep!OnGrid(IF source = "whp" THEN w.whp ELSE w.bhp, q.dates)
      there == Prep!Present(own)
      used == out.series # <<>> /\ Prep!Dynamic(q, w)
      series == out.series[j]
      beside(t) == { u \in there : Prep!Abs(u - t) = 1 }
      held == { t \in there : \/ source # "esp" \/ beside(t) = {}
                              \/ \E u \in beside(t) : own[u] = own[t] }
      rise(t) == series[t] - Prep!PressureScale * own[t]
  IN  /\ used =>
           /\ out.field \in {"gauge", "esp", "whp"}
           /\ \A t \in DOMAIN own : series[t] # Prep!Missing
           /\ \A t \in DOMAIN own \ there : \E u \in there : series[t] = series[u]
           /\ \A s, t \in held :
                /\ source # "esp" \/ w.intake = Prep!NoDepth \/ q.cut[s] = q.cut[t]
                     => rise(s) = rise(t)
                /\ w.intake # Prep!NoDepth /\ w.tvd > w.intake
                     /\ q.cut[s] <= q.cut[t] => rise(s) <= rise(t)
                /\ w.tvd = Prep!NoDepth \/ source = "whp" => rise(t) = 0
           /\ source = "esp" /\ Prep!IntakeKnown(w) /\ w.tvd > w.intake
                /\ ~Prep!DatumKnown(q, w) => \A t \in held : rise(t) > 0
           /\ w.tvd = Prep!NoDepth =>
                \A t \in there :
                  LET near == { Prep!PressureScale * own[u] : u \in
                                  { v \in there : Prep!Abs(v - t) <= q.half } }
                  IN  Prep!Least(near) <= series[t] /\ series[t] <= Prep!Greatest(near)
      /\ ~used =>
           /\ out.series = <<>> \/ \A t \in DOMAIN own : series[t] = 0
           /\ there # {} => \E c \in out.log : c.well = j

(***************************************************************************)
(* The grid has the rows' volumes, unless an entity has two rows with one  *)
(* date, of which the later stands; a step with a rate is one on which the *)
(* well was on; and one well without coordinates takes those of all away   *)
(* (grid.py, 148-229).  Cleaning changes a rate only where the producer is *)
(* on and no usable neighbour has the same rate - so that a change of      *)
(* level that lasts is kept -, to a value between those around it, and     *)
(* keeps the water cut (clean.py, 17-88).  Pressures are those measured,   *)
(* as PressureSound says.  More gas is never less volume;                  *)
(* gas is counted where the oil cannot hold it, not at a step without oil, *)
(* and it is reported when it is.  What is converted comes back, where it  *)
(* can be converted back: a gas rate in m3/d is taken for a liquid's       *)
(* (units.py, 75-180).                                                     *)
(***************************************************************************)
GridSound ==
  /\ Answered("grid") =>
       LET steps == result.steps
           given == { k \in DOMAIN input.rows : input.rows[k].rate # Prep!Missing }
           volume == FoldSet(LAMBDA k, sum : sum + input.rows[k].rate, 0, given)
           gridded == FoldSet(LAMBDA t, sum : sum + steps[t].rate, 0, DOMAIN steps)
           twice == \E k, l \in given : k < l /\ input.rows[k].date = input.rows[l].date
       IN  /\ gridded <= volume /\ (~twice => gridded = volume)
           /\ \A t \in DOMAIN steps : steps[t].rate > 0 => steps[t].days > 0
           /\ result.placed \in {{}, DOMAIN input.woe}
           /\ \A e \in result.placed : input.woe[e] \in input.located
  /\ Answered("clean") =>
       LET liq == Prep!Liquid(input.oil, input.water)
           changed == { t \in DOMAIN liq : result.liq2[t] # 2 * liq[t] }
           beside(t) == { u \in Prep!Usable(liq, input.on) : Prep!Abs(u - t) = 1 }
           around(t) == Range(Prep!Around(liq, input.on, input.half, t))
       IN  \A t \in DOMAIN liq :
             /\ t \in changed =>
                  /\ t \in Prep!Usable(liq, input.on)
                  /\ \A u \in beside(t) : liq[u] # liq[t]
                  /\ \E x \in around(t) : result.liq2[t] >= 2 * x
                  /\ \E x \in around(t) : result.liq2[t] <= 2 * x
             /\ input.oil[t] >= 0 /\ input.water[t] >= 0 =>
                  result.oil2[t] + result.water2[t]
                    = result.liq2[t] * result.scale[t]
  /\ Answered("pressure") =>
       \A j \in DOMAIN input.wells : PressureSound(input, result, j)
  /\ Answered("volumes") =>
       LET in == input
           solution(t) == Vol!AtNoPressure(in.pvt).rs * in.oil[t]
           extra(t) == result.volume[t] - in.oil[t] * Vol!AtNoPressure(in.pvt).bo
                         - in.water[t] * in.pvt.bw
       IN  /\ \A t \in DOMAIN in.oil :
                /\ extra(t) >= 0
                /\ extra(t) > 0 => result.free[t]
                /\ result.free[t] => in.oil[t] > 0 /\ in.gas[t] > solution(t)
                /\ result.free[t] => "GOR_ABOVE_RS" \in result.log
                /\ (/\ in.gas[t] >= 2 * solution(t) /\ in.gas[t] > 0
                    /\ in.oil[t] > 0 /\ Vol!GasPvtKnown(in.pvt))
                     => result.free[t]
           /\ \A t, u \in DOMAIN in.oil :
                (/\ in.oil[t] = in.oil[u] /\ in.water[t] = in.water[u]
                 /\ in.gas[t] <= in.gas[u])
                  => result.volume[t] <= result.volume[u]
  /\ Answered("units") =>
       LET shared == \E a, b \in DOMAIN Vol!Units :
                       a # b /\ "m3/d" \in DOMAIN Vol!Units[a].factor \cap
                                           DOMAIN Vol!Units[b].factor
       IN  /\ result.there # Vol!Refused /\ result.back # Vol!Refused =>
                result.there[1] * result.back[1] = result.there[2] * result.back[2]
           /\ result.there # Vol!Refused /\ result.back = Vol!Refused =>
                shared /\ input[2] = "m3/d"
           /\ input \in { <<"m3/d", "bbl/d">>, <<"m3", "bbl">>,
                         <<"Mscf/d", "m3/d">>, <<"psi", "kPa">> } =>
                result.there[1] > result.there[2]

(***************************************************************************)
(* A well is in one sector at most, a well that has an edge in exactly     *)
(* one; every sector can be fitted; where all wells have a block, the      *)
(* wells of a sector that have edges are of one block.  A well is dropped  *)
(* only when it has no edge and its nearest counterpart is in no sector    *)
(* either, which the comment at sectors.py, 78 does not expect (55-103).   *)
(***************************************************************************)
SectorsPartition ==
  Answered("sectors") =>
    LET wells == Sec!Wells(input.ni, input.np)
        kept == UNION result
        joined(c) == { w \in c : ~Sec!Isolated(input, w) }
    IN  /\ \A c, d \in result : c # d => c \cap d = {}
        /\ \A w \in wells \ kept : Sec!Isolated(input, w) /\ input.located
        /\ \A i \in 1 .. input.ni :
             Sec!Inj(i) \notin kept =>
               Sec!Isolated(input, Sec!Prod(Sec!NearestProd(input, i)))
        /\ \A j \in 1 .. input.np :
             Sec!Prod(j) \notin kept =>
               Sec!Inj(Sec!NearestInj(input, j)) \notin kept
        /\ \A c \in result : { w[1] : w \in c } = {"I", "P"}
        /\ (\A w \in wells : input.block[w] # Sec!NoBlock) =>
             \A c \in result : \A v, w \in joined(c) :
               input.block[v] = input.block[w]

(***************************************************************************)
(* No window goes on over the conversion of a well, unless a piece beside  *)
(* it is too short to stand alone - or the events table lacks the optional *)
(* column note, for then the conversions are dropped (engine.py, 159-172). *)
(* The runs the forecast starts from are those of the last window that is  *)
(* long enough for the gate, and they alone make the confidence, which is  *)
(* LOW without any (88-97, 192-203).                                       *)
(***************************************************************************)
ConversionsCut ==
  Answered("run") =>
    LET n == Eng!Steps(input)
        events == IF input.table = "none" THEN {} ELSE input.breaks
        breaks == { t - 1 : t \in events \cup Eng!ConversionSteps(input) }
                    \cap (1 .. n - 1)
        latest == result.latest
    IN  /\ input.table # "no note" =>
             \A w \in DOMAIN input.history :
               \A t \in WT!Conversions(input.history[w]) :
                 \/ \E k \in DOMAIN result.windows :
                      result.windows[k][1] = t - 1
                 \/ ShortPieceAt(t - 1, n, breaks, input.minWindow)
        /\ \A k \in latest : \A j \in DOMAIN result.windows :
             j > k => Prep!Length(result.windows[j]) < input.minSteps
        /\ result.confidence = "LOW" \/ \E k \in latest :
             /\ result.confidence = input.badge[k]
             /\ \A j \in latest : input.badge[j] # "LOW"
        /\ latest = {} => result.confidence = "LOW"
        /\ latest = {} =>
             \/ \A k \in DOMAIN result.windows :
                  Prep!Length(result.windows[k]) < input.minSteps
             \/ Eng!Entities(input, "P") = {}
             \/ Eng!Entities(input, "I") = {}
=============================================================================
