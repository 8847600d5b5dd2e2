--------------------------------- MODULE Engine ---------------------------------
(***************************************************************************)
(* run_engine (engine.py): the wells' roles, the history windows, the      *)
(* entities active in each, the sectors that are fitted, and the sector    *)
(* runs that the forecast and the optimizer start from.                    *)
(*                                                                         *)
(* A field f has history (well -> steps with prod and inj, all of one      *)
(* length), table (the columns of its events table: "none", "complete", or *)
(* "no note" for one without the optional column), breaks (the steps the   *)
(* table's events fall on), minWindow, minActive and minSteps.             *)
(* A fit gives a badge, or fails to have a winner; it is input.            *)
(***************************************************************************)
EXTENDS Integers, Sequences, FiniteSets

W == INSTANCE WellTypes
P == INSTANCE Preparation

NoConfidence == "LOW"

Steps(f) == LET w == CHOOSE w \in DOMAIN f.history : TRUE
            IN  Len(f.history[w])

\* conversion_events: the steps at which some well takes the other role.
ConversionSteps(f) ==
  UNION { W!Conversions(f.history[w]) : w \in DOMAIN f.history }

\* Mutant: a table that is there stands for the events.
EventStepsOfTable(f) ==
  IF f.table = "none" THEN ConversionSteps(f) ELSE f.breaks

\* The events the windows are cut at: conversions join the table's events if it
\* has their columns.
EventSteps(f) ==
  CASE f.table = "none" -> ConversionSteps(f)
    [] f.table = "complete" -> f.breaks \cup ConversionSteps(f)
    [] f.table = "no note" -> f.breaks

\* build_windows; step k of the grid is dated k.
Windows(f) ==
  LET n == Steps(f)
      dates == [k \in 1 .. n |-> k]
  IN  P!BuildWindows(n, P!Breaks(dates, EventSteps(f)), f.minWindow)

\* An entity is a well in a role.
Entities(f, role) ==
  { w \in DOMAIN f.history :
      W!TypeOf(f.history[w]) \in
        {"MIXED", IF role = "P" THEN "PROD" ELSE "INJ"} }

\* Steps of a window on which an entity has a rate.
ActiveSteps(f, w, role, window) ==
  Cardinality({ t \in window[1] + 1 .. window[2] :
                  (IF role = "P" THEN f.history[w][t].prod
                                 ELSE f.history[w][t].inj) > 0 })

ActiveWells(f, role, window) ==
  LET all == Entities(f, role)
  IN  P!ActiveEntities(all,
        [w \in all |-> ActiveSteps(f, w, role, window)], f.minActive)

\* The windows with both kinds of wells.
Fitted(f) ==
  LET windows == Windows(f)
  IN  { k \in DOMAIN windows : /\ ActiveWells(f, "I", windows[k]) # {}
                               /\ ActiveWells(f, "P", windows[k]) # {} }

\* _fit_sector: a window that is too short for the gate gives no run.
SectorRuns(f) ==
  LET windows == Windows(f)
  IN  { k \in Fitted(f) : windows[k][2] - windows[k][1] >= f.minSteps }

\* RunResult.latest: the runs of the last window that has one.
LatestRuns(f) ==
  { k \in SectorRuns(f) : \A j \in SectorRuns(f) : j <= k }

Rank == [HIGH |-> 2, MEDIUM |-> 1, LOW |-> 0]

\* RunResult.confidence: the lowest badge of the latest sectors.
Confidence(badges) ==
  IF badges = {} THEN NoConfidence
  ELSE CHOOSE b \in badges : \A c \in badges : Rank[b] <= Rank[c]
=============================================================================
