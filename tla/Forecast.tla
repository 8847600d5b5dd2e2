-------------------------------- MODULE Forecast --------------------------------
(***************************************************************************)
(* The capacitance model of a sector, as it is run over the history        *)
(* (predict_field of models/solver.py) and as a forecast continues it      *)
(* (models/forecast.py): the start of a producer, the water of a closed    *)
(* producer that goes to the open ones, the state that is frozen while a   *)
(* producer is closed, and the primary rate that decays from its start.    *)
(*                                                                         *)
(* Injectors are 1 .. ni, producers 1 .. np, steps 1 .. m.  The time       *)
(* constants are such that a state loses half of itself in a step; Scale   *)
(* is a multiple of every power of two that occurs, so that halves are     *)
(* whole, and of the sixths in which the redistribution is counted.        *)
(*                                                                         *)
(* A model g has f (injector, producer -> allocation), q0 (producer ->     *)
(* rate), shutIn (whether closed producers are treated), cap, inj (step -> *)
(* injector -> rate) and open (step -> producer -> whether it produces).   *)
(***************************************************************************)
EXTENDS Integers, Sequences, FiniteSets, SequencesExt

Scale == 3072

Half(n) == n \div 2
LowerOf(a, b) == IF a < b THEN a ELSE b
SumOver(S, F(_)) == FoldSet(LAMBDA x, sum : sum + F(x), 0, S)

Injectors(g) == { e[1] : e \in DOMAIN g.f }
Producers(g) == { e[2] : e \in DOMAIN g.f }

\* producer_start: the first producing step, past the end when there is none.
StartOf(g, j) ==
  LET on == { n \in DOMAIN g.open : g.open[n][j] }
  IN  IF on = {} THEN Len(g.open) + 1
      ELSE CHOOSE n \in on : \A k \in on : n <= k

\* shut_in_redistribution, in sixths: what an injector's rate is multiplied by.
Multiplier(g, open, i) ==
  LET all == SumOver(Producers(g), LAMBDA j : g.f[<<i, j>>])
      there == SumOver({ j \in Producers(g) : open[j] }, LAMBDA j : g.f[<<i, j>>])
  IN  IF there = 0 THEN 6 ELSE LowerOf((6 * all) \div there, 6 * g.cap)

\* The water that reaches a producer, in sixths.
Support(g, rates, open, j) ==
  SumOver(Injectors(g),
    LAMBDA i : g.f[<<i, j>>] * rates[i]
                 * (IF g.shutIn THEN Multiplier(g, open, i) ELSE 6))

\* crmp_forward after its first step: a closed producer keeps its state.
Forward(g, x, rates, open, j) ==
  IF g.shutIn /\ ~open[j] THEN x
  ELSE Half(x + (Scale \div 6) * Support(g, rates, open, j))

\* The state of a producer after every step; nothing before it has started.
States(g, j) ==
  LET x[n \in 0 .. Len(g.inj)] ==
        IF n <= StartOf(g, j) THEN 0
        ELSE Forward(g, x[n - 1], g.inj[n], g.open[n], j)
  IN  x

\* The primary rate so many steps after the start.
Primary(g, j, steps) == (g.q0[j] * Scale) \div 2 ^ steps

\* predict_field.
Predicted(g, j) ==
  [n \in DOMAIN g.inj |->
     IF n < StartOf(g, j) \/ (g.shutIn /\ ~g.open[n][j]) THEN 0
     ELSE Primary(g, j, n - StartOf(g, j)) + States(g, j)[n]]

-----------------------------------------------------------------------------
\* active_producers: a producing step among the last few.
ActiveAtEnd(g, lookback) ==
  [j \in Producers(g) |->
     \E n \in DOMAIN g.open : n > Len(g.open) - lookback /\ g.open[n][j]]

\* idle_injectors.
IdleAtEnd(g, lookback) ==
  { i \in Injectors(g) :
      \A n \in DOMAIN g.inj : n > Len(g.inj) - lookback => g.inj[n][i] = 0 }

\* Mutant: the state before the first producing step is kept.
HistoryStateFromStart(g, j) ==
  LET x[n \in 0 .. Len(g.inj)] ==
        IF n <= 1 THEN 0
        ELSE Forward(g, x[n - 1], g.inj[n], g.open[n], j)
  IN  x[Len(g.inj)]

\* _history_state, over all producers at once: a step is masked by the producers
\* that are open, then by those that have started.
HistoryState(g, j) ==
  LET x[n \in 0 .. Len(g.inj)] ==
        IF n > StartOf(g, j)
        THEN LET new == Half(x[n - 1] + (Scale \div 6)
                               * Support(g, g.inj[n], g.open[n], j))
             IN  IF g.shutIn /\ ~g.open[n][j] THEN x[n - 1] ELSE new
        ELSE 0
  IN  x[Len(g.inj)]

\* _continue: the producers that are closed stay closed.
Continue(g, plan, active, j) ==
  LET x[n \in 0 .. Len(plan)] ==
        IF n = 0 THEN HistoryState(g, j)
        ELSE IF active[j]
             THEN Half(x[n - 1] + (Scale \div 6) * Support(g, plan[n], active, j))
             ELSE x[n - 1]
  IN  x

\* The liquid of a plan, closed producers giving none (_finish).
ForecastLiquid(g, plan, active, j) ==
  [n \in DOMAIN plan |->
     IF active[j]
     THEN Primary(g, j, Len(g.inj) + n - StartOf(g, j))
            + Continue(g, plan, active, j)[n]
     ELSE 0]

\* The history with the plan as if it had been lived.
Extended(g, plan, active) ==
  [g EXCEPT !.inj = @ \o plan, !.open = @ \o [n \in DOMAIN plan |-> active]]
=============================================================================
