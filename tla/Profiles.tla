-------------------------------- MODULE Profiles --------------------------------
(***************************************************************************)
(* The profile of a sector's data in a window, from which the gates judge  *)
(* it (prep/gates.py; prep/events.py; engine.py).                          *)
(*                                                                         *)
(* g: the grid of the sector, every series a function of the step - liq,   *)
(* on and cut by producer, inj and injOn by injector -, dt, the days of a  *)
(* step, and whether it has coordinates and pressure.  Ratios are in       *)
(* hundredths, rounded to the side the gates do not tell apart.            *)
(***************************************************************************)
EXTENDS Integers, Sequences, FiniteSets, SequencesExt

NotGiven == -1000

Steps(g) == DOMAIN g.dt
Producers(g) == DOMAIN g.liq
Injectors(g) == DOMAIN g.inj

Add(S, F(_)) == FoldSet(LAMBDA x, sum : sum + F(x), 0, S)
Up(a, b) == (a + b - 1) \div b
HighestOf(S) == CHOOSE x \in S : \A y \in S : y <= x
LowestOf(S) == CHOOSE x \in S : \A y \in S : x <= y

\* The steps on which a producer produces; the points a fit can use.
ProdMask(g) == { p \in Producers(g) \X Steps(g) : g.on[p[1]][p[2]] }

\* n_params: of crmp and of crmip, which have another term with pressure.
NParams(ni, np, bhp) ==
  LET terms == IF bhp THEN 4 ELSE 3
  IN  [crmp |-> np * (ni + terms), crmip |-> terms * ni * np]

\* injection_cv: the deviation of an injector's rate over its mean, on the steps it
\* injects.
InjectionCv(g, i) ==
  LET at == { t \in Steps(g) : g.injOn[i][t] }
      n == Cardinality(at)
      sum == Add(at, LAMBDA t : g.inj[i][t])
      square == Add(at, LAMBDA t : g.inj[i][t] * g.inj[i][t])
      isAbove(c) == c * c * sum * sum <= 10000 * (n * square - sum * sum)
  IN  IF sum <= 0 THEN 0 ELSE HighestOf({ c \in 0 .. 100 : isAbove(c) })

\* _sum_f_apparent: what was produced over what was injected in the training steps;
\* no injection is more than any bound.
SumFApparent(g, train) ==
  LET produced == Add(Producers(g) \X (1 .. train),
                      LAMBDA p : g.liq[p[1]][p[2]] * g.dt[p[2]])
      injected == Add(Injectors(g) \X (1 .. train),
                      LAMBDA p : g.inj[p[1]][p[2]] * g.dt[p[2]])
  IN  IF injected > 0 THEN Up(100 * produced, injected) ELSE 1000000

\* tau over dt_mean; the first step is as long as the second by convention, and
\* counts only when it is alone.
TauOverDt(g, tau) ==
  LET n == Len(g.dt)
  IN  IF n > 1 THEN (100 * tau * (n - 1)) \div Add(2 .. n, LAMBDA t : g.dt[t])
      ELSE (100 * tau) \div g.dt[1]

\* flank_signature: twice the median of the others, and the producers above it.
Median2Of(S, F(_)) ==
  LET n == Cardinality(S)
      rank(x) == { y \in S : F(y) < F(x) }
      upTo(x) == { y \in S : F(y) <= F(x) }
      at(k) == F(CHOOSE x \in S : Cardinality(rank(x)) < k /\ k <= Cardinality(upTo(x)))
  IN  at((n + 1) \div 2) + at(n \div 2 + 1)

FlankSignature(sums) ==
  { w \in DOMAIN sums :
      LET med2 == Median2Of(DOMAIN sums \ {w}, LAMBDA x : sums[x])
      IN  /\ Cardinality(DOMAIN sums) >= 3
          /\ sums[w] > 115
          /\ med2 > 0 /\ 20 * sums[w] > 13 * med2 }

\* events_per_well and lift_events_per_producer: all events over all wells, or the
\* events of the lift over the producers, counted in the whole history.
EventRate(events, producers, wells) ==
  LET lift == { k \in DOMAIN events : events[k].type = "LIFT"
                                      /\ events[k].well \in producers }
  IN  HighestOf({ (100 * Len(events)) \div Cardinality(wells),
                  (100 * Cardinality(lift)) \div Cardinality(producers) })

\* profile: tau is the quick estimate, sums those of the quick fit.
Profile(g, train, rate, tau, maxInj, relperm) ==
  LET ni == Cardinality(Injectors(g))
      np == Cardinality(Producers(g))
      n == Len(g.dt)
      points == Cardinality(ProdMask(g))
      params == NParams(ni, np, g.bhp)
  IN  [ steps |-> n,
        od |-> Up(100 * n, ni + 1),
        crmp |-> (100 * points) \div params.crmp,
        crmip |-> (100 * points) \div params.crmip,
        cv |-> LowestOf({ InjectionCv(g, i) : i \in Injectors(g) }),
        tau |-> IF tau = NotGiven THEN tau ELSE TauOverDt(g, tau),
        support |-> SumFApparent(g, train),
        maxInj |-> maxInj,
        events |-> rate,
        cut |-> IF points = 0 THEN 0
                ELSE Add(ProdMask(g), LAMBDA p : g.cut[p[1]][p[2]]) \div points,
        xy |-> g.xy, bhp |-> g.bhp, relperm |-> relperm ]
=============================================================================
