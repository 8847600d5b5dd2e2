------------------------------ MODULE Verification ------------------------------
(***************************************************************************)
(* The verification of a fit (models/verify.py) and the spread of its      *)
(* ensemble (models/uq.py).  obs, pred: liquid by producer and step; on:   *)
(* the producing steps; the first train steps are trained on.              *)
(*                                                                         *)
(* A ratio is a pair <<a, b>>, in whole numbers; an error in per cent is   *)
(* in units of 1 / 12, whole for observations that divide 12.              *)
(***************************************************************************)
EXTENDS Integers, Sequences, FiniteSets, SequencesExt

NaN == <<>>

Sigma(S, F(_)) == FoldSet(LAMBDA x, sum : sum + F(x), 0, S)
Size(n) == IF n < 0 THEN -n ELSE n
Square(n) == n * n

TrainMask(on, train) == { t \in DOMAIN on : on[t] /\ t <= train }

BlindMask(on, train) == { t \in DOMAIN on : on[t] /\ t > train }

\* r2, less than 1 by <<a, b>>: errors over the deviations from the mean, of two
\* points that differ at least.
R2Lack(obs, pred, mask) ==
  LET n == Cardinality(mask)
      total == n * Sigma(mask, LAMBDA t : Square(obs[t]))
                 - Square(Sigma(mask, LAMBDA t : obs[t]))
  IN  IF n < 2 \/ total <= 0 THEN NaN
      ELSE <<n * Sigma(mask, LAMBDA t : Square(obs[t] - pred[t])), total>>

\* mape: the mean error, of the points with production.
Mape(obs, pred, mask) ==
  LET ok == { t \in mask : obs[t] > 0 }
  IN  IF ok = {} THEN NaN
      ELSE <<Sigma(ok, LAMBDA t : (1200 * Size(pred[t] - obs[t])) \div obs[t]),
             Cardinality(ok)>>

\* lag1_autocorr, of four points at least; a point follows the last one before it
\* that is in the mask.
Lag1(resid, mask) ==
  LET n == Cardinality(mask)
      sum == Sigma(mask, LAMBDA t : resid[t])
      r(t) == n * resid[t] - sum
      earlier(t) == { u \in mask : u < t }
      last(t) == CHOOSE u \in earlier(t) : \A v \in earlier(t) : v <= u
      moved == { t \in mask : earlier(t) # {} }
      total == Sigma(mask, LAMBDA t : Square(r(t)))
  IN  IF n < 4 \/ total <= 0 THEN <<0, 1>>
      ELSE <<Sigma(moved, LAMBDA t : r(t) * r(last(t))), total>>

\* The metrics of one producer, and what they warn of.
ProducerMetrics(obs, pred, on, train) ==
  LET blind == BlindMask(on, train)
      trained == TrainMask(on, train)
  IN  [ train |-> R2Lack(obs, pred, trained),
        blind |-> R2Lack(obs, pred, blind),
        mape |-> Mape(obs, pred, blind),
        lag1 |-> Lag1([t \in DOMAIN obs |-> obs[t] - pred[t]], trained),
        points |-> Cardinality(blind) ]

\* Flagged when the error is above 15 % and the r2 below 0.5, both known.
IsPoor(m) ==
  /\ m.mape # NaN /\ m.mape[1] > 180 * m.mape[2]
  /\ m.blind # NaN /\ 2 * m.blind[1] > m.blind[2]

IsAutocorrelated(m) == 2 * m.lag1[1] > m.lag1[2]

\* Whether the parameters can be, f and its sums in hundredths; tau at a bound is
\* noted and does not make the fit implausible.
IsPlausible(f, pred, on) ==
  /\ \A p \in DOMAIN f : 0 <= f[p] /\ f[p] <= 100
  /\ \A i \in { p[1] : p \in DOMAIN f } :
       Sigma({ p \in DOMAIN f : p[1] = i }, LAMBDA p : f[p]) <= 100
  /\ \A j \in DOMAIN pred : \A t \in DOMAIN pred[j] : on[j][t] => pred[j][t] >= 0

AtBound(tau, bounds) == { j \in DOMAIN tau : tau[j] <= bounds[1] \/ tau[j] >= bounds[2] }

\* The series of all producers as one.
Pooled(x) == [p \in { <<j, t>> : j \in DOMAIN x, t \in DOMAIN x[1] } |-> x[p[1]][p[2]]]

PooledBlind(q) ==
  UNION { { <<j, t>> : t \in BlindMask(q.on[j], q.train) } : j \in DOMAIN q.obs }

\* verify, of the fit q; field is the r2 of all producers pooled.
Verify(q) ==
  LET per == [j \in DOMAIN q.obs |->
                ProducerMetrics(q.obs[j], q.pred[j], q.on[j], q.train)]
  IN  [ per |-> per,
        poor |-> { j \in DOMAIN per : IsPoor(per[j]) },
        correlated |-> { j \in DOMAIN per : IsAutocorrelated(per[j]) },
        bound |-> AtBound(q.tau, q.bounds),
        plausible |-> IsPlausible(q.f, q.pred, q.on),
        field |-> R2Lack(Pooled(q.obs), Pooled(q.pred), PooledBlind(q)),
        trainPoints |-> Sigma(DOMAIN per, LAMBDA j :
                                Cardinality(TrainMask(q.on[j], q.train))) ]

-----------------------------------------------------------------------------
(***************************************************************************)
(* parameter_spread, of an ensemble of one or two members: the deviation   *)
(* of the allocations over their mean, weighted by the mean.  Means and    *)
(* deviations are twice what they are.                                     *)
(***************************************************************************)
Mean2(members, p) == members[1][p] + members[Len(members)][p]
Deviation2(members, p) == Size(members[1][p] - members[Len(members)][p])

Spread(members) ==
  LET pairs == DOMAIN members[1]
      weight == Sigma(pairs, LAMBDA p : Square(Mean2(members, p)))
  IN  IF weight = 0 THEN <<0, 1>>
      ELSE <<Sigma(pairs, LAMBDA p : Deviation2(members, p) * Mean2(members, p)),
             weight>>

\* _pair_confidence, less than 1 by: the deviation over the mean of one pair, if it
\* is allocated anything.
PairDoubt(members, p) ==
  IF Mean2(members, p) > 0 THEN <<Deviation2(members, p), Mean2(members, p)>>
  ELSE <<0, 1>>
=============================================================================
