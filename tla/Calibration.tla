------------------------------- MODULE Calibration -------------------------------
(***************************************************************************)
(* From the fits of the producers to the ensemble that forecasts: the      *)
(* assembly of field members, the joint refinement when an injector's      *)
(* water is allocated more than once (fit_field of models/solver.py), the  *)
(* members that are kept (select_members of models/uq.py), whether a       *)
(* variant is plausible (models/verify.py), and the blend with the last    *)
(* rolling window (models/rolling.py, optimize/run.py).                    *)
(*                                                                         *)
(* The minimizers are external: a producer's fit is known by the solutions *)
(* they return, each with f (injector -> allocation, in tenths) and sse.   *)
(* A member is a solution for every producer; params are f, an injector's  *)
(* allocations by producer, in units of 1 / Whole.                         *)
(***************************************************************************)
EXTENDS Integers, Sequences, FiniteSets, SequencesExt

Whole == 10         \* joint_refine_if_sum_f_exceeds, and all of an injector's water
MaxMembers == 12

LeastOf(S) == CHOOSE x \in S : \A y \in S : x <= y
MoreOf(a, b) == IF a < b THEN b ELSE a
Sum(s) == FoldLeft(LAMBDA total, x : total + x, 0, s)

-----------------------------------------------------------------------------
\* fit_producer: the solutions by their error; without a producing month to train
\* on there is one that allocates nothing.
FitProducer(d) ==
  IF d.trains THEN SortSeq(d.found, LAMBDA a, b : a.sse < b.sse)
  ELSE << [f |-> [i \in DOMAIN d.found[1].f |-> 0], sse |-> 0] >>

\* The k-th solution of every producer, the last one of those that have fewer.
MemberOf(jobs, k) ==
  LET at(j) == jobs[j][LeastOf({k, Len(jobs[j])})]
  IN  [ f |-> [i \in DOMAIN jobs[1][1].f |-> [j \in DOMAIN jobs |-> at(j).f[i]]],
        sse |-> Sum([j \in DOMAIN jobs |-> at(j).sse]) ]

Members(jobs) ==
  [k \in 1 .. -LeastOf({ -Len(jobs[j]) : j \in DOMAIN jobs }) |-> MemberOf(jobs, k)]

Bounded(member) == \A i \in DOMAIN member.f : Sum(member.f[i]) <= Whole

\* Mutant: the refined winner leads all members, not only the bounded ones.
FitFieldUnfiltered(jobs, refined) ==
  LET members == Members(jobs)
  IN  IF Bounded(members[1])
      THEN [params |-> members[1], members |-> members, refined |-> FALSE]
      ELSE [params |-> refined, members |-> <<refined>> \o members, refined |-> TRUE]

\* fit_field; refined: what the joint refinement returns.
FitField(jobs, refined) ==
  LET members == Members(jobs)
  IN  IF Bounded(members[1])
      THEN [params |-> members[1], members |-> members, refined |-> FALSE]
      ELSE [params |-> refined,
            members |-> <<refined>> \o SelectSeq(members, Bounded), refined |-> TRUE]

\* select_members: those whose error is within percent of the least.
SelectMembers(fit, percent) ==
  LET best == LeastOf({ m.sse : m \in Range(fit.members) })
  IN  SelectSeq(fit.members, LAMBDA m : 100 * m.sse <= best * (100 + percent))

\* What verify asks of the winner; the members are not asked.
Plausible(fit, predictsNegative) ==
  /\ \A i \in DOMAIN fit.params.f : \A j \in DOMAIN fit.params.f[i] :
       fit.params.f[i][j] \in 0 .. Whole
  /\ Bounded(fit.params)
  /\ ~predictsNegative

-----------------------------------------------------------------------------
\* fit_rolling: the weights of the last window and of the full history, by their
\* blind scores.
BlendWeights(last, full) ==
  IF MoreOf(last, 0) + MoreOf(full, 0) = 0 THEN <<1, 1>>
  ELSE <<MoreOf(last, 0), MoreOf(full, 0)>>

\* The allocations of a member, blended; in units of 1 / Whole of the weights' sum.
Blended(member, last, weights) ==
  [i \in DOMAIN member.f |-> [j \in DOMAIN member.f[i] |->
     weights[1] * last[i][j] + weights[2] * member.f[i][j]]]

\* forecast_models, for the variant that won: the members that forecast, and what
\* their allocations are counted in.
ForecastMembers(fit, percent, roll) ==
  LET kept == SelectMembers(fit, percent)
      members == SubSeq(kept, 1, LeastOf({MaxMembers, Len(kept)}))
      weights == IF roll.done THEN BlendWeights(roll.score, roll.full) ELSE <<0, 1>>
  IN  [n \in DOMAIN members |->
         [ f |-> Blended(members[n], roll.f, weights),
           unit |-> Whole * (weights[1] + weights[2]),
           sse |-> members[n].sse ]]
=============================================================================
