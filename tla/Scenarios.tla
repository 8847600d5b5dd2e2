-------------------------------- MODULE Scenarios --------------------------------
(***************************************************************************)
(* ScenarioManager (optimize/scenarios.py): what if the water went         *)
(* elsewhere, if there was more or less of it, if an injector was shut in, *)
(* drilled or made of a producer, or the patterns were balanced - each     *)
(* against hold-current on the same ensemble -, and the tornado of a plan  *)
(* (sensitivity.py, economics.py).                                         *)
(*                                                                         *)
(* A manager s has current (rates), idle, members, posture, located        *)
(* (whether there are coordinates), shape (producer -> what the coupling   *)
(* of a new well is proportional to), liquid (producer -> of the last      *)
(* months), and of the requests budgets, vrr, patterns and found, what the *)
(* solver returns.  A member has own (producer -> oil without injection),  *)
(* f (injector -> producer -> allocation) and level (producer -> factor of *)
(* its forecast).  The oil recorded is in units of 1 / Unit.               *)
(***************************************************************************)
EXTENDS Integers, Sequences, FiniteSets, SequencesExt

LOCAL Pl == INSTANCE Planning
LOCAL P == INSTANCE Preparation

Unit == 12

\* A member without level anchors forecasts what it was fitted to.
NoLevel(m) == [m EXCEPT !.level = [j \in DOMAIN m.own |-> 1]]

\* The oil of a plan, by one member.
Oil(m, x) ==
  Pl!Total([j \in DOMAIN m.own |->
    m.level[j] * (m.own[j] + Pl!Total([k \in DOMAIN x |-> m.f[k][j] * x[k]]))])

Oils(members, x) == [n \in DOMAIN members |-> Oil(members[n], x)]

Row(m, k) == Pl!Total(m.f[k])

\* new_injector_prior, scaled_prior: a row shaped by the distances and as large as
\* the median of the fitted ones; with one row more there is twice a median.
PriorRow(m, shape) ==
  LET total == Pl!Total(shape)
      rows2 == P!Median2([k \in DOMAIN m.f |-> Row(m, k)])
  IN  [j \in DOMAIN shape |->
         IF total = 0 THEN Unit * shape[j]
         ELSE ((Unit \div 2) * rows2 * shape[j]) \div total]

InUnits(m) ==
  [m EXCEPT !.own = [j \in DOMAIN @ |-> Unit * @[j]],
            !.f = [k \in DOMAIN @ |-> [j \in DOMAIN @[k] |-> Unit * @[k][j]]]]

\* The members with one injector more: rebuilt without the anchors of the level.
WithInjector(m, shape) ==
  NoLevel([InUnits(m) EXCEPT !.f = Append(@, PriorRow(m, shape))])

Without(s, j) == RemoveAt(s, j)

\* The member without a producer, as conversion_prior and the new grid have it.
WithoutProducer(m, j) ==
  [ own |-> Without(m.own, j),
    f |-> [k \in DOMAIN m.f |-> Without(m.f[k], j)],
    level |-> Without(m.level, j) ]

-----------------------------------------------------------------------------
\* What a scenario is recorded as: the rates, and the oil by member.
Scenario(kind, rates, oil) == [kind |-> kind, rates |-> rates, oil |-> oil]

HeldCurrent(s) ==
  Scenario("base", s.current,
           Oils([n \in DOMAIN s.members |-> InUnits(s.members[n])], s.current))

\* The problem of a scenario that optimizes, when the objective is the oil.
Problem(s) ==
  [ current |-> s.current, idle |-> s.idle,
    multiple |-> 2, posture |-> s.posture,
    own |-> [n \in DOMAIN s.members |-> Oil(s.members[n], [k \in DOMAIN s.current |-> 0])],
    gain |-> [n \in DOMAIN s.members |->
                [k \in DOMAIN s.current |->
                   LET m == s.members[n]
                   IN  Pl!Total([j \in DOMAIN m.own |-> m.level[j] * m.f[k][j]])]],
    water |-> Pl!Total(s.current), sameWater |-> TRUE,
    limit |-> [most |-> 0, weight |-> [k \in DOMAIN s.current |-> 0]],
    objective |-> "oil", target |-> 0,
    economics |-> [price |-> 1, handling |-> 0, injection |-> 0],
    produced |-> [ own |-> [n \in DOMAIN s.members |-> 0],
                   gain |-> [n \in DOMAIN s.members |->
                               [k \in DOMAIN s.current |-> 0]] ] ]

Optimized(s, kind, percent) ==
  LET x == Pl!BestPlan(Pl!AtBudget(Problem(s), percent), s.found)
  IN  Scenario(kind, x, Oils([n \in DOMAIN s.members |-> InUnits(s.members[n])], x))

ShutIn(s, k) ==
  LET x == [s.current EXCEPT ![k] = 0]
  IN  Scenario("shut_in", x, Oils([n \in DOMAIN s.members |-> InUnits(s.members[n])], x))

NewWell(s, rate) ==
  LET x == Append(s.current, rate)
  IN  Scenario("new_well", x,
        Oils([n \in DOMAIN s.members |-> WithInjector(s.members[n], s.shape)], x))

Conversion(s, j, rate) ==
  LET x == Append(s.current, rate)
  IN  Scenario("conversion", x,
        Oils([n \in DOMAIN s.members |->
                WithInjector(WithoutProducer(s.members[n], j),
                             Without(s.shape, j))], x))

\* Mutant: the liquid of the sector for that of the pattern.
VrrTargetField(s, pattern) == s.vrr * Pl!Total(s.liquid)

\* A pattern is a set of injectors and one of producers.
VrrTarget(s, pattern) ==
  s.vrr * Pl!Total([j \in DOMAIN s.liquid |->
                      IF j \in pattern.producers THEN s.liquid[j] ELSE 0])

InjectedBy(x, pattern) ==
  Pl!Total([k \in DOMAIN x |-> IF k \in pattern.injectors THEN x[k] ELSE 0])

\* A pattern without injection, or without wells of both kinds, stays.
Balance(s, x, pattern) ==
  IF pattern.injectors = {} \/ pattern.producers = {} \/ InjectedBy(x, pattern) = 0
  THEN x
  ELSE [k \in DOMAIN x |->
          IF k \in pattern.injectors
          THEN (x[k] * VrrTarget(s, pattern)) \div InjectedBy(x, pattern)
          ELSE x[k]]

PatternBalancing(s) ==
  LET whole == [injectors |-> DOMAIN s.current, producers |-> DOMAIN s.liquid]
      x == FoldLeft(LAMBDA y, p : Balance(s, y, p), s.current,
                    IF s.patterns = <<>> THEN <<whole>> ELSE s.patterns)
  IN  Scenario("pattern_balancing", x,
        Oils([n \in DOMAIN s.members |-> InUnits(s.members[n])], x))

\* What a request records, after the base.
Recorded(s, request) ==
  CASE request.kind = "base" -> <<>>
    [] request.kind = "reallocation" -> << Optimized(s, "reallocation", 100) >>
    [] request.kind = "water_budget" ->
         [n \in DOMAIN s.budgets |-> Optimized(s, "water_budget", s.budgets[n])]
    [] request.kind = "shut_in" -> << ShutIn(s, request.well) >>
    [] request.kind = "new_well" ->
         IF s.located THEN << NewWell(s, request.rate) >> ELSE <<>>
    [] request.kind = "conversion" ->
         IF s.located THEN << Conversion(s, request.well, request.rate) >> ELSE <<>>
    [] request.kind = "pattern_balancing" -> << PatternBalancing(s) >>

\* Every request first records the base, unless it is there.
Request(s, scenarios, request) ==
  (IF \E n \in DOMAIN scenarios : scenarios[n].kind = "base" THEN scenarios
   ELSE Append(scenarios, HeldCurrent(s))) \o Recorded(s, request)

Manage(s, requests) ==
  FoldLeft(LAMBDA done, r : Request(s, done, r), <<>>, requests)

ScenarioValue(s, scenario) == Pl!Statistic(scenario.oil, s.posture)

-----------------------------------------------------------------------------
(***************************************************************************)
(* The tornado.  Economics e: price, deck (prices of the first months, the *)
(* last one going on), water and injection (costs), worth (month -> what a *)
(* unit of money is worth then).  A forecast is month -> oil, water, inj.  *)
(***************************************************************************)
Prices(e, n) ==
  [t \in 1 .. n |-> CASE e.deck = <<>> -> e.price
                      [] e.deck # <<>> /\ t <= Len(e.deck) -> e.deck[t]
                      [] OTHER -> e.deck[Len(e.deck)]]

Npv(e, forecast) ==
  Pl!Total([t \in DOMAIN forecast |->
    e.worth[t] * (Prices(e, Len(forecast))[t] * forecast[t].oil
                    - e.water * forecast[t].water - e.injection * forecast[t].inj)])

WithPrice(e, price) == [e EXCEPT !.price = price, !.deck = <<>>]

\* The gain of a plan over hold-current, by members of the same number.
Gain(e, plan, base, posture) ==
  Pl!Statistic([n \in DOMAIN plan |-> Npv(e, plan[n])], posture)
    - Pl!Statistic([n \in DOMAIN base |-> Npv(e, base[n])], posture)

\* Economics are in tenths, so that the multiples are whole; costs are halved for
\* the high end.  low, high: what money is worth at the other discount rates.
TornadoItems(e, low, high, plan, base, posture) ==
  LET at(x) == Gain(x, plan, base, posture)
  IN  [ price |-> << at(WithPrice(e, (e.price * 7) \div 10)),
                     at(WithPrice(e, (e.price * 13) \div 10)) >>,
        water |-> << at([e EXCEPT !.water = (@ * 15) \div 10]),
                     at([e EXCEPT !.water = (@ * 5) \div 10]) >>,
        injection |-> << at([e EXCEPT !.injection = (@ * 15) \div 10]),
                         at([e EXCEPT !.injection = (@ * 5) \div 10]) >>,
        discount |-> << at([e EXCEPT !.worth = low]),
                        at([e EXCEPT !.worth = high]) >> ]

EconomicTornado(e, low, high, plan, base, posture) ==
  [ base |-> Gain(e, plan, base, posture),
    items |-> TornadoItems(e, low, high, plan, base, posture) ]
=============================================================================
