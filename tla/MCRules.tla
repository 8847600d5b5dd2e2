---------------------------------- MODULE MCRules ----------------------------------
(***************************************************************************)
(* The rules and the small stateful parts for TLC, as a sum: kind says     *)
(* which part a behaviour is about, the others stay as they begin.         *)
(***************************************************************************)
EXTENDS DataRules, ModelRules, PlanRules, SettingsRules, ReportRules, Sessions,
        Webhooks, Database, Archives, RecLifecycle, TLC

CONSTANTS ann, bob, cy     \* users


MCSteps == { [prod |-> p, inj |-> i] : p, i \in {0, 2} }
MCHistories == UNION { [1 .. n -> MCSteps] : n \in 1 .. 5 }

MCReservoirRows ==
  UNION { [1 .. n -> [reservoir : {"null", "A", "B"}, share : {-1, 0, 1, 2}]] :
            n \in 1 .. 3 }

MCNames == { {"a"}, {"b"}, {"a", "b"} }
MCHints == UNION { [1 .. n -> MCNames] : n \in 1 .. 2 }
MCForms ==
  { [fields |-> f, columns |-> c] :
      f \in [1 .. 2 -> MCHints],
      c \in UNION { { s \in [1 .. n -> MCNames] : IsInjective(s) } : n \in 1 .. 3 } }

MCTables == UNION { { s \in [1 .. n -> MCNames] : IsInjective(s) } : n \in 1 .. 2 }
MCDatasets == {"rates", "pressure"}
MCSources ==
  { [saved |-> s, hints |-> ("rates" :> << {"a"} >> @@ "pressure" :> << {"b"}, {"a"} >>),
     own |-> ("rates" :> {"b"} @@ "pressure" :> {"c"}),
     tables |-> t, override |-> o] :
      s \in [MCDatasets -> MCNames \cup { {} }], t \in MCTables, o \in BOOLEAN }

MCTableRows ==
  { [rows |-> r, canonical |-> [n \in {"W-1", "w1", "w2"} |-> IF n = "w2" THEN "W2" ELSE "W1"],
     aliases |-> a, factor |-> 2] :
      r \in UNION { [1 .. n -> [well : {"W-1", "w2"}, date : {"d1", "unreadable", "null"}, value : {-1, 0, 3}]] : n \in 0 .. 2 },
      a \in { {}, {[key |-> "w1", value |-> "w 9"]} } }

MCTimelines ==
  UNION { { [n |-> n, breaks |-> b, least |-> l, percent |-> p] :
      b \in SUBSET (1 .. n - 1), l \in 1 .. 4, p \in {20, 50} } : n \in 1 .. 9 }

MCCells == [date : {1, 31, 59}, rate : {-1000, 0, 4}, days : {-1000, 0, 20}]
MCTabulated ==
  { [rows |-> r, dates |-> d, woe |-> ("P1" :> "w1" @@ "I1" :> "w2"), located |-> l] :
      r \in { s \in UNION { [1 .. n -> MCCells] : n \in 0 .. 2 } : \A k \in DOMAIN s : s[k].date < 59 \/ k = 2 },
      d \in { <<1, 31, 59>> }, l \in { {"w1"}, {"w1", "w2"} } }
  \cup { [rows |-> <<[date |-> 1, rate |-> 4, days |-> -1000]>>, dates |-> <<1>>, woe |-> ("P1" :> "w1"), located |-> {}] }

MCFluid(bo, rs, bg) == [bo |-> bo, rs |-> rs, bg |-> bg]
MCFluids ==
  { [table |-> t, constants |-> MCFluid(100, r, g), bw |-> 101] :
      t \in { <<>>, << MCFluid(120, 2, 3) >>, << MCFluid(120, 2, 3), MCFluid(130, 4, 1) >> },
      r \in {0, 2}, g \in {0, 3} }
MCFlows ==
  { [oil |-> o, water |-> <<1, 1>>, gas |-> g, pvt |-> f] :
      o \in [1 .. 2 -> {0, 10, 20}], g \in [1 .. 2 -> {0, 20, 21, 22, 50}], f \in MCFluids }
MCStretches == UNION { [1 .. n -> BOOLEAN] : n \in 2 .. 7 }

MCRateSeries ==
  { [oil |-> o, water |-> w, on |-> [t \in 1 .. 5 |-> t \notin f], half |-> h, k |-> 44478, rel |-> 50] :
      o \in [1 .. 5 -> {1, 2, 9}], w \in { [t \in 1 .. 5 |-> 0], [t \in 1 .. 5 |-> IF t = 3 THEN -1 ELSE t] },
      f \in { {}, {1}, {2}, {4} }, h \in {1, 2} }

\* Measurements of some months, of which the fifth is not on the grid.
MCMeasured(values, months) ==
  { { [month |-> m, value |-> f[m]] : m \in DOMAIN f } :
      f \in UNION { [S -> values] : S \in SUBSET months } }
MCSteady(months) == { [month |-> m, value |-> <<20, 22, 90, 21, 23>>[m]] : m \in months }
MCGauge(k, b, h, i, d) == [kind |-> k, bhp |-> b, whp |-> h, intake |-> i, tvd |-> d]
MCDepths(d) == {Prep!NoDepth, d}
MCPumps == { MCGauge("esp", b, {}, i, d) : b \in MCMeasured({20, 22, 90}, 1 .. 4),
               i \in MCDepths(3), d \in {Prep!NoDepth, 2, 5} }
MCDownhole == { MCGauge(k, MCSteady(m), h, i, d) : k \in {"gauge", "none", "static"},
                  m \in SUBSET {1, 3, 4, 5}, h \in {{}, MCSteady({2})},
                  i \in MCDepths(3), d \in MCDepths(5) }
MCWellhead == { MCGauge(k, b, h, 3, 5) : k \in {"whp", "none"}, b \in {{}, MCSteady({2})},
                  h \in MCMeasured({20, 22, 90}, 1 .. 4) }
MCOne == { MCGauge("gauge", MCSteady({2, 4}), {}, Prep!NoDepth, 5),
           MCGauge("none", {}, {}, Prep!NoDepth, 5) }
MCGauges ==
  { [ dates |-> [t \in 1 .. 4 |-> [month |-> t, day |-> IF t = late THEN 15 ELSE 1]],
      wells |-> <<w, o>>, cut |-> <<0, 50, 50, 20>>, datum |-> d, water |-> 2, oil |-> 1,
      toDatum |-> 2, varies |-> 15, half |-> 2, k |-> 74130 ] :
      late \in {0, 2}, w \in MCPumps \cup MCDownhole \cup MCWellhead, o \in MCOne,
      d \in MCDepths(6) }

MCBlocks(ni, np) == [Sec!Wells(ni, np) -> {"none", "X", "Y"}]
MCFieldsOf(ni, np) ==
  { [ni |-> ni, np |-> np, dist |-> d, located |-> l, block |-> b, above |-> a, factor |-> 15] :
      d \in [(1 .. ni) \X (1 .. np) -> {1, 2, 6}], l \in BOOLEAN, b \in MCBlocks(ni, np), a \in {0, 9} }
MCFields == MCFieldsOf(1, 2) \cup MCFieldsOf(2, 1) \cup
  { [ni |-> 2, np |-> 2, dist |-> d, located |-> l, block |-> b, above |-> 0, factor |-> 15] :
      d \in [(1 .. 2) \X (1 .. 2) -> {1, 6}], l \in {TRUE},
      b \in { g \in [Sec!Wells(2, 2) -> {"none", "X", "Y"}] : g[Sec!Inj(1)] \in {"none", "X"} } }

MCRunSteps == { [prod |-> 2, inj |-> 0], [prod |-> 0, inj |-> 2], [prod |-> 0, inj |-> 0] }
MCRuns ==
  { [history |-> ("w1" :> h @@ "w2" :> g), table |-> t, breaks |-> b, minWindow |-> m, minActive |-> 1, minSteps |-> 2,
     badge |-> <<"HIGH", "MEDIUM", "LOW", "MEDIUM", "HIGH">>] :
      h \in [1 .. 5 -> MCRunSteps], g \in { [k \in 1 .. 5 |-> [prod |-> 2, inj |-> 0]],
               [k \in 1 .. 5 |-> [prod |-> 0, inj |-> IF k < 3 THEN 2 ELSE 0]] },
      t \in {"none", "complete", "no note"}, b \in { {}, {3}, {2, 4} }, m \in {1, 2} }

-----------------------------------------------------------------------------
MCSolution(f, e) == [f |-> f, sse |-> e]
MCFound == { << MCSolution(<<4, 6>>, a), MCSolution(<<7, 5>>, b), MCSolution(<<0, 3>>, 12) >> :
               a, b \in {9, 11, 20} } \cup { << MCSolution(<<8, 1>>, 10) >> }
MCFoundToo == { << MCSolution(<<4, 6>>, a), MCSolution(<<7, 5>>, 11) >> : a \in {9, 20} }
                \cup { << MCSolution(<<8, 1>>, 10) >> }
MCFitted ==
  { [ jobs |-> << [trains |-> t, found |-> a], [trains |-> TRUE, found |-> b] >>,
      refined |-> [f |-> r, sse |-> e], percent |-> p, negative |-> n,
      roll |-> [done |-> d, f |-> l, score |-> x, full |-> 8] ] :
      t, n, d \in BOOLEAN, a \in MCFound, b \in MCFoundToo, r \in { <<<<5, 5>>, <<2, 3>>>>, <<<<6, 5>>, <<2, 3>>>> },
      e \in {18, 40}, p \in {5, 30}, x \in {-2, 6},
      l \in { <<<<4, 4>>, <<3, 3>>>>, <<<<9, 4>>, <<3, 3>>>> } }
MCGrid(n, b, on, rates) ==
  [ liq |-> [j \in {"P1", "P2"} |-> [t \in 1 .. n |-> IF t \in on THEN 6 ELSE 0]],
    on |-> [j \in {"P1", "P2"} |-> [t \in 1 .. n |-> j = "P2" \/ t \in on]],
    cut |-> [j \in {"P1", "P2"} |-> [t \in 1 .. n |-> 40 + t]],
    inj |-> ("I1" :> [t \in 1 .. n |-> rates[1 + (t % 2)]]),
    injOn |-> ("I1" :> [t \in 1 .. n |-> rates[1 + (t % 2)] > 0]),
    dt |-> [t \in 1 .. n |-> 30], xy |-> TRUE, bhp |-> b ]
MCEvents ==
  { [k \in 1 .. n |-> [well |-> w, type |-> t]] :
      n \in {0, 7, 8, 12}, w \in {"P1", "I1"}, t \in {"LIFT", "WORKOVER"} }
MCSums == UNION { [S -> {0, 100, 120, 200}] : S \in { {"P1", "P2"}, {"P1", "P2", "P3"}, {"P1", "P2", "P3", "P4"} } }
MCSite(g, e, s, tau) ==
  [ grid |-> g, train |-> 4, events |-> e, producers |-> {"P1", "P2"},
    wells |-> {"P1", "P2", "I1"}, tau |-> tau, maxInj |-> 100, sums |-> s ]
MCSites ==
  { MCSite(MCGrid(n, b, on, r), e, [p \in {"P1", "P2"} |-> 100], 100) :
      n \in {5, 16, 20}, b \in BOOLEAN, on \in {1 .. 20, 9 .. 20, 3 .. 6},
      r \in { <<4, 4>>, <<0, 4>>, <<3, 4>>, <<2, 6>>, <<0, 0>> }, e \in MCEvents }
  \cup { MCSite(MCGrid(5, FALSE, 1 .. 5, <<2, 6>>), <<>>, s, Pf!NotGiven) : s \in MCSums }

MCOn == { [t \in 1 .. 6 |-> t \notin f] : f \in { {}, {2}, {5}, {5, 6} } }
MCTrials ==
  { [ obs |-> <<o, <<12, 6, 12, 6, 4, 6>>>>, pred |-> <<p, q>>, on |-> <<s, [t \in 1 .. 6 |-> TRUE]>>,
      train |-> 4, tau |-> <<30, 400>>, bounds |-> b,
      f |-> (<<1, 1>> :> a @@ <<1, 2>> :> 40) ] :
      o \in { <<2, 3, 2, 3, 2, 3>>, <<1, 2, 3, 4, 4, 4>>, <<6, 4, 3, 2, 1, 0>> },
      p \in [1 .. 6 -> {-1, 3}], q \in { <<12, 6, 12, 6, 4, 6>>, <<6, 6, 6, 6, 6, 6>>, <<9, 9, 9, 9, 0, 12>> },
      s \in MCOn, b \in { <<30, 500>> }, a \in {50, 70} }
MCAllocated == [{1, 2, 3} -> {0, 20, 60}]
MCTwoMembers == { <<a>> : a \in MCAllocated } \cup { <<a, b>> : a, b \in MCAllocated }

MCProfile ==
  [ steps |-> 60, od |-> 900, crmp |-> 500, crmip |-> 250, cv |-> 20,
    tau |-> Sel!NotKnown, support |-> 100, maxInj |-> 100, events |-> 0,
    cut |-> 80, xy |-> TRUE, bhp |-> TRUE, relperm |-> FALSE ]
MCProfiles ==
  { MCProfile,
    [MCProfile EXCEPT !.steps = 10, !.crmip = 100],
    [MCProfile EXCEPT !.cv = 10, !.cut = 30, !.relperm = TRUE],
    [MCProfile EXCEPT !.steps = 5, !.crmp = 50] }
MCFit(ok, r2, spread, plausible, params, warnings) ==
  [ ok |-> ok, r2 |-> r2, mape |-> 10, aicc |-> params, spread |-> spread,
    plausible |-> plausible, runtime |-> params, params |-> params,
    warnings |-> warnings ]
MCFits(n) ==
  { MCFit(TRUE, 90, 10, TRUE, n, 0), MCFit(TRUE, 90, 10, FALSE, n, 0),
    MCFit(TRUE, 87, 12, TRUE, n, 1), MCFit(TRUE, 75, 35, TRUE, n, 0),
    MCFit(TRUE, Sel!NotKnown, 20, FALSE, n, 1), MCFit(FALSE, 90, 10, TRUE, n, 0) }
MCContests ==
  { [ profile |-> p, requested |-> r,
      fit |-> [v \in {"crmt", "crmp", "crmip", "twophase"} |->
                 CASE v = "crmt" -> a [] v = "crmp" -> b [] OTHER -> c] ] :
      p \in MCProfiles, a \in MCFits(2), b \in MCFits(5), c \in MCFits(9),
      r \in { {"crmp"}, {"crmt", "crmp"}, {"crmt", "crmp", "crmip", "twophase"} } }

MCRefits ==
  { [ n |-> n, breaks |-> b, length |-> 4, step |-> s, least |-> l, mode |-> m,
      winner |-> w, wells |-> 5, maxWells |-> 4 ] :
      n \in 4 .. 9, b \in { {}, {3}, {2, 6} }, s \in {1, 3}, l \in {2, 4},
      m \in {"always", "auto", "never"}, w \in {"crmp", "pinn"} }
MCAllocations ==
  { [series |-> s, spread |-> p, persist |-> 2] :
      s \in UNION { [1 .. n -> {1, 20, 24, 26}] : n \in 2 .. 5 }, p \in {10, 50} }

MCOpen == { [n \in 1 .. 3 |-> [j \in 1 .. 2 |-> o[n][j]]] :
              o \in [1 .. 3 -> [1 .. 2 -> BOOLEAN]] }
MCRatesOf(a, b) == [i \in 1 .. 2 |-> IF i = 1 THEN a ELSE b]
MCPlans ==
  { [ model |-> [ f |-> (<<1, 1>> :> f[1] @@ <<1, 2>> :> f[2] @@ <<2, 1>> :> 0 @@ <<2, 2>> :> 1),
                  q0 |-> <<2, 1>>, shutIn |-> s, cap |-> 3, inj |-> h, open |-> o ],
      plan |-> p, lookback |-> k ] :
      f \in { <<1, 1>>, <<3, 1>>, <<0, 0>> }, s \in BOOLEAN, o \in MCOpen, k \in {1, 2},
      h \in { << MCRatesOf(1, 2), MCRatesOf(0, 1), MCRatesOf(2, 0) >>,
              << MCRatesOf(0, 1), MCRatesOf(1, 0), MCRatesOf(1, 0) >> },
      p \in { << MCRatesOf(1, 1), MCRatesOf(2, 0) >>, << MCRatesOf(0, 0), MCRatesOf(0, 3) >> } }

MCPoints == { <<3, 3>>, <<-1, 7>>, <<5, 0>>, <<6, 2>>, <<2, 4>> }
MCGains == { <<<<1, 3>>, <<3, 1>>>>, <<<<1, 2>>, <<1, 3>>>>, <<<<3, 1>>, <<2, 2>>>> }
MCProblems ==
  { [ problem |-> [ current |-> c, idle |-> <<c[1] = 0, FALSE>>, multiple |-> 2, own |-> <<0, 1>>, gain |-> g,
                    produced |-> [own |-> <<1, 0>>, gain |-> <<<<1, 4>>, <<0, 3>>>>],
                    economics |-> [price |-> 3, handling |-> 1, injection |-> 1],
                    posture |-> p, water |-> 0, sameWater |-> s, objective |-> o,
                    limit |-> [most |-> l, weight |-> <<0, 1>>], target |-> t ],
      budget |-> b, winner |-> w, found |-> f, confidence |-> k ] :
      c \in { <<2, 4>>, <<0, 4>> }, g \in MCGains, p \in {"aggressive", "balanced", "robust"},
      s \in BOOLEAN, l \in {3, 9}, o \in {"oil", "npv", "min_water"}, t \in {9}, b \in {100, 150},
      w \in {"crmt", "crmp"}, k \in {"LOW", "HIGH"},
      f \in { <<x, y>> : x \in MCPoints, y \in { <<3, 3>>, <<5, 0>>, <<2, 9>> } } }

MCMember(own, f, level) == [own |-> own, f |-> f, level |-> level]
MCEnsembles ==
  { << MCMember(<<4, 2>>, <<<<1, 1>>, <<2, 0>>>>, a), MCMember(<<1, 3>>, <<g, <<0, 3>>>>, b) >> :
      a, b \in { <<1, 1>>, <<2, 1>> }, g \in { <<0, 0>>, <<2, 1>> } }
MCPatterns ==
  { <<>>, << [injectors |-> {1}, producers |-> {1}] >>,
    << [injectors |-> {1, 2}, producers |-> {1}], [injectors |-> {2}, producers |-> {2}] >>,
    << [injectors |-> {2}, producers |-> {}], [injectors |-> {1}, producers |-> {1, 2}] >> }
MCAsk(k, w, r) == [kind |-> k, well |-> w, rate |-> r]
MCRequests ==
  { <<MCAsk("base", 1, 0)>>, <<MCAsk("shut_in", 2, 0), MCAsk("reallocation", 1, 0)>>,
    <<MCAsk("new_well", 1, 3), MCAsk("conversion", 1, 2)>>, <<MCAsk("water_budget", 1, 0)>>,
    <<MCAsk("pattern_balancing", 1, 0)>>, <<MCAsk("conversion", 2, 4), MCAsk("shut_in", 1, 0)>> }
MCInquiries ==
  { [ manager |-> [ current |-> c, idle |-> [k \in 1 .. 2 |-> c[k] = 0], members |-> m, posture |-> p,
                    located |-> l, shape |-> h, liquid |-> <<3, 5>>, budgets |-> <<50, 100, 150>>,
                    vrr |-> v, patterns |-> t, found |-> << <<6, 0>>, <<1, 2>>, <<3, 6>> >> ],
      requests |-> r ] :
      c \in { <<2, 4>>, <<0, 6>> }, m \in MCEnsembles, p \in {"aggressive", "robust"}, l \in BOOLEAN,
      h \in { <<1, 1>>, <<2, 1>>, <<0, 1>> }, v \in {1, 2}, t \in MCPatterns, r \in MCRequests }
MCForecastOf(o, w, i) == [t \in 1 .. 2 |-> [oil |-> o * t, water |-> w, inj |-> i]]
MCEconomics ==
  { [ e |-> [price |-> 10 * p, deck |-> d, water |-> 20, injection |-> 10, worth |-> <<10, 9>>],
      low |-> <<10, 8>>, high |-> <<10, 10>>, posture |-> s,
      plan |-> << MCForecastOf(a, 2, 3), MCForecastOf(b, 1, 3) >>,
      base |-> << MCForecastOf(2, 1, 2), MCForecastOf(3, 1, 2) >> ] :
      p \in {1, 4}, d \in { <<>>, <<5>>, <<90, 70>> }, s \in {"aggressive", "balanced", "robust"}, a, b \in {1, 2, 4} }

MCMoves == { <<0, 50000>>, <<0, 900000>>, <<50000, 50500>>, <<50000, 61000>>,
             <<50000, 900000>>, <<900000, 61000>>, <<400000, 0>> }
MCRamps ==
  { [ r |-> [step |-> st, least |-> 5, meter |-> 10000],
      cur |-> <<a[1], b[1], c[1]>>, tgt |-> <<a[2], b[2], c[2]>>,
      marginal |-> m, gain |-> g, facility |-> f ] :
      st \in {8, 15}, a, b \in MCMoves, c \in { <<50000, 61000>>, <<900000, 400000>> },
      m \in { <<1, 2, 3>>, <<0, -1, 0>> }, g \in {-4, 7}, f \in { <<"A", "B", "A">>, <<"A", "A", "A">> } }
  \cup { [ r |-> [step |-> 1, least |-> 5, meter |-> 10000], cur |-> <<900000>>, tgt |-> <<0>>,
           marginal |-> <<1>>, gain |-> 1, facility |-> <<"A">> ] }

MCDay(y, m, d) == [y |-> y, m |-> m, d |-> d]
MCImplemented ==
  { [at |-> at, months |-> k] :
      at \in { d \in { MCDay(y, m, n) : y \in {2023, 2024}, m \in 1 .. 12, n \in {1, 28, 29, 30, 31} } : Sv!IsDate(d) },
      k \in Sv!EvaluationMonths }
MCMonths ==
  { [ band |-> b, changed |-> c, shifted |-> s, events |-> e, at |-> at, today |-> t,
      done |-> d, last |-> l ] :
      b \in [{"P1", "P2"} -> {"within", "outside", "unknown"}], c \in SUBSET {"P1", "P2"},
      s \in BOOLEAN, e \in { {}, {"P1"} }, at \in { Sv!Never, MCDay(2023, 11, 30), MCDay(2023, 8, 28) },
      t \in { MCDay(2024, 2, 27), MCDay(2024, 2, 29), MCDay(2024, 6, 1) }, d \in { {}, {3} },
      l \in { Sv!Never, MCDay(2023, 12, 1), MCDay(2024, 2, 1) } }
MCCutsOf == UNION { [S -> {0, 5, 20}] : S \in SUBSET {"P1", "P2"} }
MCCuts ==
  { [items |-> ("I1" :> a @@ "I2" :> b), now |-> n, atApproval |-> p, jump |-> 10] :
      a, b \in SUBSET {"P1", "P2"}, n, p \in MCCutsOf }
MCRecordSeqs ==
  UNION { [1 .. n -> { [badge |-> b, realised |-> r, p10 |-> 3, p90 |-> 6] :
             b \in {"HIGH", "LOW"}, r \in {2, 3, 7} }] : n \in {0, 2} }
MCRecords ==
  { [records |-> h \o t, floor |-> f] :
      h \in [1 .. 4 -> { [badge |-> "HIGH", realised |-> r, p10 |-> 3, p90 |-> 6] : r \in {2, 3, 7} }],
      t \in MCRecordSeqs, f \in {85, 98} }
  \cup { [records |-> [n \in 1 .. 10 |->
              [ badge |-> "HIGH", p10 |-> 3, p90 |-> 6,
                realised |-> IF n <= a THEN 4 ELSE IF n <= b THEN 7 ELSE 1 ]], floor |-> 85] :
            a \in {1, 7, 8}, b \in {8, 9} }

-----------------------------------------------------------------------------
MCPaths == { <<"a">>, <<"a", "x">>, <<"a", "y">>, <<"b">> }
MCLayer(level) ==
  { [p \in S |-> level] :
      S \in { T \in SUBSET MCPaths : \A p, q \in T : ~Under(p, q) } }
MCLayers ==
  { [ base |-> b, global |-> <<g, h>>, project |-> <<j>>, extra |-> e ] :
      b \in { c \in MCLayer(0) : <<"a", "x">> \in DOMAIN c },
      g \in MCLayer(1), h \in MCLayer(2), j \in MCLayer(3),
      e \in { c \in MCLayer(4) : <<"b">> \notin DOMAIN c } }

MCCondition(c, l, s) == [code |-> c, level |-> l, scope |-> s, context |-> 0]
MCSector(id, w, n, log, winner, found, oil, fails) ==
  [ id |-> id, window |-> w, steps |-> n, log |-> log, winner |-> winner,
    current |-> <<2, 4>>, found |-> found, oilBase |-> <<5, 7>>, oilPlan |-> oil,
    fails |-> fails, producers |-> IF id = "S1" THEN <<"P1", "P2">> ELSE <<"P3">>,
    cuts |-> IF id = "S1" THEN <<10, 20>> ELSE <<80>> ]
MCWarned == << MCCondition("OD_LOW", "warning", "S1") >>
MCOld == { MCSector("S1", 0, 5, <<>>, "crmp", <<3, 3>>, <<6, 8>>, FALSE),
           MCSector("S1", 0, 12, MCWarned, "crmp", <<3, 3>>, <<6, 8>>, FALSE),
           MCSector("S1", 0, 12, <<>>, "crmp", <<3, 3>>, <<6, 8>>, FALSE) }
MCNew == { MCSector("S1", 1, n, IF x THEN MCWarned ELSE <<>>, w, f, o, x) :
             n \in {7, 30, 42}, w \in {"crmt", "crmp"}, f \in { <<2, 4>>, <<5, 1>> },
             o \in { <<5, 7>>, <<9, 6>> }, x \in BOOLEAN }
MCBeside == { MCSector("S2", 1, 30, <<>>, "crmp", <<3, 4>>, <<6, 8>>, x) : x \in BOOLEAN }
MCPreparationLog == { <<>>, << MCCondition("OUTLIERS_REMOVED", "info", "field") >>,
                      MCWarned \o MCWarned }
MCReports ==
  { [ run |-> [ sectors |-> <<o, n, b>>, log |-> l, objective |-> t, price |-> 3,
                percent |-> c[1], least |-> 6 ],
      system |-> c[2], months |-> m[1], horizon |-> 6, entered |-> m[2] ] :
      o \in MCOld, n \in MCNew, b \in MCBeside, l \in MCPreparationLog,
      t \in {"oil", "npv", "min_water"}, c \in { <<20, "field">>, <<25, "metric">> },
      m \in { <<3, 12>>, <<6, 36>>, <<12, 60>> } }

-----------------------------------------------------------------------------
MCPrincipals ==
  { [user |-> ann, role |-> "engineer"],   [user |-> ann, role |-> "approver"],
    [user |-> bob, role |-> "reviewer"],   [user |-> bob, role |-> "approver"],
    [user |-> cy,  role |-> "operations"], [user |-> cy,  role |-> "viewer"] }

-----------------------------------------------------------------------------
PartsInit == SessionInit /\ WebhookInit /\ DatabaseInit /\ ArchivesInit /\ Init

Idle(part) ==
  /\ part # "webhooks" => inline = FALSE
  /\ part # "database" => postgres = FALSE
  /\ part # "archives" => onServer = FALSE
  /\ part # "lifecycle" => policy = "log"

MCInit ==
  /\ PartsInit
  /\ \/ (DataInit \/ ModelInit \/ PlanInit \/ SettingsInit \/ ReportInit) /\ Idle(kind)
     \/ \E part \in {"sessions", "webhooks", "database", "archives",
                    "lifecycle"} : NotAsked(part) /\ Idle(part)

Rules == DataNext \/ ModelNext \/ PlanNext \/ ReadSettings \/ ShowRun

partVars == <<sessionVars, webhookVars, databaseVars, archiveVars, vars>>

MCNext ==
  \/ /\ Rules
     /\ UNCHANGED partVars
  \/ /\ kind = "sessions"
     /\ SessionNext
     /\ UNCHANGED <<questionVars, webhookVars, databaseVars, archiveVars, vars>>
  \/ /\ kind = "webhooks"
     /\ WebhookNext
     /\ UNCHANGED <<questionVars, sessionVars, databaseVars, archiveVars, vars>>
  \/ /\ kind = "database"
     /\ DatabaseNext
     /\ UNCHANGED <<questionVars, sessionVars, webhookVars, archiveVars, vars>>
  \/ /\ kind = "archives"
     /\ ArchivesNext
     /\ UNCHANGED <<questionVars, sessionVars, webhookVars, databaseVars, vars>>
  \/ /\ kind = "lifecycle"
     /\ Next
     /\ UNCHANGED <<questionVars, sessionVars, webhookVars, databaseVars, archiveVars>>

MCSpec == MCInit /\ [][MCNext]_<<questionVars, partVars>>
=============================================================================
